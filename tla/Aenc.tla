-------------------------------- MODULE Aenc --------------------------------
(***************************************************************************)
(* The audio encoder streams, libmpi/src/aenc/ak_aenc.c: a thread that     *)
(* reads sound into a ring with one offset per type of encoding            *)
(* (read_pcm_thread), a thread that encodes what each group has not read   *)
(* and queues it (audio_encode_thread), and the users that ask for the     *)
(* stream of a group, take its entries and cancel.  The first request      *)
(* creates ring and threads, the last cancel joins the threads and frees   *)
(* the ring; no lock spans either, and where the two cross the program     *)
(* works on freed memory: `undefined'.  The ring's arithmetic is in        *)
(* AencRing.                                                               *)
(*                                                                         *)
(* upc is where a user is:                                                 *)
(*   out -> (wait ->) slot -> in -> using -> others -> (stop -> pcm -> enc *)
(*   ->) clean -> out                                                      *)
(* pcm_pc: sleep -> loop -> sleep; enc_pc: sleep -> look -> lock -> read   *)
(*   -> push -> read -> ... -> look -> sleep; none: there is no thread.    *)
(***************************************************************************)
EXTENDS Integers, Sequences, FiniteSets, SequencesExt, FiniteSetsExt, Picks

CONSTANTS AUser,      \* users of streams
          RingLen,    \* frames the ring holds
          MaxAge,     \* an entry is dropped when the newest is that much newer
          MaxAencUser,\* AENC_TYPE_MAX_USER
          MaxPcm,     \* bound: frames of sound in a run
          MaxRequest  \* bound: requests in a run

(* Who holds a mutex that no user holds.                                   *)
NoUser == "nobody"
Encoder == "encode"

ASSUME AencAssumption == /\ {NoUser, Encoder} \cap AUser = {}
                         /\ RingLen \in Nat \ {0} /\ MaxAge \in Nat \ {0}
                         /\ MaxAencUser \in Nat \ {0}

(* Two of the six types of encoding.                                       *)
AGroup == 1..2

VARIABLES run_flag, read_flag, ad_sem, enc_sem, encode_buf,
          pcm_rb,        \* the ring exists
          read_map,      \* the groups its writer waits for
          rb_locked,     \* its writer returned with data_mutex held
          unread,        \* the frames each group has still to read
          request_mutex, using_mutex,   \* who holds it, of a group
          req_ref, req_map,
          aenc_data,     \* queue of [frame, ref, map] of a group
          frame_data,    \* the buffer of a group, pcm_frame.data, is there
          undefined,     \* from here on C says nothing of the program
          pcm_pc, enc_pc, enc_grp, enc_entry,
          upc, ugroup, req_nr, got,
          pcm_frames, requests

aencFlags == <<run_flag, read_flag>>
aencSems == <<ad_sem, enc_sem>>
ringVars == <<pcm_rb, read_map, rb_locked, unread>>
bufferVars == <<encode_buf, frame_data, undefined>>
groupVars == <<req_ref, req_map, aenc_data>>
pcmVars == <<pcm_pc, pcm_frames>>
encVars == <<enc_pc, enc_grp, enc_entry>>
userVars == <<upc, ugroup, req_nr, got, requests>>
aencLocks == <<request_mutex, using_mutex>>
aencVars == <<aencFlags, aencSems, bufferVars, ringVars, groupVars, pcmVars, encVars,
              userVars, aencLocks>>

NoEntry == [frame |-> 0, ref |-> 0, map |-> {}]

AencInit == /\ run_flag = FALSE /\ read_flag = FALSE
            /\ ad_sem = 0 /\ enc_sem = 0
            /\ encode_buf = FALSE /\ frame_data = [g \in AGroup |-> FALSE]
            /\ undefined = FALSE
            /\ pcm_rb = FALSE /\ read_map = {} /\ rb_locked = FALSE
            /\ unread = [g \in AGroup |-> <<>>]
            /\ request_mutex = NoUser
            /\ using_mutex = [g \in AGroup |-> NoUser]
            /\ req_ref = [g \in AGroup |-> 0]
            /\ req_map = [g \in AGroup |-> {}]
            /\ aenc_data = [g \in AGroup |-> <<>>]
            /\ pcm_pc = "none" /\ pcm_frames = 0
            /\ enc_pc = "none" /\ enc_grp = 1 /\ enc_entry = NoEntry
            /\ upc = [u \in AUser |-> "out"]
            /\ ugroup = [u \in AUser |-> 1]
            /\ req_nr = [u \in AUser |-> 0]
            /\ got = [u \in AUser |-> <<>>]
            /\ requests = 0

Goes(u, to) == upc' = [upc EXCEPT ![u] = to]

(* A cancel that has left its group; no group has users.                   *)
Leaving == {"others", "stop", "pcm", "enc", "clean"}
Deserted == \A g \in AGroup : req_ref[g] = 0
(* A group's mutex is free: only the look for others holds it for longer   *)
(* than a step.                                                            *)
MutexFree(g) == \A u \in AUser : ~(upc[u] = "others" /\ ugroup[u] = g)

(* No lock spans a request or a cancel.  A cancel that leaves its group or *)
(* all groups without users ends what a request of the same kind counts on *)
(* (the group's mutex, buffer and bit in read_map; the ring and threads),  *)
(* so when they cross, freed memory and destroyed mutexes are used (1597,  *)
(* 1611, 1829, 1856).  Two cancels that together leave nobody both join.   *)
RequestCrosses(g) ==
  \E v \in AUser : upc[v] \in Leaving /\ req_ref[ugroup[v]] = 0 /\ (ugroup[v] = g \/ Deserted)
LeaveCrosses(u) ==
  LET g == ugroup[u]
  IN /\ req_ref[g] = 1
     /\ \E v \in AUser \ {u} :
          \/ upc[v] \in {"wait", "slot"} /\ ugroup[v] = g
          \/ upc[v] \notin {"out", "in"} /\ \A h \in AGroup \ {g} : req_ref[h] = 0

-----------------------------------------------------------------------------
(* ak_aenc_request_stream, under request_mutex: the group's buffer, a ring *)
(* unless there is one, the group among its readers, and the threads       *)
(* unless they run.                                                        *)
RequestsRing(u, g) ==
  /\ upc[u] = "out"
  /\ requests < MaxRequest
  /\ requests' = requests + 1
  /\ request_mutex = NoUser
  /\ ugroup' = [ugroup EXCEPT ![u] = g]
  /\ got' = [got EXCEPT ![u] = <<>>]
  /\ frame_data' = [frame_data EXCEPT ![g] = TRUE]
  /\ undefined' = RequestCrosses(g)
  /\ pcm_rb' = TRUE
  /\ rb_locked' = (pcm_rb /\ rb_locked)
  /\ unread' = IF pcm_rb THEN unread ELSE [h \in AGroup |-> <<>>]
  /\ read_map' = (IF pcm_rb THEN read_map ELSE {}) \cup {g}
  /\ IF run_flag THEN Goes(u, "slot") /\ UNCHANGED request_mutex
                 ELSE Goes(u, "wait") /\ request_mutex' = u
  /\ UNCHANGED <<aencFlags, aencSems, encode_buf, groupVars, pcmVars, encVars, req_nr,
                 using_mutex>>

(* start_encode_ctrl waits for the buffer of threads that are being joined *)
(* to go, with request_mutex held.                                         *)
start_encode_ctrl(u) ==
  /\ upc[u] = "wait"
  /\ ~encode_buf
  /\ encode_buf' = TRUE
  /\ run_flag' = TRUE
  /\ ad_sem' = 0 /\ enc_sem' = 0
  /\ pcm_pc' = "sleep"
  /\ enc_pc' = "sleep"
  /\ request_mutex' = NoUser
  /\ Goes(u, "slot")
  /\ UNCHANGED <<read_flag, frame_data, undefined, ringVars, groupVars, pcm_frames, enc_grp,
                 enc_entry, ugroup, req_nr, got, requests, using_mutex>>

(* Under the group's mutex: the lowest free number.                        *)
JoinsGroup(u) ==
  LET g == ugroup[u]
      free == (0..MaxAencUser - 1) \ req_map[g]
  IN /\ upc[u] = "slot"
     /\ MutexFree(g)
     /\ IF free = {}
          THEN /\ Goes(u, "out")
               /\ UNCHANGED <<req_nr, req_map, req_ref, read_flag, ad_sem>>
          ELSE /\ Goes(u, "in")
               /\ req_nr' = [req_nr EXCEPT ![u] = Min(free)]
               /\ req_map' = [req_map EXCEPT ![g] = @ \cup {Min(free)}]
               /\ req_ref' = [req_ref EXCEPT ![g] = @ + 1]
               /\ read_flag' = TRUE
               /\ ad_sem' = ad_sem + 1
     /\ UNCHANGED <<run_flag, enc_sem, bufferVars, ringVars, aenc_data, pcmVars, encVars,
                    ugroup, got, requests, aencLocks>>

MutFindsHead(u, q) == IF q = <<>> THEN 0 ELSE 1
(* aenc_find_user: the first entry that has the user's bit.                *)
aenc_find_user(u, q) == SelectInSeq(q, LAMBDA e : req_nr[u] \in e.map)

(* ak_aenc_get_stream, under the group's mutex: that entry and all after   *)
(* it, whether or not they have the bit.                                   *)
ak_aenc_get_stream(u) ==
  LET g == ugroup[u]
      q == aenc_data[g]
      first == aenc_find_user(u, q)
      Taken(e) == [frame |-> e.frame, ref |-> e.ref - 1, map |-> e.map \ {req_nr[u]}]
      after == [i \in DOMAIN q |-> IF i < first THEN q[i] ELSE Taken(q[i])]
  IN /\ upc[u] = "in"
     /\ MutexFree(g)
     /\ first # 0
     /\ got' = [got EXCEPT ![u] = @ \o [i \in 1..Len(q) - first + 1 |-> q[first + i - 1].frame]]
     /\ aenc_data' = [aenc_data EXCEPT ![g] =
                        Picked(after, {i \in DOMAIN q : i < first \/ after[i].ref > 0})]
     /\ UNCHANGED <<aencFlags, aencSems, bufferVars, ringVars, req_ref, req_map, pcmVars,
                    encVars, upc, ugroup, req_nr, requests, aencLocks>>

-----------------------------------------------------------------------------
(* ak_aenc_cancel_stream.  Nothing is done when the threads do not run.    *)
Cancels(u) == /\ upc[u] = "in"
              /\ request_mutex = NoUser
              /\ Goes(u, IF run_flag THEN "using" ELSE "out")
              /\ UNCHANGED <<aencFlags, aencSems, bufferVars, ringVars, groupVars, pcmVars,
                             encVars, ugroup, req_nr, got, requests, aencLocks>>

LeavesGroup(u) ==
  LET g == ugroup[u]
  IN /\ upc[u] = "using"
     /\ using_mutex[g] = NoUser
     /\ using_mutex' = [using_mutex EXCEPT ![g] = u]
     /\ undefined' = LeaveCrosses(u)
     /\ req_ref' = [req_ref EXCEPT ![g] = @ - 1]
     /\ req_map' = [req_map EXCEPT ![g] = @ \ {req_nr[u]}]
     /\ Goes(u, "others")
     /\ UNCHANGED <<aencFlags, aencSems, encode_buf, frame_data, ringVars, aenc_data, pcmVars,
                    encVars, ugroup, req_nr, got, requests, request_mutex>>

LooksForOthers(u) ==
  /\ upc[u] = "others"
  /\ Goes(u, IF \E g \in AGroup : req_ref[g] > 0 THEN "clean" ELSE "stop")
  /\ UNCHANGED <<aencFlags, aencSems, bufferVars, ringVars, groupVars, pcmVars, encVars,
                 ugroup, req_nr, got, requests, aencLocks>>

StopsThreads(u) == /\ upc[u] = "stop"
                   /\ read_flag' = FALSE /\ run_flag' = FALSE
                   /\ ad_sem' = ad_sem + 1
                   /\ Goes(u, "pcm")
                   /\ UNCHANGED <<enc_sem, bufferVars, ringVars, groupVars, pcmVars,
                                  encVars, ugroup, req_nr, got, requests, aencLocks>>

MutPcmNotJoined == TRUE
PcmJoined == pcm_pc = "none"

JoinsPcm(u) == /\ upc[u] = "pcm"
               /\ PcmJoined
               /\ enc_sem' = enc_sem + 1
               /\ Goes(u, "enc")
               /\ UNCHANGED <<aencFlags, ad_sem, bufferVars, ringVars, groupVars, pcmVars,
                              encVars, ugroup, req_nr, got, requests, aencLocks>>

JoinsEncode(u) == /\ upc[u] = "enc"
                  /\ enc_pc = "none"
                  /\ pcm_rb' = FALSE /\ rb_locked' = FALSE
                  /\ ad_sem' = 0 /\ enc_sem' = 0
                  /\ encode_buf' = FALSE
                  /\ Goes(u, "clean")
                  /\ UNCHANGED <<aencFlags, frame_data, undefined, read_map, unread, groupVars,
                                 pcmVars, encVars, ugroup, req_nr, got, requests, aencLocks>>

(* What only this user had still to take goes; what others had not taken   *)
(* either keeps the user's bit and count.                                  *)
CleansUp(u) ==
  LET g == ugroup[u]
      last == req_ref[g] <= 0
  IN /\ upc[u] = "clean"
     /\ read_map' = IF pcm_rb /\ last THEN read_map \ {g} ELSE read_map
     /\ frame_data' = [frame_data EXCEPT ![g] = @ /\ ~last]
     /\ aenc_data' = [aenc_data EXCEPT ![g] =
                        IF last THEN <<>>
                                ELSE Picked(@, {i \in DOMAIN @ : @[i].map # {req_nr[u]}})]
     /\ using_mutex' = [using_mutex EXCEPT ![g] = NoUser]
     /\ ugroup' = [ugroup EXCEPT ![u] = 1] /\ req_nr' = [req_nr EXCEPT ![u] = 0]
     /\ got' = [got EXCEPT ![u] = <<>>]
     /\ Goes(u, "out")
     /\ UNCHANGED <<aencFlags, aencSems, encode_buf, undefined, pcm_rb, rb_locked, unread,
                    req_ref, req_map, pcmVars, encVars, requests, request_mutex>>

-----------------------------------------------------------------------------
(* read_pcm_thread.                                                        *)
PcmWakes == /\ pcm_pc = "sleep"
            /\ ad_sem > 0
            /\ ad_sem' = ad_sem - 1
            /\ pcm_pc' = "loop"
            /\ UNCHANGED <<aencFlags, enc_sem, bufferVars, ringVars, groupVars, pcm_frames,
                           encVars, userVars, aencLocks>>

(* read_to_encode: one post per group that has users.  The writer mostly   *)
(* waits for the groups of read_map, but by its reckoning a reader that is *)
(* a whole ring behind has nothing to read (AencRing); a group outside     *)
(* read_map is not waited for.                                             *)
read_to_encode ==
  /\ pcm_pc = "loop" /\ read_flag
  /\ pcm_frames < MaxPcm
  /\ pcm_rb /\ ~rb_locked
  /\ pcm_frames' = pcm_frames + 1
  /\ IF read_map = {}
       THEN rb_locked' = TRUE /\ UNCHANGED <<unread, enc_sem>>
       ELSE /\ \E overrun \in SUBSET {g \in AGroup : Len(unread[g]) + 1 >= RingLen} :
                 /\ \A g \in AGroup \ overrun : Len(unread[g]) < RingLen
                 /\ unread' = [g \in AGroup |->
                                 LET due == Append(unread[g], pcm_frames')
                                 IN IF g \in overrun
                                      THEN SubSeq(due, RingLen + 1, Len(due)) ELSE due]
            /\ enc_sem' = enc_sem + Cardinality({g \in AGroup : req_ref[g] > 0})
            /\ UNCHANGED rb_locked
  /\ UNCHANGED <<aencFlags, ad_sem, bufferVars, pcm_rb, read_map, groupVars, pcm_pc,
                 encVars, userVars, aencLocks>>

PcmLeavesLoop == /\ pcm_pc = "loop" /\ ~read_flag
                 /\ pcm_pc' = IF run_flag THEN "sleep" ELSE "none"
                 /\ UNCHANGED <<aencFlags, aencSems, bufferVars, ringVars, groupVars,
                                pcm_frames, encVars, userVars, aencLocks>>

-----------------------------------------------------------------------------
(* audio_encode_thread.                                                    *)
EncodeStep(to) == /\ enc_pc' = to
                  /\ UNCHANGED <<aencFlags, ad_sem, encode_buf, frame_data, pcm_rb, read_map,
                                 rb_locked, req_ref, req_map, pcmVars, userVars,
                                 request_mutex>>

EncodeWakes == /\ enc_pc = "sleep"
               /\ enc_sem > 0
               /\ enc_sem' = enc_sem - 1
               /\ EncodeStep(IF run_flag THEN "look" ELSE "none")
               /\ enc_grp' = 1
               /\ UNCHANGED <<undefined, unread, aenc_data, enc_entry, using_mutex>>

NextGroup == IF enc_grp = 2 \/ ~run_flag
               THEN EncodeStep(IF run_flag THEN "sleep" ELSE "none") /\ UNCHANGED enc_grp
               ELSE EncodeStep("look") /\ enc_grp' = enc_grp + 1

(* The group has users; by the time the lock is taken it may have none.    *)
EncodeLooks == /\ enc_pc = "look"
               /\ IF req_ref[enc_grp] = 0
                    THEN IF enc_grp = 2
                           THEN /\ EncodeStep(IF run_flag THEN "sleep" ELSE "none")
                                /\ UNCHANGED enc_grp
                           ELSE EncodeStep("look") /\ enc_grp' = 2
                    ELSE EncodeStep("lock") /\ UNCHANGED enc_grp
               /\ UNCHANGED <<undefined, enc_sem, unread, aenc_data, enc_entry, using_mutex>>

EncodeLocks == /\ enc_pc = "lock"
               /\ using_mutex[enc_grp] = NoUser
               /\ using_mutex' = [using_mutex EXCEPT ![enc_grp] = Encoder]
               /\ EncodeStep("read")
               /\ UNCHANGED <<undefined, enc_sem, unread, aenc_data, enc_grp, enc_entry>>

(* encode_audio_data; the entry's count is the group's of this moment.     *)
(* The count was looked at before the lock (999-1002): by now a cancel may *)
(* have freed the buffer that the frame is copied to.                      *)
Readable == pcm_rb /\ unread[enc_grp] # <<>>
EncodeReads == /\ enc_pc = "read"
               /\ ~rb_locked
               /\ Readable
               /\ undefined' = ~frame_data[enc_grp]
               /\ enc_entry' = [frame |-> Head(unread[enc_grp]), ref |-> req_ref[enc_grp],
                                map |-> {}]
               /\ unread' = [unread EXCEPT ![enc_grp] = Tail(@)]
               /\ EncodeStep("push")
               /\ UNCHANGED <<enc_sem, aenc_data, enc_grp, using_mutex>>

(* push_audio_queue and drop_extra_stream; its users are those of now.     *)
push_audio_queue ==
  LET e == [enc_entry EXCEPT !.map = req_map[enc_grp]]
      q == aenc_data[enc_grp]
      kept == Picked(q, {i \in DOMAIN q : e.frame - q[i].frame < MaxAge})
  IN /\ enc_pc = "push"
     /\ MutexFree(enc_grp)
     /\ aenc_data' = [aenc_data EXCEPT ![enc_grp] = Append(kept, e)]
     /\ enc_entry' = NoEntry
     /\ EncodeStep(IF run_flag THEN "read" ELSE "unlock")
     /\ UNCHANGED <<undefined, enc_sem, unread, enc_grp, using_mutex>>

EncodeUnlocks == /\ \/ enc_pc = "read" /\ (pcm_rb => ~rb_locked) /\ ~Readable
                    \/ enc_pc = "unlock"
                 /\ using_mutex' = [using_mutex EXCEPT ![enc_grp] = NoUser]
                 /\ NextGroup
                 /\ UNCHANGED <<undefined, enc_sem, unread, aenc_data, enc_entry>>

-----------------------------------------------------------------------------
PcmStep == PcmWakes \/ read_to_encode \/ PcmLeavesLoop
EncStep == EncodeWakes \/ EncodeLooks \/ EncodeLocks \/ EncodeReads \/ push_audio_queue
             \/ EncodeUnlocks
CancelStep(u) == LeavesGroup(u) \/ LooksForOthers(u) \/ StopsThreads(u) \/ JoinsPcm(u)
                   \/ JoinsEncode(u) \/ CleansUp(u)
RequestStep(u) == start_encode_ctrl(u) \/ JoinsGroup(u)

AencNext == /\ ~undefined
            /\ \/ PcmStep \/ EncStep
               \/ \E u \in AUser : \/ \E g \in AGroup : RequestsRing(u, g)
                                   \/ RequestStep(u)
                                   \/ ak_aenc_get_stream(u)
                                   \/ Cancels(u)
                                   \/ CancelStep(u)

AencFairness == /\ WF_aencVars(~undefined /\ PcmStep)
                /\ WF_aencVars(~undefined /\ EncStep)
                /\ \A u \in AUser : /\ WF_aencVars(~undefined /\ CancelStep(u))
                                    /\ WF_aencVars(~undefined /\ RequestStep(u))
AencSpec == AencInit /\ [][AencNext]_aencVars /\ AencFairness

-----------------------------------------------------------------------------
AencTypeOK == /\ {run_flag, read_flag, encode_buf, pcm_rb, rb_locked} \subseteq BOOLEAN
              /\ ad_sem \in Nat /\ enc_sem \in Nat
              /\ read_map \subseteq AGroup
              /\ \A g \in AGroup : /\ Len(unread[g]) <= RingLen
                                   /\ req_map[g] \subseteq 0..MaxAencUser - 1
                                   /\ req_ref[g] = Cardinality(req_map[g])

(* However requests and cancels interleave, until a cancel that takes the  *)
(* last user of a group crosses a request: while either thread is alive so *)
(* is what it works on, the ring, which knows every group that has users,  *)
(* and the encoder's buffer.  A writer that finds no reader would keep     *)
(* data_mutex (lines 316-320, 1812-1838).                                  *)
SessionIsWhole ==
  ~undefined /\ (pcm_pc # "none" \/ enc_pc # "none")
    => /\ pcm_rb /\ encode_buf /\ ~rb_locked
       /\ \A g \in AGroup : req_map[g] # {} => g \in read_map /\ frame_data[g]

(* What a user is given since its request comes in the order of the sound, *)
(* nothing twice, though entries are taken without the user's bit as well  *)
(* (lines 1707-1735) and numbers go to others while their bits are queued. *)
SoundInOrder == \A u \in AUser : \A i, j \in DOMAIN got[u] : i < j => got[u][i] < got[u][j]

(* A cancel comes back (ak_aenc.h:124 "return: 0 success, -1 failed").     *)
AencCancelReturns ==
  \A u \in AUser : upc[u] \in {"using", "others", "stop", "pcm", "enc", "clean"}
                     ~> upc[u] = "out"
=============================================================================
