----------------------------- MODULE VencStream -----------------------------
(***************************************************************************)
(* How libmpi/src/venc/ak_venc.c distributes encoded frames: one queue per *)
(* encode group, in which every entry carries the users that have not had  *)
(* it yet; the capture and the encode thread that fill the queues; and the *)
(* users (recorder, RTSP, cloud) that request, get and cancel a stream.    *)
(*                                                                         *)
(* A section under handle->lock is one step.  A frame is its number.  The  *)
(* encoder is outside: it may fail, and KeyFrame says which frames it makes*)
(* I frames.  That frames_ctrl may leave a frame out for a group, to keep  *)
(* to its rate, looks like a failure of the encoder here.                  *)
(* Opening and closing a group (ak_venc_open, ak_venc_close) are left out, *)
(* and so is close_mutex, which only they share with the encode thread.    *)
(***************************************************************************)
EXTENDS Integers, FiniteSets, SequencesExt

CONSTANTS User,         \* the threads that use streams
          Group,        \* enum encode_group_type: main, sub stream, ...
          MaxUser,      \* VENC_TYPE_MAX_USER
          MaxStream,    \* ONE_STREAM_MAX
          MaxFrame,     \* bound: the frames the camera delivers
          KeyFrame,     \* those of them that are I frames
          NoGroup, Free

ASSUME FreeAssumption == Free \notin User \union {"encode"}
ASSUME GroupAssumption == NoGroup \notin Group
ASSUME MaxUserAssumption == MaxUser \in Nat \ {0}
ASSUME MaxStreamAssumption == MaxStream \in Nat /\ MaxStream >= 2
ASSUME MaxFrameAssumption == MaxFrame \in Nat
ASSUME KeyFrameAssumption == KeyFrame \subseteq 1..MaxFrame

Id == 0..MaxUser - 1
Frame == 1..MaxFrame
Entry == [no : Frame, ref : Int, bit_map : SUBSET Id]

VARIABLES
  req_ref, user_map,        \* per group: users, and which ids are taken
  is_stream_mode,           \* per group: some user has requested
  stream_list,              \* per group: struct video_streams_t
  streams_count,            \* per group: how many of them there are
  venc_list,                \* the groups that are encoded
  inited_enc_grp_num,       \* how many those are
  head_frame,               \* the captured frames
  cap_run, cap_sem, cap_pc, \* the capture thread
  enc_run, enc_pc, cursor,  \* the encode thread and its place in venc_list
  cancel_lock,              \* a user, or Free
  cancel_mutex,             \* "encode", or Free
  pc, grp, id,              \* each user: where it is, its stream handle
  next,                     \* the camera's next frame
  made, lost,               \* per group: frames queued since it was last
                            \* released, and those a full queue dropped
  since, got                \* per user: frames queued before it requested,
                            \* frames it was given

groups == <<req_ref, user_map, is_stream_mode>>
queues == <<stream_list, streams_count>>
capture == <<cap_run, cap_sem, cap_pc>>
encode == <<enc_run, enc_pc, cursor>>
users == <<pc, grp, id>>
queued == <<made, lost>>
given == <<since, got>>
vars == <<groups, queues, venc_list, inited_enc_grp_num, head_frame, capture,
          encode, cancel_lock, cancel_mutex, users, next, queued, given>>

-----------------------------------------------------------------------------
Init == /\ req_ref = [g \in Group |-> 0]
        /\ user_map = [g \in Group |-> {}]
        /\ is_stream_mode = [g \in Group |-> FALSE]
        /\ stream_list = [g \in Group |-> <<>>]
        /\ streams_count = [g \in Group |-> 0]
        /\ venc_list = <<>>
        /\ inited_enc_grp_num = 0
        /\ head_frame = <<>>
        /\ cap_run = FALSE /\ cap_sem = 0 /\ cap_pc = "none"
        /\ enc_run = FALSE /\ enc_pc = "none" /\ cursor = 1
        /\ cancel_lock = Free /\ cancel_mutex = Free
        /\ pc = [u \in User |-> "idle"]
        /\ grp = [u \in User |-> NoGroup]
        /\ id = [u \in User |-> 0]
        /\ next = 1
        /\ made = [g \in Group |-> {}]
        /\ lost = [g \in Group |-> {}]
        /\ since = [u \in User |-> {}]
        /\ got = [u \in User |-> {}]

Goto(u, label) == pc' = [pc EXCEPT ![u] = label]

-----------------------------------------------------------------------------
(* ak_venc_request_stream, as far as handle->lock: the lowest free id, and *)
(* the first user of the group sets it up.                                 *)
FreeId(g) == CHOOSE i \in Id : /\ i \notin user_map[g]
                               /\ \A j \in Id \ user_map[g] : i <= j

ak_venc_request_stream(u, g) ==
  /\ pc[u] = "idle"
  /\ cancel_lock = Free
  /\ Id \ user_map[g] # {}
  /\ cancel_lock' = u
  /\ Goto(u, "serve")
  /\ grp' = [grp EXCEPT ![u] = g]
  /\ id' = [id EXCEPT ![u] = FreeId(g)]
  /\ user_map' = [user_map EXCEPT ![g] = @ \union {FreeId(g)}]
  /\ req_ref' = [req_ref EXCEPT ![g] = @ + 1]
  /\ IF is_stream_mode[g]
     THEN UNCHANGED <<is_stream_mode, streams_count, inited_enc_grp_num, venc_list>>
     ELSE /\ is_stream_mode' = [is_stream_mode EXCEPT ![g] = TRUE]
          /\ streams_count' = [streams_count EXCEPT ![g] = 0]
          /\ inited_enc_grp_num' = inited_enc_grp_num + 1
          /\ venc_list' = Append(venc_list, g)
  /\ since' = [since EXCEPT ![u] = made[g]]
  /\ got' = [got EXCEPT ![u] = {}]
  /\ UNCHANGED <<stream_list, head_frame, capture, encode, cancel_mutex, next, queued>>

(* The first user of all starts the two threads.                           *)
start_service_work(u) ==
  /\ pc[u] = "serve"
  /\ cancel_lock' = Free
  /\ Goto(u, "running")
  /\ IF cap_pc # "none"
     THEN UNCHANGED <<capture, encode>>
     ELSE /\ cap_run' = TRUE /\ cap_sem' = 1 /\ cap_pc' = "sleep"
          /\ enc_run' = TRUE /\ enc_pc' = "wait" /\ cursor' = 1
  /\ UNCHANGED <<groups, queues, venc_list, inited_enc_grp_num, head_frame,
                 cancel_mutex, grp, id, next, queued, given>>

(* The entries a user has not had, first to last: venc_find_user.          *)
Pending(u) == {i \in 1..Len(stream_list[grp[u]]) :
                 id[u] \in stream_list[grp[u]][i].bit_map}

MutTakeKeepsBit(e, u) == [e EXCEPT !.ref = @ - 1]
(* A user takes an entry.                                                  *)
Take(e, u) == [no |-> e.no, ref |-> e.ref - 1, bit_map |-> e.bit_map \ {id[u]}]

ak_venc_get_stream(u) ==
  /\ pc[u] = "running"
  /\ Pending(u) # {}
  /\ LET g == grp[u]
         i == CHOOSE j \in Pending(u) : \A k \in Pending(u) : j <= k
         e == Take(stream_list[g][i], u)
     IN /\ got' = [got EXCEPT ![u] = @ \union {e.no}]
        /\ IF e.ref <= 0
           THEN /\ stream_list' = [stream_list EXCEPT ![g] = RemoveAt(@, i)]
                /\ streams_count' = [streams_count EXCEPT ![g] = @ - 1]
           ELSE /\ stream_list' = [stream_list EXCEPT ![g][i] = e]
                /\ UNCHANGED streams_count
  /\ UNCHANGED <<groups, venc_list, inited_enc_grp_num, head_frame, capture,
                 encode, cancel_lock, cancel_mutex, users, next, queued, since>>

-----------------------------------------------------------------------------
(* ak_venc_cancel_stream: the user leaves; its bit stays in the entries.   *)
CancelBegins(u) ==
  /\ pc[u] = "running"
  /\ cancel_lock = Free
  /\ cancel_lock' = u
  /\ Goto(u, "cancel")
  /\ req_ref' = [req_ref EXCEPT ![grp[u]] = @ - 1]
  /\ user_map' = [user_map EXCEPT ![grp[u]] = @ \ {id[u]}]
  /\ since' = [since EXCEPT ![u] = {}]
  /\ got' = [got EXCEPT ![u] = {}]
  /\ UNCHANGED <<is_stream_mode, queues, venc_list, inited_enc_grp_num, head_frame,
                 capture, encode, cancel_mutex, grp, id, next, queued>>

CancelCounts(u) ==
  /\ pc[u] = "cancel"
  /\ IF req_ref[grp[u]] <= 0 /\ is_stream_mode[grp[u]]
     THEN /\ inited_enc_grp_num' = inited_enc_grp_num - 1
          /\ Goto(u, "exit")
     ELSE /\ Goto(u, "leave")
          /\ UNCHANGED inited_enc_grp_num
  /\ UNCHANGED <<groups, queues, venc_list, head_frame, capture, encode,
                 cancel_lock, cancel_mutex, grp, id, next, queued, given>>

(* encode_thread_group_exit, when this was the last group.                 *)
ExitCapture(u) ==
  /\ pc[u] = "exit"
  /\ IF inited_enc_grp_num = 0
     THEN /\ cap_run' = FALSE
          /\ cap_sem' = cap_sem + 1
          /\ Goto(u, "join_capture")
     ELSE /\ Goto(u, "streams")
          /\ UNCHANGED <<cap_run, cap_sem>>
  /\ UNCHANGED <<groups, queues, venc_list, inited_enc_grp_num, head_frame, cap_pc,
                 encode, cancel_lock, cancel_mutex, grp, id, next, queued, given>>

MutExitUnposted == UNCHANGED enc_run
(* The encode thread is to leave its loop.                                 *)
ExitEncode == enc_run' = FALSE

JoinCapture(u) ==
  /\ pc[u] = "join_capture"
  /\ cap_pc = "gone"
  /\ ExitEncode
  /\ Goto(u, "join_encode")
  /\ UNCHANGED <<groups, queues, venc_list, inited_enc_grp_num, head_frame, capture,
                 enc_pc, cursor, cancel_lock, cancel_mutex, grp, id, next, queued, given>>

JoinEncode(u) ==                         \* and venc_release_useless_frames
  /\ pc[u] = "join_encode"
  /\ enc_pc = "gone"
  /\ cap_sem' = 0 /\ cap_pc' = "none" /\ enc_pc' = "none"
  /\ head_frame' = <<>>
  /\ Goto(u, "streams")
  /\ UNCHANGED <<groups, queues, venc_list, inited_enc_grp_num, cap_run, enc_run, cursor,
                 cancel_lock, cancel_mutex, grp, id, next, queued, given>>

release_group_streams(u) ==
  /\ pc[u] = "streams"
  /\ stream_list' = [stream_list EXCEPT ![grp[u]] = <<>>]
  /\ streams_count' = [streams_count EXCEPT ![grp[u]] = @ - Len(stream_list[grp[u]])]
  /\ made' = [made EXCEPT ![grp[u]] = {}]
  /\ lost' = [lost EXCEPT ![grp[u]] = {}]
  /\ Goto(u, "unlist")
  /\ UNCHANGED <<groups, venc_list, inited_enc_grp_num, head_frame, capture, encode,
                 cancel_lock, cancel_mutex, grp, id, next, given>>

CancelUnlists(u) ==
  /\ pc[u] = "unlist"
  /\ cancel_mutex = Free
  /\ \E i \in 1..Len(venc_list) : /\ venc_list[i] = grp[u]
                                  /\ venc_list' = RemoveAt(venc_list, i)
  /\ Goto(u, "mode")
  /\ UNCHANGED <<groups, queues, inited_enc_grp_num, head_frame, capture, encode,
                 cancel_lock, cancel_mutex, grp, id, next, queued, given>>

CancelClears(u) ==
  /\ pc[u] = "mode"
  /\ is_stream_mode' = [is_stream_mode EXCEPT ![grp[u]] = FALSE]
  /\ Goto(u, "leave")
  /\ UNCHANGED <<req_ref, user_map, queues, venc_list, inited_enc_grp_num, head_frame,
                 capture, encode, cancel_lock, cancel_mutex, grp, id, next, queued, given>>

CancelLeaves(u) ==                       \* free(handle)
  /\ pc[u] = "leave"
  /\ Goto(u, "idle")
  /\ grp' = [grp EXCEPT ![u] = NoGroup]
  /\ id' = [id EXCEPT ![u] = 0]
  /\ cancel_lock' = Free
  /\ UNCHANGED <<groups, queues, venc_list, inited_enc_grp_num, head_frame, capture,
                 encode, cancel_mutex, next, queued, given>>

ak_venc_cancel_stream(u) == \/ CancelCounts(u)
                            \/ ExitCapture(u)
                            \/ JoinCapture(u)
                            \/ JoinEncode(u)
                            \/ release_group_streams(u)
                            \/ CancelUnlists(u)
                            \/ CancelClears(u)
                            \/ CancelLeaves(u)

-----------------------------------------------------------------------------
(* capture_thread and capture_encode_frame.                                *)
CaptureWakes ==
  /\ cap_pc = "sleep"
  /\ cap_sem > 0
  /\ cap_sem' = cap_sem - 1
  /\ cap_pc' = IF cap_run THEN "loop" ELSE "gone"
  /\ UNCHANGED <<groups, queues, venc_list, inited_enc_grp_num, head_frame, cap_run,
                 encode, cancel_lock, cancel_mutex, users, next, queued, given>>

add_to_encode_list ==
  /\ cap_pc = "loop"
  /\ cap_run /\ inited_enc_grp_num > 0
  /\ next <= MaxFrame
  /\ next' = next + 1
  /\ head_frame' = Append(head_frame, next)
  /\ UNCHANGED <<groups, queues, venc_list, inited_enc_grp_num, capture, encode,
                 cancel_lock, cancel_mutex, users, queued, given>>

CaptureLeaves ==
  /\ cap_pc = "loop"
  /\ ~(cap_run /\ inited_enc_grp_num > 0)
  /\ cap_pc' = IF cap_run THEN "sleep" ELSE "gone"
  /\ UNCHANGED <<groups, queues, venc_list, inited_enc_grp_num, head_frame, cap_run,
                 cap_sem, encode, cancel_lock, cancel_mutex, users, next, queued, given>>

Capture == \/ CaptureWakes
           \/ add_to_encode_list
           \/ CaptureLeaves

-----------------------------------------------------------------------------
(* encode_thread and encode_frame; enc_sem has a token for every frame.    *)
EncodeTakes ==
  /\ enc_pc = "wait"
  /\ enc_run /\ head_frame # <<>>
  /\ cancel_mutex = Free
  /\ cancel_mutex' = "encode"
  /\ enc_pc' = "group"
  /\ cursor' = 1
  /\ UNCHANGED <<groups, queues, venc_list, inited_enc_grp_num, head_frame, capture,
                 enc_run, cancel_lock, users, next, queued, given>>

EncodeLeaves ==
  /\ enc_pc = "wait"
  /\ ~enc_run
  /\ enc_pc' = "gone"
  /\ UNCHANGED <<groups, queues, venc_list, inited_enc_grp_num, head_frame, capture,
                 enc_run, cursor, cancel_lock, cancel_mutex, users, next, queued, given>>

EncodeVisits ==
  /\ enc_pc = "group"
  /\ cursor <= Len(venc_list)
  /\ enc_run \/ cursor = 1
  /\ IF req_ref[venc_list[cursor]] > 0
     THEN enc_pc' = "encode" /\ UNCHANGED cursor
     ELSE cursor' = cursor + 1 /\ UNCHANGED enc_pc
  /\ UNCHANGED <<groups, queues, venc_list, inited_enc_grp_num, head_frame, capture,
                 enc_run, cancel_lock, cancel_mutex, users, next, queued, given>>

EncodeFinishes ==
  /\ enc_pc = "group"
  /\ cursor > Len(venc_list) \/ (~enc_run /\ cursor > 1)
  /\ enc_pc' = "wait"
  /\ cursor' = 1
  /\ cancel_mutex' = Free
  /\ head_frame' = Tail(head_frame)
  /\ UNCHANGED <<groups, queues, venc_list, inited_enc_grp_num, capture, enc_run,
                 cancel_lock, users, next, queued, given>>

(* One more entry would be too many.                                       *)
Full(g) == streams_count[g] + 1 > MaxStream

MutVictimFirst(s) == 1
(* A full queue drops its first P frame, but for an I frame in front that  *)
(* has no P frame left.                                                    *)
Victim(s) == IF s[1].no \in KeyFrame /\ s[2].no \notin KeyFrame THEN 2 ELSE 1

MutNewEntryIds(g, no) ==
  [no |-> no, ref |-> req_ref[g], bit_map |-> 0..req_ref[g] - 1]
(* The users of the moment are the users of the entry.                     *)
NewEntry(g, no) == [no |-> no, ref |-> req_ref[g], bit_map |-> user_map[g]]

save_streams ==
  LET g == venc_list[cursor]
      no == Head(head_frame)
      full == Full(g)
      old == stream_list[g]
  IN /\ enc_pc = "encode"
     /\ stream_list' = [stream_list EXCEPT ![g] =
          Append(IF full THEN RemoveAt(old, Victim(old)) ELSE old, NewEntry(g, no))]
     /\ streams_count' = [streams_count EXCEPT ![g] = IF full THEN @ ELSE @ + 1]
     /\ lost' = IF full THEN [lost EXCEPT ![g] = @ \union {old[Victim(old)].no}] ELSE lost
     /\ made' = [made EXCEPT ![g] = @ \union {no}]
     /\ enc_pc' = "group"
     /\ cursor' = cursor + 1
     /\ UNCHANGED <<groups, venc_list, inited_enc_grp_num, head_frame, capture, enc_run,
                    cancel_lock, cancel_mutex, users, next, given>>

frame_to_stream_fails ==
  /\ enc_pc = "encode"
  /\ enc_pc' = "group"
  /\ cursor' = cursor + 1
  /\ UNCHANGED <<groups, queues, venc_list, inited_enc_grp_num, head_frame, capture,
                 enc_run, cancel_lock, cancel_mutex, users, next, queued, given>>

Encode == \/ EncodeTakes
          \/ EncodeLeaves
          \/ EncodeVisits
          \/ EncodeFinishes
          \/ save_streams
          \/ frame_to_stream_fails

-----------------------------------------------------------------------------
Next == \/ \E u \in User : \/ \E g \in Group : ak_venc_request_stream(u, g)
                           \/ start_service_work(u)
                           \/ ak_venc_get_stream(u)
                           \/ CancelBegins(u)
                           \/ ak_venc_cancel_stream(u)
        \/ Capture
        \/ Encode

(* The threads are scheduled; a user need never get or cancel, but a call  *)
(* it is in goes on, and cancel_mutex is fair.                             *)
Fairness == /\ WF_vars(Capture)
            /\ WF_vars(Encode)
            /\ \A u \in User : /\ WF_vars(start_service_work(u))
                               /\ WF_vars(ak_venc_cancel_stream(u))
                               /\ SF_vars(CancelUnlists(u))

Spec == Init /\ [][Next]_vars
FairSpec == Spec /\ Fairness
-----------------------------------------------------------------------------
CancelLabel == {"cancel", "exit", "join_capture", "join_encode", "streams",
                "unlist", "mode", "leave"}

TypeOK ==
  /\ req_ref \in [Group -> Nat]
  /\ user_map \in [Group -> SUBSET Id]
  /\ is_stream_mode \in [Group -> BOOLEAN]
  /\ stream_list \in [Group -> Seq(Entry)]
  /\ \A g \in Group : streams_count[g] \in Int /\ streams_count[g] <= MaxStream
  /\ venc_list \in Seq(Group)
  /\ inited_enc_grp_num \in Nat
  /\ head_frame \in Seq(Frame)
  /\ cap_run \in BOOLEAN /\ cap_sem \in 0..2
  /\ cap_pc \in {"none", "sleep", "loop", "gone"}
  /\ enc_run \in BOOLEAN /\ cursor \in Nat \ {0}
  /\ enc_pc \in {"none", "wait", "group", "encode", "gone"}
  /\ cancel_lock \in User \union {Free}
  /\ cancel_mutex \in {"encode", Free}
  /\ pc \in [User -> {"idle", "serve", "running"} \union CancelLabel]
  /\ grp \in [User -> Group \union {NoGroup}]
  /\ id \in [User -> Id]
  /\ next \in 1..MaxFrame + 1
  /\ made \in [Group -> SUBSET Frame]
  /\ lost \in [Group -> SUBSET Frame]
  /\ since \in [User -> SUBSET Frame]
  /\ got \in [User -> SUBSET Frame]

(* An entry's count is the number of its users, so the last of them frees  *)
(* it and none frees it before; the same holds of the group's own count.   *)
RefIsUsers ==
  \A g \in Group :
    /\ req_ref[g] = Cardinality(user_map[g])
    /\ \A i \in 1..Len(stream_list[g]) :
         stream_list[g][i].ref = Cardinality(stream_list[g][i].bit_map)

Waiting(u) == {stream_list[grp[u]][i].no : i \in Pending(u)}
Streaming(u) == pc[u] \in {"serve", "running"}

(* Every frame queued since a user's request reaches that user, unless the *)
(* queue overflows: who else comes, goes or takes frames does not matter.  *)
NoFrameMissed ==
  \A u \in User : Streaming(u) =>
    made[grp[u]] \ since[u] \subseteq got[u] \union Waiting(u) \union lost[grp[u]]

(* The I frame the frames up to this one refer to.                         *)
KeyOf(g, no) ==
  LET keys == {k \in made[g] \intersect KeyFrame : k <= no}
  IN {k \in keys : \A l \in keys : l <= k}

(* An overflow never takes the I frame from a user who still has to get a  *)
(* frame of its group: what a user gets after a loss can be decoded from   *)
(* an I frame on.                                                          *)
KeyFrameOutlivesItsGroup ==
  \A u \in User : Streaming(u) =>
    \A no \in Waiting(u) :
      KeyOf(grp[u], no) \subseteq since[u] \union got[u] \union Waiting(u)

(* The queue keeps to its length, and what an overflow leaves of it can be *)
(* decoded by all who lag.                                                 *)
QueueIsSound == TypeOK /\ KeyFrameOutlivesItsGroup

(* A new user gets no frame that was queued before its request.            *)
FreshOnly == \A u \in User : got[u] \intersect since[u] = {}

(* A group nobody uses has no frames.                                      *)
EmptyWhenIdle == \A g \in Group : ~is_stream_mode[g] => stream_list[g] = <<>>

(* Who takes cancel_lock, to request or to cancel, gives it back.          *)
CancelReturns == \A u \in User : []<>(cancel_lock # u)
=============================================================================
