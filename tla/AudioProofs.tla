----------------------------- MODULE AudioProofs -----------------------------
(***************************************************************************)
(* What holds of the audio encoder and of the decoder: of the encoder's    *)
(* streams for any users, frames and requests however they overlap, of its *)
(* ring for every length of the ring, of its frames and of what its        *)
(* readers take at a time; of the decoder's stream for any buffers, sends  *)
(* and streams.                                                            *)
(***************************************************************************)
EXTENDS Aenc, AencRing, AudioDec, FiniteSetTheorems, SequenceTheorems, WellFoundedInduction, TLAPS

-----------------------------------------------------------------------------
(* The streams, libmpi/src/aenc/ak_aenc.c.                                 *)

(* An entry of a queue.                                                    *)
Sound == [frame : Nat, ref : Int, map : SUBSET Nat]
(* Where a user is that requests or cancels.                               *)
Busy == {"wait", "slot", "using", "others", "stop", "pcm", "enc", "clean"}
(* Every variable has its kind.                                            *)
AencTypes ==
  /\ {run_flag, read_flag, encode_buf, undefined, pcm_rb, rb_locked} \subseteq BOOLEAN
  /\ frame_data \in [AGroup -> BOOLEAN]
  /\ ad_sem \in Nat /\ enc_sem \in Nat /\ pcm_frames \in Nat
  /\ read_map \subseteq AGroup
  /\ unread \in [AGroup -> Seq(Nat)] /\ \A g \in AGroup : Len(unread[g]) <= RingLen
  /\ req_map \in [AGroup -> SUBSET (0..MaxAencUser - 1)]
  /\ req_ref \in [AGroup -> Nat]
  /\ aenc_data \in [AGroup -> Seq(Sound)]
  /\ pcm_pc \in {"none", "sleep", "loop"}
  /\ enc_pc \in {"none", "sleep", "look", "lock", "read", "push", "unlock"}
  /\ enc_grp \in AGroup /\ enc_entry \in Sound
  /\ upc \in [AUser -> Busy \cup {"out", "in"}]
  /\ ugroup \in [AUser -> AGroup] /\ req_nr \in [AUser -> Nat]
  /\ got \in [AUser -> Seq(Nat)]

(* A group's numbers are those of its users, one each.                     *)
Member(u) == upc[u] \in {"in", "using"}
Numbers ==
  /\ \A g \in AGroup : /\ req_ref[g] = Cardinality(req_map[g])
                       /\ \A n \in req_map[g] : \E u \in AUser : Member(u) /\ ugroup[u] = g /\ req_nr[u] = n
  /\ \A u \in AUser : Member(u) => req_nr[u] \in req_map[ugroup[u]]
  /\ \A u, v \in AUser : Member(u) /\ Member(v) /\ ugroup[u] = ugroup[v] /\ req_nr[u] = req_nr[v] => u = v

(* What the threads work on outlives them ...                              *)
Alive == pcm_pc # "none" \/ enc_pc # "none"
Threads == /\ ~rb_locked
           /\ Alive => pcm_rb /\ encode_buf
           /\ run_flag => pcm_rb
           /\ read_flag => read_map # {}
(* ... as each step of a call finds it.                                    *)
Calls == \A u \in AUser :
  /\ upc[u] = "wait" => request_mutex = u /\ ~run_flag /\ pcm_rb
  /\ upc[u] \in {"slot", "in", "using", "others", "stop"} => run_flag
  /\ upc[u] \in {"pcm", "enc"} => ~run_flag /\ ~read_flag
  /\ upc[u] = "enc" => pcm_pc = "none"
  /\ upc[u] \in {"stop", "pcm", "enc"} => Deserted
  /\ upc[u] = "clean" /\ Deserted => ~run_flag /\ ~read_flag
  /\ upc[u] \in {"wait", "slot", "in", "using"} => ugroup[u] \in read_map /\ frame_data[ugroup[u]]
(* A call that the session hangs on meets no other: who starts threads and *)
(* who leaves no users does so alone, and a group that a request goes to   *)
(* is not being left without users.                                        *)
Apart == \A u, v \in AUser : u # v =>
  /\ upc[u] = "wait" => upc[v] = "out"
  /\ upc[u] \in Leaving /\ Deserted => upc[v] = "out"
  /\ upc[u] \in {"wait", "slot"} /\ upc[v] \in Leaving /\ ugroup[v] = ugroup[u] => req_ref[ugroup[u]] # 0
(* The session: who is in it, its threads and what they work on.           *)
SessInv == AencTypes /\ Numbers /\ Threads /\ Calls /\ Apart

(* A sequence of frames is in the order of the sound.                      *)
Rising(s) == \A i, j \in DOMAIN s : i < j => s[i] < s[j]
(* The encode thread has a frame of the group that it has not queued.      *)
Pushing(g) == enc_pc = "push" /\ enc_grp = g
(* A frame is before all that the group has still to queue.                *)
Ahead(f, g) == /\ f <= pcm_frames
               /\ \A j \in DOMAIN unread[g] : f < unread[g][j]
               /\ Pushing(g) => f < enc_entry.frame
(* The frames of a group are unread, encoded and queued in their order.    *)
StreamOrder == \A g \in AGroup :
  /\ Rising(unread[g])
  /\ \A j \in DOMAIN unread[g] : unread[g][j] <= pcm_frames
  /\ Pushing(g) => /\ enc_entry.frame <= pcm_frames
                   /\ \A j \in DOMAIN unread[g] : enc_entry.frame < unread[g][j]
(* A queue is in order, and before what its group has still to queue.      *)
QueueOrder == \A g \in AGroup : \A i \in DOMAIN aenc_data[g] :
  /\ Ahead(aenc_data[g][i].frame, g)
  /\ \A j \in DOMAIN aenc_data[g] : i < j => aenc_data[g][i].frame < aenc_data[g][j].frame
(* What a user has is before all it has still to take.                     *)
GotInOrder(u) ==
  /\ Rising(got[u])
  /\ upc[u] \in {"wait", "slot"} => got[u] = <<>>
  /\ upc[u] = "in" => \A i \in DOMAIN got[u] :
       /\ Ahead(got[u][i], ugroup[u])
       /\ \A j \in DOMAIN aenc_data[ugroup[u]] :
            req_nr[u] \in aenc_data[ugroup[u]][j].map => got[u][i] < aenc_data[ugroup[u]][j].frame
(* What every user has is in order.                                        *)
GotOrder == \A u \in AUser : GotInOrder(u)
(* The session, and the order from the ring to the users.                  *)
AencInv == SessInv /\ StreamOrder /\ QueueOrder /\ GotOrder
(* What is left of it once calls have crossed.                             *)
AencHolds == AencTypes /\ Numbers /\ GotOrder /\ (~undefined => AencInv)

-----------------------------------------------------------------------------
(* The places that stay, in their order.                                   *)
LEMMA PickFacts ==
  ASSUME NEW S, NEW q \in Seq(S), NEW keep \in SUBSET DOMAIN q
  PROVE  /\ Cardinality(keep) \in Nat
         /\ Picked(q, keep) \in Seq(S)
         /\ Len(Picked(q, keep)) = Cardinality(keep)
         /\ DOMAIN Picked(q, keep) = 1..Cardinality(keep)
         /\ \A k \in 1..Cardinality(keep) : Kth(keep, k) \in keep /\ Picked(q, keep)[k] = q[Kth(keep, k)]
         /\ \A i \in keep : \E k \in 1..Cardinality(keep) : Kth(keep, k) = i
         /\ \A k, l \in 1..Cardinality(keep) : k < l => Kth(keep, k) < Kth(keep, l)
<1> DEFINE Upto(n) == {j \in keep : j <= n}
           place == [n \in keep |-> Cardinality(Upto(n))]
           c == Cardinality(keep)
<1>1. Len(q) \in Nat /\ DOMAIN q = 1..Len(q)
  OBVIOUS
<1>2. IsFiniteSet(keep) /\ c \in Nat /\ keep \in SUBSET Nat
  <2>1. IsFiniteSet(1..Len(q))
    BY <1>1, FS_Interval
  <2>2. IsFiniteSet(keep)
    BY <1>1, <2>1, FS_Subset
  <2>3. QED
    BY <1>1, <2>2, FS_CardinalityType
<1>3. \A n \in keep : /\ IsFiniteSet(Upto(n)) /\ Cardinality(Upto(n)) \in Nat
                      /\ Cardinality(Upto(n)) <= c
  BY <1>2, FS_Subset, FS_CardinalityType
<1>4. \A n, m \in keep : n < m => Cardinality(Upto(n)) < Cardinality(Upto(m))
  <2> SUFFICES ASSUME NEW n \in keep, NEW m \in keep, n < m
               PROVE  Cardinality(Upto(n)) < Cardinality(Upto(m))
    OBVIOUS
  <2>1. Upto(n) \in SUBSET Upto(m) /\ m \in Upto(m) /\ m \notin Upto(n)
    BY <1>2
  <2>2. Cardinality(Upto(n)) <= Cardinality(Upto(m)) /\ Cardinality(Upto(n)) # Cardinality(Upto(m))
    BY <1>3, <2>1, FS_Subset
  <2>3. Cardinality(Upto(n)) \in Nat /\ Cardinality(Upto(m)) \in Nat
    BY <1>3
  <2> HIDE DEF Upto
  <2>4. QED
    BY <2>2, <2>3
<1>5. ASSUME NEW n \in keep PROVE Cardinality(Upto(n)) \in 1..c
  <2>1. n \in Upto(n)
    BY <1>2
  <2>2. Cardinality(Upto(n)) # 0
    BY <1>3, <2>1, FS_EmptySet
  <2>3. QED
    BY <1>2, <1>3, <2>2
<1>6. place \in [keep -> 1..c] /\ \A n \in keep : place[n] = Cardinality(Upto(n))
  BY <1>5
<1>7. \A n, m \in keep : place[n] = place[m] => n = m
  <2> SUFFICES ASSUME NEW n \in keep, NEW m \in keep, place[n] = place[m] PROVE n = m
    OBVIOUS
  <2>1. Cardinality(Upto(n)) = Cardinality(Upto(m)) /\ Cardinality(Upto(n)) \in Nat
    BY <1>3, <1>6
  <2>2. n < m => Cardinality(Upto(n)) < Cardinality(Upto(m))
    BY <1>4
  <2>5. m < n => Cardinality(Upto(m)) < Cardinality(Upto(n))
    BY <1>4
  <2> HIDE DEF Upto
  <2>3. ~(n < m) /\ ~(m < n)
    BY <2>1, <2>2, <2>5
  <2>4. QED
    BY <1>2, <2>3
<1>8. \A n \in keep : Kth(keep, place[n]) = n
  BY <1>6, <1>7 DEF Kth
<1>9. \A n, m \in keep : n < m => place[n] < place[m]
  BY <1>4, <1>6
<1> HIDE DEF place, c
<1>10. place \in Injection(keep, 1..c)
  BY <1>6, <1>7 DEF Injection, IsInjective
<1>11. IsFiniteSet(1..c) /\ Cardinality(1..c) = c
  BY <1>2, FS_Interval
<1>12. place \in Surjection(keep, 1..c)
  BY <1>10, <1>11, FS_Injection DEF c
<1>13. \A k \in 1..c : \E n \in keep : place[n] = k
  BY <1>12 DEF Surjection
<1>14. \A k \in 1..c : Kth(keep, k) \in keep /\ place[Kth(keep, k)] = k
  BY <1>8, <1>13
<1>15. \A k, l \in 1..c : k < l => Kth(keep, k) < Kth(keep, l)
  <2> SUFFICES ASSUME NEW k \in 1..c, NEW l \in 1..c, k < l PROVE Kth(keep, k) < Kth(keep, l)
    OBVIOUS
  <2>1. Kth(keep, k) \in Nat /\ Kth(keep, l) \in Nat
    BY <1>2, <1>14
  <2>2. ~(Kth(keep, l) < Kth(keep, k)) /\ Kth(keep, l) # Kth(keep, k)
    BY <1>9, <1>14
  <2>3. QED
    BY <2>1, <2>2
<1>16. Picked(q, keep) = [k \in 1..c |-> q[Kth(keep, k)]]
  BY DEF Picked, c
<1>17. \A k \in 1..c : q[Kth(keep, k)] \in S
  BY <1>14
<1>18. Picked(q, keep) \in Seq(S) /\ Len(Picked(q, keep)) = c
  BY <1>2, <1>16, <1>17
<1>19. \A i \in keep : \E k \in 1..c : Kth(keep, k) = i
  BY <1>6, <1>8
<1>20. QED
  BY <1>2, <1>14, <1>15, <1>16, <1>18, <1>19 DEF c

-----------------------------------------------------------------------------
(* At first there is no session.                                           *)
LEMMA SessInit == AencInit => SessInv
<1> SUFFICES ASSUME AencInit PROVE SessInv
  OBVIOUS
<1>0. <<>> \in Seq(Nat) /\ <<>> \in Seq(Sound) /\ Len(<<>>) = 0
  BY EmptySeq
<1>1. AencTypes
  <2>1. \A g \in AGroup : unread[g] = <<>>
    BY DEF AencInit
  <2>2. \A g \in AGroup : Len(unread[g]) <= RingLen
    BY <1>0, <2>1, AencAssumption
  <2>3. {run_flag, read_flag, encode_buf, undefined, pcm_rb, rb_locked} \subseteq BOOLEAN
    BY DEF AencInit
  <2>4. QED
    BY <1>0, <2>2, <2>3 DEF AencInit, AencTypes, AGroup, NoEntry, Sound
<1>2. Threads /\ Calls /\ Apart
  BY DEF AencInit, Leaving, Threads, Alive, Calls, Apart
<1>3. Numbers
  BY FS_EmptySet DEF AencInit, Numbers, Member
<1>4. QED
  BY <1>1, <1>2, <1>3 DEF SessInv

(* A step of a thread leaves the session as it is; a thread that is gone   *)
(* stays gone.                                                             *)
ThreadLeaves == /\ UNCHANGED <<run_flag, read_flag, encode_buf, frame_data, pcm_rb, rb_locked, read_map,
                               req_ref, req_map, upc, ugroup, req_nr, got, requests, request_mutex>>
                /\ pcm_pc = "none" => pcm_pc' = "none"
                /\ enc_pc = "none" => enc_pc' = "none"

(* What a group has to read when the next frame is in the ring.            *)
Written(g, overrun) == LET due == Append(unread[g], pcm_frames')
                       IN IF g \in overrun THEN SubSeq(due, RingLen + 1, Len(due)) ELSE due

(* It is the frame at the end of what the group had, or at most the frame. *)
LEMMA WrittenFacts ==
  ASSUME AencTypes, pcm_frames' = pcm_frames + 1, NEW overrun \in SUBSET AGroup,
         \A h \in overrun : Len(unread[h]) + 1 >= RingLen,
         \A h \in AGroup \ overrun : Len(unread[h]) < RingLen,
         NEW g \in AGroup
  PROVE  /\ Written(g, overrun) \in Seq(Nat) /\ Len(Written(g, overrun)) <= RingLen
         /\ \E s \in Nat : \A j \in DOMAIN Written(g, overrun) :
              /\ j \in Nat /\ j + s \in 1..Len(unread[g]) + 1
              /\ Written(g, overrun)[j] = Append(unread[g], pcm_frames')[j + s]
<1> DEFINE due == Append(unread[g], pcm_frames')
<1>1. unread[g] \in Seq(Nat) /\ Len(unread[g]) \in Nat /\ Len(unread[g]) <= RingLen /\ pcm_frames' \in Nat
  BY DEF AencTypes
<1>2. due \in Seq(Nat) /\ Len(due) = Len(unread[g]) + 1 /\ Len(due) \in Nat /\ DOMAIN due = 1..Len(unread[g]) + 1
  BY <1>1, AppendProperties, LenProperties
<1>3. RingLen \in Nat /\ 0 < RingLen
  BY AencAssumption
<1> HIDE DEF due
<1>4. CASE g \notin overrun
  <2>1. Written(g, overrun) = due /\ Len(unread[g]) < RingLen
    BY <1>4 DEF Written, due
  <2>2. \A j \in DOMAIN due : j \in Nat /\ j + 0 \in 1..Len(unread[g]) + 1 /\ due[j] = due[j + 0]
    BY <1>1, <1>2
  <2>3. Len(due) <= RingLen /\ 0 \in Nat
    BY <1>1, <1>2, <1>3, <2>1
  <2>4. QED
    BY <1>2, <2>1, <2>2, <2>3 DEF due
<1>5. CASE g \in overrun
  <2> DEFINE w == SubSeq(due, RingLen + 1, Len(due))
  <2>1. Written(g, overrun) = w /\ Len(unread[g]) + 1 >= RingLen
    BY <1>5 DEF Written, due
  <2>2. w = [i \in 1..Len(due) - RingLen |-> due[i + RingLen]]
    BY <1>2, <1>3
  <2>3. Len(due) - RingLen \in Nat /\ Len(due) - RingLen <= RingLen
    BY <1>1, <1>2, <1>3, <2>1
  <2>4. \A i \in 1..Len(due) - RingLen : i \in Nat /\ i + RingLen \in 1..Len(unread[g]) + 1 /\ due[i + RingLen] \in Nat
    BY <1>2, <1>3, <2>3
  <2>5. w \in Seq(Nat) /\ Len(w) = Len(due) - RingLen /\ DOMAIN w = 1..Len(due) - RingLen
    <3> DEFINE n == Len(due) - RingLen
    <3>1. n \in Nat /\ \A i \in 1..n : due[i + RingLen] \in Nat
      BY <2>3, <2>4
    <3> HIDE DEF n
    <3>2. [i \in 1..n |-> due[i + RingLen]] \in Seq(Nat) /\ Len([i \in 1..n |-> due[i + RingLen]]) = n
      BY <3>1
    <3>3. QED
      BY <2>2, <3>2 DEF n
  <2>6. \A j \in DOMAIN w : j \in Nat /\ j + RingLen \in 1..Len(unread[g]) + 1 /\ w[j] = due[j + RingLen]
    BY <2>2, <2>4, <2>5
  <2> HIDE DEF w
  <2>7. QED
    BY <1>3, <2>1, <2>3, <2>5, <2>6 DEF due
<1>6. QED
  BY <1>4, <1>5

(* Every step of read_pcm_thread does: its writer always has a reader, so  *)
(* it never leaves the ring locked.                                        *)
LEMMA PcmLeaves ==
  ASSUME SessInv, PcmStep PROVE ThreadLeaves /\ AencTypes'
<1> USE DEF aencFlags, aencSems, bufferVars, ringVars, groupVars, pcmVars, encVars, userVars, aencLocks
<1>1. CASE PcmWakes
  BY <1>1 DEF PcmWakes, ThreadLeaves, SessInv, AencTypes
<1>2. CASE PcmLeavesLoop
  BY <1>2 DEF PcmLeavesLoop, ThreadLeaves, SessInv, AencTypes
<1>3. CASE read_to_encode
  <2>1. read_map # {}
    BY <1>3 DEF read_to_encode, SessInv, Threads
  <2>2. ThreadLeaves
    BY <1>3, <2>1 DEF read_to_encode, ThreadLeaves
  <2>3. pcm_frames' \in Nat /\ pcm_frames' = pcm_frames + 1
    BY <1>3 DEF read_to_encode, SessInv, AencTypes
  <2>4. enc_sem' \in Nat
    <3>1. {g \in AGroup : req_ref[g] > 0} \subseteq AGroup
      OBVIOUS
    <3>2. IsFiniteSet(AGroup)
      <4>1. PICK b \in Int : b = 2
        OBVIOUS
      <4>2. IsFiniteSet(1..b)
        BY FS_Interval
      <4>3. QED
        BY <4>1, <4>2 DEF AGroup
    <3>3. Cardinality({g \in AGroup : req_ref[g] > 0}) \in Nat
      BY <3>1, <3>2, FS_Subset, FS_CardinalityType
    <3>4. QED
      BY <1>3, <2>1, <3>3 DEF read_to_encode, SessInv, AencTypes
  <2>5. PICK overrun \in SUBSET {g \in AGroup : Len(unread[g]) + 1 >= RingLen} :
          /\ \A g \in AGroup \ overrun : Len(unread[g]) < RingLen
          /\ unread' = [g \in AGroup |-> Written(g, overrun)]
    BY <1>3, <2>1 DEF read_to_encode, Written
  <2>6. \A g \in AGroup : Written(g, overrun) \in Seq(Nat) /\ Len(Written(g, overrun)) <= RingLen
    BY <2>3, <2>5, WrittenFacts DEF SessInv
  <2>7. unread' \in [AGroup -> Seq(Nat)] /\ \A g \in AGroup : Len(unread'[g]) <= RingLen
    BY <2>5, <2>6
  <2>8. QED
    BY <1>3, <2>2, <2>3, <2>4, <2>7 DEF read_to_encode, ThreadLeaves, SessInv, AencTypes
<1>4. QED
  BY <1>1, <1>2, <1>3 DEF PcmStep

(* So does every step of audio_encode_thread.                              *)
LEMMA EncLeaves ==
  ASSUME SessInv, EncStep PROVE ThreadLeaves /\ AencTypes'
<1> USE DEF aencFlags, ringVars, groupVars, pcmVars, userVars, EncodeStep
<1>1. CASE EncodeWakes
  BY <1>1 DEF EncodeWakes, ThreadLeaves, SessInv, AencTypes, AGroup
<1>2. CASE EncodeLooks
  <2>1. enc_pc # "none" /\ enc_pc' \in {"sleep", "none", "look", "lock"} /\ enc_grp' \in {enc_grp, 2}
    BY <1>2 DEF EncodeLooks
  <2>2. ThreadLeaves
    BY <1>2, <2>1 DEF EncodeLooks, ThreadLeaves
  <2>3. UNCHANGED <<undefined, ad_sem, pcm_frames, pcm_pc, enc_sem, unread, aenc_data, enc_entry>>
    BY <1>2 DEF EncodeLooks
  <2>4. enc_grp' \in AGroup
    BY <2>1 DEF SessInv, AencTypes, AGroup
  <2>5. QED
    BY <2>1, <2>2, <2>3, <2>4 DEF ThreadLeaves, SessInv, AencTypes
<1>3. CASE EncodeLocks
  BY <1>3 DEF EncodeLocks, ThreadLeaves, SessInv, AencTypes, AGroup
<1>4. CASE EncodeReads
  <2>1. enc_grp \in AGroup /\ unread[enc_grp] \in Seq(Nat) /\ unread[enc_grp] # <<>>
    BY <1>4 DEF EncodeReads, Readable, SessInv, AencTypes
  <2>2. /\ Head(unread[enc_grp]) \in Nat /\ Tail(unread[enc_grp]) \in Seq(Nat)
        /\ Len(Tail(unread[enc_grp])) = Len(unread[enc_grp]) - 1 /\ Len(unread[enc_grp]) \in Nat
    BY <2>1, HeadTailProperties, LenProperties
  <2>3. enc_entry' \in Sound
    BY <1>4, <2>1, <2>2 DEF EncodeReads, SessInv, AencTypes, Sound
  <2>4. unread' = [unread EXCEPT ![enc_grp] = Tail(unread[enc_grp])]
    BY <1>4 DEF EncodeReads
  <2>5. unread' \in [AGroup -> Seq(Nat)] /\ \A g \in AGroup : Len(unread'[g]) <= RingLen
    BY <2>1, <2>2, <2>4, AencAssumption DEF SessInv, AencTypes
  <2>6. QED
    BY <1>4, <2>3, <2>5 DEF EncodeReads, ThreadLeaves, SessInv, AencTypes
<1>5. CASE push_audio_queue
  <2> DEFINE q == aenc_data[enc_grp]
             e == [enc_entry EXCEPT !.map = req_map[enc_grp]]
             keep == {i \in DOMAIN q : e.frame - q[i].frame < MaxAge}
  <2>1. enc_grp \in AGroup /\ q \in Seq(Sound) /\ enc_entry \in Sound /\ req_map[enc_grp] \subseteq Nat
    BY <1>5 DEF push_audio_queue, SessInv, AencTypes
  <2>2. e \in Sound
    BY <2>1 DEF Sound
  <2>3. Picked(q, keep) \in Seq(Sound)
    BY <2>1, PickFacts
  <2>4. aenc_data' = [aenc_data EXCEPT ![enc_grp] = Append(Picked(q, keep), e)]
    BY <1>5 DEF push_audio_queue
  <2> HIDE DEF e, q, keep
  <2>5. Append(Picked(q, keep), e) \in Seq(Sound)
    BY <2>2, <2>3, AppendProperties
  <2>6. aenc_data' \in [AGroup -> Seq(Sound)]
    BY <2>1, <2>4, <2>5 DEF SessInv, AencTypes
  <2>7. enc_entry' \in Sound
    BY <1>5 DEF push_audio_queue, NoEntry, Sound
  <2>8. QED
    BY <1>5, <2>6, <2>7 DEF push_audio_queue, ThreadLeaves, SessInv, AencTypes
<1>6. CASE EncodeUnlocks
  <2>1. /\ enc_pc # "none" /\ enc_pc' \in {"sleep", "none", "look"}
        /\ enc_grp' = enc_grp \/ (enc_grp' = enc_grp + 1 /\ enc_grp # 2)
    BY <1>6 DEF EncodeUnlocks, NextGroup
  <2>2. ThreadLeaves
    BY <1>6, <2>1 DEF EncodeUnlocks, NextGroup, ThreadLeaves
  <2>3. enc_grp \in {1, 2} /\ enc_grp' \in AGroup
    BY <2>1 DEF SessInv, AencTypes, AGroup
  <2>4. UNCHANGED <<undefined, enc_sem, unread, aenc_data, enc_entry>>
    BY <1>6 DEF EncodeUnlocks
  <2>5. UNCHANGED <<ad_sem, pcm_frames, pcm_pc>>
    BY <1>6 DEF EncodeUnlocks, NextGroup
  <2>6. QED
    BY <2>1, <2>2, <2>3, <2>4, <2>5 DEF ThreadLeaves, SessInv, AencTypes
<1>7. QED
  BY <1>1, <1>2, <1>3, <1>4, <1>5, <1>6 DEF EncStep

(* Neither thread disturbs the session.                                    *)
LEMMA ThreadsKeepSession ==
  ASSUME SessInv, PcmStep \/ EncStep PROVE SessInv'
<1>1. ThreadLeaves /\ AencTypes'
  BY PcmLeaves, EncLeaves
<1>2. Numbers'
  BY <1>1 DEF ThreadLeaves, SessInv, Numbers, Member
<1>3. Threads'
  BY <1>1 DEF ThreadLeaves, SessInv, Threads, Alive
<1>4. Calls' /\ Apart'
  BY <1>1 DEF ThreadLeaves, SessInv, Calls, Apart, Deserted
<1>5. QED
  BY <1>1, <1>2, <1>3, <1>4 DEF SessInv

(* Where a user is.                                                        *)
Place == Busy \cup {"out", "in"}
(* A user goes from one place to another; all others stay where they are.  *)
Moves(u, to) == /\ upc' \in [AUser -> Place] /\ upc'[u] = to
                /\ \A v \in AUser \ {u} : upc'[v] = upc[v]

LEMMA CallMoves ==
  ASSUME AencTypes, NEW u \in AUser, NEW to \in Place, Goes(u, to)
  PROVE  Moves(u, to)
BY DEF AencTypes, Goes, Place, Moves

(* A call that goes on, and does not leave its group in this step, stays   *)
(* apart from the others.                                                  *)
LEMMA ApartMoves ==
  ASSUME Apart, NEW u \in AUser, NEW to \in Place, Moves(u, to), upc[u] # "out", req_ref' = req_ref,
         to \in Leaving => upc[u] \in Leaving, to \notin {"wait", "slot"} \/ upc[u] = "wait",
         \A v \in AUser \ {u} : ugroup'[v] = ugroup[v], ugroup'[u] = ugroup[u] \/ to = "out"
  PROVE  Apart'
<1> SUFFICES ASSUME NEW x \in AUser, NEW y \in AUser, x # y
             PROVE  /\ upc'[x] = "wait" => upc'[y] = "out"
                    /\ upc'[x] \in Leaving /\ Deserted' => upc'[y] = "out"
                    /\ upc'[x] \in {"wait", "slot"} /\ upc'[y] \in Leaving /\ ugroup'[y] = ugroup'[x]
                         => req_ref'[ugroup'[x]] # 0
  BY DEF Apart
<1>1. Deserted' <=> Deserted
  BY DEF Deserted
<1>2. /\ upc[x] = "wait" => upc[y] = "out"
      /\ upc[x] \in Leaving /\ Deserted => upc[y] = "out"
      /\ upc[x] \in {"wait", "slot"} /\ upc[y] \in Leaving /\ ugroup[y] = ugroup[x] => req_ref[ugroup[x]] # 0
  BY DEF Apart
<1>3. CASE x # u /\ y # u
  BY <1>1, <1>2, <1>3 DEF Moves
<1>4. CASE x = u
  BY <1>1, <1>2, <1>4 DEF Moves, Leaving
<1>5. CASE y = u
  BY <1>1, <1>2, <1>5 DEF Moves, Leaving
<1>6. QED
  BY <1>3, <1>4, <1>5

(* A step that makes no member leaves the numbers as they are.             *)
LEMMA NumbersStay ==
  ASSUME Numbers, UNCHANGED <<req_ref, req_map>>,
         \A v \in AUser : /\ Member(v)' <=> Member(v)
                          /\ Member(v) => ugroup'[v] = ugroup[v] /\ req_nr'[v] = req_nr[v]
  PROVE  Numbers'
<1>1. ASSUME NEW g \in AGroup, NEW n \in req_map'[g]
      PROVE  \E u \in AUser : Member(u)' /\ ugroup'[u] = g /\ req_nr'[u] = n
  <2>1. PICK u \in AUser : Member(u) /\ ugroup[u] = g /\ req_nr[u] = n
    BY <1>1 DEF Numbers
  <2>2. QED
    BY <2>1
<1>2. ASSUME NEW u \in AUser, Member(u)' PROVE req_nr'[u] \in req_map'[ugroup'[u]]
  BY <1>2 DEF Numbers
<1>3. ASSUME NEW u \in AUser, NEW v \in AUser, Member(u)', Member(v)', ugroup'[u] = ugroup'[v], req_nr'[u] = req_nr'[v]
      PROVE  u = v
  BY <1>3 DEF Numbers
<1>4. \A g \in AGroup : req_ref'[g] = Cardinality(req_map'[g])
  BY DEF Numbers
<1>5. QED
  BY <1>1, <1>2, <1>3, <1>4 DEF Numbers

-----------------------------------------------------------------------------
(* A set of numbers has a least one.                                       *)
LEMMA LeastOf ==
  ASSUME NEW T \in SUBSET Nat, T # {}
  PROVE  \E x \in T : \A y \in T : x <= y
<1> DEFINE R == OpToRel(<, Nat)
<1>1. \A x, y \in Nat : y < x => <<y, x>> \in R
  BY DEF OpToRel
<1>2. IsWellFoundedOn(R, Nat)
  BY NatLessThanWellFounded
<1> HIDE DEF R
<1>3. PICK x \in T : \A y \in T : ~(<<y, x>> \in R)
  BY <1>2, WFMin
<1>4. \A y \in T : ~(y < x)
  BY <1>1, <1>3, Zenon
<1>5. \A y \in T : x <= y
  BY <1>4
<1>6. QED
  BY <1>5, Zenon

(* aenc_find_user finds the first entry with the user's bit.               *)
LEMMA FoundUser ==
  ASSUME NEW u, NEW q \in Seq(Sound), aenc_find_user(u, q) # 0
  PROVE  LET first == aenc_find_user(u, q)
         IN /\ first \in DOMAIN q /\ req_nr[u] \in q[first].map
            /\ DOMAIN q = 1..Len(q) /\ Len(q) \in Nat
            /\ \A i \in DOMAIN q : i < first => req_nr[u] \notin q[i].map
<1> DEFINE I == {i \in 1..Len(q) : req_nr[u] \in q[i].map}
<1>1. aenc_find_user(u, q) = IF I # {} THEN Min(I) ELSE 0
  BY DEF aenc_find_user, SelectInSeq
<1>2. I # {} /\ I \in SUBSET Nat /\ aenc_find_user(u, q) = Min(I)
  BY <1>1
<1>3. \E x \in I : \A y \in I : x <= y
  BY <1>2, LeastOf
<1>4. Min(I) \in I /\ \A y \in I : Min(I) <= y
  BY <1>3 DEF Min
<1> DEFINE first == aenc_find_user(u, q)
<1>5. /\ first \in 1..Len(q) /\ req_nr[u] \in q[first].map
      /\ \A i \in 1..Len(q) : req_nr[u] \in q[i].map => first <= i
  BY <1>2, <1>4
<1>6. DOMAIN q = 1..Len(q) /\ Len(q) \in Nat
  OBVIOUS
<1> HIDE DEF first, I
<1>7. \A i \in DOMAIN q : i < first => req_nr[u] \notin q[i].map
  BY <1>5, <1>6
<1>8. QED
  BY <1>5, <1>6, <1>7 DEF first

(* A group with a member counts it.                                        *)
LEMMA UserCounts ==
  ASSUME AencTypes, Numbers, NEW u \in AUser, Member(u) PROVE req_ref[ugroup[u]] > 0
<1> DEFINE g == ugroup[u]
<1>1. g \in AGroup /\ req_map[g] # {} /\ req_map[g] \subseteq 0..MaxAencUser - 1 /\ req_ref[g] = Cardinality(req_map[g])
  BY DEF AencTypes, Numbers
<1>2. IsFiniteSet(0..MaxAencUser - 1)
  BY AencAssumption, FS_Interval
<1>3. IsFiniteSet(req_map[g])
  BY <1>1, <1>2, FS_Subset
<1>4. Cardinality(req_map[g]) # 0 /\ Cardinality(req_map[g]) \in Nat
  BY <1>1, <1>3, FS_EmptySet, FS_CardinalityType
<1>5. QED
  BY <1>1, <1>4

(* Where no group counts anybody there is no member ...                    *)
LEMMA NobodyIn ==
  ASSUME AencTypes, Numbers, Deserted PROVE \A u \in AUser : ~Member(u)
<1> SUFFICES ASSUME NEW u \in AUser, Member(u) PROVE FALSE
  OBVIOUS
<1>1. req_ref[ugroup[u]] > 0 /\ ugroup[u] \in AGroup
  BY UserCounts DEF AencTypes
<1>2. QED
  BY <1>1 DEF Deserted

LEMMA NobodyInNext == (AencTypes /\ Numbers /\ Deserted => \A u \in AUser : ~Member(u))'
<1>1. AencTypes /\ Numbers /\ Deserted => \A u \in AUser : ~Member(u)
  BY NobodyIn
<1>2. QED
  BY <1>1, PTL

(* ... and a group that counts somebody has one.                           *)
LEMMA SomebodyIn ==
  ASSUME AencTypes, Numbers, NEW g \in AGroup, req_ref[g] > 0 PROVE \E u \in AUser : Member(u) /\ ugroup[u] = g
<1>1. req_map[g] # {}
  BY FS_EmptySet DEF Numbers
<1>2. QED
  BY <1>1 DEF Numbers

(* Where a request goes from the ring.                                     *)
Enters == IF run_flag THEN "slot" ELSE "wait"

(* A request finds or makes the ring and puts its group among the readers. *)
LEMMA RequestFacts ==
  ASSUME SessInv, NEW u \in AUser, NEW g \in AGroup, RequestsRing(u, g)
  PROVE  /\ AencTypes' /\ Numbers'
         /\ upc[u] = "out" /\ Moves(u, Enters) /\ request_mutex = NoUser
         /\ request_mutex' = IF run_flag THEN request_mutex ELSE u
         /\ ugroup'[u] = g /\ \A v \in AUser \ {u} : ugroup'[v] = ugroup[v]
         /\ pcm_rb' /\ ~rb_locked' /\ g \in read_map' /\ (pcm_rb => read_map \subseteq read_map')
         /\ frame_data'[g] /\ \A h \in AGroup : frame_data[h] => frame_data'[h]
         /\ UNCHANGED <<run_flag, read_flag, encode_buf, req_ref, pcm_pc, enc_pc>>
         /\ undefined' = RequestCrosses(g)
<1>1. /\ upc[u] = "out" /\ request_mutex = NoUser /\ pcm_rb' /\ ~rb_locked'
      /\ rb_locked' \in BOOLEAN
      /\ ugroup' = [ugroup EXCEPT ![u] = g] /\ got' = [got EXCEPT ![u] = <<>>]
      /\ frame_data' = [frame_data EXCEPT ![g] = TRUE]
      /\ g \in read_map' /\ read_map' \subseteq AGroup
      /\ Goes(u, IF run_flag THEN "slot" ELSE "wait")
      /\ request_mutex' = IF run_flag THEN request_mutex ELSE u
      /\ UNCHANGED <<run_flag, read_flag, ad_sem, enc_sem, encode_buf, req_ref, req_map, aenc_data,
                     pcm_pc, pcm_frames, enc_pc, enc_grp, enc_entry, req_nr>>
      /\ undefined' = RequestCrosses(g)
  BY DEF RequestsRing, SessInv, AencTypes, Threads, aencFlags, aencSems, groupVars, pcmVars, encVars
<1>2. pcm_rb => read_map \subseteq read_map'
  BY DEF RequestsRing
<1>3. unread' = unread \/ unread' = [h \in AGroup |-> <<>>]
  BY DEF RequestsRing
<1>4. Enters \in Place /\ Goes(u, Enters)
  BY <1>1 DEF Enters, Place, Busy
<1>5. Moves(u, Enters)
  BY <1>4, CallMoves DEF SessInv
<1>6. ugroup' \in [AUser -> AGroup] /\ ugroup'[u] = g /\ \A v \in AUser \ {u} : ugroup'[v] = ugroup[v]
  BY <1>1 DEF SessInv, AencTypes
<1>7. /\ frame_data' \in [AGroup -> BOOLEAN] /\ frame_data'[g]
      /\ \A h \in AGroup : frame_data[h] => frame_data'[h]
  BY <1>1 DEF SessInv, AencTypes
<1>8. AencTypes'
  <2>1. got' \in [AUser -> Seq(Nat)]
    BY <1>1, EmptySeq DEF SessInv, AencTypes
  <2>2. unread' \in [AGroup -> Seq(Nat)] /\ \A h \in AGroup : Len(unread'[h]) <= RingLen
    <3>1. <<>> \in Seq(Nat) /\ Len(<<>>) = 0 /\ RingLen \in Nat
      BY EmptySeq, AencAssumption
    <3>2. CASE unread' = unread
      BY <3>2 DEF SessInv, AencTypes
    <3>3. CASE unread' = [h \in AGroup |-> <<>>]
      BY <3>1, <3>3
    <3>4. QED
      BY <1>3, <3>2, <3>3
  <2>3. {run_flag, read_flag, encode_buf, undefined, pcm_rb, rb_locked}' \subseteq BOOLEAN
    <3>1. undefined' \in BOOLEAN
      BY <1>1 DEF RequestCrosses
    <3>2. QED
      BY <1>1, <3>1 DEF SessInv, AencTypes, RequestsRing
  <2>4. QED
    BY <1>1, <1>5, <1>6, <1>7, <2>1, <2>2, <2>3 DEF SessInv, AencTypes, Place, Moves
<1>9. Numbers'
  BY <1>1, <1>5, <1>6, NumbersStay DEF SessInv, Member, Moves, Enters
<1>10. QED
  BY <1>1, <1>2, <1>5, <1>6, <1>7, <1>8, <1>9

(* Unless it crosses a cancel that leaves its group or all without users   *)
(* the session goes on.                                                    *)
LEMMA RequestKeeps ==
  ASSUME SessInv, NEW u \in AUser, NEW g \in AGroup, RequestsRing(u, g), ~undefined'
  PROVE  SessInv'
<1>1. /\ AencTypes' /\ Numbers'
      /\ upc[u] = "out" /\ Moves(u, Enters) /\ request_mutex = NoUser
      /\ request_mutex' = IF run_flag THEN request_mutex ELSE u
      /\ ugroup'[u] = g /\ \A v \in AUser \ {u} : ugroup'[v] = ugroup[v]
      /\ pcm_rb' /\ ~rb_locked' /\ g \in read_map' /\ (pcm_rb => read_map \subseteq read_map')
      /\ frame_data'[g] /\ \A h \in AGroup : frame_data[h] => frame_data'[h]
      /\ UNCHANGED <<run_flag, read_flag, encode_buf, req_ref, pcm_pc, enc_pc>>
      /\ ~RequestCrosses(g)
  BY RequestFacts, Zenon
<1>2. \A v \in AUser : upc[v] \in Leaving /\ req_ref[ugroup[v]] = 0 => ugroup[v] # g /\ ~Deserted
  BY <1>1 DEF RequestCrosses
<1>3. \A v \in AUser : ugroup[v] \in AGroup /\ upc[v] \in Place /\ upc[v] # "wait"
  BY <1>1, AencAssumption DEF SessInv, AencTypes, Calls, Place
<1>4. ASSUME ~run_flag, NEW v \in AUser PROVE upc[v] = "out"
  <2>1. upc[v] \in {"pcm", "enc", "clean", "out"}
    BY <1>3, <1>4 DEF SessInv, Calls, Place, Busy
  <2>2. ~Deserted => upc[v] # "clean"
    <3> SUFFICES ASSUME ~Deserted PROVE FALSE
      OBVIOUS
    <3>1. PICK h \in AGroup : req_ref[h] > 0
      BY DEF Deserted, SessInv, AencTypes
    <3>2. PICK w \in AUser : Member(w)
      BY <3>1, SomebodyIn DEF SessInv
    <3>3. QED
      BY <1>4, <3>2 DEF Member, SessInv, Calls
  <2>3. upc[v] \in {"pcm", "enc", "clean"} => Deserted /\ upc[v] \in Leaving
    BY <2>2 DEF SessInv, Calls, Leaving
  <2>4. Deserted => req_ref[ugroup[v]] = 0
    BY <1>3 DEF Deserted
  <2>5. QED
    BY <1>2, <2>1, <2>3, <2>4
<1>5. Threads'
  BY <1>1 DEF SessInv, Threads, Alive
<1>6. \A v \in AUser \ {u} : upc'[v] = upc[v] /\ ugroup'[v] = ugroup[v]
  BY <1>1 DEF Moves
<1>7. upc'[u] = Enters /\ (Deserted' <=> Deserted)
  BY <1>1 DEF Moves, Deserted
<1>8. run_flag => pcm_rb
  BY DEF SessInv, Threads
<1>9. Calls'
  <2>1. /\ run_flag => upc'[u] = "slot" /\ request_mutex' = request_mutex
        /\ ~run_flag => upc'[u] = "wait" /\ request_mutex' = u
    BY <1>1, <1>7 DEF Enters
  <2>2. \A h \in AGroup : (run_flag /\ h \in read_map => h \in read_map') /\ (frame_data[h] => frame_data'[h])
    BY <1>1, <1>8
  <2>3. ASSUME NEW v \in AUser \ {u}, run_flag
        PROVE  /\ upc'[v] # "wait" /\ upc'[v] \notin {"pcm", "enc"} /\ run_flag'
               /\ upc'[v] = "stop" => Deserted'
               /\ upc'[v] = "clean" /\ Deserted' => ~run_flag' /\ ~read_flag'
               /\ upc'[v] \in {"slot", "in", "using"} => ugroup'[v] \in read_map' /\ frame_data'[ugroup'[v]]
    BY <1>1, <1>3, <1>6, <1>7, <2>2, <2>3 DEF SessInv, Calls
  <2>4. \A v \in AUser \ {u} : ~run_flag => upc'[v] = "out"
    BY <1>4, <1>6
  <2>5. QED
    BY <1>1, <2>1, <2>3, <2>4 DEF Calls
<1>10. Apart'
  <2> SUFFICES ASSUME NEW x \in AUser, NEW y \in AUser, x # y
               PROVE  /\ upc'[x] = "wait" => upc'[y] = "out"
                      /\ upc'[x] \in Leaving /\ Deserted' => upc'[y] = "out"
                      /\ upc'[x] \in {"wait", "slot"} /\ upc'[y] \in Leaving /\ ugroup'[y] = ugroup'[x]
                           => req_ref'[ugroup'[x]] # 0
    BY DEF Apart
  <2>1. CASE x # u /\ y # u
    BY <1>1, <1>6, <1>7, <2>1 DEF SessInv, Apart
  <2>2. CASE x = u
    BY <1>1, <1>2, <1>4, <1>6, <1>7, <2>2 DEF Leaving, Enters
  <2>3. CASE y = u
    <3>1. upc'[x] = upc[x] /\ upc[x] # "wait" /\ upc'[u] \notin Leaving
      BY <1>3, <1>6, <1>7, <2>3 DEF Leaving, Enters
    <3>2. upc[x] \in Leaving /\ Deserted => FALSE
      BY <1>2, <1>3 DEF Deserted
    <3>3. QED
      BY <1>7, <2>3, <3>1, <3>2
  <2>4. QED
    BY <2>1, <2>2, <2>3
<1>11. QED
  BY <1>1, <1>5, <1>9, <1>10 DEF SessInv

(* The threads start on the ring that the request made.                    *)
LEMMA StartKeeps ==
  ASSUME SessInv, NEW u \in AUser, start_encode_ctrl(u)
  PROVE  SessInv'
<1>1. /\ upc[u] = "wait" /\ encode_buf' /\ run_flag' /\ ad_sem' = 0 /\ enc_sem' = 0
      /\ pcm_pc' = "sleep" /\ enc_pc' = "sleep" /\ Goes(u, "slot")
      /\ UNCHANGED <<read_flag, frame_data, undefined, pcm_rb, read_map, rb_locked, unread, req_ref, req_map,
                     aenc_data, pcm_frames, enc_grp, enc_entry, ugroup, req_nr, got>>
      /\ {run_flag, encode_buf}' \subseteq BOOLEAN
  BY DEF start_encode_ctrl, ringVars, groupVars
<1>2. Moves(u, "slot")
  BY <1>1, CallMoves DEF SessInv, Place, Busy
<1>3. AencTypes'
  BY <1>1, <1>2 DEF SessInv, AencTypes, Place, Moves
<1>4. Numbers'
  BY <1>1, <1>2, NumbersStay DEF SessInv, Member, Moves
<1>5. pcm_rb
  BY <1>1 DEF SessInv, Calls
<1>6. Threads'
  BY <1>1, <1>5 DEF SessInv, Threads
<1>7. \A v \in AUser \ {u} : upc'[v] = "out"
  BY <1>1, <1>2 DEF SessInv, Apart, Moves
<1>8. Calls'
  BY <1>1, <1>2, <1>7 DEF SessInv, Calls, Moves
<1>9. Apart'
  BY <1>1, <1>2, ApartMoves DEF SessInv, Leaving, Place, Busy
<1>10. QED
  BY <1>3, <1>4, <1>6, <1>8, <1>9 DEF SessInv

(* A user becomes a member of a group that the writer knows.               *)
LEMMA JoinKeeps ==
  ASSUME SessInv, NEW u \in AUser, JoinsGroup(u)
  PROVE  SessInv'
<1> DEFINE g == ugroup[u]
           free == (0..MaxAencUser - 1) \ req_map[g]
<1>1. /\ upc[u] = "slot"
      /\ UNCHANGED <<run_flag, enc_sem, encode_buf, frame_data, undefined, pcm_rb, read_map,
                     rb_locked, unread, aenc_data, pcm_pc, pcm_frames, enc_pc, enc_grp,
                     enc_entry, ugroup, got, request_mutex>>
  BY DEF JoinsGroup, bufferVars, ringVars, pcmVars, encVars, aencLocks
<1>2. g \in AGroup /\ req_map[g] \subseteq 0..MaxAencUser - 1 /\ req_ref[g] = Cardinality(req_map[g])
      /\ req_ref[g] \in Nat /\ ad_sem \in Nat /\ g \in read_map /\ frame_data[g] /\ run_flag
  BY <1>1 DEF SessInv, AencTypes, Numbers, Calls
<1>3. CASE free = {}
  <2>1. Goes(u, "out") /\ UNCHANGED <<req_nr, req_map, req_ref, read_flag, ad_sem>>
    BY <1>3 DEF JoinsGroup
  <2>2. Moves(u, "out")
    BY <2>1, CallMoves DEF SessInv, Place
  <2>3. AencTypes'
    BY <1>1, <2>1, <2>2 DEF SessInv, AencTypes, Place, Moves
  <2>4. Numbers'
    BY <1>1, <2>1, <2>2, NumbersStay DEF SessInv, Member, Moves
  <2>5. Threads' /\ Calls'
    BY <1>1, <2>1, <2>2 DEF SessInv, Threads, Alive, Calls, Deserted, Moves
  <2>6. Apart'
    BY <1>1, <2>1, <2>2, ApartMoves DEF SessInv, Leaving, Place
  <2>7. QED
    BY <2>3, <2>4, <2>5, <2>6 DEF SessInv
<1>4. CASE free # {}
  <2> DEFINE n == Min(free)
  <2>1. /\ Goes(u, "in") /\ req_nr' = [req_nr EXCEPT ![u] = n]
        /\ req_map' = [req_map EXCEPT ![g] = @ \cup {n}]
        /\ req_ref' = [req_ref EXCEPT ![g] = @ + 1]
        /\ read_flag' /\ read_flag' \in BOOLEAN /\ ad_sem' = ad_sem + 1
    BY <1>4 DEF JoinsGroup
  <2>2. n \in free
    <3>1. \E x \in free : \A y \in free : x <= y
      <4>1. free \in SUBSET Nat
        BY AencAssumption
      <4>2. QED
        BY <1>4, <4>1, LeastOf
    <3>2. QED
      BY <3>1 DEF Min
  <2>3. n \in 0..MaxAencUser - 1 /\ n \notin req_map[g] /\ n \in Nat
    BY <2>2, AencAssumption
  <2> HIDE DEF n, free
  <2>4. Moves(u, "in")
    BY <2>1, CallMoves DEF SessInv, Place
  <2>5. /\ req_map' \in [AGroup -> SUBSET (0..MaxAencUser - 1)] /\ req_map'[g] = req_map[g] \cup {n}
        /\ \A h \in AGroup \ {g} : req_map'[h] = req_map[h] /\ req_ref'[h] = req_ref[h]
        /\ req_ref' \in [AGroup -> Nat] /\ req_ref'[g] = req_ref[g] + 1
        /\ req_nr' \in [AUser -> Nat] /\ req_nr'[u] = n
        /\ \A v \in AUser \ {u} : req_nr'[v] = req_nr[v]
    BY <1>2, <2>1, <2>3 DEF SessInv, AencTypes
  <2>6. AencTypes'
    BY <1>1, <1>2, <2>1, <2>4, <2>5 DEF SessInv, AencTypes, Place, Moves
  <2>7. Cardinality(req_map'[g]) = req_ref'[g]
    <3>1. IsFiniteSet(0..MaxAencUser - 1)
      BY AencAssumption, FS_Interval
    <3>2. IsFiniteSet(req_map[g])
      BY <1>2, <3>1, FS_Subset
    <3>3. Cardinality(req_map[g] \cup {n}) = Cardinality(req_map[g]) + 1
      BY <2>3, <3>2, FS_AddElement
    <3>4. QED
      BY <1>2, <2>5, <3>3
  <2>8. Numbers'
    <3>1. \A h \in AGroup : req_ref'[h] = Cardinality(req_map'[h])
      BY <2>5, <2>7 DEF SessInv, Numbers
    <3>2. Member(u)' /\ ~Member(u) /\ \A v \in AUser \ {u} : (Member(v)' <=> Member(v))
      BY <1>1, <2>4 DEF Member, Moves
    <3>3. ASSUME NEW h \in AGroup, NEW k \in req_map'[h]
          PROVE  \E v \in AUser : Member(v)' /\ ugroup'[v] = h /\ req_nr'[v] = k
      <4>1. CASE h = g /\ k = n
        BY <1>1, <2>5, <3>2, <4>1
      <4>2. CASE k \in req_map[h]
        BY <1>1, <2>5, <3>2, <4>2 DEF SessInv, Numbers
      <4>3. QED
        BY <2>5, <3>3, <4>1, <4>2
    <3>4. \A v \in AUser : Member(v)' => req_nr'[v] \in req_map'[ugroup'[v]]
      BY <1>1, <1>2, <2>5, <3>2 DEF SessInv, Numbers, AencTypes
    <3>5. \A v, w \in AUser : Member(v)' /\ Member(w)' /\ ugroup'[v] = ugroup'[w] /\ req_nr'[v] = req_nr'[w] => v = w
      BY <1>1, <2>3, <2>5, <3>2 DEF SessInv, Numbers
    <3>6. QED
      BY <3>1, <3>3, <3>4, <3>5 DEF Numbers
  <2>9. Threads'
    BY <1>1, <1>2 DEF SessInv, Threads, Alive
  <2>10. ~Deserted' /\ \A h \in AGroup : req_ref[h] # 0 => req_ref'[h] # 0
    BY <1>2, <2>5 DEF Deserted
  <2>11. \A v \in AUser \ {u} : upc[v] # "wait" /\ ~(upc[v] \in Leaving /\ Deserted)
    BY <1>1 DEF SessInv, Apart
  <2>12. Calls'
    BY <1>1, <1>2, <2>4, <2>10, <2>11 DEF SessInv, Calls, Leaving, Moves
  <2>13. Apart'
    <3>1. \A v \in AUser \ {u} : upc'[v] = upc[v] /\ ugroup'[v] = ugroup[v] /\ ugroup[v] \in AGroup
      BY <1>1, <2>4 DEF Moves, SessInv, AencTypes
    <3>2. upc'[u] = "in"
      BY <2>4 DEF Moves
    <3>3. QED
      BY <2>10, <2>11, <3>1, <3>2 DEF SessInv, Apart, Leaving
  <2>14. QED
    BY <2>6, <2>8, <2>9, <2>12, <2>13 DEF SessInv
<1>5. QED
  BY <1>3, <1>4

(* Taking entries leaves the session alone.                                *)
LEMMA GetKeeps ==
  ASSUME SessInv, NEW u \in AUser, ak_aenc_get_stream(u)
  PROVE  SessInv'
<1> DEFINE g == ugroup[u]
           q == aenc_data[g]
           first == aenc_find_user(u, q)
           Taken(e) == [frame |-> e.frame, ref |-> e.ref - 1, map |-> e.map \ {req_nr[u]}]
           after == [i \in DOMAIN q |-> IF i < first THEN q[i] ELSE Taken(q[i])]
           keep == {i \in DOMAIN q : i < first \/ after[i].ref > 0}
           new == [i \in 1..Len(q) - first + 1 |-> q[first + i - 1].frame]
<1>1. /\ first # 0
      /\ got' = [got EXCEPT ![u] = @ \o new]
      /\ aenc_data' = [aenc_data EXCEPT ![g] = Picked(after, keep)]
      /\ UNCHANGED <<run_flag, read_flag, ad_sem, enc_sem, encode_buf, frame_data, undefined,
                     pcm_rb, read_map, rb_locked, unread, req_ref, req_map, pcm_pc, pcm_frames,
                     enc_pc, enc_grp, enc_entry, upc, ugroup, req_nr, request_mutex>>
  BY DEF ak_aenc_get_stream, aencFlags, aencSems, bufferVars, ringVars, pcmVars, encVars, aencLocks
<1>2. g \in AGroup /\ q \in Seq(Sound) /\ got[u] \in Seq(Nat) /\ req_nr[u] \in Nat
  BY DEF SessInv, AencTypes
<1>3. first \in DOMAIN q /\ DOMAIN q = 1..Len(q) /\ Len(q) \in Nat
  BY <1>1, <1>2, FoundUser
<1> HIDE DEF first, q
<1>4. after \in Seq(Sound) /\ DOMAIN after = DOMAIN q
  <2>1. \A e \in Sound : Taken(e) \in Sound
    BY DEF Sound
  <2>2. QED
    BY <1>2, <1>3, <2>1
<1>5. new \in Seq(Nat)
  <2>1. \A i \in 1..Len(q) - first + 1 : first + i - 1 \in DOMAIN q
    BY <1>3
  <2>2. \A i \in DOMAIN q : q[i].frame \in Nat
    <3>1. \A i \in DOMAIN q : q[i] \in Sound
      BY <1>2
    <3>2. \A e \in Sound : e.frame \in Nat
      BY DEF Sound
    <3>3. QED
      BY <3>1, <3>2
  <2>3. \A i \in 1..Len(q) - first + 1 : q[first + i - 1].frame \in Nat
    BY <2>1, <2>2
  <2> DEFINE n == Len(q) - first + 1
  <2>4. n \in Nat /\ \A i \in 1..n : q[first + i - 1].frame \in Nat
    BY <1>3, <2>3
  <2> HIDE DEF n
  <2>5. [i \in 1..n |-> q[first + i - 1].frame] \in Seq(Nat)
    BY <2>4
  <2>6. QED
    BY <2>5 DEF n
<1>6. Picked(after, keep) \in Seq(Sound)
  BY <1>4, PickFacts
<1> HIDE DEF after, keep, new
<1>7. got[u] \o new \in Seq(Nat)
  BY <1>2, <1>5, ConcatProperties
<1> HIDE DEF g
<1>8. AencTypes'
  BY <1>1, <1>2, <1>6, <1>7 DEF SessInv, AencTypes
<1>9. Numbers' /\ Threads' /\ Calls' /\ Apart'
  BY <1>1 DEF SessInv, Numbers, Member, Threads, Alive, Calls, Deserted, Apart
<1>10. QED
  BY <1>8, <1>9 DEF SessInv

(* A cancel begins in a session that runs.                                 *)
LEMMA CancelsKeeps ==
  ASSUME SessInv, NEW u \in AUser, Cancels(u)
  PROVE  SessInv'
<1>1. /\ upc[u] = "in" /\ run_flag /\ Goes(u, "using")
      /\ UNCHANGED <<run_flag, read_flag, ad_sem, enc_sem, encode_buf, frame_data, undefined,
                     pcm_rb, read_map, rb_locked, unread, req_ref, req_map, aenc_data, pcm_pc,
                     pcm_frames, enc_pc, enc_grp, enc_entry, ugroup, req_nr, got,
                     request_mutex>>
  BY DEF Cancels, SessInv, Calls, aencFlags, aencSems, bufferVars, ringVars, groupVars, pcmVars, encVars, aencLocks
<1>2. Moves(u, "using")
  BY <1>1, CallMoves DEF SessInv, Place, Busy
<1>3. AencTypes'
  BY <1>1, <1>2 DEF SessInv, AencTypes, Place, Moves
<1>4. Numbers'
  BY <1>1, <1>2, NumbersStay DEF SessInv, Member, Moves
<1>5. Threads' /\ Calls'
  BY <1>1, <1>2 DEF SessInv, Threads, Alive, Calls, Deserted, Moves
<1>6. Apart'
  BY <1>1, <1>2, ApartMoves DEF SessInv, Leaving, Place, Busy
<1>7. QED
  BY <1>3, <1>4, <1>5, <1>6 DEF SessInv

(* A member leaves its group, whose count follows.                         *)
LEMMA LeavesFacts ==
  ASSUME SessInv, NEW u \in AUser, LeavesGroup(u)
  PROVE  /\ AencTypes' /\ Numbers'
         /\ upc[u] = "using" /\ Moves(u, "others")
         /\ ugroup[u] \in AGroup /\ req_ref'[ugroup[u]] = req_ref[ugroup[u]] - 1
         /\ \A h \in AGroup \ {ugroup[u]} : req_ref'[h] = req_ref[h]
         /\ UNCHANGED <<run_flag, read_flag, encode_buf, frame_data, pcm_rb, read_map, rb_locked, pcm_pc,
                        enc_pc, ugroup, request_mutex>>
         /\ undefined' = LeaveCrosses(u)
<1> DEFINE g == ugroup[u]
           n == req_nr[u]
<1>1. /\ upc[u] = "using" /\ Goes(u, "others")
      /\ req_ref' = [req_ref EXCEPT ![g] = @ - 1]
      /\ req_map' = [req_map EXCEPT ![g] = @ \ {n}]
      /\ undefined' = LeaveCrosses(u)
      /\ UNCHANGED <<run_flag, read_flag, ad_sem, enc_sem, encode_buf, frame_data, pcm_rb,
                     read_map, rb_locked, unread, aenc_data, pcm_pc, pcm_frames, enc_pc,
                     enc_grp, enc_entry, ugroup, req_nr, got, request_mutex>>
  BY DEF LeavesGroup, aencFlags, aencSems, ringVars, pcmVars, encVars
<1>2. /\ g \in AGroup /\ req_map[g] \subseteq 0..MaxAencUser - 1 /\ req_ref[g] = Cardinality(req_map[g])
      /\ req_ref[g] \in Nat /\ n \in req_map[g] /\ Member(u)
  BY <1>1 DEF SessInv, AencTypes, Numbers, Member
<1>3. Moves(u, "others")
  BY <1>1, CallMoves DEF SessInv, Place, Busy
<1>4. Cardinality(req_map[g] \ {n}) = req_ref[g] - 1 /\ req_ref[g] - 1 \in Nat
  <2>1. IsFiniteSet(0..MaxAencUser - 1)
    BY AencAssumption, FS_Interval
  <2>2. IsFiniteSet(req_map[g])
    BY <1>2, <2>1, FS_Subset
  <2>3. Cardinality(req_map[g] \ {n}) = Cardinality(req_map[g]) - 1 /\ IsFiniteSet(req_map[g] \ {n})
    BY <1>2, <2>2, FS_RemoveElement
  <2>4. Cardinality(req_map[g] \ {n}) \in Nat
    BY <2>3, FS_CardinalityType
  <2>5. QED
    BY <1>2, <2>3, <2>4
<1>5. /\ req_map' \in [AGroup -> SUBSET (0..MaxAencUser - 1)] /\ req_map'[g] = req_map[g] \ {n}
      /\ \A h \in AGroup \ {g} : req_map'[h] = req_map[h] /\ req_ref'[h] = req_ref[h]
      /\ req_ref' \in [AGroup -> Nat] /\ req_ref'[g] = req_ref[g] - 1
  BY <1>1, <1>2, <1>4 DEF SessInv, AencTypes
<1>6. AencTypes'
  <2>1. undefined' \in BOOLEAN
    BY <1>1 DEF LeaveCrosses
  <2>2. QED
    BY <1>1, <1>3, <1>5, <2>1 DEF SessInv, AencTypes, Place, Moves
<1>7. Numbers'
  <2>1. \A h \in AGroup : req_ref'[h] = Cardinality(req_map'[h])
    BY <1>4, <1>5 DEF SessInv, Numbers
  <2>2. ~Member(u)' /\ \A v \in AUser \ {u} : (Member(v)' <=> Member(v))
    BY <1>1, <1>3 DEF Member, Moves
  <2>3. ASSUME NEW h \in AGroup, NEW k \in req_map'[h]
        PROVE  \E v \in AUser : Member(v)' /\ ugroup'[v] = h /\ req_nr'[v] = k
    <3>1. k \in req_map[h] /\ ~(h = g /\ k = n)
      BY <1>5, <2>3
    <3>2. PICK v \in AUser : Member(v) /\ ugroup[v] = h /\ req_nr[v] = k
      BY <3>1 DEF SessInv, Numbers
    <3>3. v # u
      BY <3>1, <3>2
    <3>4. QED
      BY <1>1, <2>2, <3>2, <3>3
  <2>4. ASSUME NEW v \in AUser, Member(v)' PROVE req_nr'[v] \in req_map'[ugroup'[v]]
    <3>1. v # u /\ Member(v)
      BY <2>2, <2>4
    <3>2. req_nr[v] \in req_map[ugroup[v]] /\ ~(ugroup[v] = g /\ req_nr[v] = n) /\ ugroup[v] \in AGroup
      BY <1>2, <3>1 DEF SessInv, Numbers, AencTypes
    <3>3. QED
      BY <1>1, <1>5, <3>2
  <2>5. \A v, w \in AUser : Member(v)' /\ Member(w)' /\ ugroup'[v] = ugroup'[w] /\ req_nr'[v] = req_nr'[w] => v = w
    BY <1>1, <2>2 DEF SessInv, Numbers
  <2>6. QED
    BY <2>1, <2>3, <2>4, <2>5 DEF Numbers
<1>8. QED
  BY <1>1, <1>2, <1>3, <1>5, <1>6, <1>7

(* Unless it crosses a call that hangs on its group or on the session, the *)
(* session goes on.                                                        *)
LEMMA LeavesKeeps ==
  ASSUME SessInv, NEW u \in AUser, LeavesGroup(u), ~undefined'
  PROVE  SessInv'
<1> DEFINE g == ugroup[u]
<1>1. /\ AencTypes' /\ Numbers'
      /\ upc[u] = "using" /\ Moves(u, "others")
      /\ g \in AGroup /\ req_ref'[g] = req_ref[g] - 1
      /\ \A h \in AGroup \ {g} : req_ref'[h] = req_ref[h]
      /\ UNCHANGED <<run_flag, read_flag, encode_buf, frame_data, pcm_rb, read_map, rb_locked, pcm_pc,
                     enc_pc, ugroup, request_mutex>>
  BY LeavesFacts
<1>2. req_ref[g] > 0 /\ \A h \in AGroup : req_ref[h] \in Nat
  BY <1>1, UserCounts DEF Member, SessInv, AencTypes
<1>3. ~Deserted /\ run_flag
  BY <1>1, <1>2 DEF Deserted, SessInv, Calls
<1>4. /\ upc'[u] = "others"
      /\ \A v \in AUser \ {u} : upc'[v] = upc[v] /\ ugroup'[v] = ugroup[v] /\ ugroup[v] \in AGroup
      /\ \A v \in AUser : upc[v] \in Place
  BY <1>1 DEF Moves, SessInv, AencTypes, Place
<1>5. ASSUME Deserted', NEW v \in AUser \ {u} PROVE upc'[v] = "out"
  <2>1. req_ref'[g] = 0 /\ \A h \in AGroup \ {g} : req_ref[h] = 0
    BY <1>1, <1>5 DEF Deserted
  <2>2. req_ref[g] = 1
    BY <1>1, <1>2, <2>1
  <2>3. upc[v] \in {"out", "in"}
    BY <2>1, <2>2, LeavesFacts DEF LeaveCrosses
  <2>4. ~Member(v)'
    <3>1. ASSUME NEW w \in AUser PROVE ~Member(w)'
      BY <1>1, <1>5, NobodyInNext
    <3>2. QED
      BY <3>1
  <2>5. QED
    BY <1>4, <2>3, <2>4 DEF Member
<1>6. ASSUME NEW v \in AUser \ {u}, upc[v] \in {"wait", "slot"}, ugroup[v] = g PROVE req_ref'[g] # 0
  <2>1. req_ref[g] # 1
    BY <1>6, LeavesFacts DEF LeaveCrosses
  <2>2. QED
    BY <1>1, <1>2, <2>1
<1>7. Threads'
  BY <1>1 DEF SessInv, Threads, Alive
<1>8. Calls'
  <2>1. \A v \in AUser : upc[v] \notin {"stop", "pcm", "enc"}
    BY <1>3 DEF SessInv, Calls
  <2>2. \A v \in AUser \ {u} : upc[v] = "clean" => ~Deserted'
    BY <1>4, <1>5
  <2>3. QED
    BY <1>1, <1>3, <1>4, <2>1, <2>2 DEF SessInv, Calls
<1>9. Apart'
  <2> SUFFICES ASSUME NEW x \in AUser, NEW y \in AUser, x # y
               PROVE  /\ upc'[x] = "wait" => upc'[y] = "out"
                      /\ upc'[x] \in Leaving /\ Deserted' => upc'[y] = "out"
                      /\ upc'[x] \in {"wait", "slot"} /\ upc'[y] \in Leaving /\ ugroup'[y] = ugroup'[x]
                           => req_ref'[ugroup'[x]] # 0
    BY DEF Apart
  <2>0. /\ upc[x] = "wait" => upc[y] = "out"
        /\ upc[x] \in {"wait", "slot"} /\ upc[y] \in Leaving /\ ugroup[y] = ugroup[x] => req_ref[ugroup[x]] # 0
    BY DEF SessInv, Apart
  <2>1. CASE x = u
    BY <1>4, <1>5, <2>1
  <2>2. CASE x # u /\ y = u
    <3>1. ~(upc'[x] \in Leaving /\ Deserted')
      BY <1>4, <1>5, <2>2 DEF Leaving
    <3>2. upc[x] # "wait"
      BY <1>1, <2>0, <2>2
    <3>3. QED
      BY <1>1, <1>4, <1>6, <2>2, <3>1, <3>2
  <2>3. CASE x # u /\ y # u
    <3>1. ~(upc'[x] \in Leaving /\ Deserted')
      BY <1>4, <1>5, <2>3 DEF Leaving
    <3>2. QED
      BY <1>1, <1>4, <1>6, <2>0, <2>3, <3>1
  <2>4. QED
    BY <2>1, <2>2, <2>3
<1>10. QED
  BY <1>1, <1>7, <1>8, <1>9 DEF SessInv

(* Threads are stopped by the last member only.                            *)
LEMMA LooksKeeps ==
  ASSUME SessInv, NEW u \in AUser, LooksForOthers(u)
  PROVE  SessInv'
<1> DEFINE to == IF \E g \in AGroup : req_ref[g] > 0 THEN "clean" ELSE "stop"
<1>1. /\ upc[u] = "others" /\ Goes(u, to)
      /\ UNCHANGED <<run_flag, read_flag, ad_sem, enc_sem, encode_buf, frame_data, undefined,
                     pcm_rb, read_map, rb_locked, unread, req_ref, req_map, aenc_data, pcm_pc,
                     pcm_frames, enc_pc, enc_grp, enc_entry, ugroup, req_nr, got,
                     request_mutex>>
  BY DEF LooksForOthers, aencFlags, aencSems, bufferVars, ringVars, groupVars, pcmVars, encVars, aencLocks
<1>2. to \in Place
  BY DEF Place, Busy
<1>3. Moves(u, to)
  BY <1>1, <1>2, CallMoves DEF SessInv
<1>4. run_flag /\ \A g \in AGroup : req_ref[g] \in Nat
  BY <1>1 DEF SessInv, Calls, AencTypes
<1>5. to = "clean" => ~Deserted
  BY <1>4 DEF Deserted
<1>6. to = "stop" => Deserted
  BY <1>4 DEF Deserted
<1>7. to \in {"clean", "stop"}
  OBVIOUS
<1> HIDE DEF to
<1>8. AencTypes'
  BY <1>1, <1>3 DEF SessInv, AencTypes, Place, Moves
<1>9. Numbers'
  BY <1>1, <1>3, <1>7, NumbersStay DEF SessInv, Member, Moves
<1>10. Threads' /\ Calls'
  BY <1>1, <1>3, <1>4, <1>5, <1>6, <1>7 DEF SessInv, Threads, Alive, Calls, Deserted, Moves
<1>11. Apart'
  BY <1>1, <1>2, <1>3, <1>7, ApartMoves DEF SessInv, Leaving
<1>12. QED
  BY <1>8, <1>9, <1>10, <1>11 DEF SessInv

(* The flags go down when no group counts anybody.                         *)
LEMMA StopsKeeps ==
  ASSUME SessInv, NEW u \in AUser, StopsThreads(u)
  PROVE  SessInv'
<1>1. /\ upc[u] = "stop" /\ Goes(u, "pcm") /\ ~read_flag' /\ ~run_flag'
      /\ {read_flag, run_flag}' \subseteq BOOLEAN /\ ad_sem' = ad_sem + 1
      /\ UNCHANGED <<enc_sem, encode_buf, frame_data, undefined, pcm_rb, read_map, rb_locked,
                     unread, req_ref, req_map, aenc_data, pcm_pc, pcm_frames, enc_pc, enc_grp,
                     enc_entry, ugroup, req_nr, got, request_mutex>>
  BY DEF StopsThreads, bufferVars, ringVars, groupVars, pcmVars, encVars, aencLocks
<1>2. Moves(u, "pcm")
  BY <1>1, CallMoves DEF SessInv, Place, Busy
<1>3. Deserted /\ \A v \in AUser \ {u} : upc'[v] = "out"
  BY <1>1, <1>2 DEF SessInv, Calls, Apart, Leaving, Moves
<1>4. AencTypes'
  BY <1>1, <1>2 DEF SessInv, AencTypes, Place, Moves
<1>5. Numbers'
  BY <1>1, <1>2, NumbersStay DEF SessInv, Member, Moves
<1>6. Threads'
  BY <1>1 DEF SessInv, Threads, Alive
<1>7. Calls'
  BY <1>1, <1>2, <1>3 DEF Calls, Deserted, Moves
<1>8. Apart'
  BY <1>1, <1>2, ApartMoves DEF SessInv, Leaving, Place, Busy
<1>9. QED
  BY <1>4, <1>5, <1>6, <1>7, <1>8 DEF SessInv

(* The sound thread is gone before the encode thread is waited for.        *)
LEMMA JoinsPcmKeeps ==
  ASSUME SessInv, NEW u \in AUser, JoinsPcm(u)
  PROVE  SessInv'
<1>1. /\ upc[u] = "pcm" /\ Goes(u, "enc") /\ pcm_pc = "none" /\ enc_sem' = enc_sem + 1
      /\ UNCHANGED <<run_flag, read_flag, ad_sem, encode_buf, frame_data, undefined, pcm_rb,
                     read_map, rb_locked, unread, req_ref, req_map, aenc_data, pcm_pc,
                     pcm_frames, enc_pc, enc_grp, enc_entry, ugroup, req_nr, got,
                     request_mutex>>
  BY DEF JoinsPcm, PcmJoined, aencFlags, bufferVars, ringVars, groupVars, pcmVars, encVars, aencLocks
<1>2. Moves(u, "enc")
  BY <1>1, CallMoves DEF SessInv, Place, Busy
<1>3. AencTypes'
  BY <1>1, <1>2 DEF SessInv, AencTypes, Place, Moves
<1>4. Numbers'
  BY <1>1, <1>2, NumbersStay DEF SessInv, Member, Moves
<1>5. Threads' /\ Calls'
  BY <1>1, <1>2 DEF SessInv, Threads, Alive, Calls, Deserted, Moves
<1>6. Apart'
  BY <1>1, <1>2, ApartMoves DEF SessInv, Leaving, Place, Busy
<1>7. QED
  BY <1>3, <1>4, <1>5, <1>6 DEF SessInv

(* The ring goes after both threads.                                       *)
LEMMA JoinsEncodeKeeps ==
  ASSUME SessInv, NEW u \in AUser, JoinsEncode(u)
  PROVE  SessInv'
<1>1. /\ upc[u] = "enc" /\ Goes(u, "clean") /\ enc_pc = "none"
      /\ ~pcm_rb' /\ ~rb_locked' /\ ~encode_buf' /\ ad_sem' = 0 /\ enc_sem' = 0
      /\ {pcm_rb, rb_locked, encode_buf}' \subseteq BOOLEAN
      /\ UNCHANGED <<run_flag, read_flag, frame_data, undefined, read_map, unread, req_ref,
                     req_map, aenc_data, pcm_pc, pcm_frames, enc_pc, enc_grp, enc_entry, ugroup,
                     req_nr, got, request_mutex>>
  BY DEF JoinsEncode, aencFlags, groupVars, pcmVars, encVars, aencLocks
<1>2. Moves(u, "clean")
  BY <1>1, CallMoves DEF SessInv, Place, Busy
<1>3. pcm_pc = "none" /\ ~run_flag /\ ~read_flag /\ \A v \in AUser \ {u} : upc'[v] = "out"
  BY <1>1, <1>2 DEF SessInv, Calls, Apart, Leaving, Moves
<1>4. AencTypes'
  BY <1>1, <1>2 DEF SessInv, AencTypes, Place, Moves
<1>5. Numbers'
  BY <1>1, <1>2, NumbersStay DEF SessInv, Member, Moves
<1>6. Threads'
  BY <1>1, <1>3 DEF SessInv, Threads, Alive
<1>7. Calls'
  BY <1>1, <1>2, <1>3 DEF Calls, Deserted, Moves
<1>8. Apart'
  BY <1>1, <1>2, ApartMoves DEF SessInv, Leaving, Place, Busy
<1>9. QED
  BY <1>4, <1>5, <1>6, <1>7, <1>8 DEF SessInv

(* A group that nobody is in leaves the readers.                           *)
LEMMA CleansKeeps ==
  ASSUME SessInv, NEW u \in AUser, CleansUp(u)
  PROVE  SessInv'
<1> DEFINE g == ugroup[u]
           last == req_ref[g] <= 0
           q == aenc_data[g]
           keep == {i \in DOMAIN q : q[i].map # {req_nr[u]}}
<1>1. /\ upc[u] = "clean" /\ Goes(u, "out")
      /\ read_map' = IF pcm_rb /\ last THEN read_map \ {g} ELSE read_map
      /\ frame_data' = [frame_data EXCEPT ![g] = @ /\ ~last]
      /\ aenc_data' = [aenc_data EXCEPT ![g] = IF last THEN <<>> ELSE Picked(q, keep)]
      /\ ugroup' = [ugroup EXCEPT ![u] = 1] /\ req_nr' = [req_nr EXCEPT ![u] = 0]
      /\ got' = [got EXCEPT ![u] = <<>>]
      /\ UNCHANGED <<run_flag, read_flag, ad_sem, enc_sem, encode_buf, undefined, pcm_rb,
                     rb_locked, unread, req_ref, req_map, pcm_pc, pcm_frames, enc_pc, enc_grp,
                     enc_entry, request_mutex>>
  BY DEF CleansUp, aencFlags, aencSems, pcmVars, encVars
<1>2. g \in AGroup /\ q \in Seq(Sound) /\ \A h \in AGroup : req_ref[h] \in Nat
  BY DEF SessInv, AencTypes
<1>3. Moves(u, "out")
  BY <1>1, CallMoves DEF SessInv, Place
<1>4. Picked(q, keep) \in Seq(Sound)
  BY <1>2, PickFacts
<1>5. aenc_data' \in [AGroup -> Seq(Sound)]
  BY <1>1, <1>2, <1>4, EmptySeq DEF SessInv, AencTypes
<1> HIDE DEF keep, q
<1>6. /\ ugroup' \in [AUser -> AGroup] /\ req_nr' \in [AUser -> Nat]
      /\ \A v \in AUser \ {u} : ugroup'[v] = ugroup[v] /\ req_nr'[v] = req_nr[v]
  <2>1. 1 \in AGroup
    BY DEF AGroup
  <2>2. QED
    BY <1>1, <2>1 DEF SessInv, AencTypes
<1>7. got' \in [AUser -> Seq(Nat)]
  BY <1>1, EmptySeq DEF SessInv, AencTypes
<1>8. /\ frame_data' \in [AGroup -> BOOLEAN] /\ read_map' \subseteq read_map
      /\ \A h \in AGroup : frame_data[h] /\ (h = g => ~last) => frame_data'[h]
      /\ \A h \in AGroup : h \in read_map /\ (h = g => ~last) => h \in read_map'
  BY <1>1, <1>2 DEF SessInv, AencTypes
<1>9. AencTypes'
  BY <1>1, <1>3, <1>5, <1>6, <1>7, <1>8 DEF SessInv, AencTypes, Place, Moves
<1>10. Numbers'
  BY <1>1, <1>3, <1>6, NumbersStay DEF SessInv, Member, Moves
<1>11. \A v \in AUser : Member(v) => ugroup[v] \in AGroup /\ req_ref[ugroup[v]] > 0
  BY UserCounts DEF SessInv, AencTypes
<1>12. last <=> req_ref[g] = 0
  BY <1>2
<1> HIDE DEF last
<1>13. read_flag => read_map' # {}
  <2> SUFFICES ASSUME read_flag PROVE read_map' # {}
    OBVIOUS
  <2>1. PICK h \in AGroup : req_ref[h] > 0
    BY <1>1, <1>2 DEF SessInv, Calls, Deserted
  <2>2. PICK v \in AUser : Member(v) /\ ugroup[v] = h
    BY <2>1, SomebodyIn DEF SessInv
  <2>3. h \in read_map
    BY <2>2 DEF SessInv, Calls, Member
  <2>4. h = g => ~last
    BY <1>12, <2>1
  <2>5. QED
    BY <1>8, <2>3, <2>4
<1>14. Threads'
  BY <1>1, <1>13 DEF SessInv, Threads, Alive
<1>15. ASSUME NEW v \in AUser, upc'[v] \in {"wait", "slot", "in", "using"}
       PROVE  ugroup'[v] \in read_map' /\ frame_data'[ugroup'[v]]
  <2>1. v # u /\ upc'[v] = upc[v] /\ ugroup'[v] = ugroup[v] /\ ugroup[v] \in AGroup
    BY <1>3, <1>6, <1>15 DEF Moves, SessInv, AencTypes
  <2>2. ugroup[v] \in read_map /\ frame_data[ugroup[v]]
    BY <1>15, <2>1 DEF SessInv, Calls
  <2>3. ugroup[v] = g => ~last
    <3>1. Member(v) => req_ref[ugroup[v]] > 0
      BY <1>11
    <3>2. upc[v] \in {"wait", "slot"} /\ ugroup[v] = g => req_ref[g] # 0
      BY <1>1, <2>1 DEF SessInv, Apart, Leaving
    <3>3. QED
      BY <1>12, <1>15, <2>1, <3>1, <3>2 DEF Member
  <2>4. QED
    BY <1>8, <2>1, <2>2, <2>3
<1>16. Calls'
  BY <1>1, <1>3, <1>15 DEF SessInv, Calls, Deserted, Moves
<1>17. Apart'
  BY <1>1, <1>3, <1>6, ApartMoves DEF SessInv, Leaving, Place
<1>18. QED
  BY <1>9, <1>10, <1>14, <1>16, <1>17 DEF SessInv

(* No step ends the session under its threads; where calls cross, what is  *)
(* left is who is a member and everything's kind.                          *)
LEMMA SessStep ==
  ASSUME SessInv, [AencNext]_aencVars PROVE AencTypes' /\ Numbers' /\ (~undefined' => SessInv')
<1>1. CASE UNCHANGED aencVars
  BY <1>1 DEF aencVars, aencFlags, aencSems, bufferVars, ringVars, groupVars, pcmVars, encVars, userVars,
              aencLocks, SessInv, AencTypes, Numbers, Member, Threads, Alive, Calls, Deserted, Apart
<1>2. ASSUME NEW u \in AUser, NEW g \in AGroup, RequestsRing(u, g)
      PROVE  AencTypes' /\ Numbers' /\ (~undefined' => SessInv')
  BY <1>2, RequestFacts, RequestKeeps
<1>3. ASSUME NEW u \in AUser, LeavesGroup(u) PROVE AencTypes' /\ Numbers' /\ (~undefined' => SessInv')
  BY <1>3, LeavesFacts, LeavesKeeps
<1>4. CASE PcmStep \/ EncStep \/ \E u \in AUser : RequestStep(u) \/ ak_aenc_get_stream(u) \/ Cancels(u)
  BY <1>4, ThreadsKeepSession, StartKeeps, JoinKeeps, GetKeeps, CancelsKeeps DEF RequestStep, SessInv
<1>5. ASSUME NEW u \in AUser, CancelStep(u) PROVE AencTypes' /\ Numbers' /\ (~undefined' => SessInv')
  BY <1>3, <1>5, LooksKeeps, StopsKeeps, JoinsPcmKeeps, JoinsEncodeKeeps, CleansKeeps DEF CancelStep, SessInv
<1>6. QED
  BY <1>1, <1>2, <1>3, <1>4, <1>5 DEF AencNext

-----------------------------------------------------------------------------
(* Nothing is read from the ring nor put into it.                          *)
FlowStays == /\ pcm_frames' = pcm_frames
             /\ \A g \in AGroup : /\ unread'[g] = unread[g] \/ unread'[g] = <<>>
                                  /\ Pushing(g)' => Pushing(g) /\ enc_entry' = enc_entry

(* Only the writer and the encode thread move sound.                       *)
LEMMA OthersStay ==
  ASSUME [AencNext]_aencVars, ~read_to_encode, ~EncodeReads PROVE FlowStays
<1> USE DEF FlowStays, Pushing, Goes
<1>1. CASE UNCHANGED aencVars
  BY <1>1 DEF aencVars, pcmVars, encVars, ringVars
<1>2. CASE PcmStep
  BY <1>2 DEF PcmStep, PcmWakes, PcmLeavesLoop, ringVars, encVars
<1>3. CASE EncStep
  <2>1. pcm_frames' = pcm_frames /\ unread' = unread /\ enc_pc' # "push"
    BY <1>3 DEF EncStep, EncodeWakes, EncodeLooks, EncodeLocks, push_audio_queue, EncodeUnlocks,
                NextGroup, EncodeStep, pcmVars
  <2>2. QED
    BY <2>1
<1>4. CASE \E u \in AUser, g \in AGroup : RequestsRing(u, g)
  <2>1. /\ UNCHANGED <<pcm_frames, enc_pc, enc_grp, enc_entry>>
        /\ unread' = unread \/ unread' = [h \in AGroup |-> <<>>]
    BY <1>4 DEF RequestsRing, pcmVars, encVars
  <2>2. QED
    BY <2>1
<1>5. CASE \E u \in AUser : RequestStep(u)
  <2>1. /\ pcm_frames' = pcm_frames /\ unread' = unread
        /\ enc_pc' = "sleep" \/ UNCHANGED encVars
    BY <1>5 DEF RequestStep, start_encode_ctrl, JoinsGroup, ringVars, pcmVars, encVars
  <2>2. QED
    BY <2>1 DEF encVars
<1>6. CASE \E u \in AUser : ak_aenc_get_stream(u) \/ Cancels(u) \/ CancelStep(u)
  <2>1. UNCHANGED <<pcm_frames, unread, enc_pc, enc_grp, enc_entry>>
    BY <1>6 DEF ak_aenc_get_stream, Cancels, CancelStep, LeavesGroup, LooksForOthers, StopsThreads, JoinsPcm,
                JoinsEncode, CleansUp, ringVars, pcmVars, encVars
  <2>2. QED
    BY <2>1
<1>7. QED
  BY <1>1, <1>2, <1>3, <1>4, <1>5, <1>6 DEF AencNext

(* The frames of a group stay in order; what is before them stays before   *)
(* them.                                                                   *)
LEMMA StreamKeeps ==
  ASSUME SessInv, StreamOrder, [AencNext]_aencVars
  PROVE  StreamOrder' /\ \A f \in Nat, g \in AGroup : Ahead(f, g) => Ahead(f, g)'
<1>0. /\ unread \in [AGroup -> Seq(Nat)] /\ pcm_frames \in Nat /\ enc_grp \in AGroup
      /\ enc_entry.frame \in Nat
  BY DEF SessInv, AencTypes, Sound
<1>1. CASE read_to_encode
  <2>1. read_map # {}
    BY <1>1 DEF read_to_encode, SessInv, Threads
  <2>2. /\ pcm_frames' = pcm_frames + 1 /\ UNCHANGED <<enc_pc, enc_grp, enc_entry>>
        /\ \E overrun \in SUBSET AGroup :
             /\ \A g \in overrun : Len(unread[g]) + 1 >= RingLen
             /\ \A g \in AGroup \ overrun : Len(unread[g]) < RingLen
             /\ unread' = [g \in AGroup |-> Written(g, overrun)]
    <3>1. pcm_frames' = pcm_frames + 1 /\ UNCHANGED <<enc_pc, enc_grp, enc_entry>>
      BY <1>1, <2>1 DEF read_to_encode, encVars
    <3>2. PICK overrun \in SUBSET {g \in AGroup : Len(unread[g]) + 1 >= RingLen} :
            /\ \A g \in AGroup \ overrun : Len(unread[g]) < RingLen
            /\ unread' = [g \in AGroup |-> Written(g, overrun)]
      BY <1>1, <2>1 DEF read_to_encode, Written
    <3>3. QED
      BY <3>1, <3>2
  <2>3. ASSUME NEW g \in AGroup
        PROVE  \E s \in Nat : \A j \in DOMAIN unread'[g] :
                 /\ j \in Nat /\ j + s \in 1..Len(unread[g]) + 1
                 /\ unread'[g][j] = Append(unread[g], pcm_frames')[j + s]
    <3>1. PICK overrun \in SUBSET AGroup :
            /\ \A h \in overrun : Len(unread[h]) + 1 >= RingLen
            /\ \A h \in AGroup \ overrun : Len(unread[h]) < RingLen
            /\ unread' = [h \in AGroup |-> Written(h, overrun)]
      BY <2>2
    <3>2. unread'[g] = Written(g, overrun)
      BY <3>1
    <3>3. QED
      BY <2>2, <3>1, <3>2, WrittenFacts DEF SessInv
  <2>4. ASSUME NEW g \in AGroup, NEW j \in 1..Len(unread[g]) + 1
        PROVE  /\ Len(unread[g]) \in Nat /\ DOMAIN unread[g] = 1..Len(unread[g])
               /\ \/ j \in DOMAIN unread[g] /\ Append(unread[g], pcm_frames')[j] = unread[g][j]
                  \/ j = Len(unread[g]) + 1 /\ Append(unread[g], pcm_frames')[j] = pcm_frames + 1
    BY <1>0, <2>2, AppendProperties, LenProperties
  <2>5. ASSUME NEW g \in AGroup
        PROVE  /\ Rising(unread'[g])
               /\ \A j \in DOMAIN unread'[g] : /\ unread'[g][j] <= pcm_frames'
                                               /\ unread'[g][j] = pcm_frames + 1
                                                    \/ \E i \in DOMAIN unread[g] : unread'[g][j] = unread[g][i]
    <3> DEFINE q == Append(unread[g], pcm_frames')
    <3>1. PICK s \in Nat : \A j \in DOMAIN unread'[g] :
            /\ j \in Nat /\ j + s \in 1..Len(unread[g]) + 1
            /\ unread'[g][j] = q[j + s]
      BY <2>3
    <3>2. \A j \in 1..Len(unread[g]) + 1 : /\ q[j] <= pcm_frames + 1 /\ q[j] \in Nat
                                           /\ q[j] = pcm_frames + 1 \/ \E i \in DOMAIN unread[g] : q[j] = unread[g][i]
      BY <1>0, <2>4 DEF StreamOrder
    <3>3. \A i, j \in 1..Len(unread[g]) + 1 : i < j => q[i] < q[j]
      BY <1>0, <2>4 DEF StreamOrder, Rising
    <3> HIDE DEF q
    <3>4. Rising(unread'[g])
      BY <3>1, <3>3 DEF Rising
    <3>5. QED
      BY <2>2, <3>1, <3>2, <3>4
  <2>6. StreamOrder'
    <3>1. \A g \in AGroup : Pushing(g)' => Pushing(g) /\ enc_entry' = enc_entry
      BY <2>2 DEF Pushing
    <3>2. ASSUME NEW g \in AGroup, Pushing(g)
          PROVE  /\ enc_entry.frame <= pcm_frames + 1
                 /\ \A j \in DOMAIN unread'[g] : enc_entry.frame < unread'[g][j]
      <4>1. /\ enc_entry.frame <= pcm_frames
            /\ \A i \in DOMAIN unread[g] : enc_entry.frame < unread[g][i]
        BY <3>2 DEF StreamOrder
      <4>2. enc_entry.frame < pcm_frames + 1
        BY <1>0, <4>1
      <4>3. ASSUME NEW j \in DOMAIN unread'[g] PROVE enc_entry.frame < unread'[g][j]
        <5>1. unread'[g][j] = pcm_frames + 1 \/ \E i \in DOMAIN unread[g] : unread'[g][j] = unread[g][i]
          BY <2>5
        <5>2. QED
          BY <4>1, <4>2, <5>1
      <4>4. QED
        BY <1>0, <4>1, <4>3
    <3>3. QED
      BY <2>2, <2>5, <3>1, <3>2 DEF StreamOrder
  <2>7. \A f \in Nat, g \in AGroup : Ahead(f, g) => Ahead(f, g)'
    <3> SUFFICES ASSUME NEW f \in Nat, NEW g \in AGroup, Ahead(f, g) PROVE Ahead(f, g)'
      OBVIOUS
    <3>1. f < pcm_frames + 1 /\ f <= pcm_frames'
      BY <1>0, <2>2 DEF Ahead
    <3>2. \A j \in DOMAIN unread'[g] : f < unread'[g][j]
      BY <2>5, <3>1 DEF Ahead
    <3>3. QED
      BY <2>2, <3>1, <3>2 DEF Ahead, Pushing
  <2>8. QED
    BY <2>6, <2>7
<1>2. CASE EncodeReads
  <2> DEFINE h == enc_grp
  <2>1. /\ unread[h] # <<>> /\ enc_entry'.frame = Head(unread[h])
        /\ unread' = [unread EXCEPT ![h] = Tail(@)]
        /\ enc_pc' = "push" /\ enc_grp' = enc_grp /\ pcm_frames' = pcm_frames
    BY <1>2 DEF EncodeReads, Readable, EncodeStep, pcmVars
  <2>2. /\ Head(unread[h]) = unread[h][1] /\ Len(unread[h]) \in Nat \ {0}
        /\ Tail(unread[h]) \in Seq(Nat) /\ Len(Tail(unread[h])) = Len(unread[h]) - 1
        /\ \A j \in 1..Len(Tail(unread[h])) : Tail(unread[h])[j] = unread[h][j + 1]
    BY <1>0, <2>1, HeadTailProperties, EmptySeq, LenProperties
  <2>3. /\ DOMAIN unread[h] = 1..Len(unread[h]) /\ unread'[h] = Tail(unread[h])
        /\ DOMAIN unread'[h] = 1..Len(unread[h]) - 1
        /\ \A g \in AGroup \ {h} : unread'[g] = unread[g]
    BY <1>0, <2>1, <2>2, LenProperties
  <2>4. /\ 1 \in DOMAIN unread[h]
        /\ \A j \in DOMAIN unread'[h] : j \in Nat /\ 1 < j + 1 /\ j + 1 \in DOMAIN unread[h] /\ unread'[h][j] = unread[h][j + 1]
    BY <2>2, <2>3
  <2>5. \A g \in AGroup : Pushing(g)' <=> g = h
    BY <1>0, <2>1 DEF Pushing
  <2> HIDE DEF h
  <2>6. StreamOrder'
    <3>1. Rising(unread'[h]) /\ \A j \in DOMAIN unread'[h] : unread'[h][j] <= pcm_frames' /\ enc_entry'.frame < unread'[h][j]
      <4>1. /\ \A i, j \in DOMAIN unread[h] : i < j => unread[h][i] < unread[h][j]
            /\ \A j \in DOMAIN unread[h] : unread[h][j] <= pcm_frames
        BY <1>0 DEF StreamOrder, Rising, h
      <4>2. enc_entry'.frame = unread[h][1] /\ pcm_frames' = pcm_frames
        BY <2>1, <2>2
      <4>3. \A j \in DOMAIN unread'[h] : unread'[h][j] <= pcm_frames' /\ enc_entry'.frame < unread'[h][j]
        BY <2>4, <4>1, <4>2
      <4>4. \A i, j \in DOMAIN unread'[h] : i < j => i + 1 < j + 1
        BY <2>4
      <4>5. Rising(unread'[h])
        BY <2>4, <4>1, <4>4 DEF Rising
      <4>6. QED
        BY <4>3, <4>5
    <3>2. enc_entry'.frame <= pcm_frames'
      BY <1>0, <2>1, <2>2, <2>4 DEF StreamOrder, h
    <3>3. QED
      BY <2>1, <2>3, <2>5, <3>1, <3>2 DEF StreamOrder
  <2>7. \A f \in Nat, g \in AGroup : Ahead(f, g) => Ahead(f, g)'
    BY <2>1, <2>2, <2>3, <2>4, <2>5 DEF Ahead
  <2>8. QED
    BY <2>6, <2>7
<1>3. CASE FlowStays
  <2>1. \A g \in AGroup : \A j \in DOMAIN unread'[g] : j \in DOMAIN unread[g] /\ unread'[g][j] = unread[g][j]
    <3>1. DOMAIN <<>> = {}
      OBVIOUS
    <3>2. QED
      BY <1>3, <3>1 DEF FlowStays
  <2>2. StreamOrder'
    BY <1>3, <2>1 DEF FlowStays, StreamOrder, Rising
  <2>3. \A f \in Nat, g \in AGroup : Ahead(f, g) => Ahead(f, g)'
    BY <1>3, <2>1 DEF FlowStays, Ahead
  <2>4. QED
    BY <2>2, <2>3
<1>4. QED
  BY <1>1, <1>2, <1>3, OthersStay

(* A queue is in the order of its frames.                                  *)
FramesRise(q) == \A i, j \in DOMAIN q : i < j => q[i].frame < q[j].frame

(* Entries that stay of a queue in order are in order.                     *)
LEMMA PickedOrder ==
  ASSUME NEW q \in Seq(Sound), NEW keep \in SUBSET DOMAIN q, FramesRise(q)
  PROVE  /\ Picked(q, keep) \in Seq(Sound) /\ FramesRise(Picked(q, keep))
         /\ \A k \in DOMAIN Picked(q, keep) : \E i \in keep : Picked(q, keep)[k] = q[i]
<1> DEFINE c == Cardinality(keep)
           p == Picked(q, keep)
<1>1. /\ p \in Seq(Sound) /\ DOMAIN p = 1..c
      /\ \A k \in 1..c : Kth(keep, k) \in keep /\ p[k] = q[Kth(keep, k)]
      /\ \A k, l \in 1..c : k < l => Kth(keep, k) < Kth(keep, l)
  BY PickFacts
<1> HIDE DEF c, p
<1>2. FramesRise(p)
  BY <1>1 DEF FramesRise
<1>3. \A k \in DOMAIN p : \E i \in keep : p[k] = q[i]
  BY <1>1
<1>4. QED
  BY <1>1, <1>2, <1>3 DEF p

(* The entry that is encoded goes to the end of the queue.                 *)
LEMMA PushFacts ==
  ASSUME AencInv, push_audio_queue
  PROVE  LET g == enc_grp IN
         /\ g \in AGroup /\ Pushing(g)
         /\ \A h \in AGroup \ {g} : aenc_data'[h] = aenc_data[h]
         /\ FramesRise(aenc_data'[g])
         /\ \A k \in DOMAIN aenc_data'[g] :
              \/ aenc_data'[g][k].frame = enc_entry.frame
              \/ \E i \in DOMAIN aenc_data[g] : aenc_data'[g][k] = aenc_data[g][i]
<1> DEFINE g == enc_grp
           q == aenc_data[g]
           e == [enc_entry EXCEPT !.map = req_map[g]]
           keep == {i \in DOMAIN q : e.frame - q[i].frame < MaxAge}
           p == Picked(q, keep)
<1>1. /\ g \in AGroup /\ Pushing(g) /\ aenc_data' = [aenc_data EXCEPT ![g] = Append(p, e)]
  BY DEF push_audio_queue, AencInv, SessInv, AencTypes, Pushing
<1>2. /\ q \in Seq(Sound) /\ FramesRise(q) /\ enc_entry \in Sound /\ req_map[g] \in SUBSET Nat
      /\ \A i \in DOMAIN q : q[i].frame < enc_entry.frame
  BY <1>1 DEF AencInv, SessInv, AencTypes, QueueOrder, FramesRise, Ahead
<1>3. e \in Sound /\ e.frame = enc_entry.frame
  BY <1>2 DEF Sound
<1>4. /\ p \in Seq(Sound) /\ FramesRise(p)
      /\ \A k \in DOMAIN p : \E i \in DOMAIN q : p[k] = q[i]
  <2>1. keep \in SUBSET DOMAIN q
    OBVIOUS
  <2> HIDE DEF keep, q
  <2>2. /\ Picked(q, keep) \in Seq(Sound) /\ FramesRise(Picked(q, keep))
        /\ \A k \in DOMAIN Picked(q, keep) : \E i \in keep : Picked(q, keep)[k] = q[i]
    BY <1>2, <2>1, PickedOrder
  <2>3. QED
    BY <2>1, <2>2
<1> HIDE DEF e, p, keep, q
<1>5. /\ Append(p, e) \in Seq(Sound) /\ Len(p) \in Nat /\ DOMAIN p = 1..Len(p)
      /\ DOMAIN Append(p, e) = 1..Len(p) + 1
      /\ Append(p, e)[Len(p) + 1] = e
      /\ \A k \in 1..Len(p) : Append(p, e)[k] = p[k]
  BY <1>3, <1>4, AppendProperties, LenProperties
<1>6. FramesRise(Append(p, e))
  <2>1. ASSUME NEW k \in 1..Len(p) + 1, NEW l \in 1..Len(p) + 1, k < l
        PROVE  Append(p, e)[k].frame < Append(p, e)[l].frame
    <3>1. k \in 1..Len(p)
      BY <1>5, <2>1
    <3>2. CASE l \in 1..Len(p)
      BY <1>4, <1>5, <2>1, <3>1, <3>2 DEF FramesRise
    <3>3. CASE l = Len(p) + 1
      BY <1>2, <1>3, <1>4, <1>5, <3>1, <3>3
    <3>4. QED
      BY <1>5, <3>2, <3>3
  <2>2. QED
    BY <1>5, <2>1 DEF FramesRise
<1>7. aenc_data'[g] = Append(p, e) /\ \A h \in AGroup \ {g} : aenc_data'[h] = aenc_data[h]
  BY <1>1 DEF AencInv, SessInv, AencTypes
<1>8. \A k \in DOMAIN Append(p, e) : \/ Append(p, e)[k].frame = enc_entry.frame
                                     \/ \E i \in DOMAIN q : Append(p, e)[k] = q[i]
  BY <1>3, <1>4, <1>5
<1>9. QED
  BY <1>1, <1>6, <1>7, <1>8 DEF q

(* What a user takes is from its first entry to the end of the queue; no   *)
(* entry that stays is its own any more, and none becomes another's.       *)
LEMMA GetFacts ==
  ASSUME AencInv, NEW u \in AUser, ak_aenc_get_stream(u)
  PROVE  LET g == ugroup[u]
             q == aenc_data[g]
             first == aenc_find_user(u, q)
             n == Len(q) - first + 1
         IN /\ g \in AGroup /\ upc[u] = "in" /\ UNCHANGED <<upc, ugroup, req_nr>>
            /\ first \in DOMAIN q /\ DOMAIN q = 1..Len(q) /\ Len(q) \in Nat
            /\ req_nr[u] \in q[first].map
            /\ got' = [got EXCEPT ![u] = @ \o [i \in 1..n |-> q[first + i - 1].frame]]
            /\ \A h \in AGroup \ {g} : aenc_data'[h] = aenc_data[h]
            /\ FramesRise(aenc_data'[g])
            /\ \A k \in DOMAIN aenc_data'[g] : \E i \in DOMAIN q :
                 /\ aenc_data'[g][k].frame = q[i].frame
                 /\ aenc_data'[g][k].map \subseteq q[i].map \ {req_nr[u]}
<1> DEFINE g == ugroup[u]
           q == aenc_data[g]
           first == aenc_find_user(u, q)
           n == Len(q) - first + 1
           Taken(e) == [frame |-> e.frame, ref |-> e.ref - 1, map |-> e.map \ {req_nr[u]}]
           after == [i \in DOMAIN q |-> IF i < first THEN q[i] ELSE Taken(q[i])]
           keep == {i \in DOMAIN q : i < first \/ after[i].ref > 0}
           p == Picked(after, keep)
<1>1. /\ first # 0 /\ upc[u] = "in" /\ UNCHANGED <<upc, ugroup, req_nr>>
      /\ got' = [got EXCEPT ![u] = @ \o [i \in 1..n |-> q[first + i - 1].frame]]
      /\ aenc_data' = [aenc_data EXCEPT ![g] = p]
  BY DEF ak_aenc_get_stream
<1>2. g \in AGroup /\ q \in Seq(Sound) /\ req_nr[u] \in Nat
  BY DEF AencInv, SessInv, AencTypes
<1>3. /\ first \in DOMAIN q /\ DOMAIN q = 1..Len(q) /\ Len(q) \in Nat /\ req_nr[u] \in q[first].map
      /\ \A i \in DOMAIN q : i < first => req_nr[u] \notin q[i].map
  BY <1>1, <1>2, FoundUser
<1>4. \A i, j \in DOMAIN q : i < j => q[i].frame < q[j].frame
  BY <1>2 DEF AencInv, QueueOrder
<1> HIDE DEF first, q
<1>5. \A i \in DOMAIN q : after[i] \in Sound /\ after[i].frame = q[i].frame /\ after[i].map \subseteq q[i].map \ {req_nr[u]}
  <2>1. \A i \in DOMAIN q : q[i] \in Sound
    BY <1>2
  <2>2. \A e \in Sound : Taken(e) \in Sound /\ Taken(e).frame = e.frame /\ Taken(e).map = e.map \ {req_nr[u]}
    BY DEF Sound
  <2> HIDE DEF Taken
  <2>3. QED
    BY <1>3, <2>1, <2>2
<1>6. DOMAIN after = DOMAIN q
  OBVIOUS
<1> HIDE DEF after
<1>7. after \in Seq(Sound) /\ FramesRise(after)
  <2>1. after = [i \in 1..Len(q) |-> after[i]]
    BY <1>3, <1>6 DEF after
  <2>2. after \in Seq(Sound)
    BY <1>3, <1>5, <2>1, IsASeq
  <2>3. QED
    BY <1>4, <1>5, <1>6, <2>2 DEF FramesRise
<1>8. /\ FramesRise(p) /\ \A k \in DOMAIN p : \E i \in DOMAIN q : p[k] = after[i]
  <2>1. keep \in SUBSET DOMAIN after /\ keep \in SUBSET DOMAIN q
    BY <1>6
  <2> HIDE DEF keep
  <2>2. /\ FramesRise(Picked(after, keep))
        /\ \A k \in DOMAIN Picked(after, keep) : \E i \in keep : Picked(after, keep)[k] = after[i]
    BY <1>7, <2>1, PickedOrder
  <2>3. QED
    BY <2>1, <2>2
<1>9. \A k \in DOMAIN p : \E i \in DOMAIN q : p[k].frame = q[i].frame /\ p[k].map \subseteq q[i].map \ {req_nr[u]}
  BY <1>5, <1>8
<1> HIDE DEF p
<1>10. aenc_data'[g] = p /\ \A h \in AGroup \ {g} : aenc_data'[h] = aenc_data[h]
  BY <1>1, <1>2 DEF AencInv, SessInv, AencTypes
<1> HIDE DEF g
<1>11. QED
  BY <1>1, <1>2, <1>3, <1>8, <1>9, <1>10 DEF g, q, first

(* What a cancel leaves in its group's queue was there before.             *)
LEMMA CleanFacts ==
  ASSUME AencInv, NEW u \in AUser, CleansUp(u)
  PROVE  LET g == ugroup[u] IN
         /\ g \in AGroup /\ \A h \in AGroup \ {g} : aenc_data'[h] = aenc_data[h]
         /\ FramesRise(aenc_data'[g])
         /\ \A k \in DOMAIN aenc_data'[g] : \E i \in DOMAIN aenc_data[g] : aenc_data'[g][k] = aenc_data[g][i]
<1> DEFINE g == ugroup[u]
           q == aenc_data[g]
           keep == {i \in DOMAIN q : q[i].map # {req_nr[u]}}
           p == Picked(q, keep)
<1>1. aenc_data' = [aenc_data EXCEPT ![g] = IF req_ref[g] <= 0 THEN <<>> ELSE p]
  BY DEF CleansUp
<1>2. g \in AGroup /\ q \in Seq(Sound) /\ FramesRise(q) /\ aenc_data \in [AGroup -> Seq(Sound)]
  BY DEF AencInv, SessInv, AencTypes, QueueOrder, FramesRise
<1>3. FramesRise(p) /\ \A k \in DOMAIN p : \E i \in DOMAIN q : p[k] = q[i]
  <2>1. keep \in SUBSET DOMAIN q
    OBVIOUS
  <2> HIDE DEF keep, q
  <2>2. /\ FramesRise(Picked(q, keep))
        /\ \A k \in DOMAIN Picked(q, keep) : \E i \in keep : Picked(q, keep)[k] = q[i]
    BY <1>2, <2>1, PickedOrder
  <2>3. QED
    BY <2>1, <2>2
<1>4. DOMAIN <<>> = {}
  OBVIOUS
<1> HIDE DEF p, q, g, keep
<1>5. aenc_data'[g] = (IF req_ref[g] <= 0 THEN <<>> ELSE p) /\ \A h \in AGroup \ {g} : aenc_data'[h] = aenc_data[h]
  BY <1>1, <1>2
<1>6. FramesRise(aenc_data'[g]) /\ \A k \in DOMAIN aenc_data'[g] : \E i \in DOMAIN q : aenc_data'[g][k] = q[i]
  BY <1>3, <1>4, <1>5 DEF FramesRise
<1>7. QED
  BY <1>2, <1>5, <1>6 DEF g, q

(* The entries of a queue after a step: those it had, with no new users,   *)
(* and the one that was encoded.                                           *)
Continues(g) ==
  /\ FramesRise(aenc_data'[g])
  /\ \A k \in DOMAIN aenc_data'[g] :
       \/ push_audio_queue /\ Pushing(g) /\ aenc_data'[g][k].frame = enc_entry.frame
       \/ \E i \in DOMAIN aenc_data[g] : /\ aenc_data'[g][k].frame = aenc_data[g][i].frame
                                         /\ aenc_data'[g][k].map \subseteq aenc_data[g][i].map
(* A user changes a queue.                                                 *)
Queues(u) == ak_aenc_get_stream(u) \/ CleansUp(u)

(* Otherwise only the encode thread does.                                  *)
LEMMA DataStays ==
  ASSUME [AencNext]_aencVars, ~push_audio_queue, \A u \in AUser : ~Queues(u)
  PROVE  aenc_data' = aenc_data
<1>1. CASE UNCHANGED aencVars
  BY <1>1 DEF aencVars, groupVars
<1>2. CASE PcmStep
  BY <1>2 DEF PcmStep, PcmWakes, read_to_encode, PcmLeavesLoop, groupVars
<1>3. CASE EncStep
  BY <1>3 DEF EncStep, EncodeWakes, EncodeLooks, EncodeLocks, EncodeReads, EncodeUnlocks
<1>4. ASSUME NEW u \in AUser, (\E g \in AGroup : RequestsRing(u, g)) \/ RequestStep(u) \/ Cancels(u)
                              \/ CancelStep(u)
      PROVE  aenc_data' = aenc_data
  BY <1>4 DEF RequestsRing, RequestStep, start_encode_ctrl, JoinsGroup, Cancels, CancelStep, LeavesGroup,
              LooksForOthers, StopsThreads, JoinsPcm, JoinsEncode, Queues, groupVars
<1>5. QED
  BY <1>1, <1>2, <1>3, <1>4 DEF AencNext, Queues

(* In every step every queue goes on from what it was.                     *)
LEMMA QueuesContinue ==
  ASSUME AencInv, [AencNext]_aencVars PROVE \A g \in AGroup : Continues(g)
<1>1. \A h \in AGroup : aenc_data'[h] = aenc_data[h] => Continues(h)
  BY DEF AencInv, QueueOrder, Continues, FramesRise
<1>2. CASE push_audio_queue
  <2>1. Continues(enc_grp)
    BY <1>2, PushFacts DEF Continues
  <2>2. QED
    BY <1>1, <1>2, <2>1, PushFacts
<1>3. ASSUME NEW u \in AUser, ak_aenc_get_stream(u) PROVE \A g \in AGroup : Continues(g)
  <2>1. Continues(ugroup[u])
    BY <1>3, GetFacts DEF Continues
  <2>2. \A h \in AGroup \ {ugroup[u]} : aenc_data'[h] = aenc_data[h]
    BY <1>3, GetFacts
  <2>3. QED
    BY <1>1, <2>1, <2>2
<1>4. ASSUME NEW u \in AUser, CleansUp(u) PROVE \A g \in AGroup : Continues(g)
  <2>1. Continues(ugroup[u])
    BY <1>4, CleanFacts DEF Continues
  <2>2. \A h \in AGroup \ {ugroup[u]} : aenc_data'[h] = aenc_data[h]
    BY <1>4, CleanFacts
  <2>3. QED
    BY <1>1, <2>1, <2>2
<1>5. QED
  BY <1>1, <1>2, <1>3, <1>4, DataStays DEF Queues

(* No step puts an entry of a queue out of order.                          *)
LEMMA QueueKeeps ==
  ASSUME AencInv, [AencNext]_aencVars PROVE QueueOrder'
<1>1. StreamOrder' /\ \A f \in Nat, g \in AGroup : Ahead(f, g) => Ahead(f, g)'
  BY StreamKeeps DEF AencInv
<1>2. ASSUME NEW g \in AGroup, NEW k \in DOMAIN aenc_data'[g] PROVE Ahead(aenc_data[g][k].frame, g)'
  <2>1. ASSUME NEW i \in DOMAIN aenc_data[g], aenc_data'[g][k].frame = aenc_data[g][i].frame
        PROVE  Ahead(aenc_data[g][k].frame, g)'
    <3>1. aenc_data[g] \in Seq(Sound)
      BY DEF AencInv, SessInv, AencTypes
    <3>2. aenc_data[g][i] \in Sound
      BY <3>1
    <3>3. aenc_data[g][i].frame \in Nat /\ Ahead(aenc_data[g][i].frame, g)
      BY <3>2 DEF Sound, AencInv, QueueOrder
    <3>4. PICK f \in Nat : f = aenc_data[g][i].frame
      BY <3>3
    <3>5. Ahead(f, g)' /\ f = aenc_data'[g][k].frame
      BY <1>1, <2>1, <3>3, <3>4
    <3>6. QED
      BY <3>5 DEF Ahead
  <2>2. CASE push_audio_queue /\ Pushing(g) /\ aenc_data'[g][k].frame = enc_entry.frame
    <3>1. pcm_frames' = pcm_frames /\ unread' = unread /\ enc_pc' # "push"
      BY <2>2 DEF push_audio_queue, EncodeStep, pcmVars
    <3>2. QED
      BY <2>2, <3>1 DEF Ahead, AencInv, StreamOrder, Pushing
  <2>3. QED
    BY <2>1, <2>2, QueuesContinue DEF Continues
<1>3. \A g \in AGroup : FramesRise(aenc_data'[g])
  BY QueuesContinue DEF Continues
<1>4. QED
  BY <1>2, <1>3 DEF QueueOrder, FramesRise

(* A user who takes nothing in a step has what it had in order.            *)
LEMMA GotStays ==
  ASSUME AencInv, [AencNext]_aencVars, NEW u \in AUser,
         got'[u] = got[u], ugroup'[u] = ugroup[u], req_nr'[u] = req_nr[u],
         \/ upc'[u] = upc[u]
         \/ upc'[u] \notin {"wait", "slot", "in"}
         \/ got[u] = <<>>
  PROVE  GotInOrder(u)'
<1> DEFINE g == ugroup[u]
<1>1. g \in AGroup /\ got[u] \in Seq(Nat) /\ GotInOrder(u) /\ aenc_data[g] \in Seq(Sound) /\ Continues(g)
  BY QueuesContinue DEF AencInv, SessInv, AencTypes, GotOrder
<1>2. Rising(got'[u])
  BY <1>1 DEF GotInOrder, Rising
<1>3. CASE got[u] = <<>>
  <2>1. DOMAIN got'[u] = {}
    BY <1>3
  <2>2. QED
    BY <1>2, <1>3, <2>1 DEF GotInOrder
<1>4. CASE upc'[u] = upc[u] \/ upc'[u] \notin {"wait", "slot", "in"}
  <2>1. ASSUME upc'[u] = "in", NEW i \in DOMAIN got[u]
        PROVE  /\ Ahead(got[u][i], g)'
               /\ \A j \in DOMAIN aenc_data'[g] :
                    req_nr[u] \in aenc_data'[g][j].map => got[u][i] < aenc_data'[g][j].frame
    <3>1. PICK f \in Nat : f = got[u][i]
      BY <1>1
    <3>2. /\ Ahead(f, g)
          /\ \A j \in DOMAIN aenc_data[g] : req_nr[u] \in aenc_data[g][j].map => f < aenc_data[g][j].frame
      BY <1>1, <1>4, <2>1, <3>1 DEF GotInOrder
    <3>3. PICK h \in AGroup : h = g
      BY <1>1
    <3>4. Ahead(f, h) /\ Ahead(f, h)'
      BY <3>2, <3>3, StreamKeeps DEF AencInv, Ahead
    <3>5. Ahead(got[u][i], g)'
      BY <3>1, <3>3, <3>4 DEF Ahead
    <3>6. ASSUME NEW j \in DOMAIN aenc_data'[g], req_nr[u] \in aenc_data'[g][j].map
          PROVE  f < aenc_data'[g][j].frame
      BY <1>1, <3>2, <3>6 DEF Continues, Ahead
    <3>7. QED
      BY <3>1, <3>5, <3>6
  <2>2. upc'[u] \in {"wait", "slot"} => got'[u] = <<>>
    BY <1>1, <1>4 DEF GotInOrder
  <2>3. QED
    BY <1>2, <2>1, <2>2 DEF GotInOrder, Ahead
<1>5. QED
  BY <1>3, <1>4

(* What a user takes is after all it has.                                  *)
LEMMA GotGrows ==
  ASSUME AencInv, [AencNext]_aencVars, NEW u \in AUser, ak_aenc_get_stream(u)
  PROVE  GotInOrder(u)'
<1> DEFINE g == ugroup[u]
           q == aenc_data[g]
           first == aenc_find_user(u, q)
           n == Len(q) - first + 1
           taken == [i \in 1..n |-> q[first + i - 1].frame]
           had == got[u]
<1>1. /\ g \in AGroup /\ upc[u] = "in" /\ UNCHANGED <<upc, ugroup, req_nr>>
      /\ first \in DOMAIN q /\ DOMAIN q = 1..Len(q) /\ Len(q) \in Nat
      /\ req_nr[u] \in q[first].map
      /\ got' = [got EXCEPT ![u] = had \o taken]
      /\ \A k \in DOMAIN aenc_data'[g] : \E i \in DOMAIN q :
           /\ aenc_data'[g][k].frame = q[i].frame
           /\ aenc_data'[g][k].map \subseteq q[i].map \ {req_nr[u]}
  BY GetFacts
<1>2. /\ had \in Seq(Nat) /\ q \in Seq(Sound) /\ \A i \in DOMAIN q : q[i].frame \in Nat
  <2>1. had \in Seq(Nat) /\ q \in Seq(Sound)
    BY <1>1 DEF AencInv, SessInv, AencTypes
  <2>2. \A i \in DOMAIN q : q[i] \in Sound
    BY <2>1
  <2>3. QED
    BY <2>1, <2>2 DEF Sound
<1>3. /\ \A i, j \in DOMAIN had : i < j => had[i] < had[j]
      /\ \A i \in DOMAIN had : Ahead(had[i], g) /\ had[i] < q[first].frame
  <2>1. GotInOrder(u)
    BY DEF AencInv, GotOrder
  <2>2. QED
    BY <1>1, <2>1 DEF GotInOrder, Rising
<1>4. \A i \in DOMAIN q : /\ Ahead(q[i].frame, g)
                          /\ \A j \in DOMAIN q : i < j => q[i].frame < q[j].frame
  BY <1>1 DEF AencInv, QueueOrder
<1>5. got'[u] = had \o taken
  BY <1>1 DEF AencInv, SessInv, AencTypes
<1> HIDE DEF first, q, had
<1>6. n \in Nat /\ \A i \in 1..n : first + i - 1 \in DOMAIN q /\ first <= first + i - 1
  BY <1>1
<1>7. /\ taken \in Seq(Nat) /\ Len(taken) = n
      /\ \A i \in 1..n : /\ taken[i] = q[first + i - 1].frame /\ Ahead(taken[i], g)
                         /\ q[first].frame <= taken[i]
      /\ \A i, j \in 1..n : i < j => taken[i] < taken[j]
  <2>1. \A i \in 1..n : taken[i] = q[first + i - 1].frame /\ taken[i] \in Nat
    BY <1>2, <1>6
  <2>2. taken \in Seq(Nat)
    BY <1>6, <2>1, IsASeq
  <2>3. Len(taken) = n /\ DOMAIN taken = 1..n
    BY <1>6, <2>2, LenProperties
  <2>4. ASSUME NEW i \in 1..n PROVE Ahead(taken[i], g) /\ q[first].frame <= taken[i]
    <3>1. first + i - 1 = first \/ first < first + i - 1
      BY <1>1, <1>6
    <3>2. QED
      BY <1>1, <1>2, <1>4, <1>6, <2>1, <3>1
  <2>5. ASSUME NEW i \in 1..n, NEW j \in 1..n, i < j PROVE taken[i] < taken[j]
    <3>1. first + i - 1 < first + j - 1
      BY <1>1, <2>5
    <3>2. QED
      BY <1>4, <1>6, <2>1, <3>1
  <2>6. QED
    BY <2>1, <2>2, <2>3, <2>4, <2>5
<1> HIDE DEF n, taken, g
<1>8. /\ Len(had) \in Nat /\ DOMAIN had = 1..Len(had)
      /\ DOMAIN (had \o taken) = 1..Len(had) + n
      /\ \A i \in 1..Len(had) + n : (had \o taken)[i] = IF i <= Len(had) THEN had[i] ELSE taken[i - Len(had)]
  <2>1. Len(had) \in Nat /\ DOMAIN had = 1..Len(had)
    BY <1>2, LenProperties
  <2>2. /\ had \o taken \in Seq(Nat) /\ Len(had \o taken) = Len(had) + n
        /\ \A i \in 1..Len(had) + n : (had \o taken)[i] = IF i <= Len(had) THEN had[i] ELSE taken[i - Len(had)]
    BY <1>2, <1>7, ConcatProperties
  <2>3. DOMAIN (had \o taken) = 1..Len(had) + n
    BY <2>2, LenProperties
  <2>4. QED
    BY <2>1, <2>2, <2>3
<1>9. ASSUME NEW i \in 1..Len(had) + n
      PROVE  /\ Ahead(got'[u][i], g) /\ got'[u][i] \in Nat
             /\ \/ i \in DOMAIN had /\ got'[u][i] = had[i]
                \/ i - Len(had) \in 1..n /\ got'[u][i] = taken[i - Len(had)]
  <2>1. CASE i <= Len(had)
    <3>1. i \in DOMAIN had /\ got'[u][i] = had[i]
      BY <1>5, <1>8, <2>1
    <3>2. QED
      BY <1>2, <1>3, <3>1
  <2>2. CASE ~(i <= Len(had))
    <3>1. i - Len(had) \in 1..n /\ got'[u][i] = taken[i - Len(had)]
      BY <1>5, <1>6, <1>8, <2>2
    <3>2. QED
      BY <1>7, <3>1
  <2>3. QED
    BY <1>8, <2>1, <2>2
<1>10. DOMAIN got'[u] = 1..Len(had) + n
  BY <1>5, <1>8
<1>11. ASSUME NEW i \in 1..Len(had) + n, NEW j \in 1..Len(had) + n, i < j
       PROVE  got'[u][i] < got'[u][j]
  <2>1. CASE j <= Len(had)
    <3>1. i \in DOMAIN had /\ j \in DOMAIN had /\ got'[u][i] = had[i] /\ got'[u][j] = had[j]
      BY <1>5, <1>6, <1>8, <1>11, <2>1
    <3>2. QED
      BY <1>3, <1>11, <3>1
  <2>2. CASE i <= Len(had) /\ ~(j <= Len(had))
    <3>1. /\ i \in DOMAIN had /\ got'[u][i] = had[i]
          /\ j - Len(had) \in 1..n /\ got'[u][j] = taken[j - Len(had)]
      BY <1>5, <1>6, <1>8, <2>2
    <3>2. had[i] < q[first].frame /\ q[first].frame <= taken[j - Len(had)]
      BY <1>3, <1>7, <3>1
    <3>3. had[i] \in Nat /\ q[first].frame \in Nat /\ taken[j - Len(had)] \in Nat
      BY <1>1, <1>2, <1>9, <3>1
    <3>4. QED
      BY <3>1, <3>2, <3>3
  <2>3. CASE ~(i <= Len(had))
    <3>1. /\ i - Len(had) \in 1..n /\ got'[u][i] = taken[i - Len(had)]
          /\ j - Len(had) \in 1..n /\ got'[u][j] = taken[j - Len(had)]
          /\ i - Len(had) < j - Len(had)
      BY <1>5, <1>6, <1>8, <1>11, <2>3
    <3>2. QED
      BY <1>7, <3>1
  <2>4. QED
    BY <2>1, <2>2, <2>3
<1>12. ASSUME NEW i \in DOMAIN got'[u] PROVE Ahead(got[u][i], ugroup[u])'
  <2>1. PICK f \in Nat : f = got'[u][i] /\ Ahead(f, g)
    BY <1>9, <1>10
  <2>2. PICK h \in AGroup : h = g
    BY <1>1
  <2>3. Ahead(f, h)'
    BY <2>1, <2>2, StreamKeeps DEF AencInv
  <2>4. QED
    BY <1>1, <2>1, <2>2, <2>3 DEF Ahead, g
<1>13. Rising(got'[u])
  BY <1>10, <1>11 DEF Rising
<1>14. \A k \in DOMAIN aenc_data'[ugroup'[u]] : req_nr'[u] \notin aenc_data'[ugroup'[u]][k].map
  <2>1. \A k \in DOMAIN aenc_data'[g] : req_nr[u] \notin aenc_data'[g][k].map
    BY <1>1
  <2>2. QED
    BY <1>1, <2>1 DEF g
<1>15. QED
  BY <1>1, <1>12, <1>13, <1>14 DEF GotInOrder

(* No step gives a user sound out of order.                                *)
LEMMA GotKeeps ==
  ASSUME AencInv, [AencNext]_aencVars PROVE GotOrder'
<1> SUFFICES ASSUME NEW u \in AUser PROVE GotInOrder(u)'
  BY DEF GotOrder
<1>0. /\ got \in [AUser -> Seq(Nat)] /\ upc \in [AUser -> Place]
      /\ ugroup \in [AUser -> AGroup] /\ req_nr \in [AUser -> Nat]
      /\ upc[u] \in {"wait", "slot"} => got[u] = <<>>
  BY DEF AencInv, SessInv, AencTypes, Place, GotOrder, GotInOrder
<1>1. CASE UNCHANGED aencVars \/ PcmStep \/ EncStep
  <2>1. UNCHANGED userVars
    BY <1>1 DEF aencVars, PcmStep, PcmWakes, read_to_encode, PcmLeavesLoop, EncStep, EncodeWakes,
                EncodeLooks, EncodeLocks, EncodeReads, push_audio_queue, EncodeUnlocks, NextGroup, EncodeStep
  <2>2. QED
    BY <2>1, GotStays DEF userVars
<1>2. ASSUME NEW v \in AUser, NEW g \in AGroup, RequestsRing(v, g) PROVE GotInOrder(u)'
  <2>1. /\ got' = [got EXCEPT ![v] = <<>>] /\ ugroup' = [ugroup EXCEPT ![v] = g] /\ req_nr' = req_nr
        /\ upc' = [upc EXCEPT ![v] = "slot"] \/ upc' = [upc EXCEPT ![v] = "wait"]
    BY <1>2 DEF RequestsRing, Goes
  <2>2. CASE u = v
    <3>1. got'[u] = <<>> /\ upc'[u] # "in" /\ DOMAIN <<>> = {}
      BY <1>0, <2>1, <2>2
    <3>2. QED
      BY <3>1 DEF GotInOrder, Rising
  <2>3. CASE u # v
    <3>1. got'[u] = got[u] /\ ugroup'[u] = ugroup[u] /\ req_nr'[u] = req_nr[u] /\ upc'[u] = upc[u]
      BY <1>0, <2>1, <2>3
    <3>2. QED
      BY <3>1, GotStays
  <2>4. QED
    BY <2>2, <2>3
<1>3. ASSUME NEW v \in AUser, start_encode_ctrl(v) PROVE GotInOrder(u)'
  <2>1. UNCHANGED <<got, ugroup, req_nr>> /\ upc[v] = "wait" /\ upc' = [upc EXCEPT ![v] = "slot"]
    BY <1>3 DEF start_encode_ctrl, Goes
  <2>2. upc'[u] = upc[u] \/ got[u] = <<>>
    BY <1>0, <2>1
  <2>3. QED
    BY <2>1, <2>2, GotStays
<1>4. ASSUME NEW v \in AUser, JoinsGroup(v) PROVE GotInOrder(u)'
  <2>1. /\ UNCHANGED <<got, ugroup>> /\ upc[v] = "slot"
        /\ \E to \in {"out", "in"} : upc' = [upc EXCEPT ![v] = to]
        /\ req_nr' = req_nr \/ \E nr : req_nr' = [req_nr EXCEPT ![v] = nr]
    BY <1>4 DEF JoinsGroup, Goes
  <2>2. CASE u = v
    <3>1. got'[u] = <<>> /\ upc'[u] \notin {"wait", "slot"} /\ DOMAIN <<>> = {}
      BY <1>0, <2>1, <2>2
    <3>2. QED
      BY <3>1 DEF GotInOrder, Rising
  <2>3. CASE u # v
    <3>1. upc'[u] = upc[u] /\ req_nr'[u] = req_nr[u]
      BY <1>0, <2>1, <2>3
    <3>2. QED
      BY <2>1, <3>1, GotStays
  <2>4. QED
    BY <2>2, <2>3
<1>5. ASSUME NEW v \in AUser, ak_aenc_get_stream(v) PROVE GotInOrder(u)'
  <2>1. CASE u = v
    BY <1>5, <2>1, GotGrows
  <2>2. CASE u # v
    <3>1. UNCHANGED <<upc, ugroup, req_nr>> /\ got'[u] = got[u]
      BY <1>0, <1>5, <2>2 DEF ak_aenc_get_stream
    <3>2. QED
      BY <3>1, GotStays
  <2>3. QED
    BY <2>1, <2>2
<1>6. ASSUME NEW v \in AUser, Cancels(v) \/ CancelStep(v), ~CleansUp(v) PROVE GotInOrder(u)'
  <2>1. /\ UNCHANGED <<got, ugroup, req_nr>>
        /\ \E to \in Place \ {"wait", "slot", "in"} : upc' = [upc EXCEPT ![v] = to]
    <3>1. CASE Cancels(v)
      <4>1. /\ UNCHANGED <<got, ugroup, req_nr>>
            /\ upc' = [upc EXCEPT ![v] = "using"] \/ upc' = [upc EXCEPT ![v] = "out"]
        BY <3>1 DEF Cancels, Goes
      <4>2. QED
        BY <4>1 DEF Place, Busy
    <3>2. CASE CancelStep(v)
      BY <1>6, <3>2 DEF CancelStep, LeavesGroup, LooksForOthers, StopsThreads, JoinsPcm, JoinsEncode, Goes,
                        Place, Busy
    <3>3. QED
      BY <1>6, <3>1, <3>2
  <2>2. upc'[u] = upc[u] \/ upc'[u] \notin {"wait", "slot", "in"}
    BY <1>0, <2>1
  <2>3. QED
    BY <2>1, <2>2, GotStays
<1>7. ASSUME NEW v \in AUser, CleansUp(v) PROVE GotInOrder(u)'
  <2>1. /\ got' = [got EXCEPT ![v] = <<>>] /\ upc' = [upc EXCEPT ![v] = "out"]
        /\ ugroup' = [ugroup EXCEPT ![v] = 1] /\ req_nr' = [req_nr EXCEPT ![v] = 0]
    BY <1>7 DEF CleansUp, Goes
  <2>2. CASE u = v
    <3>1. got'[u] = <<>> /\ upc'[u] # "in" /\ DOMAIN <<>> = {}
      BY <1>0, <2>1, <2>2
    <3>2. QED
      BY <3>1 DEF GotInOrder, Rising
  <2>3. CASE u # v
    <3>1. got'[u] = got[u] /\ ugroup'[u] = ugroup[u] /\ req_nr'[u] = req_nr[u] /\ upc'[u] = upc[u]
      BY <1>0, <2>1, <2>3
    <3>2. QED
      BY <3>1, GotStays
  <2>4. QED
    BY <2>2, <2>3
<1>8. QED
  BY <1>1, <1>2, <1>3, <1>4, <1>5, <1>6, <1>7 DEF AencNext, RequestStep

-----------------------------------------------------------------------------
(* The first state has the invariant ...                                   *)
LEMMA AencInitInv == AencInit => AencInv
<1> SUFFICES ASSUME AencInit PROVE AencInv
  OBVIOUS
<1>1. SessInv
  BY SessInit
<1>2. DOMAIN <<>> = {}
  OBVIOUS
<1>3. StreamOrder
  BY <1>2 DEF AencInit, StreamOrder, Rising, Pushing
<1>4. QueueOrder
  BY <1>2 DEF AencInit, QueueOrder
<1>5. GotOrder
  BY <1>2 DEF AencInit, GotOrder, GotInOrder, Rising
<1>6. QED
  BY <1>1, <1>3, <1>4, <1>5 DEF AencInv

(* ... and every step keeps it until calls cross, which ends what is       *)
(* promised of the session, not of what the users have.                    *)
LEMMA AencKeeps == AencHolds /\ [AencNext]_aencVars => AencHolds'
<1> SUFFICES ASSUME AencHolds, [AencNext]_aencVars PROVE AencHolds'
  OBVIOUS
<1>1. CASE UNCHANGED aencVars
  <2>1. UNCHANGED undefined /\ AencTypes' /\ Numbers'
    BY <1>1 DEF aencVars, aencFlags, aencSems, bufferVars, ringVars, groupVars, pcmVars, encVars, userVars,
                AencHolds, AencTypes, Numbers, Member
  <2>2. SessInv => SessInv'
    BY <1>1, SessStep, <2>1 DEF SessInv, aencVars, aencFlags, aencSems, bufferVars, ringVars, groupVars, pcmVars,
                encVars, userVars, aencLocks, Threads, Alive, Calls, Deserted, Apart
  <2>3. (StreamOrder => StreamOrder') /\ (QueueOrder => QueueOrder') /\ GotOrder'
    BY <1>1 DEF aencVars, bufferVars, ringVars, groupVars, pcmVars, encVars, userVars, AencHolds, StreamOrder,
                QueueOrder, GotOrder, GotInOrder, Ahead, Pushing, Rising
  <2>4. QED
    BY <2>1, <2>2, <2>3 DEF AencHolds, AencInv
<1>2. CASE AencNext
  <2>1. AencInv
    BY <1>2 DEF AencNext, AencHolds
  <2>2. AencTypes' /\ Numbers' /\ (~undefined' => SessInv')
    BY <2>1, SessStep DEF AencInv
  <2>3. StreamOrder'
    BY <2>1, StreamKeeps DEF AencInv
  <2>4. QED
    BY <2>1, <2>2, <2>3, QueueKeeps, GotKeeps DEF AencHolds, AencInv
<1>3. QED
  BY <1>1, <1>2

(* However requests and cancels overlap, session and order are as          *)
(* described until a cancel that leaves its group or all groups without    *)
(* users crosses a request; what the users were given stays in order.      *)
THEOREM AencHoldsAlways == AencSpec => []AencHolds
<1>1. AencInit => AencHolds
  BY AencInitInv DEF AencInv, SessInv, AencHolds
<1>2. QED
  BY <1>1, AencKeeps, PTL DEF AencSpec

(* The types, among them that a group counts its members and that no       *)
(* reader is more than a ring behind.                                      *)
THEOREM AencTypeOKAlways == AencSpec => []AencTypeOK
<1>1. AencHolds => AencTypeOK
  BY DEF AencHolds, AencTypes, Numbers, AencTypeOK
<1>2. QED
  BY <1>1, AencHoldsAlways, PTL

(* While a thread is alive so are the ring, with every group that has      *)
(* users among its readers, and the buffers (ak_aenc.c:316-320, 1812-1838).*)
THEOREM SessionIsWholeAlways == AencSpec => []SessionIsWhole
<1>1. AencHolds => SessionIsWhole
  <2> SUFFICES ASSUME AencInv, Alive, NEW g \in AGroup, NEW n \in req_map[g] PROVE g \in read_map /\ frame_data[g]
    BY DEF AencHolds, AencInv, SessInv, Threads, Alive, SessionIsWhole
  <2>1. PICK u \in AUser : Member(u) /\ ugroup[u] = g
    BY DEF AencInv, SessInv, Numbers
  <2>2. QED
    BY <2>1 DEF Member, AencInv, SessInv, Calls
<1>2. QED
  BY <1>1, AencHoldsAlways, PTL

(* What a user is given comes in the order of the sound, nothing twice     *)
(* (ak_aenc.c:1707-1735), for any number of users, frames and requests.    *)
THEOREM SoundInOrderAlways == AencSpec => []SoundInOrder
<1>1. AencHolds => SoundInOrder
  BY DEF AencHolds, GotOrder, GotInOrder, Rising, SoundInOrder
<1>2. QED
  BY <1>1, AencHoldsAlways, PTL

-----------------------------------------------------------------------------
(* The ring of sound, libmpi/src/aenc/ak_aenc.c.                           *)

(* Writer and readers are in the ring, and the writer at a whole number of *)
(* frames.                                                                 *)
RbTypes == /\ rb \in [0..RLen - 1 -> Nat]
           /\ rb_write \in 0..RLen
           /\ \E k \in Nat : rb_write = k * PcmLen
           /\ offset \in [RGroup -> 0..RLen]
           /\ readers \subseteq RGroup
           /\ samples \in Nat
           /\ chunk \in [RGroup -> Seq(Nat)]

(* The cells before the writer hold the latest samples, those from it on   *)
(* what was written a turn before, nothing in the first turn.              *)
CellsAre == \A c \in 0..RLen - 1 :
              rb[c] = IF c < rb_write THEN samples - rb_write + c + 1
                      ELSE IF samples = rb_write THEN 0
                      ELSE samples - rb_write - RLen + c + 1

(* In the first turn no reader is before the writer.                       *)
FirstTurn == /\ samples >= rb_write
             /\ samples = rb_write => \A g \in RGroup : offset[g] <= rb_write

RbInv == RbTypes /\ CellsAre /\ FirstTurn

(* The ring is a whole number of frames.                                   *)
LEMMA WholeFrames ==
  /\ RLen \in Nat /\ PcmLen \in Nat /\ 0 < PcmLen /\ PcmLen <= RLen
  /\ \E q \in Nat : RLen = q * PcmLen
<1> DEFINE q == RLen \div PcmLen
           p == PcmLen * q
<1>1. RLen \in Nat /\ PcmLen \in Nat /\ 0 < PcmLen /\ PcmLen <= RLen /\ RLen % PcmLen = 0
  BY RingAssumption
<1>2. q \in Nat
  BY <1>1
<1>3. RLen % PcmLen = RLen - p
  BY <1>1, Z3
<1> HIDE DEF q
<1>4. p \in Int /\ p = q * PcmLen
  BY <1>1, <1>2
<1> HIDE DEF p
<1>5. RLen = q * PcmLen
  BY <1>1, <1>3, <1>4
<1>6. QED
  BY <1>1, <1>2, <1>5

(* The writer is at the end or has room for a frame before it.             *)
LEMMA RoomForFrame ==
  ASSUME NEW w \in Nat, NEW k \in Nat, w = k * PcmLen, w < RLen
  PROVE  w + PcmLen <= RLen /\ w + PcmLen = (k + 1) * PcmLen
<1>1. PICK q \in Nat : RLen = q * PcmLen
  BY WholeFrames
<1>2. PcmLen \in Nat /\ 0 < PcmLen
  BY WholeFrames
<1>3. \A a, b \in Nat : a <= b => a * PcmLen <= b * PcmLen
  BY <1>2, Z3
<1>4. k < q
  <2>1. q <= k => RLen <= w
    BY <1>1, <1>3
  <2>2. QED
    BY <1>1, <2>1, WholeFrames
<1>5. (k + 1) * PcmLen <= q * PcmLen
  BY <1>3, <1>4
<1>6. (k + 1) * PcmLen = k * PcmLen + PcmLen
  BY <1>2, Z3
<1>7. QED
  BY <1>1, <1>5, <1>6

(* The cell i places from an offset, which may be the end of the ring.     *)
LEMMA CellIs ==
  ASSUME NEW from \in 0..RLen, NEW i \in 1..RLen
  PROVE  Cell(from, i) = IF from + i - 1 < RLen THEN from + i - 1 ELSE from + i - 1 - RLen
<1>1. RLen \in Nat /\ 0 < RLen
  BY WholeFrames
<1>2. \A n \in 0..RLen - 1 : n % RLen = n
  BY <1>1, Z3
<1>3. \A n \in RLen..2 * RLen - 1 : n % RLen = n - RLen
  BY <1>1, Z3
<1>4. from + i - 1 \in 0..RLen - 1 \/ from + i - 1 \in RLen..2 * RLen - 1
  BY <1>1
<1>5. QED
  BY <1>1, <1>2, <1>3, <1>4 DEF Cell

(* An empty ring.                                                          *)
LEMMA RbInitInv == RbInit => RbInv
<1> SUFFICES ASSUME RbInit PROVE RbInv
  OBVIOUS
<1>1. RLen \in Nat /\ 0 < RLen /\ PcmLen \in Nat
  BY WholeFrames
<1>2. <<>> \in Seq(Nat)
  BY EmptySeq
<1>3. chunk \in [RGroup -> Seq(Nat)]
  BY <1>2 DEF RbInit
<1>4. 0 = 0 * PcmLen
  BY <1>1
<1>5. \E k \in Nat : rb_write = k * PcmLen
  BY <1>4 DEF RbInit
<1>6. RbTypes
  BY <1>1, <1>3, <1>5 DEF RbInit, RbTypes
<1>7. CellsAre /\ FirstTurn
  BY <1>1 DEF RbInit, CellsAre, FirstTurn
<1>8. QED
  BY <1>6, <1>7 DEF RbInv

(* A read advances its reader past what it was given.                      *)
LEMMA ReadTakes ==
  ASSUME RbInv, NEW g \in RGroup, aenc_rb_read(g)
  PROVE  /\ RbInv'
         /\ ReadSpace(g)' = ReadSpace(g) - ReadLen[g]
         /\ offset'[g] # offset[g]
         /\ \A h \in RGroup \ {g} : ReadSpace(h)' = ReadSpace(h) /\ offset'[h] = offset[h]
         /\ \A i \in 1..ReadLen[g] : chunk'[g][i] = samples - ReadSpace(g) + i
<1> DEFINE o == offset[g]
           n == ReadLen[g]
<1>1. /\ RLen \in Nat /\ 0 < RLen /\ n \in Nat /\ 1 <= n /\ n < RLen
  BY WholeFrames, RingAssumption
<1>2. /\ o \in Nat /\ o <= RLen /\ rb_write \in Nat /\ rb_write <= RLen /\ samples \in Nat
      /\ rb_write <= samples /\ (samples = rb_write => o <= rb_write)
      /\ \A c \in 0..RLen - 1 : rb[c] \in Nat
      /\ offset \in [RGroup -> 0..RLen] /\ chunk \in [RGroup -> Seq(Nat)]
  BY <1>1 DEF RbInv, RbTypes, FirstTurn
<1>3. /\ ReadSpace(g) >= n
      /\ chunk' = [chunk EXCEPT ![g] = [i \in 1..n |-> rb[Cell(o, i)]]]
      /\ offset' = [offset EXCEPT ![g] = Step(o, n)]
      /\ rb' = rb /\ rb_write' = rb_write /\ readers' = readers /\ samples' = samples
  BY <1>2 DEF aenc_rb_read
<1>4. Step(o, n) = IF RLen - o >= n THEN o + n ELSE n - (RLen - o)
  BY DEF Step
<1>5. /\ offset'[g] = Step(o, n) /\ Step(o, n) \in 0..RLen
      /\ \A h \in RGroup \ {g} : offset'[h] = offset[h]
  BY <1>1, <1>2, <1>3, <1>4
<1>6. Step(o, n) # o
  BY <1>1, <1>2, <1>4
<1>7. ReadSpace(g) = CASE o < rb_write -> rb_write - o
                       [] o > rb_write -> rb_write + RLen - o
                       [] OTHER -> 0
  BY DEF ReadSpace
<1>8. ReadSpace(g)' = CASE Step(o, n) < rb_write -> rb_write - Step(o, n)
                        [] Step(o, n) > rb_write -> rb_write + RLen - Step(o, n)
                        [] OTHER -> 0
  BY <1>3, <1>5 DEF ReadSpace
<1>9. o < rb_write \/ rb_write < o
  BY <1>1, <1>2, <1>3, <1>7
<1> HIDE DEF o, n
<1>10. /\ ReadSpace(g)' = ReadSpace(g) - n
       /\ samples = rb_write => Step(o, n) <= rb_write
  <2>1. CASE o < rb_write
    BY <1>1, <1>2, <1>3, <1>4, <1>7, <1>8, <2>1
  <2>2. CASE rb_write < o
    BY <1>1, <1>2, <1>3, <1>4, <1>7, <1>8, <2>2
  <2>3. QED
    BY <1>9, <2>1, <2>2
<1>11. \A h \in RGroup \ {g} : ReadSpace(h)' = ReadSpace(h)
  BY <1>3, <1>5 DEF ReadSpace
<1>12. ASSUME NEW i \in 1..n PROVE rb[Cell(o, i)] = samples - ReadSpace(g) + i
  <2>1. Cell(o, i) = IF o + i - 1 < RLen THEN o + i - 1 ELSE o + i - 1 - RLen
    BY <1>1, <1>2, CellIs
  <2>2. Cell(o, i) \in 0..RLen - 1
    BY <1>1, <1>2, <2>1
  <2>3. rb[Cell(o, i)] = IF Cell(o, i) < rb_write THEN samples - rb_write + Cell(o, i) + 1
                         ELSE IF samples = rb_write THEN 0
                         ELSE samples - rb_write - RLen + Cell(o, i) + 1
    BY <2>2 DEF RbInv, CellsAre
  <2>4. CASE o < rb_write
    BY <1>1, <1>2, <1>3, <1>7, <2>1, <2>3, <2>4
  <2>5. CASE rb_write < o
    <3>1. samples # rb_write /\ ReadSpace(g) = rb_write + RLen - o
      BY <1>2, <1>7, <2>5
    <3>2. CASE o + i - 1 < RLen
      BY <1>1, <1>2, <2>1, <2>3, <2>5, <3>1, <3>2
    <3>3. CASE ~(o + i - 1 < RLen)
      <4>1. i <= ReadSpace(g)
        BY <1>1, <1>3, <3>1, <1>2
      <4>2. Cell(o, i) = o + i - 1 - RLen /\ Cell(o, i) < rb_write
        BY <1>1, <1>2, <2>1, <3>1, <3>3, <4>1
      <4>3. QED
        BY <1>1, <1>2, <2>3, <3>1, <4>2
    <3>4. QED
      BY <3>2, <3>3
  <2>6. QED
    BY <1>9, <2>4, <2>5
<1>13. ASSUME NEW i \in 1..n PROVE Cell(o, i) \in 0..RLen - 1
  <2>1. Cell(o, i) = IF o + i - 1 < RLen THEN o + i - 1 ELSE o + i - 1 - RLen
    BY <1>1, <1>2, CellIs
  <2>2. QED
    BY <1>1, <1>2, <2>1
<1>14. [i \in 1..n |-> rb[Cell(o, i)]] \in Seq(Nat)
  BY <1>1, <1>2, <1>13, IsASeq
<1>15. chunk' \in [RGroup -> Seq(Nat)] /\ chunk'[g] = [i \in 1..n |-> rb[Cell(o, i)]]
  BY <1>2, <1>3, <1>14
<1>16. \A i \in 1..n : chunk'[g][i] = samples - ReadSpace(g) + i
  BY <1>12, <1>15
<1>17. offset' \in [RGroup -> 0..RLen]
  BY <1>2, <1>3, <1>5
<1>18. RbTypes'
  BY <1>3, <1>15, <1>17 DEF RbInv, RbTypes
<1>19. CellsAre'
  BY <1>3 DEF RbInv, CellsAre
<1>20. FirstTurn'
  <2>1. \A h \in RGroup : offset[h] \in Nat
    BY <1>1, <1>2
  <2>2. samples = rb_write => \A h \in RGroup \ {g} : offset'[h] <= rb_write
    BY <1>5 DEF RbInv, FirstTurn
  <2>3. samples = rb_write => offset'[g] <= rb_write
    BY <1>5, <1>10
  <2>4. QED
    BY <1>2, <1>3, <2>2, <2>3 DEF FirstTurn
<1>21. QED
  BY <1>5, <1>6, <1>10, <1>11, <1>16, <1>18, <1>19, <1>20 DEF RbInv, o, n

(* A write that finds no room changes nothing; another begins at the       *)
(* writer, or at the beginning when the writer is at the end, and leaves   *)
(* the writer behind the frame.                                            *)
LEMMA WriteMoves ==
  ASSUME RbInv, aenc_rb_write, rb' # rb \/ samples' # samples \/ rb_write' # rb_write
  PROVE  LET start == IF rb_write = RLen THEN 0 ELSE rb_write
         IN /\ start + PcmLen <= RLen
            /\ rb_write' = start + PcmLen
            /\ samples' = samples + PcmLen
            /\ rb' = [c \in 0..RLen - 1 |->
                        IF start <= c /\ c < start + PcmLen THEN samples + c - start + 1 ELSE rb[c]]
            /\ \E k \in Nat : rb_write' = k * PcmLen
<1> DEFINE read == aenc_rb_get_read_pointer
           from == WriteFrom(read)
           start == IF rb_write = RLen THEN 0 ELSE rb_write
<1>1. /\ RLen \in Nat /\ PcmLen \in Nat /\ 0 < PcmLen /\ PcmLen <= RLen
      /\ rb_write \in Nat /\ rb_write <= RLen /\ samples \in Nat
  BY WholeFrames DEF RbInv, RbTypes
<1>2. from = rb_write \/ (from = 0 /\ rb_write = RLen /\ read = 0)
  BY DEF WriteFrom
<1>3. ~(Space(read, from) < PcmLen)
  <2>1. SUFFICES ASSUME Space(read, from) < PcmLen PROVE FALSE
    OBVIOUS
  <2>2. rb_write' = from /\ rb' = rb /\ samples' = samples
    BY <2>1 DEF aenc_rb_write
  <2>3. from = 0 /\ read = 0
    BY <1>2, <2>2
  <2>4. Space(read, from) = PcmLen
    BY <2>3 DEF Space
  <2>5. QED
    BY <1>1, <2>1, <2>4
<1>4. /\ rb' = [c \in 0..RLen - 1 |->
                  IF \E i \in 1..PcmLen : Cell(from, i) = c
                    THEN samples + CHOOSE i \in 1..PcmLen : Cell(from, i) = c
                    ELSE rb[c]]
      /\ rb_write' = Step(from, PcmLen)
      /\ samples' = samples + PcmLen
  BY <1>3 DEF aenc_rb_write
<1>5. from \in 0..RLen
  BY <1>1, <1>2
<1>6. PICK k \in Nat : rb_write = k * PcmLen
  BY DEF RbInv, RbTypes
<1> HIDE DEF from, read
<1>7. start + PcmLen <= RLen /\ \E j \in Nat : start + PcmLen = j * PcmLen
  <2>1. CASE rb_write = RLen
    <3>1. PcmLen = 1 * PcmLen
      BY <1>1
    <3>2. start + PcmLen = 1 * PcmLen
      BY <1>1, <2>1, <3>1
    <3>3. QED
      BY <1>1, <2>1, <3>2
  <2>2. CASE rb_write # RLen
    <3>1. rb_write + PcmLen <= RLen /\ rb_write + PcmLen = (k + 1) * PcmLen
      BY <1>1, <1>6, <2>2, RoomForFrame
    <3>2. QED
      BY <1>6, <2>2, <3>1
  <2>3. QED
    BY <2>1, <2>2
<1>8. from = start \/ (from = RLen /\ start = 0)
  BY <1>2
<1>9. Step(from, PcmLen) = start + PcmLen
  BY <1>1, <1>5, <1>7, <1>8 DEF Step
<1>10. \A i \in 1..PcmLen : Cell(from, i) = start + i - 1
  BY <1>1, <1>5, <1>7, <1>8, CellIs
<1>11. start \in Nat
  BY <1>1
<1> HIDE DEF start
<1>12. ASSUME NEW c \in 0..RLen - 1
       PROVE  rb'[c] = IF start <= c /\ c < start + PcmLen THEN samples + c - start + 1 ELSE rb[c]
  <2>1. CASE start <= c /\ c < start + PcmLen
    <3>1. c - start + 1 \in 1..PcmLen /\ Cell(from, c - start + 1) = c
      BY <1>1, <1>10, <1>11, <2>1
    <3>2. \A i \in 1..PcmLen : Cell(from, i) = c => i = c - start + 1
      BY <1>1, <1>10, <1>11
    <3>3. (CHOOSE i \in 1..PcmLen : Cell(from, i) = c) = c - start + 1
      BY <3>1, <3>2
    <3>4. rb'[c] = samples + (c - start + 1)
      BY <1>4, <3>1, <3>3
    <3>5. QED
      BY <1>1, <1>11, <2>1, <3>4
  <2>2. CASE ~(start <= c /\ c < start + PcmLen)
    <3>1. ~\E i \in 1..PcmLen : Cell(from, i) = c
      BY <1>1, <1>10, <1>11, <2>2
    <3>2. QED
      BY <1>4, <2>2, <3>1
  <2>3. QED
    BY <2>1, <2>2
<1>13. rb' = [c \in 0..RLen - 1 |->
                IF start <= c /\ c < start + PcmLen THEN samples + c - start + 1 ELSE rb[c]]
  BY <1>4, <1>12
<1>14. QED
  BY <1>4, <1>7, <1>9, <1>13 DEF start

(* So a frame written keeps the invariant.                                 *)
LEMMA WriteKeeps ==
  ASSUME RbInv, aenc_rb_write PROVE RbInv'
<1>0. offset' = offset /\ readers' = readers /\ chunk' = chunk
  BY DEF aenc_rb_write
<1>1. CASE rb' = rb /\ samples' = samples /\ rb_write' = rb_write
  BY <1>0, <1>1 DEF RbInv, RbTypes, CellsAre, FirstTurn
<1>2. CASE rb' # rb \/ samples' # samples \/ rb_write' # rb_write
  <2> DEFINE start == IF rb_write = RLen THEN 0 ELSE rb_write
  <2>1. /\ RLen \in Nat /\ PcmLen \in Nat /\ 0 < PcmLen /\ PcmLen <= RLen
        /\ rb_write \in Nat /\ rb_write <= RLen /\ samples \in Nat /\ rb_write <= samples
    BY WholeFrames DEF RbInv, RbTypes, FirstTurn
  <2>2. /\ start + PcmLen <= RLen
        /\ rb_write' = start + PcmLen
        /\ samples' = samples + PcmLen
        /\ rb' = [c \in 0..RLen - 1 |->
                    IF start <= c /\ c < start + PcmLen THEN samples + c - start + 1 ELSE rb[c]]
        /\ \E k \in Nat : rb_write' = k * PcmLen
    BY <1>2, WriteMoves
  <2>3. start \in Nat /\ start <= samples /\ (start = rb_write \/ (start = 0 /\ rb_write = RLen))
    BY <2>1
  <2> HIDE DEF start
  <2>4. \A c \in 0..RLen - 1 : rb[c] \in Nat
    BY DEF RbInv, RbTypes
  <2>5. \A c \in 0..RLen - 1 :
          rb'[c] = IF start <= c /\ c < start + PcmLen THEN samples + c - start + 1 ELSE rb[c]
    BY <2>2
  <2>6. \A c \in 0..RLen - 1 : rb'[c] \in Nat
    BY <2>1, <2>3, <2>4, <2>5
  <2>7. rb' \in [0..RLen - 1 -> Nat]
    BY <2>2, <2>6
  <2>8. rb_write' \in 0..RLen /\ samples' \in Nat
    BY <2>1, <2>2, <2>3
  <2>9. RbTypes'
    BY <1>0, <2>2, <2>7, <2>8 DEF RbInv, RbTypes
  <2>10. ASSUME NEW c \in 0..RLen - 1
         PROVE  rb'[c] = IF c < rb_write' THEN samples' - rb_write' + c + 1
                         ELSE IF samples' = rb_write' THEN 0
                         ELSE samples' - rb_write' - RLen + c + 1
    <3>1. rb[c] = IF c < rb_write THEN samples - rb_write + c + 1
                  ELSE IF samples = rb_write THEN 0
                  ELSE samples - rb_write - RLen + c + 1
      BY DEF RbInv, CellsAre
    <3>2. rb'[c] = IF start <= c /\ c < start + PcmLen THEN samples + c - start + 1 ELSE rb[c]
      BY <2>5
    <3>3. CASE start = rb_write
      BY <2>1, <2>2, <2>3, <3>1, <3>2, <3>3
    <3>4. CASE start = 0 /\ rb_write = RLen
      BY <2>1, <2>2, <2>3, <3>1, <3>2, <3>4
    <3>5. QED
      BY <2>3, <3>3, <3>4
  <2>11. CellsAre'
    BY <2>10 DEF CellsAre
  <2>12. FirstTurn'
    <3>1. samples' >= rb_write'
      BY <2>1, <2>2, <2>3
    <3>2. ASSUME samples' = rb_write', NEW g \in RGroup PROVE offset'[g] <= rb_write'
      <4>1. samples = start /\ start = rb_write
        BY <2>1, <2>2, <2>3, <3>2, WholeFrames
      <4>2. offset[g] <= rb_write /\ offset[g] \in Nat
        BY <2>1, <4>1 DEF RbInv, RbTypes, FirstTurn
      <4>3. QED
        BY <1>0, <2>1, <2>2, <4>1, <4>2
    <3>3. QED
      BY <3>1, <3>2 DEF FirstTurn
  <2>13. QED
    BY <2>9, <2>11, <2>12 DEF RbInv
<1>3. QED
  BY <1>1, <1>2

(* Every step of the writer and of the readers keeps it.                   *)
LEMMA RbStepInv == RbInv /\ [RbNext]_rbVars => RbInv'
<1> SUFFICES ASSUME RbInv, [RbNext]_rbVars PROVE RbInv'
  OBVIOUS
<1>1. CASE \E g \in RGroup : aenc_rb_read(g)
  BY <1>1, ReadTakes
<1>2. CASE aenc_rb_write
  BY <1>2, WriteKeeps
<1>3. CASE \E g \in RGroup : \E on \in BOOLEAN : aenc_rb_update_read_map(g, on)
  BY <1>3 DEF aenc_rb_update_read_map, RbInv, RbTypes, CellsAre, FirstTurn
<1>4. CASE UNCHANGED rbVars
  BY <1>4 DEF rbVars, RbInv, RbTypes, CellsAre, FirstTurn
<1>5. QED
  BY <1>1, <1>2, <1>3, <1>4 DEF RbNext

(* The writer looks at the nearest of the readers ahead of it.             *)
LEMMA NearestAhead ==
  ASSUME RbInv, NEW g \in readers, offset[g] > rb_write
  PROVE  LET read == aenc_rb_get_read_pointer
         IN read \in Nat /\ rb_write < read /\ read <= offset[g]
<1> DEFINE ahead == {offset[h] : h \in {k \in readers : offset[k] > rb_write}}
<1>1. (\A h \in readers : offset[h] \in Nat) /\ rb_write \in Nat
  BY WholeFrames DEF RbInv, RbTypes
<1>2. /\ ahead \in SUBSET Nat /\ offset[g] \in ahead
      /\ \A x \in ahead : rb_write < x
  BY <1>1
<1>3. aenc_rb_get_read_pointer = Lowest(ahead)
  BY <1>2 DEF aenc_rb_get_read_pointer
<1> HIDE DEF ahead
<1>4. \E x \in ahead : \A y \in ahead : x <= y
  BY <1>2, LeastOf
<1>5. Lowest(ahead) \in ahead /\ \A y \in ahead : Lowest(ahead) <= y
  BY <1>4 DEF Lowest
<1>6. QED
  BY <1>2, <1>3, <1>5

(* A write adds its frame to what every reader has unread, except that one *)
(* that starts the ring over may run into a reader with the ring unread.   *)
LEMMA WriteAdds ==
  ASSUME RbInv, aenc_rb_write, NEW g \in readers
  PROVE  \/ ReadSpace(g)' = ReadSpace(g) + (samples' - samples)
         \/ /\ rb_write = RLen /\ ReadSpace(g) + (samples' - samples) >= RLen
            /\ ReadSpace(g)' = ReadSpace(g) + (samples' - samples) - RLen
<1> DEFINE o == offset[g]
           start == IF rb_write = RLen THEN 0 ELSE rb_write
<1>1. /\ RLen \in Nat /\ PcmLen \in Nat /\ 0 < PcmLen /\ PcmLen <= RLen
      /\ rb_write \in Nat /\ rb_write <= RLen /\ samples \in Nat /\ o \in Nat /\ o <= RLen
  BY WholeFrames DEF RbInv, RbTypes
<1>2. offset' = offset
  BY DEF aenc_rb_write
<1>3. CASE rb' = rb /\ samples' = samples /\ rb_write' = rb_write
  <2>1. ReadSpace(g)' = ReadSpace(g) /\ ReadSpace(g) \in Int
    BY <1>1, <1>2, <1>3 DEF ReadSpace
  <2>2. QED
    BY <1>1, <1>3, <2>1
<1>4. CASE rb' # rb \/ samples' # samples \/ rb_write' # rb_write
  <2>1. /\ start + PcmLen <= RLen
        /\ rb_write' = start + PcmLen
        /\ samples' = samples + PcmLen
    BY <1>4, WriteMoves
  <2>2. start \in Nat /\ (start = rb_write \/ (start = 0 /\ rb_write = RLen))
    BY <1>1
  <2>3. ReadSpace(g) = CASE o < rb_write -> rb_write - o
                         [] o > rb_write -> rb_write + RLen - o
                         [] OTHER -> 0
    BY DEF ReadSpace
  <2>a. rb_write < o => rb_write + PcmLen < o
    <3> SUFFICES ASSUME rb_write < o PROVE rb_write + PcmLen < o
      OBVIOUS
    <3> DEFINE read == aenc_rb_get_read_pointer
    <3>1. read \in Nat /\ rb_write < read /\ read <= o
      BY NearestAhead
    <3>2. WriteFrom(read) = rb_write
      BY <1>1, <3>1 DEF WriteFrom
    <3>3. ~(Space(read, rb_write) < PcmLen)
      BY <1>4, <3>2 DEF aenc_rb_write
    <3>4. Space(read, rb_write) = IF read - rb_write = PcmLen THEN 0 ELSE read - rb_write
      BY <1>1, <3>1 DEF Space
    <3> HIDE DEF read, o
    <3>5. QED
      BY <1>1, <3>1, <3>3, <3>4
  <2> HIDE DEF start
  <2>4. /\ o < start + PcmLen => ReadSpace(g)' = start + PcmLen - o
        /\ start + PcmLen < o => ReadSpace(g)' = start + PcmLen + RLen - o
        /\ o = start + PcmLen => ReadSpace(g)' = 0
    BY <1>1, <1>2, <2>1, <2>2 DEF ReadSpace
  <2> HIDE DEF o
  <2>5. samples' - samples = PcmLen
    BY <1>1, <2>1
  <2>6. \/ ReadSpace(g)' = ReadSpace(g) + PcmLen
        \/ /\ rb_write = RLen /\ ReadSpace(g) + PcmLen >= RLen
           /\ ReadSpace(g)' = ReadSpace(g) + PcmLen - RLen
    <3>1. CASE start = rb_write /\ o <= rb_write
      BY <1>1, <2>1, <2>2, <2>3, <2>4, <2>5, <3>1
    <3>2. CASE start = rb_write /\ rb_write < o
      BY <1>1, <2>1, <2>2, <2>3, <2>4, <2>5, <2>a, <3>2
    <3>3. CASE start = 0 /\ rb_write = RLen
      BY <1>1, <2>1, <2>2, <2>3, <2>4, <2>5, <3>3
    <3>4. QED
      BY <1>1, <2>2, <3>1, <3>2, <3>3
  <2>7. QED
    BY <2>5, <2>6
<1>5. QED
  BY <1>3, <1>4

(* For every length of the ring, of the frames and of the readers' frames: *)
(* every reader is given the sound in its order and without a gap, except  *)
(* for the whole ring it loses when the writer starts the ring over before *)
(* it has read any of it (ak_aenc.c:308-425).                              *)
THEOREM SoundKeptAlways == RbSpec => SoundKept
<1> DEFINE taken(g) == IF offset'[g] = offset[g] THEN 0 ELSE ReadLen[g]
           due(g) == ReadSpace(g) + (samples' - samples) - taken(g)
           Given(g) == /\ \/ ReadSpace(g)' = due(g)
                          \/ rb_write = RLen /\ due(g) >= RLen /\ ReadSpace(g)' = due(g) - RLen
                       /\ \A i \in 1..taken(g) : chunk'[g][i] = samples - ReadSpace(g) + i
<1>1. ASSUME RbInv, [RbNext]_rbVars, NEW g \in readers \cap readers'
      PROVE  Given(g)
  <2>1. /\ g \in RGroup /\ samples \in Nat /\ ReadSpace(g) \in Int /\ ReadLen[g] \in Nat
    BY <1>1, WholeFrames, RingAssumption DEF RbInv, RbTypes, ReadSpace
  <2>2. CASE aenc_rb_write
    <3>1. taken(g) = 0
      BY <2>2 DEF aenc_rb_write
    <3>2. \/ ReadSpace(g)' = ReadSpace(g) + (samples' - samples)
          \/ /\ rb_write = RLen /\ ReadSpace(g) + (samples' - samples) >= RLen
             /\ ReadSpace(g)' = ReadSpace(g) + (samples' - samples) - RLen
      <4>1. RbInv /\ g \in readers
        BY <1>1
      <4>2. QED
        BY <4>1, <2>2, WriteAdds
    <3>3. samples' \in Nat
      BY <1>1, <2>2, WriteKeeps DEF RbInv, RbTypes
    <3>4. due(g) = ReadSpace(g) + (samples' - samples) /\ due(g) \in Int
      BY <2>1, <3>1, <3>3
    <3>5. \A i \in 1..taken(g) : chunk'[g][i] = samples - ReadSpace(g) + i
      BY <3>1
    <3>6. \/ ReadSpace(g)' = due(g)
          \/ rb_write = RLen /\ due(g) >= RLen /\ ReadSpace(g)' = due(g) - RLen
      BY <2>1, <3>1, <3>2, <3>3, WholeFrames
    <3>7. QED
      BY <3>5, <3>6
  <2>3. ASSUME NEW h \in RGroup, aenc_rb_read(h) PROVE Given(g)
    <3>1. samples' = samples
      BY <2>3 DEF aenc_rb_read
    <3>2. CASE h = g
      <4>1. /\ ReadSpace(g)' = ReadSpace(g) - ReadLen[g] /\ offset'[g] # offset[g]
            /\ \A i \in 1..ReadLen[g] : chunk'[g][i] = samples - ReadSpace(g) + i
        BY <1>1, <2>3, <3>2, ReadTakes
      <4>2. taken(g) = ReadLen[g]
        BY <4>1
      <4>3. QED
        BY <2>1, <3>1, <4>1, <4>2
    <3>3. CASE h # g
      <4>1. ReadSpace(g)' = ReadSpace(g) /\ offset'[g] = offset[g]
        BY <1>1, <2>1, <2>3, <3>3, ReadTakes
      <4>2. taken(g) = 0
        BY <4>1
      <4>3. QED
        BY <2>1, <3>1, <4>1, <4>2
    <3>4. QED
      BY <3>2, <3>3
  <2>4. CASE UNCHANGED <<offset, rb_write, samples>>
    <3>1. ReadSpace(g)' = ReadSpace(g) /\ taken(g) = 0
      BY <2>4 DEF ReadSpace
    <3>2. QED
      BY <2>1, <2>4, <3>1
  <2>5. QED
    BY <1>1, <2>2, <2>3, <2>4 DEF RbNext, aenc_rb_update_read_map, rbVars
<1>2. RbInv /\ [RbNext]_rbVars => [\A g \in readers \cap readers' : Given(g)]_rbVars
  BY <1>1
<1>3. RbInv /\ [RbNext]_rbVars => RbInv'
  BY RbStepInv
<1>4. QED
  BY <1>2, <1>3, RbInitInv, PTL DEF RbSpec, SoundKept

-----------------------------------------------------------------------------
(* The decoder's stream, libmpi/src/adec/ak_adec.c.                        *)

(* A codec.                                                                *)
Codec == [decode_flag : BOOLEAN, wait_flag : BOOLEAN, end_flag : BOOLEAN,
          no_frame : Nat, buf : 0..BufLen, part : BOOLEAN]
(* Where a caller is that sends ...                                        *)
Sending == {"stream", "flag", "nap"}
(* ... and that has the stream.                                            *)
Streaming == Sending \cup {"cancel", "wait", "play", "pause", "reset", "join"}
(* Where the thread waits for data_sem, or is about to ...                 *)
Waiting == {"loop", "sleep"}
(* ... and where it takes frames.                                          *)
AtWork == {"top", "get", "check", "doze", "judge", "get2", "check2", "clear"}

(* Every variable has its kind.                                            *)
AdecTypes ==
  /\ dec_run \in BOOLEAN /\ data_sem \in Nat
  /\ req_handle \in AdecCaller \cup {NoCaller} /\ req_mutex \in AdecCaller \cup {NoCaller}
  /\ codec \in [AdecCaller -> Codec]
  /\ wpc \in Waiting \cup AtWork \cup {"none", "exit"}
  /\ acall \in [AdecCaller -> Streaming \cup {"out", "req"}]
  /\ dac \in 0..DacLen

(* The stream is of the caller that the handle names, and has the thread   *)
(* while it lasts.                                                         *)
HandleIs == /\ \A c \in AdecCaller : req_handle = c <=> acall[c] \in Streaming
            /\ wpc = "none" <=> req_handle = NoCaller
            /\ req_handle # NoCaller /\ acall[req_handle] # "join" => dec_run /\ wpc # "exit"

(* data_sem counts the data that the thread has not begun with, and the    *)
(* end.                                                                    *)
PostedOnce ==
  /\ data_sem <= 2
  /\ req_handle # NoCaller /\ acall[req_handle] # "join" =>
       /\ wpc \in Waiting => data_sem <= (IF codec[req_handle].decode_flag THEN 1 ELSE 0)
       /\ wpc \in AtWork => data_sem = 0 /\ codec[req_handle].decode_flag

(* The tip's codec.                                                        *)
Tip == codec["tip"]
(* Where the tip is.                                                       *)
TipAt(places) == acall["tip"] \in places
(* What the tip sends is posted: no thread sleeps over it, and none stops  *)
(* after its last look with frames left.                                   *)
TipPosts ==
  /\ TipAt({"req"}) => ~Tip.decode_flag /\ Tip.wait_flag /\ Tip.buf = 0
  /\ TipAt(Sending \cup {"cancel", "wait", "play", "pause"}) =>
       /\ Tip.wait_flag
       /\ wpc \in {"check2", "clear"} => Tip.buf = 0
       /\ wpc \in Waiting /\ Tip.decode_flag => data_sem > 0
  /\ TipAt({"nap"}) /\ Tip.buf > 0 => Tip.decode_flag
(* A tip that has slept, or waits in its cancel, has the thread at the     *)
(* driver as long as frames are left, and the end is seen of the speaker   *)
(* only when they are played.                                              *)
TipFeeds ==
  /\ TipAt({"stream", "cancel", "wait", "play"}) /\ Tip.buf > 0 =>
       /\ wpc \in {"get", "get2"}
       /\ dec_status = "DECODE_FINISHED" \/ TipAt({"play"}) => dac > 0
  /\ TipAt({"pause", "reset", "join"}) => Tip.buf = 0
(* The stream, its thread and what a tip has sent.                         *)
AdecInv == AdecTypes /\ HandleIs /\ PostedOnce /\ TipPosts /\ TipFeeds

(* A buffer is drained by a frame, or of the rest.                         *)
LEMMA DrainedIs ==
  ASSUME NEW d \in Codec, NEW rest \in BOOLEAN, rest \/ d.buf > 0
  PROVE  LET e == Drained(d, rest)
         IN /\ e \in Codec /\ e.buf = IF rest THEN d.buf ELSE d.buf - 1
            /\ e.decode_flag <=> d.decode_flag
            /\ e.wait_flag <=> d.wait_flag
<1> DEFINE E(b, p) == [d EXCEPT !.buf = b, !.part = p, !.no_frame = 0]
<1>1. BufLen \in Nat
  BY AdecAssumption
<1>2. PICK b \in 0..BufLen : b = IF rest THEN d.buf ELSE d.buf - 1
  BY <1>1 DEF Codec
<1>3. PICK p \in BOOLEAN : p = (d.part /\ ~rest)
  BY Zenon DEF Codec
<1>4. /\ E(b, p) \in Codec /\ E(b, p).buf = b
      /\ E(b, p).decode_flag <=> d.decode_flag
      /\ E(b, p).wait_flag <=> d.wait_flag
  BY <1>1 DEF Codec
<1>5. Drained(d, rest) = E(b, p)
  BY <1>2, <1>3 DEF Drained
<1> HIDE DEF E
<1>6. QED
  BY <1>2, <1>4, <1>5

(* A buffer is filled by a send, the flags stay.                           *)
LEMMA FilledIs ==
  ASSUME NEW d \in Codec, NEW ragged \in BOOLEAN, d.buf < BufLen
  PROVE  LET e == Filled(d, ragged)
         IN /\ e \in Codec
            /\ e.decode_flag <=> d.decode_flag
            /\ e.wait_flag <=> d.wait_flag
<1> DEFINE E(b, p) == [d EXCEPT !.buf = b, !.part = p]
<1>1. BufLen \in Nat
  BY AdecAssumption
<1>2. PICK b \in 0..BufLen : b = IF ragged /\ ~d.part THEN d.buf ELSE d.buf + 1
  BY <1>1 DEF Codec
<1>3. PICK p \in BOOLEAN : p = IF ragged THEN ~d.part ELSE d.part
  BY Zenon DEF Codec
<1>4. /\ E(b, p) \in Codec
      /\ E(b, p).decode_flag <=> d.decode_flag
      /\ E(b, p).wait_flag <=> d.wait_flag
  BY <1>1 DEF Codec
<1>5. Filled(d, ragged) = E(b, p)
  BY <1>2, <1>3 DEF Filled
<1> HIDE DEF E
<1>6. QED
  BY <1>4, <1>5

(* The decode_flag is set and nothing else.                                *)
LEMMA FlagIs ==
  ASSUME codec \in [AdecCaller -> Codec], NEW c \in AdecCaller, NEW b \in BOOLEAN
  PROVE  /\ [codec EXCEPT ![c].decode_flag = b] \in [AdecCaller -> Codec]
         /\ [codec EXCEPT ![c].decode_flag = b][c].decode_flag <=> b
         /\ [codec EXCEPT ![c].decode_flag = b][c].wait_flag <=> codec[c].wait_flag
         /\ [codec EXCEPT ![c].decode_flag = b][c].buf = codec[c].buf
         /\ \A d \in AdecCaller : d # c => [codec EXCEPT ![c].decode_flag = b][d] = codec[d]
BY DEF Codec

(* Another flag is set and nothing else.                                   *)
LEMMA OtherFlags ==
  ASSUME codec \in [AdecCaller -> Codec], NEW c \in AdecCaller,
         NEW new \in {[codec EXCEPT ![c].wait_flag = FALSE],
                      [codec EXCEPT ![c].end_flag = TRUE], [codec EXCEPT ![c].end_flag = FALSE]}
  PROVE  /\ new \in [AdecCaller -> Codec]
         /\ new[c].decode_flag <=> codec[c].decode_flag
         /\ new = [codec EXCEPT ![c].end_flag = TRUE] => (new[c].wait_flag <=> codec[c].wait_flag)
         /\ new[c].buf = codec[c].buf
         /\ \A d \in AdecCaller : d # c => new[d] = codec[d]
<1>1. CASE new = [codec EXCEPT ![c].wait_flag = FALSE]
  BY <1>1 DEF Codec
<1>2. CASE new = [codec EXCEPT ![c].end_flag = TRUE]
  BY <1>2 DEF Codec
<1>3. CASE new = [codec EXCEPT ![c].end_flag = FALSE]
  BY <1>3 DEF Codec
<1>4. QED
  BY <1>1, <1>2, <1>3

(* The flags with which a send wakes the thread.                           *)
LEMMA WokenIs ==
  ASSUME codec \in [AdecCaller -> Codec], NEW c \in AdecCaller
  PROVE  LET new == [codec EXCEPT ![c].decode_flag = TRUE, ![c].wait_flag = TRUE]
         IN /\ new \in [AdecCaller -> Codec] /\ new[c].decode_flag /\ new[c].wait_flag
            /\ new[c].buf = codec[c].buf
            /\ \A d \in AdecCaller : d # c => new[d] = codec[d]
BY DEF Codec

(* A buffer is emptied and the flags stay.                                 *)
LEMMA EmptiedIs ==
  ASSUME codec \in [AdecCaller -> Codec], NEW c \in AdecCaller
  PROVE  LET new == [codec EXCEPT ![c].buf = 0, ![c].part = FALSE]
         IN /\ new \in [AdecCaller -> Codec] /\ new[c].buf = 0
            /\ new[c].decode_flag <=> codec[c].decode_flag
            /\ new[c].wait_flag <=> codec[c].wait_flag
            /\ \A d \in AdecCaller : d # c => new[d] = codec[d]
<1>1. 0 \in 0..BufLen
  BY AdecAssumption
<1>2. QED
  BY <1>1 DEF Codec

(* A step of the thread keeps the invariant.                               *)
LEMMA WriterKeeps == ASSUME "gap" \notin AdecFaults, AdecInv, WriterStep PROVE AdecInv'
<1> USE AdecAssumption DEF AdecInv, AdecTypes, HandleIs, PostedOnce, TipPosts, TipFeeds, Tip, TipAt, Sending, Streaming,
      Waiting, AtWork, WriterGoes, decVars, sendVars, aoVars, AdecCaller, NoCaller
<1>0. req_handle \in AdecCaller
  BY DEF WriterStep, WriterLoops, WriterWakes, WriterStarts, WriterDozes, WriterJudges, check_decode_finished,
         WriterClears, get_frame_and_play
<1>1. CASE WriterLoops
  BY <1>1 DEF WriterLoops
<1>2. CASE WriterWakes
  BY <1>2 DEF WriterWakes
<1>3. CASE WriterStarts
  BY <1>3 DEF WriterStarts
<1>4. CASE WriterDozes
  BY <1>4 DEF WriterDozes
<1>5. CASE WriterJudges
  BY <1>5 DEF WriterJudges, AfterPass
<1>6. CASE check_decode_finished("check", "doze")
  BY <1>6 DEF check_decode_finished
<1>7. CASE check_decode_finished("check2", "clear")
  BY <1>7 DEF check_decode_finished
<1>8. CASE WriterClears
  <2>1. /\ codec' \in [AdecCaller -> Codec] /\ ~codec'[req_handle].decode_flag
        /\ codec'[req_handle].wait_flag <=> codec[req_handle].wait_flag
        /\ codec'[req_handle].buf = codec[req_handle].buf
        /\ \A d \in AdecCaller : d # req_handle => codec'[d] = codec[d]
    BY <1>0, <1>8, FlagIs DEF WriterClears
  <2>2. QED
    BY <1>0, <1>8, <2>1 DEF WriterClears
<1>9. ASSUME NEW get, NEW check, <<get, check>> \in {<<"get", "check">>, <<"get2", "check2">>},
             get_frame_and_play(get, check)
      PROVE AdecInv'
  <2> DEFINE h == req_handle
  <2>0. codec[h] \in Codec /\ BufLen \in Nat
    BY <1>0
  <2>1. wpc = get /\ UNCHANGED <<decVars, sendVars>>
    BY <1>9 DEF get_frame_and_play
  <2>2. ASSUME NEW rest \in BOOLEAN, GetsFrame(rest), wpc' = IF codec[h].wait_flag THEN get ELSE check
        PROVE  AdecInv'
    <3>1. /\ dac < DacLen /\ dac' = dac + 1 /\ dac' \in 0..DacLen /\ dac' > 0 /\ dec_status' = "SENT_TO_AO"
          /\ codec' = [codec EXCEPT ![h] = Drained(codec[h], rest)]
          /\ rest => codec[h].buf = 0
          /\ ~rest => codec[h].buf > 0
      BY <2>2 DEF GetsFrame
    <3>2. /\ Drained(codec[h], rest) \in Codec
          /\ Drained(codec[h], rest).buf = IF rest THEN codec[h].buf ELSE codec[h].buf - 1
          /\ Drained(codec[h], rest).decode_flag <=> codec[h].decode_flag
          /\ Drained(codec[h], rest).wait_flag <=> codec[h].wait_flag
      BY <2>0, <3>1, DrainedIs
    <3>3. /\ codec' \in [AdecCaller -> Codec]
          /\ codec'[h].decode_flag <=> codec[h].decode_flag
          /\ codec'[h].wait_flag <=> codec[h].wait_flag
          /\ codec'[h].buf = IF rest THEN codec[h].buf ELSE codec[h].buf - 1
          /\ codec'[h].buf \in Nat /\ codec[h].buf \in Nat
          /\ \A d \in AdecCaller : d # h => codec'[d] = codec[d]
      BY <1>0, <2>0, <3>1, <3>2 DEF Codec
    <3>4. codec'[h].buf > 0 => codec[h].buf > 0
      BY <3>1, <3>3
    <3>5. AdecTypes' /\ HandleIs' /\ PostedOnce'
      BY <1>0, <1>9, <2>1, <2>2, <3>1, <3>3
    <3>6. TipPosts' /\ TipFeeds'
      BY <1>0, <1>9, <2>1, <2>2, <3>1, <3>3, <3>4
    <3>7. QED
      BY <3>5, <3>6
  <2>3. ASSUME GetsNothing, wpc' = check PROVE AdecInv'
    <3> DEFINE k == IF codec[h].no_frame = NoDataTime THEN codec[h].no_frame ELSE codec[h].no_frame + 1
    <3>1. /\ codec[h].buf = 0 /\ UNCHANGED <<dec_status, aoVars>>
          /\ codec' = [codec EXCEPT ![h].no_frame = k]
      BY <2>3 DEF GetsNothing
    <3>4. k \in Nat
      BY <2>0 DEF Codec
    <3> HIDE DEF k
    <3>2. /\ codec' \in [AdecCaller -> Codec]
          /\ codec'[h].decode_flag <=> codec[h].decode_flag
          /\ codec'[h].wait_flag <=> codec[h].wait_flag
          /\ codec'[h].buf = 0
          /\ \A d \in AdecCaller : d # h => codec'[d] = codec[d]
      BY <1>0, <3>1, <3>4 DEF Codec
    <3>3. QED
      BY <1>0, <1>9, <2>1, <2>3, <3>1, <3>2
  <2>4. QED
    BY <1>9, <2>2, <2>3 DEF get_frame_and_play
<1>10. QED
  BY <1>1, <1>2, <1>3, <1>4, <1>5, <1>6, <1>7, <1>8, <1>9 DEF WriterStep

(* So does a step of a caller, a tip's sleep and the speaker.              *)
LEMMA SpeakersKeep ==
  ASSUME "gap" \notin AdecFaults, AdecInv, NEW c \in AdecCaller, Asks(c) \/ AdecCallStep(c) \/ ak_adec_notice_stream_end(c)
            \/ (\E ragged \in BOOLEAN : write_decode_buffer(c, ragged)) \/ TipNaps \/ DacPlays
  PROVE  AdecInv'
<1> USE AdecAssumption DEF AdecInv, AdecTypes, HandleIs, PostedOnce, TipPosts, TipFeeds, Tip, TipAt, Sending, Streaming,
      Waiting, AtWork, CallGoes, decVars, sendVars, aoVars, AdecCaller, NoCaller
<1>1. CASE DacPlays
  BY <1>1 DEF DacPlays, Feeding, Codec
<1>2. CASE TipNaps
  BY <1>2 DEF TipNaps, WriterWaits, Codec
<1>3. CASE Asks(c)
  BY <1>3 DEF Asks, NewCodec, Codec
<1>4. CASE ak_adec_request_stream(c)
  <2>1. CASE req_handle # NoCaller
    BY <1>4, <2>1 DEF ak_adec_request_stream
  <2>2. CASE req_handle = NoCaller
    <3>1. /\ acall[c] = "req" /\ acall' = [acall EXCEPT ![c] = "stream"]
          /\ req_handle' = c /\ dec_run' = TRUE /\ data_sem' = 0 /\ wpc' = "loop" /\ dec_status' = "READY"
          /\ UNCHANGED <<req_mutex, codec, dac>>
      BY <1>4, <2>2 DEF ak_adec_request_stream
    <3>2. \A d \in AdecCaller : acall[d] \in {"out", "req"}
      BY <2>2
    <3>3. AdecTypes' /\ HandleIs' /\ PostedOnce'
      BY <3>1, <3>2
    <3>4. TipPosts' /\ TipFeeds'
      BY <3>1, <3>2
    <3>5. QED
      BY <3>3, <3>4
  <2>3. QED
    BY <2>1, <2>2
<1>5. ASSUME NEW ragged \in BOOLEAN, write_decode_buffer(c, ragged) PROVE AdecInv'
  <2>1. CASE codec[c].buf < BufLen
    <3>1. /\ codec' = [codec EXCEPT ![c] = Filled(codec[c], ragged)]
          /\ UNCHANGED <<decVars, dec_status, wpc, aoVars>> /\ acall' = [acall EXCEPT ![c] = "flag"]
          /\ acall[c] = "stream" /\ wpc \notin {"check2", "clear"}
      BY <1>5, <2>1 DEF write_decode_buffer
    <3>2. /\ Filled(codec[c], ragged) \in Codec
          /\ Filled(codec[c], ragged).decode_flag <=> codec[c].decode_flag
          /\ Filled(codec[c], ragged).wait_flag <=> codec[c].wait_flag
      BY <2>1, FilledIs
    <3>3. /\ codec' \in [AdecCaller -> Codec]
          /\ codec'[c].decode_flag <=> codec[c].decode_flag
          /\ codec'[c].wait_flag <=> codec[c].wait_flag
          /\ \A d \in AdecCaller : d # c => codec'[d] = codec[d]
      BY <3>1, <3>2
    <3>4. QED
      BY <3>1, <3>3
  <2>2. CASE ~(codec[c].buf < BufLen)
    BY <1>5, <2>2 DEF write_decode_buffer
  <2>3. QED
    BY <2>1, <2>2
<1>6. CASE WakesWriter(c)
  <2>1. /\ acall[c] = "flag" /\ acall' = [acall EXCEPT ![c] = IF c = "tip" THEN "nap" ELSE "stream"]
        /\ UNCHANGED <<dec_run, req_handle, req_mutex, dec_status, wpc, aoVars>>
    BY <1>6 DEF WakesWriter
  <2>2. req_handle = c /\ \A d \in AdecCaller : d # c => acall[d] \in {"out", "req"}
    BY <2>1
  <2>3. CASE codec[c].decode_flag
    <3>1. UNCHANGED <<codec, data_sem>>
      BY <1>6, <2>3 DEF WakesWriter
    <3>2. QED
      BY <2>1, <2>2, <2>3, <3>1
  <2>4. CASE ~codec[c].decode_flag
    <3>1. data_sem' = data_sem + 1
          /\ codec' = [codec EXCEPT ![c].decode_flag = TRUE, ![c].wait_flag = TRUE]
      BY <1>6, <2>4 DEF WakesWriter
    <3>2. /\ codec' \in [AdecCaller -> Codec] /\ codec'[c].decode_flag /\ codec'[c].wait_flag
          /\ codec'[c].buf = codec[c].buf
          /\ \A d \in AdecCaller : d # c => codec'[d] = codec[d]
      BY <3>1, WokenIs
    <3>3. wpc \in Waiting /\ data_sem = 0
      BY <2>1, <2>2, <2>4
    <3>4. QED
      BY <2>1, <2>2, <3>1, <3>2, <3>3
  <2>5. QED
    BY <2>3, <2>4
<1>7. CASE ak_adec_notice_stream_end(c)
  <2>1. /\ acall[c] = "stream" /\ acall' = [acall EXCEPT ![c] = "cancel"]
        /\ codec' = [codec EXCEPT ![c].end_flag = TRUE]
        /\ UNCHANGED <<decVars, dec_status, wpc, aoVars>>
    BY <1>7 DEF ak_adec_notice_stream_end
  <2>2. /\ codec' \in [AdecCaller -> Codec]
        /\ codec'[c].decode_flag <=> codec[c].decode_flag
        /\ codec'[c].wait_flag <=> codec[c].wait_flag
        /\ codec'[c].buf = codec[c].buf
        /\ \A d \in AdecCaller : d # c => codec'[d] = codec[d]
    BY <2>1, OtherFlags
  <2>3. QED
    BY <2>1, <2>2
<1>8. CASE CancelLocks(c)
  BY <1>8 DEF CancelLocks, Codec
<1>9. CASE WaitsDecoded(c)
  BY <1>9 DEF WaitsDecoded, Codec
<1>10. CASE WaitsPlayed(c)
  <2>1. acall[c] = "play" /\ UNCHANGED <<decVars, codec, wpc, dac>>
    BY <1>10 DEF WaitsPlayed
  <2>2. CASE dac > 0
    <3>1. ak_ao_get_play_status(dac) = "PLAYING"
      BY <2>2 DEF ak_ao_get_play_status
    <3>2. UNCHANGED <<dec_status, acall>>
      BY <1>10, <3>1 DEF WaitsPlayed
    <3>3. QED
      BY <2>1, <3>2
  <2>3. CASE ~(dac > 0)
    <3>1. \/ UNCHANGED <<dec_status, acall>>
          \/ dec_status' = "PLAY_FINISHED" /\ acall' = [acall EXCEPT ![c] = "pause"]
      BY <1>10 DEF WaitsPlayed
    <3>2. c = "tip" => Tip.buf = 0
      BY <2>1, <2>3 DEF Codec
    <3>3. QED
      BY <2>1, <3>1, <3>2
  <2>4. QED
    BY <2>2, <2>3
<1>11. CASE EndsWait(c)
  <2>1. /\ acall[c] = "pause" /\ acall' = [acall EXCEPT ![c] = "reset"]
        /\ codec' = [codec EXCEPT ![c].wait_flag = FALSE]
        /\ UNCHANGED <<decVars, dec_status, wpc, aoVars>>
    BY <1>11 DEF EndsWait
  <2>2. /\ codec' \in [AdecCaller -> Codec]
        /\ codec'[c].decode_flag <=> codec[c].decode_flag
        /\ codec'[c].buf = codec[c].buf
        /\ \A d \in AdecCaller : d # c => codec'[d] = codec[d]
    BY <2>1, OtherFlags
  <2>3. QED
    BY <2>1, <2>2
<1>12. CASE StopsWriter(c)
  <2>1. /\ acall[c] = "reset" /\ acall' = [acall EXCEPT ![c] = "join"]
        /\ codec' = [codec EXCEPT ![c].end_flag = FALSE]
        /\ dec_run' = FALSE /\ data_sem' = data_sem + 1
        /\ UNCHANGED <<req_handle, req_mutex, dec_status, wpc, dac>>
    BY <1>12 DEF StopsWriter
  <2>2. /\ codec' \in [AdecCaller -> Codec]
        /\ codec'[c].decode_flag <=> codec[c].decode_flag
        /\ codec'[c].buf = codec[c].buf
        /\ \A d \in AdecCaller : d # c => codec'[d] = codec[d]
    BY <2>1, OtherFlags DEF Codec
  <2>3. data_sem <= 1
    BY <2>1
  <2>4. \A d \in AdecCaller : d # c => acall[d] \in {"out", "req"}
    BY <2>1
  <2>5. AdecTypes'
    <3>1. acall' \in [AdecCaller -> Streaming \cup {"out", "req"}] /\ data_sem' \in Nat
      BY <2>1
    <3>2. QED
      BY <2>1, <2>2, <3>1
  <2>8. HandleIs'
    BY <2>1, <2>4
  <2>9. PostedOnce'
    BY <2>1, <2>2, <2>3, <2>8
  <2>6. TipPosts' /\ TipFeeds'
    BY <2>1, <2>2, <2>4
  <2>7. QED
    BY <2>5, <2>6, <2>8, <2>9
<1>13. CASE JoinsWriter(c)
  <2>1. /\ acall[c] = "join" /\ acall' = [acall EXCEPT ![c] = "out"]
        /\ wpc' = "none" /\ req_handle' = NoCaller /\ req_mutex' = NoCaller
        /\ codec' = [codec EXCEPT ![c].buf = 0, ![c].part = FALSE]
        /\ UNCHANGED <<dec_run, data_sem, dec_status, aoVars>>
    BY <1>13 DEF JoinsWriter
  <2>2. /\ codec' \in [AdecCaller -> Codec] /\ codec'[c].buf = 0
        /\ \A d \in AdecCaller : d # c => codec'[d] = codec[d]
    BY <2>1, EmptiedIs
  <2>3. QED
    BY <2>1, <2>2
<1>14. QED
  BY <1>1, <1>2, <1>3, <1>4, <1>5, <1>6, <1>7, <1>8, <1>9, <1>10, <1>11, <1>12, <1>13 DEF AdecCallStep, CancelGoes

(* The first state has the invariant ...                                   *)
LEMMA AdecInitInv == AdecInit => AdecInv
<1> SUFFICES ASSUME AdecInit PROVE AdecInv
  OBVIOUS
<1>1. NewCodec \in Codec /\ ~NewCodec.decode_flag /\ NewCodec.wait_flag /\ NewCodec.buf = 0
  BY AdecAssumption DEF NewCodec, Codec
<1>2. codec \in [AdecCaller -> Codec]
  BY <1>1 DEF AdecInit
<1>3. AdecTypes
  <2>1. acall \in [AdecCaller -> Streaming \cup {"out", "req"}]
    BY DEF AdecInit
  <2>2. dac \in 0..DacLen
    BY AdecAssumption DEF AdecInit
  <2>3. QED
    BY <1>2, <2>1, <2>2 DEF AdecInit, AdecTypes
<1>4. HandleIs /\ PostedOnce
  BY DEF AdecInit, HandleIs, PostedOnce, Sending, Streaming, Waiting, AtWork, AdecCaller, NoCaller
<1>5. TipPosts /\ TipFeeds
  BY DEF AdecInit, TipPosts, TipFeeds, Tip, TipAt, Sending, AdecCaller
<1>6. QED
  BY <1>3, <1>4, <1>5 DEF AdecInv

(* ... and every step keeps it, unless data comes between the last look    *)
(* and the flag, or a stream ends unsent.                                  *)
LEMMA AdecSteps == ASSUME "gap" \notin AdecFaults, AdecInv, [AdecNext]_adecVars PROVE AdecInv'
<1>1. CASE UNCHANGED adecVars
  BY <1>1 DEF adecVars, decVars, sendVars, aoVars, AdecInv, AdecTypes, HandleIs, PostedOnce, TipPosts, TipFeeds, Tip, TipAt
<1>2. CASE WriterStep
  BY <1>2, WriterKeeps
<1>3. CASE DacPlays \/ TipNaps
  <2>1. "tip" \in AdecCaller
    BY DEF AdecCaller
  <2>2. QED
    BY <1>3, <2>1, SpeakersKeep
<1>4. CASE \E c \in AdecCaller : \/ Asks(c) \/ AdecCallStep(c)
                                \/ \E ragged \in BOOLEAN : write_decode_buffer(c, ragged)
                                \/ ak_adec_notice_stream_end(c)
  BY <1>4, SpeakersKeep
<1>5. QED
  BY <1>1, <1>2, <1>3, <1>4 DEF AdecNext

(* With it a tip's buffer is empty when the cancel clears it.              *)
LEMMA AdecInvHeard == AdecInv => TipIsHeard
BY AdecAssumption DEF AdecInv, AdecTypes, HandleIs, PostedOnce, TipFeeds, Tip, TipAt, TipIsHeard, AdecTypeOK, Codec

(* A tip is heard to its end (ak_adec.c:1003), for buffers, drivers and    *)
(* files of any length, any number of sends and streams, and streams that  *)
(* end unsent, if no data comes between the last look and the clearing of  *)
(* decode_flag (line 374).                                                 *)
THEOREM TipIsHeardAlways == ASSUME "gap" \notin AdecFaults PROVE AdecSpec => []TipIsHeard
<1>1. AdecInv /\ [AdecNext]_adecVars => AdecInv'
  BY AdecSteps
<1>2. QED
  BY <1>1, AdecInitInv, AdecInvHeard, PTL DEF AdecSpec
=============================================================================
