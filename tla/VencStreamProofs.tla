-------------------------- MODULE VencStreamProofs --------------------------
(***************************************************************************)
(* What holds of VencStream for any users, groups, queue length and        *)
(* frames: the counts of the entries are right; a user gets every frame    *)
(* queued since its request, unless an overflow takes it; and an overflow  *)
(* leaves of a queue what can be decoded.                                  *)
(***************************************************************************)
EXTENDS VencStream, FiniteSetTheorems, SequenceTheorems, WellFoundedInduction, TLAPS

(* An entry whose count is right.                                          *)
CountedEntry == {e \in [no : Int, ref : Int, bit_map : SUBSET Id] :
                   e.ref = Cardinality(e.bit_map)}

(* The part of the type invariant the argument needs.                      *)
StreamTypeOK ==
  /\ req_ref \in [Group -> Int]
  /\ user_map \in [Group -> SUBSET Id]
  /\ stream_list \in [Group -> Seq(CountedEntry)]
  /\ streams_count \in [Group -> Int]
  /\ venc_list \in Seq(Group)
  /\ head_frame \in Seq(Int)
  /\ next \in Int
  /\ cursor \in Int
  /\ pc \in [User -> {"idle", "serve", "running"} \union CancelLabel]
  /\ grp \in [User -> Group \union {NoGroup}]
  /\ id \in [User -> Id]
  /\ made \in [Group -> SUBSET Int] /\ lost \in [Group -> SUBSET Int]
  /\ since \in [User -> SUBSET Int] /\ got \in [User -> SUBSET Int]

(* A group's count is right too.                                           *)
ReqRefCounts == \A g \in Group : req_ref[g] = Cardinality(user_map[g])

(* A full queue has entries to drop.                                       *)
CountIsLow == \A g \in Group : streams_count[g] <= Len(stream_list[g])

(* One user at a time is inside a request or a cancel.                     *)
Locked == {"serve"} \union CancelLabel
LockHeld == \A u \in User : pc[u] \in Locked <=> cancel_lock = u

(* Who has a stream has a group, and an id of its own in it.               *)
HasGroup == \A u \in User : pc[u] # "idle" => grp[u] \in Group
OwnId == \A u \in User : Streaming(u) =>
           /\ id[u] \in user_map[grp[u]]
           /\ \A v \in User : Streaming(v) /\ grp[v] = grp[u] /\ id[v] = id[u] => v = u

(* A group that is taken down has no users.                                *)
Emptying == {"exit", "join_capture", "join_encode", "streams", "unlist", "mode"}
EmptiedHasNoUser ==
  \A u \in User : pc[u] \in Emptying => req_ref[grp[u]] <= 0

(* The encode thread has a frame, and its place in venc_list is good.      *)
EncodeHasFrame == enc_pc \in {"group", "encode"} =>
                    cancel_mutex = "encode" /\ head_frame # <<>> /\ cursor >= 1
EncodeHasGroup == enc_pc = "encode" => cursor <= Len(venc_list)

(* Every frame since a user's request is accounted for.                    *)
Awaits(u, n) == \E i \in 1..Len(stream_list[grp[u]]) :
                  /\ stream_list[grp[u]][i].no = n
                  /\ id[u] \in stream_list[grp[u]][i].bit_map
NoneMissed ==
  \A u \in User : Streaming(u) =>
    \A n \in made[grp[u]] : n \in since[u] \/ n \in got[u] \/ n \in lost[grp[u]] \/ Awaits(u, n)

StreamInv == /\ StreamTypeOK /\ ReqRefCounts /\ CountIsLow
             /\ LockHeld /\ HasGroup /\ OwnId /\ EmptiedHasNoUser
             /\ EncodeHasFrame /\ EncodeHasGroup
             /\ NoneMissed

-----------------------------------------------------------------------------
LEMMA IdFacts == Id \subseteq Int /\ IsFiniteSet(Id) /\ 0 \in Id
BY MaxUserAssumption, FS_Interval DEF Id

(* A set of natural numbers has a least one: what CHOOSE picks exists.     *)
LEMMA LeastExists ==
  ASSUME NEW T \in SUBSET Nat, T # {}
  PROVE  \E x \in T : \A y \in T : x <= y
<1> DEFINE R == OpToRel(<, Nat)
<1>1. \A x, y \in Nat : y < x => <<y, x>> \in R
  BY DEF OpToRel
<1>2. IsWellFoundedOn(R, Nat)
  BY NatLessThanWellFounded
<1> HIDE DEF R
<1>3. PICK x \in T : \A y \in T : ~(<<y, x>> \in R)
  BY <1>2, WFMin
<1>4. \A y \in T : ~(y < x)
  BY <1>1, <1>3, Zenon
<1>5. \A y \in T : x <= y
  BY <1>4
<1> QED BY <1>5, Zenon

(* What RemoveAt returns: one entry less, and all the others.              *)
LEMMA RemoveAtKeeps ==
  ASSUME NEW S, NEW s \in Seq(S), NEW i \in 1..Len(s)
  PROVE  /\ RemoveAt(s, i) \in Seq(S)
         /\ Len(RemoveAt(s, i)) = Len(s) - 1
         /\ \A k \in 1..Len(s) : k # i =>
              \E j \in 1..Len(s) - 1 : RemoveAt(s, i)[j] = s[k]
<1> DEFINE a == SubSeq(s, 1, i - 1)
           b == SubSeq(s, i + 1, Len(s))
<1>0. Len(s) \in Nat /\ i \in Int
  BY LenProperties
<1>1. /\ a \in Seq(S) /\ Len(a) = i - 1
      /\ \A k \in 1..i - 1 : a[k] = s[k]
  BY <1>0, SubSeqProperties, ElementOfSeq
<1>2. /\ b \in Seq(S) /\ Len(b) = Len(s) - i
      /\ \A k \in 1..Len(s) - i : b[k] = s[i + k]
  BY <1>0, SubSeqProperties, ElementOfSeq
<1>3. RemoveAt(s, i) = a \o b
  BY DEF RemoveAt
<1> HIDE DEF a, b
<1>4. /\ a \o b \in Seq(S) /\ Len(a \o b) = Len(s) - 1
      /\ \A k \in 1..Len(s) - 1 : (a \o b)[k] = IF k <= i - 1 THEN a[k] ELSE b[k - (i - 1)]
  <2>1. /\ a \o b \in Seq(S) /\ Len(a \o b) = Len(a) + Len(b)
        /\ \A k \in 1..Len(a) + Len(b) :
             (a \o b)[k] = IF k <= Len(a) THEN a[k] ELSE b[k - Len(a)]
    BY <1>1, <1>2, ConcatProperties, Zenon
  <2>2. Len(a) + Len(b) = Len(s) - 1 /\ Len(a) = i - 1
    BY <1>0, <1>1, <1>2
  <2> QED BY <2>1, <2>2, Zenon
<1>5. ASSUME NEW k \in 1..Len(s), k # i
      PROVE  \E j \in 1..Len(s) - 1 : (a \o b)[j] = s[k]
  <2>1. CASE k < i
    <3>1. k \in 1..Len(s) - 1 /\ k <= i - 1 /\ k \in 1..i - 1
      BY <1>0, <2>1
    <3>2. (a \o b)[k] = a[k] /\ a[k] = s[k]
      BY <1>1, <1>4, <3>1, Zenon
    <3> QED BY <3>1, <3>2, Zenon
  <2>2. CASE k > i
    <3>1. k - 1 \in 1..Len(s) - 1 /\ ~(k - 1 <= i - 1) /\ k - i \in 1..Len(s) - i
      BY <1>0, <2>2
    <3>2. (a \o b)[k - 1] = b[k - 1 - (i - 1)] /\ b[k - i] = s[i + (k - i)]
      BY <1>2, <1>4, <3>1, Zenon
    <3>3. k - 1 - (i - 1) = k - i /\ i + (k - i) = k
      BY <1>0
    <3> QED BY <3>1, <3>2, <3>3, Zenon
  <2>3. k < i \/ k > i
    BY <1>0, <1>5
  <2> QED BY <2>1, <2>2, <2>3, Zenon
<1> QED BY <1>3, <1>4, <1>5

(* The place an entry had before entry i was removed.                      *)
LEMMA RemoveAtSkips ==
  ASSUME NEW S, NEW s \in Seq(S), NEW i \in 1..Len(s), NEW j \in 1..Len(s) - 1
  PROVE  RemoveAt(s, i)[j] = IF j < i THEN s[j] ELSE s[j + 1]
<1> DEFINE a == SubSeq(s, 1, i - 1)
           b == SubSeq(s, i + 1, Len(s))
<1>0. Len(s) \in Nat /\ i \in Int
  BY LenProperties
<1>1. /\ a \in Seq(S) /\ Len(a) = i - 1
      /\ \A k \in 1..i - 1 : a[k] = s[k]
  BY <1>0, SubSeqProperties, ElementOfSeq
<1>2. /\ b \in Seq(S) /\ Len(b) = Len(s) - i
      /\ \A k \in 1..Len(s) - i : b[k] = s[i + k]
  BY <1>0, SubSeqProperties, ElementOfSeq
<1>3. RemoveAt(s, i) = a \o b
  BY DEF RemoveAt
<1> HIDE DEF a, b
<1>4. \A k \in 1..Len(a) + Len(b) : (a \o b)[k] = IF k <= Len(a) THEN a[k] ELSE b[k - Len(a)]
  BY <1>1, <1>2, ConcatProperties, Zenon
<1>5. (a \o b)[j] = IF j <= i - 1 THEN a[j] ELSE b[j - (i - 1)]
  BY <1>0, <1>1, <1>2, <1>4
<1>6. CASE j < i
  BY <1>0, <1>1, <1>3, <1>5, <1>6
<1>7. CASE ~(j < i)
  <2>1. j - (i - 1) \in 1..Len(s) - i /\ i + (j - (i - 1)) = j + 1
    BY <1>0, <1>7
  <2> QED BY <1>0, <1>2, <1>3, <1>5, <1>7, <2>1
<1> QED BY <1>6, <1>7

-----------------------------------------------------------------------------
LEMMA InitStep == Init => StreamInv
<1> SUFFICES ASSUME Init PROVE StreamInv
  OBVIOUS
<1>1. StreamTypeOK
  BY IdFacts, EmptySeq DEF Init, StreamTypeOK
<1>2. ReqRefCounts /\ CountIsLow
  BY FS_EmptySet DEF Init, ReqRefCounts, CountIsLow
<1>3. LockHeld /\ HasGroup /\ OwnId /\ EmptiedHasNoUser /\ NoneMissed
  BY FreeAssumption DEF Init, LockHeld, Locked, CancelLabel, HasGroup, OwnId,
       Streaming, EmptiedHasNoUser, Emptying, NoneMissed
<1>4. EncodeHasFrame /\ EncodeHasGroup
  BY DEF Init, EncodeHasFrame, EncodeHasGroup
<1> QED BY <1>1, <1>2, <1>3, <1>4 DEF StreamInv

(* Who streams goes on as before, and the queues stay: then the counts and *)
(* the accounts stay right.                                                *)
QueuesStay == UNCHANGED <<req_ref, user_map, queues, queued>>
StreamersStay ==
  \A u \in User : Streaming(u)' =>
    /\ Streaming(u)
    /\ grp'[u] = grp[u] /\ id'[u] = id[u]
    /\ since'[u] = since[u] /\ got'[u] = got[u]

LEMMA QueueKeeps ==
  ASSUME StreamInv, QueuesStay, StreamersStay
  PROVE  ReqRefCounts' /\ CountIsLow' /\ OwnId' /\ NoneMissed'
<1>1. ReqRefCounts' /\ CountIsLow'
  BY DEF StreamInv, QueuesStay, queues, ReqRefCounts, CountIsLow
<1>2. OwnId'
  BY DEF StreamInv, QueuesStay, StreamersStay, OwnId
<1>3. NoneMissed'
  BY DEF StreamInv, QueuesStay, queues, queued, StreamersStay, NoneMissed, Awaits
<1> QED BY <1>1, <1>2, <1>3

(* The steps of the capture thread.                                        *)
LEMMA CaptureKeeps == StreamInv /\ Capture => StreamInv'
<1> SUFFICES ASSUME StreamInv, Capture PROVE StreamInv'
  OBVIOUS
<1>1. /\ QueuesStay /\ StreamersStay
      /\ UNCHANGED <<cancel_lock, cancel_mutex, users, given, venc_list, encode>>
  BY DEF Capture, CaptureWakes, add_to_encode_list, CaptureLeaves, QueuesStay,
         StreamersStay, groups, users, given, Streaming
<1>2. StreamTypeOK' /\ (head_frame # <<>> => head_frame' # <<>>)
  <2>1. CASE add_to_encode_list
    <3>1. /\ head_frame \in Seq(Int) /\ next \in Int
          /\ head_frame' = Append(head_frame, next) /\ next' = next + 1
      BY <2>1 DEF add_to_encode_list, StreamInv, StreamTypeOK
    <3>2. head_frame' \in Seq(Int) /\ head_frame' # <<>>
      BY <3>1, AppendProperties, ZenonT(30)
    <3> QED BY <1>1, <3>1, <3>2 DEF StreamInv, StreamTypeOK, QueuesStay, queues, queued,
                              users, given, encode
  <2>2. CASE CaptureWakes \/ CaptureLeaves
    BY <1>1, <2>2 DEF CaptureWakes, CaptureLeaves, StreamInv, StreamTypeOK,
           QueuesStay, queues, queued, users, given, encode
  <2> QED BY <2>1, <2>2 DEF Capture
<1>3. ReqRefCounts' /\ CountIsLow' /\ OwnId' /\ NoneMissed'
  BY <1>1, QueueKeeps
<1>4. LockHeld' /\ HasGroup' /\ EmptiedHasNoUser'
  BY <1>1 DEF StreamInv, LockHeld, HasGroup, EmptiedHasNoUser, QueuesStay, users
<1>5. EncodeHasFrame' /\ EncodeHasGroup'
  BY <1>1, <1>2 DEF StreamInv, EncodeHasFrame, EncodeHasGroup, encode
<1> QED BY <1>2, <1>3, <1>4, <1>5 DEF StreamInv

-----------------------------------------------------------------------------
(* The steps in which a user touches no queue: it holds the lock before,   *)
(* and after unless it leaves.                                             *)
Quiet(u) == \/ start_service_work(u) \/ CancelCounts(u) \/ ExitCapture(u)
            \/ JoinCapture(u) \/ JoinEncode(u) \/ CancelUnlists(u)
            \/ CancelClears(u) \/ CancelLeaves(u)

(* What they do to the users, ...                                          *)
UsersType == /\ pc \in [User -> {"idle", "serve", "running"} \union CancelLabel]
             /\ grp \in [User -> Group \union {NoGroup}]
             /\ id \in [User -> Id]
UserMoves(u) ==
  /\ UsersType' /\ pc[u] \in Locked
  /\ pc'[u] \in {"running", "idle"} \union CancelLabel
  /\ pc'[u] = "idle" \/ (grp'[u] = grp[u] /\ id'[u] = id[u])
  /\ pc'[u] = "running" => pc[u] = "serve"
  /\ \A v \in User \ {u} : pc'[v] = pc[v] /\ grp'[v] = grp[v] /\ id'[v] = id[v]
  /\ IF pc'[u] \in CancelLabel THEN UNCHANGED cancel_lock ELSE cancel_lock' = Free
  /\ pc'[u] \in Emptying => req_ref[grp[u]] <= 0

(* ... and to the encode thread.                                           *)
EncodeMoves ==
  \/ UNCHANGED <<head_frame, venc_list, enc_pc, cursor>>
  \/ /\ enc_pc' \in {"wait", "none"} /\ cursor' \in Int
     /\ head_frame' \in Seq(Int) /\ UNCHANGED venc_list
  \/ /\ cancel_mutex = Free
     /\ venc_list' \in Seq(Group) /\ UNCHANGED <<head_frame, enc_pc, cursor>>

LEMMA QuietSteps ==
  ASSUME NEW u \in User, StreamInv, Quiet(u)
  PROVE  /\ QueuesStay /\ UNCHANGED <<given, next, cancel_mutex>>
         /\ UserMoves(u) /\ EncodeMoves
<1>0. StreamTypeOK /\ EmptiedHasNoUser /\ UsersType
  BY DEF StreamInv, StreamTypeOK, UsersType
<1>1. QueuesStay /\ UNCHANGED <<given, next, cancel_mutex>>
  BY DEF Quiet, start_service_work, CancelCounts, ExitCapture, JoinCapture, JoinEncode,
         CancelUnlists, CancelClears, CancelLeaves, QueuesStay, groups
<1>2. UserMoves(u)
  <2> USE <1>0, IdFacts DEF UserMoves, UsersType, EmptiedHasNoUser, Goto, Locked, CancelLabel,
                   Emptying
  <2>1. CASE start_service_work(u)
    BY <2>1 DEF start_service_work
  <2>2. CASE CancelCounts(u)
    BY <2>2 DEF CancelCounts
  <2>3. CASE ExitCapture(u)
    BY <2>3 DEF ExitCapture
  <2>4. CASE JoinCapture(u) \/ JoinEncode(u)
    BY <2>4 DEF JoinCapture, JoinEncode
  <2>5. CASE CancelUnlists(u)
    BY <2>5 DEF CancelUnlists
  <2>6. CASE CancelClears(u)
    BY <2>6 DEF CancelClears
  <2>7. CASE CancelLeaves(u)
    BY <2>7 DEF CancelLeaves
  <2> QED BY <2>1, <2>2, <2>3, <2>4, <2>5, <2>6, <2>7 DEF Quiet
<1>3. EncodeMoves
  <2>1. CASE start_service_work(u)
    BY <1>0, <2>1 DEF start_service_work, EncodeMoves, StreamTypeOK, encode
  <2>2. CASE JoinEncode(u)
    BY <1>0, <2>2, EmptySeq DEF JoinEncode, EncodeMoves, StreamTypeOK
  <2>3. CASE CancelUnlists(u)
    <3>1. \A i \in 1..Len(venc_list) : RemoveAt(venc_list, i) \in Seq(Group)
      BY <1>0, RemoveAtKeeps DEF StreamTypeOK
    <3> QED BY <2>3, <3>1 DEF CancelUnlists, EncodeMoves, encode
  <2>4. CASE \/ CancelCounts(u) \/ ExitCapture(u) \/ JoinCapture(u)
             \/ CancelClears(u) \/ CancelLeaves(u)
    BY <2>4 DEF CancelCounts, ExitCapture, JoinCapture, CancelClears, CancelLeaves,
                EncodeMoves, encode
  <2> QED BY <2>1, <2>2, <2>3, <2>4 DEF Quiet
<1> QED BY <1>1, <1>2, <1>3

LEMMA QuietKeeps == ASSUME NEW u \in User, StreamInv, Quiet(u) PROVE StreamInv'
<1>0. /\ QueuesStay /\ UNCHANGED <<given, next, cancel_mutex>>
      /\ UserMoves(u) /\ EncodeMoves
  BY QuietSteps
<1>1. StreamTypeOK'
  BY <1>0 DEF StreamInv, StreamTypeOK, QueuesStay, queues, queued, given, UserMoves,
              UsersType, EncodeMoves
<1>2. StreamersStay
  BY <1>0 DEF UserMoves, StreamersStay, Streaming, CancelLabel, given
<1>3. ReqRefCounts' /\ CountIsLow' /\ OwnId' /\ NoneMissed'
  BY <1>0, <1>2, QueueKeeps
<1>4. LockHeld' /\ HasGroup' /\ EmptiedHasNoUser'
  <2> USE <1>0, FreeAssumption DEF StreamInv, UserMoves
  <2>1. LockHeld'
    BY DEF LockHeld, Locked, CancelLabel
  <2>2. HasGroup'
    BY DEF HasGroup, Locked, CancelLabel
  <2>3. EmptiedHasNoUser'
    BY DEF EmptiedHasNoUser, Emptying, CancelLabel, QueuesStay
  <2> QED BY <2>1, <2>2, <2>3
<1>5. EncodeHasFrame' /\ EncodeHasGroup'
  BY <1>0, FreeAssumption DEF StreamInv, EncodeHasFrame, EncodeHasGroup, EncodeMoves
<1> QED BY <1>1, <1>3, <1>4, <1>5 DEF StreamInv

-----------------------------------------------------------------------------
(* A group's users are finitely many ids.                                  *)
LEMMA FiniteIds == ASSUME NEW S \in SUBSET Id PROVE IsFiniteSet(S) /\ Cardinality(S) \in Nat
BY IdFacts, FS_Subset, FS_CardinalityType

(* A request gets an id nobody has.                                        *)
LEMMA FreeIdIsFree ==
  ASSUME NEW g \in Group, user_map[g] \in SUBSET Id, Id \ user_map[g] # {}
  PROVE  FreeId(g) \in Id \ user_map[g]
<1> DEFINE T == Id \ user_map[g]
<1>1. T \in SUBSET Nat /\ T # {}
  BY MaxUserAssumption DEF Id
<1>2. \E x \in T : \A y \in T : x <= y
  BY <1>1, LeastExists, Zenon
<1>3. \E i \in Id : i \notin user_map[g] /\ \A j \in Id \ user_map[g] : i <= j
  BY <1>2
<1> QED BY <1>3, Zenon DEF FreeId

LEMMA RequestKeeps ==
  ASSUME NEW u \in User, NEW g \in Group, StreamInv, ak_venc_request_stream(u, g)
  PROVE  StreamInv'
<1>0. StreamTypeOK /\ UsersType
  BY DEF StreamInv, StreamTypeOK, UsersType
<1> DEFINE i == FreeId(g)
<1>1. i \in Id \ user_map[g]
  BY <1>0, FreeIdIsFree DEF ak_venc_request_stream, StreamTypeOK
<1>2. /\ pc[u] = "idle" /\ cancel_lock = Free
      /\ cancel_lock' = u /\ pc' = [pc EXCEPT ![u] = "serve"]
      /\ grp' = [grp EXCEPT ![u] = g] /\ id' = [id EXCEPT ![u] = i]
      /\ user_map' = [user_map EXCEPT ![g] = @ \union {i}]
      /\ req_ref' = [req_ref EXCEPT ![g] = @ + 1]
      /\ since' = [since EXCEPT ![u] = made[g]] /\ got' = [got EXCEPT ![u] = {}]
      /\ UNCHANGED <<stream_list, head_frame, next, made, lost, cursor, enc_pc, cancel_mutex>>
      /\ \/ UNCHANGED <<streams_count, venc_list>>
         \/ /\ streams_count' = [streams_count EXCEPT ![g] = 0]
            /\ venc_list' = Append(venc_list, g)
  BY DEF ak_venc_request_stream, Goto, encode, queued
<1> HIDE DEF i
<1>3. venc_list' \in Seq(Group) /\ Len(venc_list') \in Nat /\ Len(venc_list) \in Nat
      /\ Len(venc_list') >= Len(venc_list)
  <2>1. venc_list \in Seq(Group) /\ Append(venc_list, g) \in Seq(Group)
        /\ Len(Append(venc_list, g)) = Len(venc_list) + 1
    BY <1>0, AppendProperties DEF StreamTypeOK
  <2>2. Len(venc_list) \in Nat
    BY <2>1, LenProperties
  <2>3. venc_list' = venc_list \/ venc_list' = Append(venc_list, g)
    BY <1>2
  <2> QED BY <2>1, <2>2, <2>3
<1>4. UsersType'
  BY <1>0, <1>1, <1>2 DEF UsersType, CancelLabel
<1>5. StreamTypeOK'
  <2>1. req_ref' \in [Group -> Int] /\ user_map' \in [Group -> SUBSET Id]
    BY <1>0, <1>1, <1>2 DEF StreamTypeOK
  <2>2. streams_count' \in [Group -> Int]
    BY <1>0, <1>2 DEF StreamTypeOK
  <2>3. since' \in [User -> SUBSET Int] /\ got' \in [User -> SUBSET Int]
    BY <1>0, <1>2 DEF StreamTypeOK
  <2> QED BY <1>0, <1>2, <1>3, <1>4, <2>1, <2>2, <2>3 DEF StreamTypeOK, UsersType
<1>6. ReqRefCounts'
  <2>1. Cardinality(user_map[g] \union {i}) = Cardinality(user_map[g]) + 1
    BY <1>0, <1>1, FiniteIds, FS_AddElement DEF StreamTypeOK
  <2> QED BY <1>0, <1>2, <2>1 DEF StreamInv, ReqRefCounts, StreamTypeOK
<1>7. CountIsLow'
  <2>1. \A h \in Group : stream_list[h] \in Seq(CountedEntry)
    BY <1>0 DEF StreamTypeOK
  <2>2. \A h \in Group : Len(stream_list[h]) >= 0
    BY <2>1, LenProperties
  <2> QED BY <1>0, <1>2, <2>2 DEF StreamInv, CountIsLow, StreamTypeOK
<1>8. LockHeld' /\ HasGroup'
  BY <1>0, <1>2, FreeAssumption DEF StreamInv, LockHeld, HasGroup, Locked, CancelLabel, UsersType
<1>9. EmptiedHasNoUser'
  <2>1. \A v \in User : pc[v] \notin Emptying
    BY <1>2, FreeAssumption DEF StreamInv, LockHeld, Locked, CancelLabel, Emptying
  <2> QED BY <1>0, <1>2, <2>1 DEF EmptiedHasNoUser, Emptying, UsersType
<1>10. OwnId'
  <2>1. \A v \in User \ {u} : Streaming(v)' <=> Streaming(v)
    BY <1>0, <1>2 DEF Streaming, UsersType
  <2>2. \A v \in User \ {u} : Streaming(v) =>
          /\ grp'[v] = grp[v] /\ id'[v] = id[v] /\ grp[v] \in Group
          /\ id[v] \in user_map[grp[v]]
    BY <1>0, <1>2 DEF StreamInv, HasGroup, OwnId, UsersType, Streaming
  <2>3. /\ \A h \in Group : user_map[h] \subseteq user_map'[h]
        /\ grp'[u] = g /\ id'[u] = i /\ i \in user_map'[g] /\ i \notin user_map[g]
    BY <1>0, <1>1, <1>2 DEF StreamTypeOK, UsersType
  <2>4. \A v, w \in User \ {u} : Streaming(v) /\ Streaming(w) /\ grp[v] = grp[w] /\ id[v] = id[w]
          => v = w
    BY DEF StreamInv, OwnId
  <2> QED BY <2>1, <2>2, <2>3, <2>4, Zenon DEF OwnId
<1>11. NoneMissed'
  <2>1. \A v \in User \ {u} : Streaming(v)' =>
          /\ Streaming(v) /\ grp'[v] = grp[v] /\ id'[v] = id[v]
          /\ since'[v] = since[v] /\ got'[v] = got[v]
    BY <1>0, <1>2 DEF Streaming, UsersType, StreamTypeOK
  <2>2. grp'[u] = g /\ since'[u] = made[g]
    BY <1>0, <1>2 DEF StreamTypeOK, UsersType
  <2> QED BY <1>2, <2>1, <2>2 DEF StreamInv, NoneMissed, Awaits
<1>12. EncodeHasFrame' /\ EncodeHasGroup'
  BY <1>0, <1>2, <1>3 DEF StreamInv, EncodeHasFrame, EncodeHasGroup, StreamTypeOK
<1> QED BY <1>5, <1>6, <1>7, <1>8, <1>9, <1>10, <1>11, <1>12 DEF StreamInv

(* Cancelling frees the id; the queues stay.                               *)
LEMMA CancelKeeps ==
  ASSUME NEW u \in User, StreamInv, CancelBegins(u)
  PROVE  StreamInv'
<1>0. /\ StreamTypeOK /\ UsersType /\ grp[u] \in Group /\ id[u] \in user_map[grp[u]]
      /\ pc[u] = "running"
  BY DEF StreamInv, StreamTypeOK, UsersType, HasGroup, OwnId, CancelBegins, Streaming
<1>1. /\ cancel_lock = Free /\ cancel_lock' = u /\ pc' = [pc EXCEPT ![u] = "cancel"]
      /\ req_ref' = [req_ref EXCEPT ![grp[u]] = @ - 1]
      /\ user_map' = [user_map EXCEPT ![grp[u]] = @ \ {id[u]}]
      /\ since' = [since EXCEPT ![u] = {}] /\ got' = [got EXCEPT ![u] = {}]
      /\ UNCHANGED <<stream_list, streams_count, venc_list, head_frame, enc_pc, cursor,
                     cancel_mutex, grp, id, next, made, lost>>
  BY DEF CancelBegins, Goto, queues, encode, queued
<1>2. StreamTypeOK'
  <2>1. req_ref' \in [Group -> Int] /\ user_map' \in [Group -> SUBSET Id]
    BY <1>0, <1>1 DEF StreamTypeOK
  <2>2. since' \in [User -> SUBSET Int] /\ got' \in [User -> SUBSET Int]
    BY <1>0, <1>1 DEF StreamTypeOK
  <2>3. pc' \in [User -> {"idle", "serve", "running"} \union CancelLabel]
    BY <1>0, <1>1 DEF UsersType, CancelLabel
  <2> QED BY <1>0, <1>1, <2>1, <2>2, <2>3 DEF StreamTypeOK
<1>3. ReqRefCounts'
  <2>1. user_map[grp[u]] \in SUBSET Id
    BY <1>0 DEF StreamTypeOK
  <2>2. IsFiniteSet(user_map[grp[u]])
    BY <2>1, FiniteIds
  <2>3. Cardinality(user_map[grp[u]] \ {id[u]}) = Cardinality(user_map[grp[u]]) - 1
    BY <1>0, <2>2, FS_RemoveElement
  <2> QED BY <1>0, <1>1, <2>3 DEF StreamInv, ReqRefCounts, StreamTypeOK
<1>4. CountIsLow' /\ HasGroup' /\ EncodeHasFrame' /\ EncodeHasGroup'
  BY <1>0, <1>1 DEF StreamInv, CountIsLow, HasGroup, EncodeHasFrame, EncodeHasGroup, UsersType
<1>5. LockHeld'
  BY <1>0, <1>1, FreeAssumption DEF StreamInv, LockHeld, Locked, CancelLabel, UsersType
<1>6. EmptiedHasNoUser'
  <2>1. \A v \in User : pc[v] \notin Emptying
    BY <1>1, FreeAssumption DEF StreamInv, LockHeld, Locked, CancelLabel, Emptying
  <2> QED BY <1>0, <1>1, <2>1 DEF EmptiedHasNoUser, Emptying, UsersType
<1>7. \A v \in User : Streaming(v)' =>
        /\ v # u /\ Streaming(v) /\ since'[v] = since[v] /\ got'[v] = got[v]
  BY <1>0, <1>1 DEF Streaming, UsersType, StreamTypeOK
<1>8. OwnId'
  <2>1. \A v \in User : Streaming(v) /\ v # u => id[v] \in user_map'[grp[v]]
    BY <1>0, <1>1 DEF StreamInv, OwnId, StreamTypeOK, HasGroup, Streaming
  <2> QED BY <1>1, <1>7, <2>1 DEF StreamInv, OwnId
<1>9. NoneMissed'
  BY <1>1, <1>7 DEF StreamInv, NoneMissed, Awaits
<1> QED BY <1>2, <1>3, <1>4, <1>5, <1>6, <1>8, <1>9 DEF StreamInv

(* Releasing a group's entries: no user of it is left to miss them.        *)
LEMMA ReleaseKeeps ==
  ASSUME NEW u \in User, StreamInv, release_group_streams(u)
  PROVE  StreamInv'
<1> DEFINE g == grp[u]
<1>0. /\ StreamTypeOK /\ UsersType /\ g \in Group /\ req_ref[g] <= 0
      /\ pc[u] = "streams"
  BY DEF StreamInv, StreamTypeOK, UsersType, HasGroup, EmptiedHasNoUser, Emptying,
         release_group_streams
<1>1. /\ pc' = [pc EXCEPT ![u] = "unlist"]
      /\ stream_list' = [stream_list EXCEPT ![g] = <<>>]
      /\ streams_count' = [streams_count EXCEPT ![g] = @ - Len(stream_list[g])]
      /\ made' = [made EXCEPT ![g] = {}] /\ lost' = [lost EXCEPT ![g] = {}]
      /\ UNCHANGED <<req_ref, user_map, venc_list, head_frame, enc_pc, cursor, cancel_lock,
                     cancel_mutex, grp, id, next, since, got>>
  BY DEF release_group_streams, Goto, groups, encode, given
<1>2. stream_list[g] \in Seq(CountedEntry) /\ Len(stream_list[g]) \in Nat
  BY <1>0, LenProperties DEF StreamTypeOK
<1>3. <<>> \in Seq(CountedEntry) /\ Len(<<>>) = 0
  BY EmptySeq
<1>4. \A v \in User : Streaming(v) => grp[v] # g
  <2>1. user_map[g] \in SUBSET Id /\ Cardinality(user_map[g]) <= 0
    BY <1>0 DEF StreamInv, ReqRefCounts, StreamTypeOK
  <2>2. IsFiniteSet(user_map[g]) /\ Cardinality(user_map[g]) = 0
    BY <2>1, FiniteIds
  <2>3. user_map[g] = {}
    BY <2>2, FS_EmptySet
  <2> QED BY <2>3 DEF StreamInv, OwnId
<1> HIDE DEF g
<1>5. StreamTypeOK'
  <2>1. stream_list' \in [Group -> Seq(CountedEntry)]
    BY <1>0, <1>1, <1>3, Zenon DEF StreamTypeOK
  <2>2. streams_count' \in [Group -> Int]
    BY <1>0, <1>1, <1>2 DEF StreamTypeOK
  <2>3. made' \in [Group -> SUBSET Int] /\ lost' \in [Group -> SUBSET Int]
    BY <1>0, <1>1 DEF StreamTypeOK
  <2>4. pc' \in [User -> {"idle", "serve", "running"} \union CancelLabel]
    BY <1>0, <1>1 DEF UsersType, CancelLabel
  <2> QED BY <1>0, <1>1, <2>1, <2>2, <2>3, <2>4 DEF StreamTypeOK
<1>6. ReqRefCounts' /\ EncodeHasFrame' /\ EncodeHasGroup' /\ HasGroup'
  BY <1>0, <1>1 DEF StreamInv, ReqRefCounts, EncodeHasFrame, EncodeHasGroup, HasGroup,
                    UsersType
<1>7. CountIsLow'
  <2>1. streams_count[g] - Len(stream_list[g]) <= 0
    BY <1>0, <1>2 DEF StreamInv, CountIsLow, StreamTypeOK
  <2>2. \A h \in Group : h # g => stream_list'[h] = stream_list[h] /\ streams_count'[h] = streams_count[h]
    BY <1>0, <1>1 DEF StreamTypeOK
  <2>3. stream_list'[g] = <<>> /\ streams_count'[g] = streams_count[g] - Len(stream_list[g])
    BY <1>0, <1>1 DEF StreamTypeOK
  <2> QED BY <1>3, <2>1, <2>2, <2>3 DEF StreamInv, CountIsLow
<1>8. LockHeld' /\ EmptiedHasNoUser'
  BY <1>0, <1>1 DEF StreamInv, LockHeld, Locked, CancelLabel, UsersType, EmptiedHasNoUser,
                    Emptying
<1>9. \A v \in User : Streaming(v)' => Streaming(v)
  BY <1>0, <1>1 DEF Streaming, UsersType
<1>10. OwnId'
  BY <1>1, <1>9 DEF StreamInv, OwnId
<1>11. NoneMissed'
  <2>1. \A h \in Group : h # g =>
          stream_list'[h] = stream_list[h] /\ made'[h] = made[h] /\ lost'[h] = lost[h]
    BY <1>0, <1>1 DEF StreamTypeOK
  <2>2. \A v \in User : Streaming(v) => grp[v] \in Group
    BY DEF StreamInv, HasGroup, Streaming
  <2> QED BY <1>1, <1>4, <1>9, <2>1, <2>2 DEF StreamInv, NoneMissed, Awaits
<1> QED BY <1>5, <1>6, <1>7, <1>8, <1>10, <1>11 DEF StreamInv

(* The frames of q are among those of s, in the same order.                *)
Thinned(q, s) ==
  /\ \A j \in 1..Len(q) : \E k \in 1..Len(s) : q[j].no = s[k].no
  /\ \A i, j \in 1..Len(q) : i < j =>
       \E k, l \in 1..Len(s) : k < l /\ q[i].no = s[k].no /\ q[j].no = s[l].no

LEMMA RemoveAtThins ==
  ASSUME NEW S, NEW s \in Seq(S), NEW i \in 1..Len(s)
  PROVE  Thinned(RemoveAt(s, i), s)
<1> DEFINE r == RemoveAt(s, i)
           Before(j) == IF j < i THEN j ELSE j + 1
<1>1. Len(r) = Len(s) - 1 /\ Len(s) \in Nat
  BY RemoveAtKeeps, LenProperties
<1>2. \A j \in 1..Len(s) - 1 : r[j] = IF j < i THEN s[j] ELSE s[j + 1]
  BY RemoveAtSkips
<1> HIDE DEF r
<1>3. \A j \in 1..Len(r) : Before(j) \in 1..Len(s) /\ r[j] = s[Before(j)]
  BY <1>1, <1>2
<1>4. \A j, k \in 1..Len(r) : j < k => Before(j) < Before(k)
  BY <1>1
<1> HIDE DEF Before
<1>5. Thinned(r, s)
  <2>1. \A j \in 1..Len(r) : \E k \in 1..Len(s) : r[j].no = s[k].no
    BY <1>3
  <2>2. ASSUME NEW j \in 1..Len(r), NEW k \in 1..Len(r), j < k
        PROVE  \E m, l \in 1..Len(s) : m < l /\ r[j].no = s[m].no /\ r[k].no = s[l].no
    BY <1>3, <1>4, <2>2
  <2> QED BY <2>1, <2>2 DEF Thinned
<1> QED BY <1>5 DEF r

(* Taking entry i out of a queue s, or its bit out of the entry: every     *)
(* other user finds what it waits for, and the frames keep their order.    *)
Serves(q, s, i, x) ==
  /\ q \in Seq(CountedEntry) /\ Thinned(q, s)
  /\ \A k \in 1..Len(s) : \A y \in s[k].bit_map :
       k # i \/ y # x => \E j \in 1..Len(q) : q[j].no = s[k].no /\ y \in q[j].bit_map

LEMMA TakeCounts ==
  ASSUME NEW e \in CountedEntry, NEW u \in User, id[u] \in e.bit_map
  PROVE  /\ Take(e, u) \in CountedEntry
         /\ Take(e, u).no = e.no /\ Take(e, u).bit_map = e.bit_map \ {id[u]}
         /\ Take(e, u).ref <= 0 => e.bit_map = {id[u]}
<1>1. /\ e = [no |-> e.no, ref |-> e.ref, bit_map |-> e.bit_map] /\ e.no \in Int
      /\ e.ref \in Int /\ e.bit_map \in SUBSET Id /\ e.ref = Cardinality(e.bit_map)
  BY DEF CountedEntry
<1>2. IsFiniteSet(e.bit_map)
  BY <1>1, FiniteIds
<1>3. Cardinality(e.bit_map \ {id[u]}) = e.ref - 1 /\ IsFiniteSet(e.bit_map \ {id[u]})
  BY <1>1, <1>2, FS_RemoveElement
<1>4. /\ Take(e, u) \in [no : Int, ref : Int, bit_map : SUBSET Id]
      /\ Take(e, u).no = e.no /\ Take(e, u).ref = e.ref - 1
      /\ Take(e, u).bit_map = e.bit_map \ {id[u]}
  BY <1>1 DEF Take
<1>5. Take(e, u) \in CountedEntry
  BY <1>3, <1>4 DEF CountedEntry
<1>6. ASSUME Take(e, u).ref <= 0 PROVE e.bit_map = {id[u]}
  <2>1. Cardinality(e.bit_map \ {id[u]}) \in Nat
    BY <1>3, FS_CardinalityType
  <2>2. Cardinality(e.bit_map \ {id[u]}) = 0
    BY <1>1, <1>3, <1>4, <1>6, <2>1
  <2>3. e.bit_map \ {id[u]} = {}
    BY <1>3, <2>2, FS_EmptySet
  <2> QED BY <2>3
<1> QED BY <1>4, <1>5, <1>6

(* What a get does to the queue.                                           *)
LEMMA GetServes ==
  ASSUME NEW u \in User, StreamInv, ak_venc_get_stream(u)
  PROVE  \E i \in 1..Len(stream_list[grp[u]]) : \E q \in Seq(CountedEntry) :
           /\ Serves(q, stream_list[grp[u]], i, id[u])
           /\ stream_list' = [stream_list EXCEPT ![grp[u]] = q]
           /\ got' = [got EXCEPT ![u] = @ \union {stream_list[grp[u]][i].no}]
           /\ \/ /\ streams_count' = [streams_count EXCEPT ![grp[u]] = @ - 1]
                 /\ Len(q) = Len(stream_list[grp[u]]) - 1
              \/ UNCHANGED streams_count /\ Len(q) = Len(stream_list[grp[u]])
<1> DEFINE g == grp[u]
           s == stream_list[g]
           i == CHOOSE j \in Pending(u) : \A k \in Pending(u) : j <= k
           e == Take(s[i], u)
<1>0. g \in Group /\ s \in Seq(CountedEntry)
  BY DEF StreamInv, StreamTypeOK, HasGroup, ak_venc_get_stream
<1>1. i \in Pending(u)
  <2>1. Pending(u) \subseteq 1..Len(s)
    BY Zenon DEF Pending
  <2>2. 1..Len(s) \subseteq Nat
    BY <1>0, LenProperties
  <2>3. Pending(u) \in SUBSET Nat /\ Pending(u) # {}
    BY <2>1, <2>2, Zenon DEF ak_venc_get_stream
  <2>4. \E j \in Pending(u) : \A k \in Pending(u) : j <= k
    BY <2>3, LeastExists, Zenon
  <2> QED BY <2>4, Zenon
<1>2. /\ got' = [got EXCEPT ![u] = @ \union {e.no}]
      /\ \/ /\ e.ref <= 0
            /\ stream_list' = [stream_list EXCEPT ![g] = RemoveAt(s, i)]
            /\ streams_count' = [streams_count EXCEPT ![g] = @ - 1]
         \/ /\ stream_list' = [stream_list EXCEPT ![g] = [s EXCEPT ![i] = e]]
            /\ UNCHANGED streams_count
  BY <1>0 DEF ak_venc_get_stream, StreamInv, StreamTypeOK
<1> HIDE DEF i
<1>3. i \in 1..Len(s) /\ id[u] \in s[i].bit_map
  BY <1>1 DEF Pending
<1>4. s[i] \in CountedEntry
  BY <1>0, <1>3, ElementOfSeq
<1>5. /\ e \in CountedEntry /\ e.no = s[i].no /\ e.bit_map = s[i].bit_map \ {id[u]}
      /\ e.ref <= 0 => s[i].bit_map = {id[u]}
  BY <1>3, <1>4, TakeCounts
<1> HIDE DEF e, s, g
<1>6. CASE /\ e.ref <= 0
           /\ stream_list' = [stream_list EXCEPT ![g] = RemoveAt(s, i)]
           /\ streams_count' = [streams_count EXCEPT ![g] = @ - 1]
  <2>1. /\ RemoveAt(s, i) \in Seq(CountedEntry) /\ Len(RemoveAt(s, i)) = Len(s) - 1
        /\ \A k \in 1..Len(s) : k # i => \E j \in 1..Len(s) - 1 : RemoveAt(s, i)[j] = s[k]
    BY <1>0, <1>3, RemoveAtKeeps
  <2>2. Serves(RemoveAt(s, i), s, i, id[u])
    BY <1>0, <1>3, <1>5, <1>6, <2>1, RemoveAtThins DEF Serves
  <2> QED BY <1>2, <1>3, <1>5, <1>6, <2>1, <2>2 DEF s, g
<1>7. CASE /\ stream_list' = [stream_list EXCEPT ![g] = [s EXCEPT ![i] = e]]
           /\ UNCHANGED streams_count
  <2>1. /\ [s EXCEPT ![i] = e] \in Seq(CountedEntry) /\ Len([s EXCEPT ![i] = e]) = Len(s)
        /\ \A k \in 1..Len(s) : [s EXCEPT ![i] = e][k] = IF k = i THEN e ELSE s[k]
    BY <1>0, <1>3, <1>5, ExceptSeq
  <2>2. Thinned([s EXCEPT ![i] = e], s)
    BY <1>5, <2>1 DEF Thinned
  <2>3. Serves([s EXCEPT ![i] = e], s, i, id[u])
    BY <1>5, <2>1, <2>2 DEF Serves
  <2> QED BY <1>2, <1>3, <1>5, <1>7, <2>1, <2>3 DEF s, g
<1> QED BY <1>2, <1>6, <1>7

LEMMA GetKeeps ==
  ASSUME NEW u \in User, StreamInv, ak_venc_get_stream(u)
  PROVE  StreamInv'
<1> DEFINE g == grp[u]
           s == stream_list[g]
<1>0. /\ StreamTypeOK /\ g \in Group /\ s \in Seq(CountedEntry) /\ Len(s) \in Nat
      /\ Streaming(u)
  BY LenProperties DEF StreamInv, StreamTypeOK, HasGroup, ak_venc_get_stream, Streaming
<1>1. PICK i \in 1..Len(s) : \E q \in Seq(CountedEntry) :
        /\ Serves(q, s, i, id[u])
        /\ stream_list' = [stream_list EXCEPT ![g] = q]
        /\ got' = [got EXCEPT ![u] = @ \union {s[i].no}]
        /\ \/ /\ streams_count' = [streams_count EXCEPT ![g] = @ - 1]
              /\ Len(q) = Len(s) - 1
           \/ UNCHANGED streams_count /\ Len(q) = Len(s)
  BY GetServes
<1>2. PICK q \in Seq(CountedEntry) :
        /\ Serves(q, s, i, id[u])
        /\ stream_list' = [stream_list EXCEPT ![g] = q]
        /\ got' = [got EXCEPT ![u] = @ \union {s[i].no}]
        /\ \/ /\ streams_count' = [streams_count EXCEPT ![g] = @ - 1]
              /\ Len(q) = Len(s) - 1
           \/ UNCHANGED streams_count /\ Len(q) = Len(s)
  BY <1>1
<1>3. UNCHANGED <<req_ref, user_map, venc_list, head_frame, enc_pc, cursor, cancel_lock,
                  cancel_mutex, pc, grp, id, next, made, lost, since>>
  BY DEF ak_venc_get_stream, groups, encode, users, queued
<1>4. s[i] \in CountedEntry
  BY <1>0, ElementOfSeq
<1> HIDE DEF g, s
<1>5. StreamTypeOK'
  <2>1. stream_list' \in [Group -> Seq(CountedEntry)]
    BY <1>0, <1>2, Zenon DEF StreamTypeOK
  <2>2. streams_count' \in [Group -> Int]
    BY <1>0, <1>2 DEF StreamTypeOK
  <2>3. got' \in [User -> SUBSET Int]
    BY <1>0, <1>2, <1>4 DEF StreamTypeOK, CountedEntry
  <2> QED BY <1>0, <1>3, <2>1, <2>2, <2>3 DEF StreamTypeOK
<1>6. /\ ReqRefCounts' /\ LockHeld' /\ HasGroup' /\ OwnId' /\ EmptiedHasNoUser'
      /\ EncodeHasFrame' /\ EncodeHasGroup'
  BY <1>3 DEF StreamInv, ReqRefCounts, LockHeld, HasGroup, OwnId, EmptiedHasNoUser,
              EncodeHasFrame, EncodeHasGroup, Streaming
<1>7. /\ stream_list'[g] = q
      /\ \A h \in Group : h # g => /\ stream_list'[h] = stream_list[h]
                                  /\ streams_count'[h] = streams_count[h]
  BY <1>0, <1>2 DEF StreamTypeOK
<1>8. CountIsLow'
  <2>1. streams_count[g] <= Len(s) /\ streams_count[g] \in Int
    BY <1>0 DEF StreamInv, CountIsLow, StreamTypeOK, s
  <2>2. streams_count'[g] <= Len(q)
    BY <1>0, <1>2, <2>1 DEF StreamTypeOK
  <2> QED BY <1>7, <2>2 DEF StreamInv, CountIsLow
<1>9. NoneMissed'
  <2> SUFFICES ASSUME NEW v \in User, Streaming(v), NEW n \in made[grp[v]],
                      n \notin since[v], n \notin got'[v], n \notin lost[grp[v]]
               PROVE  Awaits(v, n)'
    BY <1>3 DEF NoneMissed, Streaming
  <2>1. n \notin got[v] /\ (v = u => n # s[i].no)
    BY <1>0, <1>2 DEF StreamTypeOK
  <2>2. Awaits(v, n) /\ grp[v] \in Group
    BY <2>1 DEF StreamInv, NoneMissed, HasGroup, Streaming
  <2>3. CASE grp[v] = g
    <3>1. PICK k \in 1..Len(s) : s[k].no = n /\ id[v] \in s[k].bit_map
      BY <2>2, <2>3 DEF Awaits, s
    <3>2. k # i \/ id[v] # id[u]
      BY <1>0, <2>1, <2>3, <3>1 DEF StreamInv, OwnId, g
    <3>3. \E j \in 1..Len(q) : q[j].no = n /\ id[v] \in q[j].bit_map
      BY <1>2, <3>1, <3>2 DEF Serves
    <3> QED BY <1>3, <1>7, <2>3, <3>3 DEF Awaits
  <2>4. CASE grp[v] # g
    BY <1>3, <1>7, <2>2, <2>4 DEF Awaits
  <2> QED BY <2>3, <2>4
<1> QED BY <1>5, <1>6, <1>8, <1>9 DEF StreamInv

-----------------------------------------------------------------------------
(* The steps of the encode thread that save nothing.                       *)
LEMMA EncodeGoesOn ==
  ASSUME StreamInv, \/ EncodeTakes \/ EncodeLeaves \/ EncodeVisits
                    \/ EncodeFinishes \/ frame_to_stream_fails
  PROVE  StreamInv'
<1>0. StreamTypeOK /\ EncodeHasFrame /\ EncodeHasGroup
  BY DEF StreamInv
<1>1. /\ QueuesStay /\ StreamersStay
      /\ UNCHANGED <<venc_list, cancel_lock, users, given, next>>
  BY DEF EncodeTakes, EncodeLeaves, EncodeVisits, EncodeFinishes, frame_to_stream_fails,
         QueuesStay, StreamersStay, groups, users, given, Streaming
<1>2. /\ cursor' \in Int /\ head_frame' \in Seq(Int)
      /\ EncodeHasFrame' /\ EncodeHasGroup'
  <2> USE <1>0 DEF StreamTypeOK, EncodeHasFrame, EncodeHasGroup
  <2>1. CASE EncodeTakes
    BY <2>1 DEF EncodeTakes
  <2>2. CASE EncodeLeaves
    BY <2>2 DEF EncodeLeaves
  <2>3. CASE EncodeVisits
    BY <2>3 DEF EncodeVisits
  <2>4. CASE EncodeFinishes
    <3>1. head_frame \in Seq(Int) /\ head_frame # <<>>
      BY <2>4 DEF EncodeFinishes
    <3>2. Tail(head_frame) \in Seq(Int)
      BY <3>1, HeadTailProperties
    <3> QED BY <2>4, <3>2 DEF EncodeFinishes
  <2>5. CASE frame_to_stream_fails
    BY <2>5 DEF frame_to_stream_fails
  <2> QED BY <2>1, <2>2, <2>3, <2>4, <2>5
<1>3. StreamTypeOK'
  BY <1>1, <1>2 DEF StreamInv, StreamTypeOK, QueuesStay, queues, queued, users, given
<1>4. ReqRefCounts' /\ CountIsLow' /\ OwnId' /\ NoneMissed'
  BY <1>1, QueueKeeps
<1>5. LockHeld' /\ HasGroup' /\ EmptiedHasNoUser'
  BY <1>1 DEF StreamInv, LockHeld, HasGroup, EmptiedHasNoUser, QueuesStay, users
<1> QED BY <1>2, <1>3, <1>4, <1>5 DEF StreamInv

(* What saving does: a full queue loses its victim first.                  *)
LEMMA SaveAppends ==
  ASSUME StreamInv, save_streams
  PROVE  \E g \in Group, no \in Int, kept \in Seq(CountedEntry) :
           /\ stream_list' = [stream_list EXCEPT ![g] = Append(kept, NewEntry(g, no))]
           /\ made' = [made EXCEPT ![g] = @ \union {no}]
           /\ lost' \in [Group -> SUBSET Int]
           /\ \A h \in Group : lost[h] \subseteq lost'[h]
           /\ \A k \in 1..Len(stream_list[g]) :
                \/ stream_list[g][k].no \in lost'[g]
                \/ \E j \in 1..Len(kept) : kept[j] = stream_list[g][k]
           /\ \/ /\ Len(kept) = Len(stream_list[g]) /\ Len(kept) \in Nat
                 /\ streams_count' = [streams_count EXCEPT ![g] = @ + 1]
              \/ /\ Len(kept) = Len(stream_list[g]) - 1 /\ Len(kept) \in Nat
                 /\ UNCHANGED streams_count
<1> DEFINE g == venc_list[cursor]
           no == Head(head_frame)
           s == stream_list[g]
           v == Victim(s)
<1>0. g \in Group
  <2>1. venc_list \in Seq(Group) /\ cursor \in 1..Len(venc_list)
    BY LenProperties DEF StreamInv, StreamTypeOK, EncodeHasFrame, EncodeHasGroup, save_streams
  <2> QED BY <2>1, ElementOfSeq
<1>1. no \in Int
  <2>1. head_frame \in Seq(Int) /\ head_frame # <<>>
    BY DEF StreamInv, StreamTypeOK, EncodeHasFrame, save_streams
  <2> QED BY <2>1, HeadTailProperties
<1>2. s \in Seq(CountedEntry) /\ Len(s) \in Nat
  BY <1>0, LenProperties DEF StreamInv, StreamTypeOK
<1>3. /\ stream_list' = [stream_list EXCEPT ![g] =
           Append(IF Full(g) THEN RemoveAt(s, v) ELSE s, NewEntry(g, no))]
      /\ streams_count' = [streams_count EXCEPT ![g] = IF Full(g) THEN @ ELSE @ + 1]
      /\ lost' = IF Full(g) THEN [lost EXCEPT ![g] = @ \union {s[v].no}] ELSE lost
      /\ made' = [made EXCEPT ![g] = @ \union {no}]
  BY DEF save_streams
<1>4. Full(g) => v \in 1..Len(s)
  BY <1>0, <1>2, MaxStreamAssumption
     DEF StreamInv, StreamTypeOK, CountIsLow, Full, Victim
<1>5. lost \in [Group -> SUBSET Int] /\ streams_count \in [Group -> Int]
  BY DEF StreamInv, StreamTypeOK
<1> HIDE DEF g, no, v
<1>6. CASE Full(g)
  <2>1. v \in 1..Len(s)
    BY <1>4, <1>6
  <2>2. /\ RemoveAt(s, v) \in Seq(CountedEntry) /\ Len(RemoveAt(s, v)) = Len(s) - 1
        /\ \A k \in 1..Len(s) : k # v => \E j \in 1..Len(s) - 1 : RemoveAt(s, v)[j] = s[k]
    BY <1>2, <2>1, RemoveAtKeeps
  <2>3. s[v].no \in Int
    BY <1>2, <2>1, ElementOfSeq DEF CountedEntry
  <2>4. /\ lost' \in [Group -> SUBSET Int]
        /\ \A h \in Group : lost[h] \subseteq lost'[h]
        /\ s[v].no \in lost'[g]
    BY <1>0, <1>3, <1>5, <1>6, <2>3
  <2>5. Len(s) - 1 \in Nat
    BY <1>2, <2>1
  <2>6. stream_list' = [stream_list EXCEPT ![g] = Append(RemoveAt(s, v), NewEntry(g, no))]
    BY <1>3, <1>6, Zenon
  <2>7. UNCHANGED streams_count
    BY <1>0, <1>3, <1>5, <1>6
  <2>8. \A k \in 1..Len(s) :
          s[k].no \in lost'[g] \/ \E j \in 1..Len(RemoveAt(s, v)) : RemoveAt(s, v)[j] = s[k]
    BY <2>2, <2>4
  <2>9. made' = [made EXCEPT ![g] = @ \union {no}]
    BY <1>3
  <2> DEFINE kept == RemoveAt(s, v)
  <2>10. Len(kept) \in Nat /\ Len(kept) = Len(s) - 1 /\ kept \in Seq(CountedEntry)
    BY <2>2, <2>5
  <2> HIDE DEF kept
  <2> QED BY <1>0, <1>1, <2>4, <2>6, <2>7, <2>8, <2>9, <2>10 DEF kept
<1>7. CASE ~Full(g)
  <2>1. stream_list' = [stream_list EXCEPT ![g] = Append(s, NewEntry(g, no))]
    BY <1>3, <1>7, Zenon
  <2>2. streams_count' = [streams_count EXCEPT ![g] = @ + 1] /\ lost' = lost
    BY <1>3, <1>7
  <2>3. lost' \in [Group -> SUBSET Int] /\ \A h \in Group : lost[h] \subseteq lost'[h]
    BY <1>5, <2>2
  <2>4. \A k \in 1..Len(s) : s[k].no \in lost'[g] \/ \E j \in 1..Len(s) : s[j] = s[k]
    OBVIOUS
  <2>5. Len(s) = Len(stream_list[g]) /\ Len(s) \in Nat
    BY <1>2
  <2>6. made' = [made EXCEPT ![g] = @ \union {no}]
    BY <1>3
  <2> HIDE DEF s
  <2> QED BY <1>0, <1>1, <1>2, <2>1, <2>2, <2>3, <2>4, <2>5, <2>6 DEF s
<1> QED BY <1>6, <1>7

LEMMA SaveKeeps == StreamInv /\ save_streams => StreamInv'
<1> SUFFICES ASSUME StreamInv, save_streams PROVE StreamInv'
  OBVIOUS
<1>0. StreamTypeOK
  BY DEF StreamInv
<1>1. PICK g \in Group, no \in Int, kept \in Seq(CountedEntry) :
           /\ stream_list' = [stream_list EXCEPT ![g] = Append(kept, NewEntry(g, no))]
           /\ made' = [made EXCEPT ![g] = @ \union {no}]
           /\ lost' \in [Group -> SUBSET Int]
           /\ \A h \in Group : lost[h] \subseteq lost'[h]
           /\ \A k \in 1..Len(stream_list[g]) :
                \/ stream_list[g][k].no \in lost'[g]
                \/ \E j \in 1..Len(kept) : kept[j] = stream_list[g][k]
           /\ \/ /\ Len(kept) = Len(stream_list[g]) /\ Len(kept) \in Nat
                 /\ streams_count' = [streams_count EXCEPT ![g] = @ + 1]
              \/ /\ Len(kept) = Len(stream_list[g]) - 1 /\ Len(kept) \in Nat
                 /\ UNCHANGED streams_count
  BY SaveAppends, Zenon
<1> DEFINE n == NewEntry(g, no)
           q == Append(kept, n)
<1>2. n \in CountedEntry /\ n.no = no /\ n.bit_map = user_map[g]
  <2>1. req_ref[g] \in Int /\ user_map[g] \in SUBSET Id /\ req_ref[g] = Cardinality(user_map[g])
    BY DEF StreamInv, StreamTypeOK, ReqRefCounts
  <2> QED BY <2>1 DEF NewEntry, CountedEntry
<1> HIDE DEF n
<1>3. /\ q \in Seq(CountedEntry) /\ Len(q) = Len(kept) + 1
      /\ \A j \in 1..Len(kept) : q[j] = kept[j]
      /\ q[Len(kept) + 1] = n
  BY <1>2, AppendProperties
<1>4. /\ stream_list' = [stream_list EXCEPT ![g] = q]
      /\ UNCHANGED <<req_ref, user_map, venc_list, head_frame, cancel_lock, cancel_mutex,
                     pc, grp, id, next, since, got>>
      /\ enc_pc' = "group" /\ cursor' = cursor + 1 /\ enc_pc = "encode"
  BY <1>1 DEF save_streams, groups, users, given, n
<1> HIDE DEF q
<1>5. /\ stream_list'[g] = q /\ made'[g] = made[g] \union {no}
      /\ \A h \in Group : h # g => /\ stream_list'[h] = stream_list[h]
                                  /\ made'[h] = made[h]
                                  /\ streams_count'[h] = streams_count[h]
  BY <1>0, <1>1, <1>4 DEF StreamTypeOK
<1>6. StreamTypeOK'
  <2>1. stream_list' \in [Group -> Seq(CountedEntry)]
    BY <1>0, <1>3, <1>4, Zenon DEF StreamTypeOK
  <2>2. streams_count' \in [Group -> Int]
    BY <1>0, <1>1 DEF StreamTypeOK
  <2>3. made' \in [Group -> SUBSET Int]
    BY <1>0, <1>1 DEF StreamTypeOK
  <2>4. cursor' \in Int
    BY <1>0, <1>4 DEF StreamTypeOK
  <2> QED BY <1>0, <1>1, <1>4, <2>1, <2>2, <2>3, <2>4 DEF StreamTypeOK
<1>7. /\ ReqRefCounts' /\ LockHeld' /\ HasGroup' /\ OwnId' /\ EmptiedHasNoUser'
  BY <1>4 DEF StreamInv, ReqRefCounts, LockHeld, HasGroup, OwnId, EmptiedHasNoUser, Streaming
<1>8. EncodeHasFrame' /\ EncodeHasGroup'
  BY <1>0, <1>4 DEF StreamInv, StreamTypeOK, EncodeHasFrame, EncodeHasGroup
<1>9. CountIsLow'
  <2>1. streams_count[g] <= Len(stream_list[g]) /\ streams_count[g] \in Int
    BY <1>0 DEF StreamInv, CountIsLow, StreamTypeOK
  <2>2. streams_count'[g] <= Len(q)
    BY <1>0, <1>1, <1>3, <2>1 DEF StreamTypeOK
  <2> QED BY <1>5, <2>2 DEF StreamInv, CountIsLow
<1>10. NoneMissed'
  <2> SUFFICES ASSUME NEW v \in User, Streaming(v), NEW m \in made'[grp[v]],
                      m \notin since[v], m \notin got[v], m \notin lost'[grp[v]]
               PROVE  Awaits(v, m)'
    BY <1>4 DEF NoneMissed, Streaming
  <2>1. grp[v] \in Group /\ m \notin lost[grp[v]]
    BY <1>1 DEF StreamInv, HasGroup, Streaming
  <2>2. CASE grp[v] # g
    <3>1. Awaits(v, m)
      BY <1>5, <2>1, <2>2 DEF StreamInv, NoneMissed
    <3> QED BY <1>4, <1>5, <2>1, <2>2, <3>1 DEF Awaits
  <2>3. CASE grp[v] = g /\ m = no
    <3>1. id[v] \in n.bit_map
      BY <1>2, <2>3 DEF StreamInv, OwnId
    <3>2. Len(kept) + 1 \in 1..Len(q)
      BY <1>1, <1>3
    <3>3. q[Len(kept) + 1].no = m /\ id[v] \in q[Len(kept) + 1].bit_map
      BY <1>2, <1>3, <2>3, <3>1
    <3> QED BY <1>4, <1>5, <2>3, <3>2, <3>3 DEF Awaits
  <2>4. CASE grp[v] = g /\ m # no
    <3>1. Awaits(v, m)
      BY <1>5, <2>1, <2>4 DEF StreamInv, NoneMissed
    <3>2. PICK k \in 1..Len(stream_list[g]) :
            stream_list[g][k].no = m /\ id[v] \in stream_list[g][k].bit_map
      BY <2>4, <3>1 DEF Awaits
    <3>3. PICK j \in 1..Len(kept) : kept[j] = stream_list[g][k]
      BY <1>1, <2>4, <3>2
    <3>4. j \in 1..Len(q) /\ q[j] = stream_list[g][k]
      BY <1>1, <1>3, <3>3
    <3> QED BY <1>4, <1>5, <2>4, <3>2, <3>4 DEF Awaits
  <2> QED BY <2>2, <2>3, <2>4
<1> QED BY <1>6, <1>7, <1>8, <1>9, <1>10 DEF StreamInv

-----------------------------------------------------------------------------
LEMMA StepKeeps == StreamInv /\ [Next]_vars => StreamInv'
<1> SUFFICES ASSUME StreamInv, [Next]_vars PROVE StreamInv'
  OBVIOUS
<1>1. ASSUME NEW u \in User, NEW g \in Group, ak_venc_request_stream(u, g)
      PROVE  StreamInv'
  BY <1>1, RequestKeeps
<1>2. ASSUME NEW u \in User, start_service_work(u) \/ ak_venc_cancel_stream(u)
      PROVE  StreamInv'
  <2>1. Quiet(u) \/ release_group_streams(u)
    BY <1>2 DEF ak_venc_cancel_stream, Quiet
  <2> QED BY <2>1, QuietKeeps, ReleaseKeeps
<1>3. ASSUME NEW u \in User, ak_venc_get_stream(u) PROVE StreamInv'
  BY <1>3, GetKeeps
<1>4. ASSUME NEW u \in User, CancelBegins(u) PROVE StreamInv'
  BY <1>4, CancelKeeps
<1>5. CASE Capture
  BY <1>5, CaptureKeeps
<1>6. CASE Encode
  BY <1>6, EncodeGoesOn, SaveKeeps DEF Encode
<1>7. CASE UNCHANGED vars
  <2>1. UNCHANGED <<req_ref, user_map, stream_list, streams_count, venc_list, head_frame,
                    enc_pc, cursor, cancel_lock, cancel_mutex, pc, grp, id, next, made,
                    lost, since, got>>
    BY <1>7 DEF vars, groups, queues, encode, users, queued, given
  <2> QED BY <2>1 DEF StreamInv, StreamTypeOK, ReqRefCounts, CountIsLow, LockHeld, HasGroup,
              OwnId, EmptiedHasNoUser, EncodeHasFrame, EncodeHasGroup, NoneMissed, Awaits,
              Streaming
<1> QED BY <1>1, <1>2, <1>3, <1>4, <1>5, <1>6, <1>7 DEF Next

(* The inductive invariant of the stream queues holds in every state,      *)
(* whatever the users, the groups and the length of a queue: it carries    *)
(* the two theorems below.                                                 *)
THEOREM StreamInvAlways == Spec => []StreamInv
<1>1. Init => StreamInv
  BY InitStep
<1>2. StreamInv /\ [Next]_vars => StreamInv'
  BY StepKeeps
<1> QED BY <1>1, <1>2, PTL DEF Spec

(* The counts by which entries and groups are freed are those of their     *)
(* users: no entry is freed under a user that has yet to take it, and none *)
(* outlives its last user's get.                                           *)
THEOREM RefIsUsersAlways == Spec => []RefIsUsers
<1>1. StreamInv => RefIsUsers
  <2> SUFFICES ASSUME StreamInv, NEW g \in Group
               PROVE  /\ req_ref[g] = Cardinality(user_map[g])
                      /\ \A i \in 1..Len(stream_list[g]) :
                           stream_list[g][i].ref = Cardinality(stream_list[g][i].bit_map)
    BY DEF RefIsUsers
  <2>1. stream_list[g] \in Seq(CountedEntry)
    BY DEF StreamInv, StreamTypeOK
  <2>2. \A i \in 1..Len(stream_list[g]) : stream_list[g][i] \in CountedEntry
    BY <2>1, ElementOfSeq
  <2> QED BY <2>2 DEF StreamInv, ReqRefCounts, CountedEntry
<1> QED BY <1>1, StreamInvAlways, PTL

(* No frame queued since a user's request escapes it but by an overflow,   *)
(* however the other users request, get and cancel meanwhile.              *)
THEOREM NoFrameMissedAlways == Spec => []NoFrameMissed
<1>1. StreamInv => NoFrameMissed
  <2>1. ASSUME NEW u \in User, NEW n, Awaits(u, n) PROVE n \in Waiting(u)
    BY <2>1 DEF Awaits, Waiting, Pending
  <2> QED BY <2>1 DEF StreamInv, NoneMissed, NoFrameMissed
<1> QED BY <1>1, StreamInvAlways, PTL

-----------------------------------------------------------------------------
(***************************************************************************)
(* What the queues hold.  Frames are captured, queued and lost in order,   *)
(* and a group is visited once in a pass over venc_list: so the frames of  *)
(* a queue ascend, and the I frame an overflow takes has a successor.      *)
(***************************************************************************)

(* venc_list holds the groups in stream mode, each once, but for the time  *)
(* a cancel takes between its steps.                                       *)
Listed(g) == \E i \in 1..Len(venc_list) : venc_list[i] = g
Leaving == {"exit", "join_capture", "join_encode", "streams", "unlist"}
ListTypeOK == /\ is_stream_mode \in [Group -> BOOLEAN]
              /\ inited_enc_grp_num \in Int
              /\ cap_sem \in Int
ListedOnce ==
  \A i, j \in 1..Len(venc_list) : venc_list[i] = venc_list[j] => i = j
ListedInMode == \A i \in 1..Len(venc_list) : is_stream_mode[venc_list[i]]
ModeIsListed ==
  \A g \in Group : is_stream_mode[g] =>
    Listed(g) \/ \E u \in User : pc[u] = "mode" /\ grp[u] = g
UnlistedIsGone == \A u \in User : pc[u] = "mode" => ~Listed(grp[u])
LeavingInMode == \A u \in User : pc[u] \in Leaving => is_stream_mode[grp[u]]
InitedIsListed ==
  \/ inited_enc_grp_num = Len(venc_list) /\ \A u \in User : pc[u] \notin Leaving
  \/ inited_enc_grp_num = Len(venc_list) - 1 /\ \E u \in User : pc[u] \in Leaving
CapSem == /\ cap_sem \in 0..2
          /\ cap_sem = 2 => \E u \in User : pc[u] \in {"join_capture", "join_encode"}
ThreadsTogether == cap_pc = "none" <=> enc_pc = "none"

ListInv == /\ ListTypeOK /\ ListedOnce /\ ListedInMode /\ ModeIsListed
           /\ UnlistedIsGone /\ LeavingInMode /\ InitedIsListed
           /\ CapSem /\ ThreadsTogether

LEMMA ListInit == Init => ListInv
<1> SUFFICES ASSUME Init PROVE ListInv
  OBVIOUS
<1>1. Len(venc_list) = 0
  BY DEF Init
<1> QED BY <1>1 DEF Init, ListInv, ListTypeOK, ListedOnce, ListedInMode, ModeIsListed, Listed,
      UnlistedIsGone, LeavingInMode, Leaving, InitedIsListed, CapSem, ThreadsTogether

(* At most one user is inside a request or a cancel.                       *)
LEMMA OneInside ==
  ASSUME StreamInv, NEW u \in User, NEW v \in User, pc[u] \in Locked, pc[v] \in Locked
  PROVE  u = v
BY DEF StreamInv, LockHeld

(* What unlisting a group does to the list.                                *)
LEMMA UnlistOne ==
  ASSUME venc_list \in Seq(Group), ListedOnce, NEW i \in 1..Len(venc_list), NEW h,
         venc_list[i] = h, venc_list' = RemoveAt(venc_list, i)
  PROVE  /\ Len(venc_list) \in Nat /\ Len(venc_list') = Len(venc_list) - 1
         /\ ListedOnce'
         /\ \A j \in 1..Len(venc_list') :
              venc_list'[j] # h /\ \E k \in 1..Len(venc_list) : venc_list'[j] = venc_list[k]
         /\ \A f : Listed(f) /\ f # h => Listed(f)'
<1>1. /\ Len(venc_list') = Len(venc_list) - 1
      /\ \A k \in 1..Len(venc_list) :
           k # i => \E j \in 1..Len(venc_list) - 1 : venc_list'[j] = venc_list[k]
  BY RemoveAtKeeps
<1>2. \A j \in 1..Len(venc_list) - 1 :
        /\ j < i => venc_list'[j] = venc_list[j]
        /\ ~(j < i) => venc_list'[j] = venc_list[j + 1]
  BY RemoveAtSkips
<1>3. Len(venc_list) \in Nat
  BY LenProperties
<1>4. ListedOnce'
  BY <1>1, <1>2, <1>3 DEF ListedOnce
<1>5. \A j \in 1..Len(venc_list') :
        venc_list'[j] # h /\ \E k \in 1..Len(venc_list) : venc_list'[j] = venc_list[k]
  BY <1>1, <1>2, <1>3 DEF ListedOnce
<1>6. \A f : Listed(f) /\ f # h => Listed(f)'
  BY <1>1, <1>3 DEF Listed
<1> QED BY <1>1, <1>3, <1>4, <1>5, <1>6

(* Every step keeps the list.                                              *)
ListStays == UNCHANGED <<is_stream_mode, inited_enc_grp_num, venc_list>>
CountsStay == /\ ListStays /\ UNCHANGED <<pc, grp>>
              /\ cap_sem' = cap_sem \/ (cap_sem > 0 /\ cap_sem' = cap_sem - 1)
              /\ cap_pc' = "none" <=> cap_pc = "none"
              /\ enc_pc' = "none" <=> enc_pc = "none"

LEMMA CountsStayKeeps == ASSUME ListInv, CountsStay PROVE ListInv'
<1>1. /\ ListedOnce' /\ ListedInMode' /\ ModeIsListed' /\ UnlistedIsGone'
      /\ LeavingInMode' /\ InitedIsListed'
  BY DEF ListInv, CountsStay, ListStays, ListedOnce, ListedInMode, ModeIsListed, Listed,
         UnlistedIsGone, LeavingInMode, InitedIsListed
<1>2. ListTypeOK' /\ CapSem' /\ ThreadsTogether'
  BY DEF ListInv, CountsStay, ListStays, ListTypeOK, CapSem, ThreadsTogether
<1> QED BY <1>1, <1>2 DEF ListInv

LEMMA ListKeeps == StreamInv /\ ListInv /\ [Next]_vars => ListInv'
<1> SUFFICES ASSUME StreamInv, ListInv, [Next]_vars PROVE ListInv'
  OBVIOUS
<1>0. StreamTypeOK /\ LockHeld /\ HasGroup /\ EmptiedHasNoUser /\ ReqRefCounts /\ OwnId
  BY DEF StreamInv
<1> USE DEF ListInv
<1>1. ASSUME NEW u \in User, NEW g \in Group, ak_venc_request_stream(u, g)
      PROVE  ListInv'
  <2>1. /\ pc[u] = "idle" /\ cancel_lock = Free
        /\ pc' = [pc EXCEPT ![u] = "serve"] /\ grp' = [grp EXCEPT ![u] = g]
        /\ UNCHANGED <<cap_sem, cap_pc, enc_pc>>
        /\ \/ is_stream_mode[g] /\ ListStays
           \/ /\ ~is_stream_mode[g]
              /\ is_stream_mode' = [is_stream_mode EXCEPT ![g] = TRUE]
              /\ inited_enc_grp_num' = inited_enc_grp_num + 1
              /\ venc_list' = Append(venc_list, g)
    BY <1>1 DEF ak_venc_request_stream, Goto, capture, encode, ListStays
  <2>2. \A v \in User : pc[v] \notin Locked
    BY <1>0, <2>1, FreeAssumption DEF LockHeld
  <2>3. \A v \in User : pc[v] \notin {"mode"} \union Leaving /\ pc'[v] \notin {"mode"} \union Leaving
    BY <1>0, <2>1, <2>2 DEF StreamTypeOK, Locked, CancelLabel, Leaving
  <2>4. CASE ListStays
    BY <2>1, <2>3, <2>4 DEF ListStays, Leaving, ListTypeOK, ListedOnce, ListedInMode, ModeIsListed,
          UnlistedIsGone, LeavingInMode, InitedIsListed, CapSem, ThreadsTogether, Listed
  <2>5. CASE /\ ~is_stream_mode[g]
             /\ is_stream_mode' = [is_stream_mode EXCEPT ![g] = TRUE]
             /\ inited_enc_grp_num' = inited_enc_grp_num + 1
             /\ venc_list' = Append(venc_list, g)
    <3>1. /\ Len(venc_list) \in Nat /\ Len(venc_list') = Len(venc_list) + 1
          /\ \A i \in 1..Len(venc_list) : venc_list'[i] = venc_list[i]
          /\ venc_list'[Len(venc_list) + 1] = g
      BY <1>0, <2>5, AppendProperties, LenProperties DEF StreamTypeOK
    <3>2. \A i \in 1..Len(venc_list) : venc_list[i] \in Group
      BY <1>0, ElementOfSeq DEF StreamTypeOK
    <3>3. \A i \in 1..Len(venc_list) : venc_list[i] # g
      BY <2>5 DEF ListedInMode
    <3>4. ListTypeOK' /\ ListedOnce' /\ CapSem' /\ ThreadsTogether'
      BY <2>1, <2>3, <2>5, <3>1, <3>3 DEF ListTypeOK, ListedOnce, CapSem, ThreadsTogether, Leaving
    <3>5. ListedInMode' /\ UnlistedIsGone' /\ LeavingInMode'
      BY <2>3, <2>5, <3>1, <3>2 DEF ListTypeOK, ListedInMode, UnlistedIsGone, LeavingInMode
    <3>6. ModeIsListed'
      BY <2>3, <2>5, <3>1, <3>2 DEF ListTypeOK, ModeIsListed, Listed
    <3>7. InitedIsListed'
      BY <2>3, <2>5, <3>1 DEF ListTypeOK, InitedIsListed
    <3> QED BY <3>4, <3>5, <3>6, <3>7
  <2> QED BY <2>1, <2>4, <2>5
<1>2. ASSUME NEW u \in User, start_service_work(u) \/ CancelBegins(u) \/ ak_venc_cancel_stream(u)
      PROVE  ListInv'
  <2>1. \A v \in User \ {u} : pc[v] \notin {"mode"} \union Leaving
    <3>1. pc[u] \in Locked \/ cancel_lock = Free
      BY <1>2 DEF start_service_work, CancelBegins, ak_venc_cancel_stream, CancelCounts,
            ExitCapture, JoinCapture, JoinEncode, release_group_streams, CancelUnlists,
            CancelClears, CancelLeaves, Locked, CancelLabel
    <3>2. \A v \in User \ {u} : pc[v] \notin Locked
      BY <1>0, <3>1, FreeAssumption DEF LockHeld
    <3> QED BY <3>2 DEF Locked, CancelLabel, Leaving
  <2>2. pc \in [User -> {"idle", "serve", "running"} \union CancelLabel]
        /\ grp \in [User -> Group \union {NoGroup}]
        /\ is_stream_mode \in [Group -> BOOLEAN]
    BY <1>0 DEF StreamTypeOK, ListTypeOK
  <2>3. pc[u] # "idle" => grp[u] \in Group
    BY <1>0 DEF HasGroup
  <2>11. CASE CancelUnlists(u)
    <3>1. /\ pc[u] = "unlist" /\ pc' = [pc EXCEPT ![u] = "mode"]
          /\ UNCHANGED <<is_stream_mode, inited_enc_grp_num, cap_sem, cap_pc, enc_pc, grp>>
      BY <2>11 DEF CancelUnlists, groups, capture, encode, Goto
    <3>2. PICK i \in 1..Len(venc_list) :
            venc_list[i] = grp[u] /\ venc_list' = RemoveAt(venc_list, i)
      BY <2>11 DEF CancelUnlists
    <3>3. /\ Len(venc_list) \in Nat /\ Len(venc_list') = Len(venc_list) - 1
          /\ ListedOnce'
          /\ \A j \in 1..Len(venc_list') :
               venc_list'[j] # grp[u] /\ \E k \in 1..Len(venc_list) : venc_list'[j] = venc_list[k]
          /\ \A f : Listed(f) /\ f # grp[u] => Listed(f)'
      BY <1>0, <3>2, UnlistOne DEF StreamTypeOK
    <3>4. ListedInMode' /\ UnlistedIsGone'
      BY <2>1, <3>1, <3>3 DEF ListedInMode, UnlistedIsGone, Listed
    <3>5. ModeIsListed'
      BY <2>1, <2>2, <3>1, <3>3 DEF ModeIsListed
    <3>6. ListTypeOK' /\ LeavingInMode' /\ InitedIsListed' /\ CapSem' /\ ThreadsTogether'
      BY <2>1, <2>2, <3>1, <3>3
         DEF ListTypeOK, LeavingInMode, InitedIsListed, CapSem, ThreadsTogether, Leaving
    <3> QED BY <3>3, <3>4, <3>5, <3>6
  <2> USE <2>1, <2>2, <2>3 DEF Goto, Leaving, ListTypeOK, ListedOnce, ListedInMode,
          ModeIsListed, UnlistedIsGone, LeavingInMode, InitedIsListed, CapSem,
          ThreadsTogether, Listed
  <2>4. CASE start_service_work(u)
    BY <2>4 DEF start_service_work, groups, capture, encode
  <2>5. CASE CancelBegins(u)
    BY <2>5 DEF CancelBegins, capture, encode
  <2>6. CASE CancelCounts(u)
    BY <2>6 DEF CancelCounts, groups, capture, encode
  <2>7. CASE ExitCapture(u)
    BY <2>7 DEF ExitCapture, groups, encode
  <2>8. CASE JoinCapture(u)
    BY <2>8 DEF JoinCapture, groups, capture
  <2>9. CASE JoinEncode(u)
    BY <2>9 DEF JoinEncode, groups
  <2>10. CASE release_group_streams(u)
    BY <2>10 DEF release_group_streams, groups, capture, encode
  <2>12. CASE CancelClears(u)
    BY <2>12 DEF CancelClears, capture, encode
  <2>13. CASE CancelLeaves(u)
    BY <2>13 DEF CancelLeaves, groups, capture, encode
  <2> QED BY <1>2, <2>4, <2>5, <2>6, <2>7, <2>8, <2>9, <2>10, <2>11, <2>12, <2>13
          DEF ak_venc_cancel_stream
<1>3. ASSUME NEW u \in User, ak_venc_get_stream(u) PROVE ListInv'
  <2>1. CountsStay
    BY <1>3 DEF ak_venc_get_stream, groups, users, capture, encode, CountsStay, ListStays
  <2> QED BY <2>1, CountsStayKeeps
<1>4. CASE Capture
  <2>1. cap_pc # "none" /\ cap_pc' # "none"
    BY <1>4 DEF Capture, CaptureWakes, add_to_encode_list, CaptureLeaves, capture
  <2>2. cap_sem' = cap_sem \/ (cap_sem > 0 /\ cap_sem' = cap_sem - 1)
    BY <1>4 DEF Capture, CaptureWakes, add_to_encode_list, CaptureLeaves, capture
  <2>3. ListStays /\ UNCHANGED <<pc, grp, enc_pc>>
    BY <1>4 DEF Capture, CaptureWakes, add_to_encode_list, CaptureLeaves, groups, users,
                encode, ListStays
  <2>4. CountsStay
    BY <2>1, <2>2, <2>3 DEF CountsStay
  <2> QED BY <2>4, CountsStayKeeps
<1>5. CASE Encode
  <2>1. CountsStay
    BY <1>5 DEF Encode, EncodeTakes, EncodeLeaves, EncodeVisits, EncodeFinishes, save_streams,
          frame_to_stream_fails, groups, users, capture, CountsStay, ListStays
  <2> QED BY <2>1, CountsStayKeeps
<1>6. CASE UNCHANGED vars
  <2>1. CountsStay
    BY <1>6 DEF vars, groups, users, capture, encode, CountsStay, ListStays
  <2> QED BY <2>1, CountsStayKeeps
<1> QED BY <1>1, <1>2, <1>3, <1>4, <1>5, <1>6 DEF Next

-----------------------------------------------------------------------------
(* The captured frames ascend, and a group has had none of them yet, but   *)
(* for the first one while a pass is beyond the group.                     *)
InPass == enc_pc \in {"group", "encode"}
Visited(g) == \E i \in 1..Len(venc_list) : i < cursor /\ venc_list[i] = g
FramesAscend ==
  /\ \A i \in 1..Len(head_frame) : head_frame[i] < next
  /\ \A i, j \in 1..Len(head_frame) : i < j => head_frame[i] < head_frame[j]
MadeBefore ==
  \A g \in Group : \A n \in made[g] :
    /\ n < next
    /\ \A i \in 1..Len(head_frame) :
         n < head_frame[i] \/ (InPass /\ i = 1 /\ n = head_frame[1] /\ Visited(g))

(* A queue holds frames of its group, in order; when it has lost an        *)
(* I frame, a later one is not behind any frame it still holds.            *)
Ascends(s) == \A i, j \in 1..Len(s) : i < j => s[i].no < s[j].no
QueueIsMade ==
  \A g \in Group : /\ Ascends(stream_list[g])
                   /\ \A i \in 1..Len(stream_list[g]) : stream_list[g][i].no \in made[g]
Succeeded(g, k) ==
  \E l \in made[g] \intersect KeyFrame :
    k < l /\ \A i \in 1..Len(stream_list[g]) : l <= stream_list[g][i].no
KeysKept == \A g \in Group : \A k \in lost[g] \intersect KeyFrame : Succeeded(g, k)

OrderInv == FramesAscend /\ MadeBefore /\ QueueIsMade /\ KeysKept

LEMMA OrderInit == Init => OrderInv
BY DEF Init, OrderInv, FramesAscend, MadeBefore, QueueIsMade, Ascends, KeysKept

(* When the frames stay and the pass goes on, or had not begun.            *)
PassStays ==
  /\ UNCHANGED <<head_frame, next>>
  /\ \A g \in Group : made'[g] \subseteq made[g]
  /\ \/ ~InPass
     \/ InPass' /\ \A g \in Group : Visited(g) => Visited(g)'

LEMMA PassKeeps ==
  ASSUME FramesAscend, MadeBefore, PassStays PROVE FramesAscend' /\ MadeBefore'
<1>1. FramesAscend'
  BY DEF FramesAscend, PassStays
<1>2. MadeBefore'
  BY DEF MadeBefore, PassStays
<1> QED BY <1>1, <1>2

(* When the queues stay, or a user takes from one.                         *)
LEMMA ThinnedKeeps ==
  ASSUME NEW g \in Group, NEW q, QueueIsMade, KeysKept, UNCHANGED <<made, lost>>,
         Thinned(q, stream_list[g]), stream_list'[g] = q,
         \A h \in Group : h # g => stream_list'[h] = stream_list[h]
  PROVE  QueueIsMade' /\ KeysKept'
<1>1. /\ Ascends(q) /\ \A i \in 1..Len(q) : q[i].no \in made[g]
  BY DEF QueueIsMade, Ascends, Thinned
<1>2. QueueIsMade'
  BY <1>1 DEF QueueIsMade
<1>3. ASSUME NEW k \in lost[g] \intersect KeyFrame PROVE Succeeded(g, k)'
  <2>1. Succeeded(g, k)
    BY <1>3 DEF KeysKept
  <2> QED BY <2>1 DEF Succeeded, Thinned
<1>4. \A h \in Group : h # g => \A k \in lost[h] \intersect KeyFrame : Succeeded(h, k)'
  BY DEF KeysKept, Succeeded
<1> QED BY <1>2, <1>3, <1>4 DEF KeysKept

LEMMA QueuesStayKeep ==
  ASSUME QueueIsMade, KeysKept, UNCHANGED <<stream_list, made, lost>>
  PROVE  QueueIsMade' /\ KeysKept'
BY DEF QueueIsMade, KeysKept, Succeeded

(* The steps of the users.                                                 *)
LEMMA UserOrders ==
  ASSUME StreamInv, ListInv, OrderInv, NEW u \in User,
         \/ \E g \in Group : ak_venc_request_stream(u, g)
         \/ start_service_work(u) \/ ak_venc_get_stream(u) \/ CancelBegins(u)
         \/ ak_venc_cancel_stream(u)
  PROVE  OrderInv'
<1>0. /\ StreamTypeOK /\ EncodeHasFrame /\ ThreadsTogether
      /\ FramesAscend /\ MadeBefore /\ QueueIsMade /\ KeysKept
  BY DEF StreamInv, ListInv, OrderInv
<1>1. ASSUME NEW g \in Group, ak_venc_request_stream(u, g) PROVE OrderInv'
  <2>1. UNCHANGED <<head_frame, next, enc_pc, cursor, made, lost, stream_list>>
    BY <1>1 DEF ak_venc_request_stream, encode, queued
  <2>2. \A h : Visited(h) => Visited(h)'
    <3>1. venc_list' = venc_list \/ venc_list' = Append(venc_list, g)
      BY <1>1 DEF ak_venc_request_stream
    <3>2. /\ Len(Append(venc_list, g)) = Len(venc_list) + 1 /\ Len(venc_list) \in Nat
          /\ \A i \in 1..Len(venc_list) : Append(venc_list, g)[i] = venc_list[i]
      BY <1>0, AppendProperties, LenProperties DEF StreamTypeOK
    <3> QED BY <2>1, <3>1, <3>2 DEF Visited
  <2>3. PassStays
    BY <2>1, <2>2 DEF PassStays, InPass
  <2> QED BY <1>0, <2>1, <2>3, PassKeeps, QueuesStayKeep DEF OrderInv
<1>2. CASE ak_venc_get_stream(u)
  <2>1. UNCHANGED <<head_frame, next, enc_pc, cursor, venc_list, made, lost>>
    BY <1>2 DEF ak_venc_get_stream, encode, queued
  <2>2. PassStays
    BY <2>1 DEF PassStays, InPass, Visited
  <2>3. grp[u] \in Group
    BY <1>2 DEF StreamInv, HasGroup, ak_venc_get_stream
  <2>4. PICK q \in Seq(CountedEntry) :
          /\ Thinned(q, stream_list[grp[u]])
          /\ stream_list' = [stream_list EXCEPT ![grp[u]] = q]
    BY <1>2, GetServes DEF Serves
  <2>5. /\ stream_list'[grp[u]] = q
        /\ \A h \in Group : h # grp[u] => stream_list'[h] = stream_list[h]
    BY <1>0, <2>3, <2>4 DEF StreamTypeOK
  <2>6. QueueIsMade' /\ KeysKept'
    BY <1>0, <2>1, <2>3, <2>4, <2>5, ThinnedKeeps
  <2> QED BY <1>0, <2>2, <2>6, PassKeeps DEF OrderInv
<1>3. CASE release_group_streams(u)
  <2>1. /\ UNCHANGED <<head_frame, next, enc_pc, cursor, venc_list>>
        /\ stream_list' = [stream_list EXCEPT ![grp[u]] = <<>>]
        /\ made' = [made EXCEPT ![grp[u]] = {}] /\ lost' = [lost EXCEPT ![grp[u]] = {}]
    BY <1>3 DEF release_group_streams, encode
  <2>2. PassStays
    BY <1>0, <2>1 DEF PassStays, InPass, Visited, StreamTypeOK
  <2>3. \A h \in Group :
          \/ stream_list'[h] = stream_list[h] /\ made'[h] = made[h] /\ lost'[h] = lost[h]
          \/ stream_list'[h] = <<>> /\ made'[h] = {} /\ lost'[h] = {}
    BY <1>0, <2>1 DEF StreamTypeOK
  <2>4. QueueIsMade'
    BY <1>0, <2>3 DEF QueueIsMade, Ascends
  <2>5. KeysKept'
    BY <1>0, <2>3 DEF KeysKept, Succeeded
  <2> QED BY <1>0, <2>2, <2>4, <2>5, PassKeeps DEF OrderInv
<1>4. CASE start_service_work(u) \/ CancelBegins(u) \/ (ak_venc_cancel_stream(u) /\ ~release_group_streams(u))
  <2>1. UNCHANGED <<stream_list, made, lost, next>>
    BY <1>4 DEF start_service_work, CancelBegins, ak_venc_cancel_stream, CancelCounts,
          ExitCapture, JoinCapture, JoinEncode, CancelUnlists, CancelClears, CancelLeaves,
          queues, queued
  <2>2. CASE JoinEncode(u)
    <3>1. head_frame' = <<>>
      BY <2>2 DEF JoinEncode
    <3>2. FramesAscend' /\ MadeBefore'
      BY <1>0, <2>1, <3>1 DEF FramesAscend, MadeBefore
    <3> QED BY <1>0, <2>1, <3>2, QueuesStayKeep DEF OrderInv
  <2>3. CASE ~JoinEncode(u)
    <3>1. ASSUME InPass PROVE PassStays
      <4>1. UNCHANGED <<head_frame, venc_list, enc_pc, cursor>>
        BY <1>0, <1>4, <2>3, <3>1, FreeAssumption
           DEF start_service_work, CancelBegins, ak_venc_cancel_stream, CancelCounts,
               ExitCapture, JoinCapture, CancelUnlists, CancelClears, CancelLeaves,
               encode, InPass, EncodeHasFrame, ThreadsTogether
      <4> QED BY <2>1, <4>1 DEF PassStays, InPass, Visited
    <3>2. ASSUME ~InPass PROVE PassStays
      <4>1. UNCHANGED head_frame
        BY <1>4, <2>3
           DEF start_service_work, CancelBegins, ak_venc_cancel_stream, CancelCounts,
               ExitCapture, JoinCapture, CancelUnlists, CancelClears, CancelLeaves
      <4> QED BY <2>1, <3>2, <4>1 DEF PassStays
    <3>3. PassStays
      BY <3>1, <3>2
    <3> QED BY <1>0, <2>1, <3>3, PassKeeps, QueuesStayKeep DEF OrderInv
  <2> QED BY <2>2, <2>3
<1> QED BY <1>1, <1>2, <1>3, <1>4

(* The steps of the two threads, but for saving.                           *)
LEMMA ThreadOrders ==
  ASSUME StreamInv, OrderInv, Capture \/ (Encode /\ ~save_streams)
  PROVE  OrderInv'
<1>0. /\ StreamTypeOK /\ EncodeHasFrame
      /\ FramesAscend /\ MadeBefore /\ QueueIsMade /\ KeysKept
  BY DEF StreamInv, OrderInv
<1>1. UNCHANGED <<stream_list, made, lost, venc_list>>
  BY DEF Capture, CaptureWakes, add_to_encode_list, CaptureLeaves, Encode, EncodeTakes,
         EncodeLeaves, EncodeVisits, EncodeFinishes, frame_to_stream_fails, queues, queued
<1>2. QueueIsMade' /\ KeysKept'
  BY <1>0, <1>1, QueuesStayKeep
<1>3. Len(head_frame) \in Nat /\ head_frame \in Seq(Int) /\ next \in Int
      /\ \A i \in 1..Len(head_frame) : head_frame[i] \in Int
  BY <1>0, LenProperties, ElementOfSeq DEF StreamTypeOK
<1>4. CASE add_to_encode_list
  <2>1. /\ Len(head_frame') = Len(head_frame) + 1
        /\ \A i \in 1..Len(head_frame) : head_frame'[i] = head_frame[i]
        /\ head_frame'[Len(head_frame) + 1] = next /\ next' = next + 1
        /\ UNCHANGED <<enc_pc, cursor>>
    BY <1>3, <1>4, AppendProperties DEF add_to_encode_list, encode
  <2>2. FramesAscend'
    BY <1>0, <1>3, <2>1 DEF FramesAscend
  <2>3. MadeBefore'
    <3> SUFFICES ASSUME NEW g \in Group, NEW n \in made[g]
                 PROVE  /\ n < next + 1
                        /\ \A i \in 1..Len(head_frame) + 1 :
                             \/ n < head_frame'[i]
                             \/ InPass /\ i = 1 /\ n = head_frame'[1] /\ Visited(g)
      BY <1>1, <2>1 DEF MadeBefore, InPass, Visited
    <3>1. n < next /\ n \in Int
      BY <1>0 DEF MadeBefore, StreamTypeOK
    <3>2. ASSUME NEW i \in 1..Len(head_frame)
          PROVE  \/ n < head_frame'[i]
                 \/ InPass /\ i = 1 /\ n = head_frame'[1] /\ Visited(g)
      BY <1>0, <2>1, <3>2 DEF MadeBefore
    <3>3. n < head_frame'[Len(head_frame) + 1]
      BY <2>1, <3>1
    <3> QED BY <1>3, <3>1, <3>2, <3>3
  <2> QED BY <1>2, <2>2, <2>3 DEF OrderInv
<1>5. CASE EncodeFinishes
  <2>1. head_frame # <<>> /\ InPass
    BY <1>0, <1>5 DEF EncodeHasFrame, EncodeFinishes, InPass
  <2>2. head_frame' = Tail(head_frame) /\ UNCHANGED next
    BY <1>5 DEF EncodeFinishes
  <2>3. /\ Len(head_frame') = Len(head_frame) - 1
        /\ \A i \in 1..Len(head_frame) - 1 : head_frame'[i] = head_frame[i + 1]
    BY <1>3, <2>1, <2>2, HeadTailProperties
  <2>4. FramesAscend'
    BY <1>0, <1>3, <2>2, <2>3 DEF FramesAscend
  <2>5. MadeBefore'
    <3> SUFFICES ASSUME NEW g \in Group, NEW n \in made[g], NEW i \in 1..Len(head_frame) - 1
                 PROVE  n < next /\ n < head_frame[i + 1]
      BY <1>0, <1>1, <2>2, <2>3 DEF MadeBefore
    <3>1. i + 1 \in 1..Len(head_frame) /\ i + 1 # 1
      BY <1>3
    <3> QED BY <1>0, <3>1 DEF MadeBefore
  <2> QED BY <1>2, <2>4, <2>5 DEF OrderInv
<1>6. CASE \/ CaptureWakes \/ CaptureLeaves \/ EncodeTakes \/ EncodeLeaves
           \/ EncodeVisits \/ frame_to_stream_fails
  <2>1. UNCHANGED <<head_frame, next>>
    BY <1>6 DEF CaptureWakes, CaptureLeaves, EncodeTakes, EncodeLeaves, EncodeVisits,
                frame_to_stream_fails
  <2>2. ~InPass \/ (InPass' /\ (cursor' = cursor \/ cursor' = cursor + 1))
    BY <1>6 DEF CaptureWakes, CaptureLeaves, EncodeTakes, EncodeLeaves, EncodeVisits,
                frame_to_stream_fails, InPass, encode
  <2>3. PassStays
    BY <1>0, <1>1, <2>1, <2>2 DEF PassStays, Visited, StreamTypeOK
  <2> QED BY <1>0, <1>2, <2>3, PassKeeps DEF OrderInv
<1> QED BY <1>4, <1>5, <1>6 DEF Capture, Encode

(* What an overflow does: when its victim is an I frame, so is the frame   *)
(* behind it.                                                              *)
LEMMA VictimHasSuccessor ==
  ASSUME NEW s \in Seq(CountedEntry), Len(s) >= 2, Ascends(s)
  PROVE  /\ Victim(s) \in 1..Len(s)
         /\ \A i \in 1..Len(s) : s[i].no \in Int
         /\ s[Victim(s)].no \in KeyFrame =>
              /\ s[2].no \in KeyFrame /\ s[Victim(s)].no < s[2].no
              /\ \A j \in 1..Len(RemoveAt(s, Victim(s))) : s[2].no <= RemoveAt(s, Victim(s))[j].no
<1>1. Len(s) \in Nat /\ \A i \in 1..Len(s) : s[i].no \in Int
  BY LenProperties, ElementOfSeq DEF CountedEntry
<1>2. Victim(s) \in 1..Len(s)
  BY <1>1 DEF Victim
<1>3. ASSUME s[Victim(s)].no \in KeyFrame
      PROVE  /\ Victim(s) = 1 /\ s[2].no \in KeyFrame /\ s[1].no < s[2].no
  BY <1>1, <1>3 DEF Victim, Ascends
<1>4. ASSUME Victim(s) = 1
      PROVE  \A j \in 1..Len(RemoveAt(s, Victim(s))) : s[2].no <= RemoveAt(s, Victim(s))[j].no
  <2>1. /\ Len(RemoveAt(s, 1)) = Len(s) - 1
        /\ \A j \in 1..Len(s) - 1 : RemoveAt(s, 1)[j] = s[j + 1]
    BY <1>1, <1>2, <1>4, RemoveAtKeeps, RemoveAtSkips
  <2>2. \A j \in 1..Len(s) - 1 : j + 1 \in 1..Len(s) /\ (j + 1 = 2 \/ 2 < j + 1)
    BY <1>1
  <2>3. 2 \in 1..Len(s)
    BY <1>1
  <2>4. \A j \in 1..Len(s) - 1 : s[2].no <= s[j + 1].no
    BY <1>1, <2>2, <2>3 DEF Ascends
  <2> QED BY <1>4, <2>1, <2>4
<1> QED BY <1>1, <1>2, <1>3, <1>4

(* Saving queues a frame behind all its group has had.                     *)
LEMMA SaveOrders == ASSUME StreamInv, ListInv, OrderInv, save_streams PROVE OrderInv'
<1>0. /\ StreamTypeOK /\ EncodeHasFrame /\ EncodeHasGroup /\ CountIsLow /\ ListedOnce
      /\ FramesAscend /\ MadeBefore /\ QueueIsMade /\ KeysKept
  BY DEF StreamInv, ListInv, OrderInv
<1>1. PICK g \in Group : cursor \in 1..Len(venc_list) /\ Len(venc_list) \in Nat
                         /\ g = venc_list[cursor]
  <2>1. venc_list \in Seq(Group) /\ cursor \in 1..Len(venc_list)
    BY <1>0, LenProperties DEF StreamTypeOK, EncodeHasFrame, EncodeHasGroup, save_streams
  <2> QED BY <2>1, ElementOfSeq, LenProperties
<1>2. PICK no \in Int :
        /\ Len(head_frame) \in Nat /\ Len(head_frame) >= 1
        /\ no = head_frame[1] /\ no = Head(head_frame)
        /\ \A i \in 1..Len(head_frame) : head_frame[i] \in Int
  <2>1. head_frame \in Seq(Int) /\ head_frame # <<>>
    BY <1>0 DEF StreamTypeOK, EncodeHasFrame, save_streams
  <2> QED BY <2>1, HeadTailProperties, LenProperties, ElementOfSeq, EmptySeq
<1>3. PICK s \in Seq(CountedEntry) :
        s = stream_list[g] /\ Len(s) \in Nat /\ \A i \in 1..Len(s) : s[i].no \in Int
  <2>1. stream_list[g] \in Seq(CountedEntry)
    BY <1>0 DEF StreamTypeOK
  <2>2. /\ Len(stream_list[g]) \in Nat
        /\ \A i \in 1..Len(stream_list[g]) : stream_list[g][i] \in CountedEntry
    BY <2>1, LenProperties, ElementOfSeq
  <2> QED BY <2>1, <2>2 DEF CountedEntry
<1> DEFINE kept == IF Full(g) THEN RemoveAt(s, Victim(s)) ELSE s
<1>4. \A n \in made[g] : n \in Int /\ n < no
  <2>1. ~Visited(g)
    BY <1>0, <1>1 DEF Visited, ListedOnce
  <2> QED BY <1>0, <1>1, <1>2, <2>1 DEF MadeBefore, StreamTypeOK
<1>5. \A i \in 1..Len(s) : s[i].no \in made[g]
  BY <1>0, <1>1, <1>3 DEF QueueIsMade
<1>6. Full(g) => /\ Len(s) >= 2 /\ Victim(s) \in 1..Len(s)
                 /\ s[Victim(s)].no \in KeyFrame =>
                      /\ s[2].no \in KeyFrame /\ s[Victim(s)].no < s[2].no
                      /\ \A j \in 1..Len(kept) : s[2].no <= kept[j].no
  <2>1. Full(g) => Len(s) >= 2
    BY <1>0, <1>1, <1>3, MaxStreamAssumption DEF Full, CountIsLow, StreamTypeOK
  <2>2. Ascends(s)
    BY <1>0, <1>1, <1>3 DEF QueueIsMade
  <2> QED BY <1>3, <2>1, <2>2, VictimHasSuccessor
<1>7. Thinned(kept, s) /\ kept \in Seq(CountedEntry) /\ Len(kept) \in Nat
  <2>1. CASE Full(g)
    BY <1>3, <1>6, <2>1, RemoveAtThins, RemoveAtKeeps, LenProperties
  <2>2. CASE ~Full(g)
    BY <1>3, <2>2 DEF Thinned
  <2> QED BY <2>1, <2>2
<1>8. /\ stream_list' = [stream_list EXCEPT ![g] = Append(kept, NewEntry(g, no))]
      /\ lost' = IF Full(g) THEN [lost EXCEPT ![g] = @ \union {s[Victim(s)].no}] ELSE lost
      /\ made' = [made EXCEPT ![g] = @ \union {no}]
      /\ cursor' = cursor + 1 /\ enc_pc' = "group" /\ enc_pc = "encode"
      /\ UNCHANGED <<venc_list, head_frame, next>>
  BY <1>1, <1>2, <1>3 DEF save_streams
<1> DEFINE q == Append(kept, NewEntry(g, no))
<1>9. /\ Len(q) = Len(kept) + 1 /\ \A j \in 1..Len(kept) : q[j] = kept[j]
      /\ q[Len(kept) + 1].no = no
  <2>1. NewEntry(g, no).no = no
    BY DEF NewEntry
  <2> HIDE DEF kept
  <2>2. /\ Len(q) = Len(kept) + 1 /\ \A j \in 1..Len(kept) : q[j] = kept[j]
        /\ q[Len(kept) + 1] = NewEntry(g, no)
    BY <1>7, AppendProperties
  <2> QED BY <2>1, <2>2
<1>10. /\ stream_list'[g] = q /\ made'[g] = made[g] \union {no}
       /\ lost'[g] = IF Full(g) THEN lost[g] \union {s[Victim(s)].no} ELSE lost[g]
       /\ \A h \in Group : h # g => /\ stream_list'[h] = stream_list[h]
                                   /\ made'[h] = made[h] /\ lost'[h] = lost[h]
  BY <1>0, <1>1, <1>8 DEF StreamTypeOK
<1> HIDE DEF q, kept
<1>11. \A i \in 1..Len(kept) : kept[i].no \in made[g]
  BY <1>5, <1>7 DEF Thinned
<1>12. Ascends(kept)
  <2>1. Ascends(s)
    BY <1>0, <1>3 DEF QueueIsMade
  <2> QED BY <1>7, <2>1 DEF Ascends, Thinned
<1>13. QueueIsMade'
  <2>1. Ascends(q)
    <3>1. \A i \in 1..Len(kept) : q[i].no < q[Len(kept) + 1].no
      BY <1>4, <1>9, <1>11
    <3>2. \A i, j \in 1..Len(kept) : i < j => q[i].no < q[j].no
      BY <1>9, <1>12 DEF Ascends
    <3>3. \A i, j \in 1..Len(q) : i < j =>
            i \in 1..Len(kept) /\ (j \in 1..Len(kept) \/ j = Len(kept) + 1)
      BY <1>7, <1>9
    <3> QED BY <3>1, <3>2, <3>3 DEF Ascends
  <2>2. \A i \in 1..Len(q) : q[i].no \in made'[g]
    BY <1>7, <1>9, <1>10, <1>11
  <2> QED BY <1>0, <1>10, <2>1, <2>2 DEF QueueIsMade
<1>14. KeysKept'
  <2>1. ASSUME NEW l \in made[g] \intersect KeyFrame, NEW k, k < l,
               \A i \in 1..Len(kept) : l <= kept[i].no
        PROVE  Succeeded(g, k)'
    <3>1. l \in made'[g] \intersect KeyFrame /\ l < no /\ l \in Int
      BY <1>4, <1>10, <2>1
    <3>2. \A i \in 1..Len(q) : l <= q[i].no
      BY <1>2, <1>7, <1>9, <2>1, <3>1
    <3> QED BY <1>10, <2>1, <3>1, <3>2 DEF Succeeded
  <2>2. ASSUME NEW k \in lost[g] \intersect KeyFrame PROVE Succeeded(g, k)'
    <3>1. PICK l \in made[g] \intersect KeyFrame :
            k < l /\ \A i \in 1..Len(s) : l <= s[i].no
      BY <1>0, <1>1, <1>3, <2>2 DEF KeysKept, Succeeded
    <3>2. \A i \in 1..Len(kept) : l <= kept[i].no
      BY <1>7, <3>1 DEF Thinned
    <3> QED BY <2>1, <3>1, <3>2
  <2>3. ASSUME Full(g), s[Victim(s)].no \in KeyFrame PROVE Succeeded(g, s[Victim(s)].no)'
    <3>1. 2 \in 1..Len(s)
      BY <1>3, <1>6, <2>3
    <3>2. s[2].no \in made[g] \intersect KeyFrame
      BY <1>5, <1>6, <2>3, <3>1
    <3> QED BY <1>6, <2>1, <2>3, <3>2
  <2>4. \A h \in Group : h # g => \A k \in lost'[h] \intersect KeyFrame : Succeeded(h, k)'
    BY <1>0, <1>10 DEF KeysKept, Succeeded
  <2> QED BY <1>10, <2>2, <2>3, <2>4 DEF KeysKept
<1>15. FramesAscend'
  BY <1>0, <1>8 DEF FramesAscend
<1>16. MadeBefore'
  <2>1. \A h : Visited(h) => Visited(h)'
    BY <1>0, <1>8 DEF Visited, StreamTypeOK
  <2>2. Visited(g)' /\ InPass'
    BY <1>0, <1>1, <1>8 DEF Visited, InPass, StreamTypeOK
  <2>3. \A h \in Group : \A n \in made[h] :
          /\ n < next
          /\ \A i \in 1..Len(head_frame) :
               n < head_frame[i] \/ (i = 1 /\ n = head_frame[1] /\ Visited(h)')
    BY <1>0, <2>1 DEF MadeBefore
  <2>4. /\ no < next
        /\ \A i \in 1..Len(head_frame) : no < head_frame[i] \/ (i = 1 /\ no = head_frame[1])
    BY <1>0, <1>2 DEF FramesAscend, StreamTypeOK
  <2> QED BY <1>8, <1>10, <2>2, <2>3, <2>4 DEF MadeBefore
<1> QED BY <1>13, <1>14, <1>15, <1>16 DEF OrderInv

LEMMA OrderKeeps == StreamInv /\ ListInv /\ OrderInv /\ [Next]_vars => OrderInv'
<1> SUFFICES ASSUME StreamInv, ListInv, OrderInv, [Next]_vars PROVE OrderInv'
  OBVIOUS
<1>1. CASE UNCHANGED vars
  <2>1. UNCHANGED <<stream_list, made, lost, head_frame, next, enc_pc, cursor, venc_list>>
    BY <1>1 DEF vars, queues, queued, encode
  <2> QED BY <2>1, QueuesStayKeep, PassKeeps DEF OrderInv, PassStays, InPass, Visited
<1>2. CASE Next
  BY <1>2, UserOrders, ThreadOrders, SaveOrders DEF Next
<1> QED BY <1>1, <1>2

-----------------------------------------------------------------------------
(* The rest of the types: what the two threads are at, and the frames.     *)
PlaceTypeOK ==
  /\ \A g \in Group : streams_count[g] <= MaxStream
  /\ cap_pc \in {"none", "sleep", "loop", "gone"}
  /\ enc_pc \in {"none", "wait", "group", "encode", "gone"}
  /\ cursor \in Nat \ {0}
  /\ cancel_lock \in User \union {Free}
  /\ cancel_mutex \in {"encode", Free}
RunTypeOK == cap_run \in BOOLEAN /\ enc_run \in BOOLEAN
FrameTypeOK ==
  /\ head_frame \in Seq(Frame)
  /\ next \in 1..MaxFrame + 1
  /\ made \in [Group -> SUBSET Frame]
  /\ lost \in [Group -> SUBSET Frame]
  /\ since \in [User -> SUBSET Frame]
  /\ got \in [User -> SUBSET Frame]

LEMMA TypeInit == Init => PlaceTypeOK /\ RunTypeOK /\ FrameTypeOK
<1> SUFFICES ASSUME Init PROVE PlaceTypeOK /\ RunTypeOK /\ FrameTypeOK
  OBVIOUS
<1>1. PlaceTypeOK
  BY MaxStreamAssumption DEF Init, PlaceTypeOK
<1>2. FrameTypeOK
  BY MaxFrameAssumption, EmptySeq DEF Init, FrameTypeOK, Frame
<1>3. RunTypeOK
  BY DEF Init, RunTypeOK
<1> QED BY <1>1, <1>2, <1>3

LEMMA RunKeeps == RunTypeOK /\ [Next]_vars => RunTypeOK'
<1> SUFFICES ASSUME RunTypeOK, [Next]_vars PROVE RunTypeOK'
  OBVIOUS
<1>1. cap_run' \in {cap_run, TRUE, FALSE} /\ enc_run' \in {enc_run, TRUE, FALSE}
  <2>1. ASSUME NEW u \in User, NEW g \in Group, ak_venc_request_stream(u, g)
        PROVE  UNCHANGED <<cap_run, enc_run>>
    BY <2>1 DEF ak_venc_request_stream, capture, encode
  <2>2. ASSUME NEW u \in User, start_service_work(u)
        PROVE  cap_run' \in {cap_run, TRUE, FALSE} /\ enc_run' \in {enc_run, TRUE, FALSE}
    BY <2>2, Zenon DEF start_service_work, capture, encode
  <2>3. ASSUME NEW u \in User, ak_venc_get_stream(u) \/ CancelBegins(u)
        PROVE  UNCHANGED <<cap_run, enc_run>>
    BY <2>3 DEF ak_venc_get_stream, CancelBegins, capture, encode
  <2>4. ASSUME NEW u \in User, ak_venc_cancel_stream(u)
        PROVE  cap_run' \in {cap_run, TRUE, FALSE} /\ enc_run' \in {enc_run, TRUE, FALSE}
    BY <2>4, Zenon DEF ak_venc_cancel_stream, CancelCounts, ExitCapture, JoinCapture, ExitEncode,
          JoinEncode, release_group_streams, CancelUnlists, CancelClears, CancelLeaves,
          capture, encode
  <2>5. Capture \/ Encode => UNCHANGED <<cap_run, enc_run>>
    BY DEF Capture, CaptureWakes, add_to_encode_list, CaptureLeaves, Encode, EncodeTakes,
           EncodeLeaves, EncodeVisits, EncodeFinishes, save_streams, frame_to_stream_fails,
           capture, encode
  <2>6. UNCHANGED vars => UNCHANGED <<cap_run, enc_run>>
    BY DEF vars, capture, encode
  <2> QED BY <2>1, <2>2, <2>3, <2>4, <2>5, <2>6 DEF Next
<1> QED BY <1>1 DEF RunTypeOK

(* A queue's count goes down, or starts again.                             *)
LEMMA CountFalls ==
  ASSUME streams_count \in [Group -> Int], \A h \in Group : streams_count[h] <= MaxStream,
         NEW g \in Group,
         \/ streams_count' = streams_count
         \/ streams_count' = [streams_count EXCEPT ![g] = 0]
         \/ streams_count' = [streams_count EXCEPT ![g] = @ - 1]
  PROVE  \A h \in Group : streams_count'[h] <= MaxStream
<1>1. CASE streams_count' = streams_count
  BY <1>1
<1>2. CASE streams_count' = [streams_count EXCEPT ![g] = 0]
  BY <1>2, MaxStreamAssumption
<1>3. CASE streams_count' = [streams_count EXCEPT ![g] = @ - 1]
  BY <1>3, MaxStreamAssumption
<1> QED BY <1>1, <1>2, <1>3

LEMMA PlaceKeeps ==
  StreamInv /\ PlaceTypeOK /\ [Next]_vars => PlaceTypeOK'
<1> SUFFICES ASSUME StreamInv, PlaceTypeOK, [Next]_vars PROVE PlaceTypeOK'
  OBVIOUS
<1>0. StreamTypeOK /\ HasGroup
  BY DEF StreamInv
<1> USE <1>0 DEF PlaceTypeOK, StreamTypeOK
<1>1. ASSUME NEW u \in User, NEW g \in Group, ak_venc_request_stream(u, g)
      PROVE  PlaceTypeOK'
  <2>1. streams_count' = streams_count \/ streams_count' = [streams_count EXCEPT ![g] = 0]
    BY <1>1, Zenon DEF ak_venc_request_stream
  <2>2. cancel_lock' = u /\ UNCHANGED <<cap_pc, enc_pc, cursor, cancel_mutex>>
    BY <1>1, Zenon DEF ak_venc_request_stream, capture, encode
  <2>3. \A h \in Group : streams_count'[h] <= MaxStream
    BY <2>1, CountFalls
  <2> QED BY <2>2, <2>3
<1>2. ASSUME NEW u \in User, start_service_work(u) \/ CancelBegins(u)
      PROVE  PlaceTypeOK'
  BY <1>2 DEF start_service_work, CancelBegins, queues, capture, encode
<1>3. ASSUME NEW u \in User, ak_venc_get_stream(u) PROVE PlaceTypeOK'
  <2>1. \/ streams_count' = streams_count
        \/ streams_count' = [streams_count EXCEPT ![grp[u]] = @ - 1]
    BY <1>3, GetServes, Zenon DEF StreamInv
  <2>2. UNCHANGED <<cap_pc, enc_pc, cursor, cancel_lock, cancel_mutex>>
    BY <1>3, Zenon DEF ak_venc_get_stream, capture, encode
  <2>3. grp[u] \in Group
    BY <1>3 DEF ak_venc_get_stream, HasGroup
  <2>4. \A h \in Group : streams_count'[h] <= MaxStream
    BY <2>1, <2>3, CountFalls
  <2> QED BY <2>2, <2>4
<1>4. ASSUME NEW u \in User, release_group_streams(u) PROVE PlaceTypeOK'
  <2>1. grp[u] \in Group /\ Len(stream_list[grp[u]]) \in Nat
    BY <1>4, LenProperties DEF HasGroup, release_group_streams
  <2>2. \A g \in Group : streams_count'[g] <= MaxStream
    BY <1>4, <2>1, MaxStreamAssumption DEF release_group_streams
  <2> QED BY <1>4, <2>2 DEF release_group_streams, capture, encode
<1>5. ASSUME NEW u \in User, ak_venc_cancel_stream(u), ~release_group_streams(u)
      PROVE  PlaceTypeOK'
  BY <1>5 DEF ak_venc_cancel_stream, CancelCounts, ExitCapture, JoinCapture, ExitEncode,
        JoinEncode, CancelUnlists, CancelClears, CancelLeaves, queues, capture, encode
<1>6. CASE Capture
  <2>1. cap_pc' \in {cap_pc, "sleep", "loop", "gone"}
    BY <1>6, Zenon DEF Capture, CaptureWakes, add_to_encode_list, CaptureLeaves, capture
  <2>2. UNCHANGED <<streams_count, enc_pc, cursor, cancel_lock, cancel_mutex>>
    BY <1>6, Zenon DEF Capture, CaptureWakes, add_to_encode_list, CaptureLeaves, queues, encode
  <2> QED BY <2>1, <2>2
<1>7. CASE save_streams
  <2>1. streams_count' = [streams_count EXCEPT
          ![venc_list[cursor]] = IF Full(venc_list[cursor]) THEN @ ELSE @ + 1]
    BY <1>7 DEF save_streams
  <2>2. \A h \in Group : streams_count'[h] <= MaxStream
    BY <2>1, MaxStreamAssumption DEF Full
  <2>3. cursor' = cursor + 1 /\ enc_pc' = "group" /\ UNCHANGED <<cap_pc, cancel_lock, cancel_mutex>>
    BY <1>7 DEF save_streams, capture
  <2> QED BY <2>2, <2>3
<1>9. CASE Encode /\ ~save_streams
  BY <1>9 DEF Encode, EncodeTakes, EncodeLeaves, EncodeVisits, EncodeFinishes,
         frame_to_stream_fails, queues, capture
<1>8. CASE UNCHANGED vars
  BY <1>8 DEF vars, queues, capture, encode
<1> QED BY <1>1, <1>2, <1>3, <1>4, <1>5, <1>6, <1>7, <1>8, <1>9 DEF Next

LEMMA FramesKeep ==
  StreamInv /\ OrderInv /\ FrameTypeOK /\ [Next]_vars => FrameTypeOK'
<1> SUFFICES ASSUME StreamInv, OrderInv, FrameTypeOK, [Next]_vars PROVE FrameTypeOK'
  OBVIOUS
<1>0. StreamTypeOK /\ HasGroup /\ QueueIsMade /\ EncodeHasFrame /\ CountIsLow
  BY DEF StreamInv, OrderInv
<1> USE <1>0 DEF FrameTypeOK
<1>1. ASSUME NEW u \in User, NEW g \in Group, ak_venc_request_stream(u, g)
      PROVE  FrameTypeOK'
  BY <1>1 DEF ak_venc_request_stream, queued
<1>2. ASSUME NEW u \in User, ak_venc_get_stream(u) PROVE FrameTypeOK'
  <2>1. grp[u] \in Group
    BY <1>2 DEF ak_venc_get_stream, HasGroup
  <2>2. PICK i \in 1..Len(stream_list[grp[u]]) :
          got' = [got EXCEPT ![u] = @ \union {stream_list[grp[u]][i].no}]
    BY <1>2, GetServes
  <2>3. stream_list[grp[u]][i].no \in Frame
    BY <2>1 DEF QueueIsMade
  <2>4. got' \in [User -> SUBSET Frame]
    BY <2>2, <2>3
  <2> QED BY <1>2, <2>4 DEF ak_venc_get_stream, queued
<1>3. ASSUME NEW u \in User, start_service_work(u) \/ CancelBegins(u) \/ ak_venc_cancel_stream(u)
      PROVE  FrameTypeOK'
  BY <1>3, EmptySeq DEF start_service_work, CancelBegins, ak_venc_cancel_stream, CancelCounts,
        ExitCapture, JoinCapture, JoinEncode, release_group_streams, CancelUnlists,
        CancelClears, CancelLeaves, queued, given
<1>4. CASE Capture
  <2>1. next <= MaxFrame => next \in Frame /\ next + 1 \in 1..MaxFrame + 1
    BY MaxFrameAssumption DEF Frame
  <2>2. next <= MaxFrame => Append(head_frame, next) \in Seq(Frame)
    BY <2>1, AppendProperties
  <2> QED BY <1>4, <2>1, <2>2 DEF Capture, CaptureWakes, add_to_encode_list, CaptureLeaves,
        queued, given
<1>5. CASE save_streams
  <2>1. head_frame # <<>>
    BY <1>5 DEF EncodeHasFrame, save_streams
  <2>2. Head(head_frame) \in Frame
    BY <2>1, HeadTailProperties
  <2>3. venc_list[cursor] \in Group
    <3>1. cursor \in 1..Len(venc_list)
      BY <1>5, LenProperties DEF StreamInv, EncodeHasFrame, EncodeHasGroup, save_streams, StreamTypeOK
    <3> QED BY <3>1, ElementOfSeq DEF StreamTypeOK
  <2>4. Full(venc_list[cursor]) =>
          stream_list[venc_list[cursor]][Victim(stream_list[venc_list[cursor]])].no \in Frame
    <3>1. PICK g \in Group : g = venc_list[cursor]
      BY <2>3
    <3>2. Len(stream_list[g]) \in Nat
      BY LenProperties DEF StreamTypeOK
    <3>3. Full(g) => Victim(stream_list[g]) \in 1..Len(stream_list[g])
      BY <3>2, MaxStreamAssumption DEF Full, Victim, CountIsLow, StreamTypeOK
    <3> QED BY <3>1, <3>3 DEF QueueIsMade
  <2> QED BY <1>5, <2>2, <2>3, <2>4 DEF save_streams, given
<1>6. CASE Encode /\ ~save_streams
  <2>1. head_frame # <<>> => Tail(head_frame) \in Seq(Frame)
    BY HeadTailProperties
  <2> QED BY <1>6, <2>1 DEF Encode, EncodeTakes, EncodeLeaves, EncodeVisits, EncodeFinishes,
         frame_to_stream_fails, queued, given, EncodeHasFrame
<1>7. CASE UNCHANGED vars
  BY <1>7 DEF vars, queued, given
<1> QED BY <1>1, <1>2, <1>3, <1>4, <1>5, <1>6, <1>7 DEF Next

-----------------------------------------------------------------------------
QueueInv == /\ StreamInv /\ ListInv /\ OrderInv
            /\ PlaceTypeOK /\ RunTypeOK /\ FrameTypeOK

(* A sequence of counted entries whose frames are the camera's.            *)
LEMMA CountedAreEntries ==
  ASSUME NEW s \in Seq(CountedEntry), \A i \in 1..Len(s) : s[i].no \in Frame
  PROVE  s \in Seq(Entry)
<1>1. /\ Len(s) \in Nat /\ s \in [1..Len(s) -> CountedEntry]
      /\ \A i \in 1..Len(s) : s[i] \in CountedEntry
  BY LenProperties, ElementOfSeq
<1>2. \A i \in 1..Len(s) : s[i] \in Entry
  BY <1>1 DEF CountedEntry, Entry
<1>3. s \in [1..Len(s) -> Entry]
  BY <1>1, <1>2
<1> QED BY <1>1, <1>3, SeqDef

LEMMA QueueTypes == QueueInv => TypeOK
<1> SUFFICES ASSUME QueueInv PROVE TypeOK
  OBVIOUS
<1>0. /\ StreamInv /\ ListInv /\ OrderInv /\ StreamTypeOK /\ PlaceTypeOK
      /\ RunTypeOK /\ FrameTypeOK
  BY DEF QueueInv, StreamInv
<1>1. req_ref \in [Group -> Nat]
  <2>1. \A g \in Group : req_ref[g] \in Nat
    BY <1>0, FiniteIds DEF StreamInv, ReqRefCounts, StreamTypeOK
  <2> QED BY <1>0, <2>1 DEF StreamTypeOK
<1>2. stream_list \in [Group -> Seq(Entry)]
  <2>1. \A g \in Group : stream_list[g] \in Seq(Entry)
    <3> SUFFICES ASSUME NEW g \in Group PROVE stream_list[g] \in Seq(Entry)
      OBVIOUS
    <3>1. stream_list[g] \in Seq(CountedEntry)
      BY <1>0 DEF StreamTypeOK
    <3>2. \A i \in 1..Len(stream_list[g]) : stream_list[g][i].no \in Frame
      BY <1>0 DEF OrderInv, QueueIsMade, FrameTypeOK
    <3> QED BY <3>1, <3>2, CountedAreEntries
  <2> QED BY <1>0, <2>1 DEF StreamTypeOK
<1>3. inited_enc_grp_num \in Nat
  <2>1. Len(venc_list) \in Nat
    BY <1>0, LenProperties DEF StreamTypeOK
  <2>2. ASSUME NEW u \in User, pc[u] \in Leaving PROVE Len(venc_list) >= 1
    <3>1. grp[u] \in Group /\ is_stream_mode[grp[u]]
      BY <1>0, <2>2 DEF StreamInv, HasGroup, ListInv, LeavingInMode, Leaving
    <3>2. \A v \in User : pc[v] # "mode"
      <4>1. pc[u] \in Locked
        BY <2>2 DEF Leaving, Locked, CancelLabel
      <4>2. \A v \in User : pc[v] = "mode" => v = u
        BY <1>0, <4>1, OneInside DEF Locked, CancelLabel
      <4> QED BY <2>2, <4>2 DEF Leaving
    <3>3. Listed(grp[u])
      BY <1>0, <3>1, <3>2 DEF ListInv, ModeIsListed
    <3> QED BY <2>1, <3>3 DEF Listed
  <2> QED BY <1>0, <2>1, <2>2 DEF ListInv, InitedIsListed
<1>4. cap_sem \in 0..2 /\ is_stream_mode \in [Group -> BOOLEAN]
  BY <1>0 DEF ListInv, CapSem, ListTypeOK
<1>5. \A g \in Group : streams_count[g] \in Int /\ streams_count[g] <= MaxStream
  BY <1>0 DEF StreamTypeOK, PlaceTypeOK
<1>6. /\ head_frame \in Seq(Frame) /\ next \in 1..MaxFrame + 1
      /\ made \in [Group -> SUBSET Frame] /\ lost \in [Group -> SUBSET Frame]
      /\ since \in [User -> SUBSET Frame] /\ got \in [User -> SUBSET Frame]
  BY <1>0 DEF FrameTypeOK
<1>7. /\ cap_pc \in {"none", "sleep", "loop", "gone"}
      /\ enc_pc \in {"none", "wait", "group", "encode", "gone"}
      /\ cursor \in Nat \ {0}
      /\ cancel_lock \in User \union {Free} /\ cancel_mutex \in {"encode", Free}
  BY <1>0 DEF PlaceTypeOK
<1>8. /\ user_map \in [Group -> SUBSET Id] /\ venc_list \in Seq(Group)
      /\ pc \in [User -> {"idle", "serve", "running"} \union CancelLabel]
      /\ grp \in [User -> Group \union {NoGroup}] /\ id \in [User -> Id]
  BY <1>0 DEF StreamTypeOK
<1>9. cap_run \in BOOLEAN /\ enc_run \in BOOLEAN
  BY <1>0 DEF RunTypeOK
<1> QED BY <1>1, <1>2, <1>3, <1>4, <1>5, <1>6, <1>7, <1>8, <1>9, Zenon DEF TypeOK

(* The last I frame before a frame a user waits for: had the queue lost    *)
(* it, a later I frame would not be behind that frame either.              *)
LEMMA KeyOutlives == StreamInv /\ OrderInv => KeyFrameOutlivesItsGroup
<1> SUFFICES ASSUME StreamInv, OrderInv, NEW u \in User, Streaming(u),
                    NEW no \in Waiting(u), NEW k \in KeyOf(grp[u], no)
             PROVE  k \in since[u] \union got[u] \union Waiting(u)
  BY DEF KeyFrameOutlivesItsGroup
<1> DEFINE g == grp[u]
<1>1. /\ g \in Group /\ NoneMissed /\ KeysKept /\ StreamTypeOK /\ QueueIsMade
  BY DEF StreamInv, OrderInv, HasGroup, Streaming
<1>2. /\ k \in made[g] \intersect KeyFrame /\ k <= no
      /\ \A l \in made[g] \intersect KeyFrame : l <= no => l <= k
  BY DEF KeyOf
<1>3. PICK i \in 1..Len(stream_list[g]) : no = stream_list[g][i].no
  BY DEF Waiting, Pending
<1>4. k \notin lost[g]
  <2> SUFFICES ASSUME k \in lost[g] PROVE FALSE
    OBVIOUS
  <2>1. PICK l \in made[g] \intersect KeyFrame :
          k < l /\ \A j \in 1..Len(stream_list[g]) : l <= stream_list[g][j].no
    BY <1>1, <1>2 DEF KeysKept, Succeeded
  <2>2. l <= k /\ l \in Int /\ k \in Int
    BY <1>1, <1>2, <1>3, <2>1 DEF StreamTypeOK
  <2> QED BY <2>1, <2>2
<1>5. k \in since[u] \/ k \in got[u] \/ Awaits(u, k)
  BY <1>1, <1>2, <1>4 DEF NoneMissed
<1>6. Awaits(u, k) => k \in Waiting(u)
  BY DEF Awaits, Waiting, Pending
<1> QED BY <1>5, <1>6

THEOREM QueueInvAlways == Spec => []QueueInv
<1>1. Init => QueueInv
  BY InitStep, ListInit, OrderInit, TypeInit DEF QueueInv
<1>2. QueueInv /\ [Next]_vars => QueueInv'
  BY StepKeeps, ListKeeps, OrderKeeps, PlaceKeeps, RunKeeps, FramesKeep DEF QueueInv
<1> QED BY <1>1, <1>2, PTL DEF Spec

(* The queues keep to their length, and an overflow never takes the last   *)
(* I frame before a frame some user has still to get: whatever the users   *)
(* do, however slow they are, wherever the I frames fall, what a user gets *)
(* after a loss can be decoded.                                            *)
THEOREM QueueIsSoundAlways == Spec => []QueueIsSound
<1>1. QueueInv => QueueIsSound
  BY QueueTypes, KeyOutlives DEF QueueInv, QueueIsSound
<1> QED BY <1>1, QueueInvAlways, PTL
=============================================================================
