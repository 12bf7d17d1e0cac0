--------------------------- MODULE ServicesProofs ---------------------------
(***************************************************************************)
(* What holds of the parts that share nothing with one another: the pool   *)
(* of list nodes for every number of nodes, the daemon and its watchdog    *)
(* for any number of heartbeats and crashes, the card's mounting for any   *)
(* number of cards, and replay for any viewers, files and spans.           *)
(***************************************************************************)
EXTENDS MCServices, RingBufferProofs, AudioProofs

-----------------------------------------------------------------------------
(* The pool of list nodes, dvr/src/ak_dvr_file.c.                          *)

(* While the pool is there, the nodes marked as used are the ones the      *)
(* callers have; afterwards nobody has any.                                *)
UsedIsHeld == IF mem_pool_init_flag THEN \A n \in Node : using_flg[n] <=> n \in held
                                    ELSE held = {}

(* A refusal sends the next walk to the first node.                        *)
RefusedStartsOver == refused # 0 => file_top = 0

PoolInv == PoolTypeOK /\ UsedIsHeld /\ RefusedStartsOver /\ RefusedTwiceIsFull

LEMMA PoolInitInv == PoolInit => PoolInv
<1> SUFFICES ASSUME PoolInit PROVE PoolInv
  OBVIOUS
<1>1. 0 \in Node
  BY TotalNodeAssumption DEF Node
<1>2. PoolTypeOK
  <2>1. refused \in 0..2
    BY DEF PoolInit
  <2>2. using_flg \in [Node -> BOOLEAN]
    BY Zenon DEF PoolInit
  <2>3. QED
    BY <1>1, <2>1, <2>2, Zenon DEF PoolInit, PoolTypeOK
<1>3. UsedIsHeld /\ RefusedStartsOver /\ RefusedTwiceIsFull
  BY DEF PoolInit, UsedIsHeld, RefusedStartsOver, RefusedTwiceIsFull
<1>4. QED
  BY <1>2, <1>3 DEF PoolInv

LEMMA GiveKeeps ==
  ASSUME PoolInv, NEW n \in Node, GiveNode(n)
  PROVE  PoolInv'
<1>1. PoolTypeOK'
  BY TotalNodeAssumption DEF GiveNode, PoolInv, PoolTypeOK, Node
<1>2. UsedIsHeld'
  BY DEF GiveNode, PoolInv, PoolTypeOK, UsedIsHeld
<1>3. RefusedStartsOver' /\ RefusedTwiceIsFull'
  BY DEF GiveNode, RefusedStartsOver, RefusedTwiceIsFull
<1>4. QED
  BY <1>1, <1>2, <1>3 DEF PoolInv

(* The walk that is refused a second time has been over every node.        *)
LEMMA RefuseKeeps ==
  ASSUME PoolInv, RefuseNode
  PROVE  PoolInv'
<1>1. PoolTypeOK' /\ UsedIsHeld' /\ RefusedStartsOver'
  BY TotalNodeAssumption
  DEF RefuseNode, StartsOver, PoolInv, PoolTypeOK, UsedIsHeld, RefusedStartsOver, Node
<1>2. RefusedTwiceIsFull'
  <2>1. SUFFICES ASSUME refused' = 2, NEW n \in Node \ {TotalNode - 1}
                 PROVE  n \in held
    BY DEF RefusedTwiceIsFull, RefuseNode
  <2>2. CASE refused = 2
    BY <2>1, <2>2 DEF PoolInv, RefusedTwiceIsFull
  <2>3. CASE refused # 2
    <3>1. file_top = 0
      BY <2>1, <2>3 DEF RefuseNode, PoolInv, PoolTypeOK, RefusedStartsOver
    <3>2. n \in file_top..(TotalNode - 1) - 1
      BY <2>1, <3>1, TotalNodeAssumption DEF Node
    <3>3. using_flg[n]
      BY <3>2 DEF RefuseNode, StopsAt
    <3>4. QED
      BY <2>1, <3>3 DEF PoolInv, UsedIsHeld, RefuseNode
  <2>4. QED
    BY <2>2, <2>3
<1>3. QED
  BY <1>1, <1>2 DEF PoolInv

LEMMA FreeKeeps ==
  ASSUME PoolInv, NEW n \in Node, free_record_file_entry(n)
  PROVE  PoolInv'
<1>1. PoolTypeOK'
  BY DEF free_record_file_entry, PoolInv, PoolTypeOK
<1>2. UsedIsHeld'
  BY DEF free_record_file_entry, PoolInv, PoolTypeOK, UsedIsHeld
<1>3. RefusedStartsOver' /\ RefusedTwiceIsFull'
  BY DEF free_record_file_entry, RefusedStartsOver, RefusedTwiceIsFull
<1>4. QED
  BY <1>1, <1>2, <1>3 DEF PoolInv

LEMMA PoolStepInv == PoolInv /\ [PoolNext]_poolVars => PoolInv'
<1> SUFFICES ASSUME PoolInv, [PoolNext]_poolVars PROVE PoolInv'
  OBVIOUS
<1>1. CASE mem_pool_init
  <2>1. PoolTypeOK'
    BY <1>1 DEF mem_pool_init, PoolInv, PoolTypeOK
  <2>2. held' = {} /\ \A n \in Node : using_flg'[n] = FALSE
    BY <1>1 DEF mem_pool_init, PoolInv, UsedIsHeld
  <2>3. UsedIsHeld'
    BY <2>2 DEF UsedIsHeld
  <2>4. RefusedStartsOver' /\ RefusedTwiceIsFull'
    BY <1>1 DEF mem_pool_init, RefusedStartsOver, RefusedTwiceIsFull
  <2>5. QED
    BY <2>1, <2>3, <2>4 DEF PoolInv
<1>2. CASE mem_pool_release
  <2>1. /\ mem_pool_init_flag' = FALSE /\ held' = {} /\ refused' = 0
        /\ using_flg' = using_flg /\ file_top' = file_top
    BY <1>2 DEF mem_pool_release
  <2>2. PoolTypeOK'
    <3>1. refused' \in 0..2
      BY <2>1
    <3>2. using_flg \in [Node -> BOOLEAN] /\ file_top \in Node
      BY DEF PoolInv, PoolTypeOK
    <3>3. QED
      BY <2>1, <3>1, <3>2, Zenon DEF PoolTypeOK
  <2>3. UsedIsHeld' /\ RefusedStartsOver' /\ RefusedTwiceIsFull'
    BY <2>1 DEF UsedIsHeld, RefusedStartsOver, RefusedTwiceIsFull
  <2>4. QED
    BY <2>2, <2>3 DEF PoolInv
<1>3. CASE malloc_record_file_entry
  BY <1>3, GiveKeeps, RefuseKeeps DEF malloc_record_file_entry
<1>4. CASE \E n \in Node : free_record_file_entry(n)
  BY <1>4, FreeKeeps
<1>5. CASE UNCHANGED poolVars
  BY <1>5 DEF poolVars, PoolInv, PoolTypeOK, UsedIsHeld, RefusedStartsOver,
              RefusedTwiceIsFull
<1>6. QED
  BY <1>1, <1>2, <1>3, <1>4, <1>5 DEF PoolNext

(* For every number of nodes: the marks are right, and a pool that refuses *)
(* twice in a row (ak_dvr_file.c:331-341) is full but for its last node.   *)
THEOREM PoolInvAlways == PoolSpec => []PoolInv
BY PoolInitInv, PoolStepInv, PTL DEF PoolSpec

(* For every number of nodes: malloc_record_file_entry never hands out a   *)
(* node that a caller has, wherever its walk begins and wraps.             *)
THEOREM NodeGivenOnceAlways == PoolSpec => NodeGivenOnce
<1>1. PoolInv /\ [PoolNext]_poolVars
        => [\A n \in Node : GiveNode(n) => n \notin held]_poolVars
  <2> SUFFICES ASSUME PoolInv, NEW n \in Node, GiveNode(n)
               PROVE  n \notin held
    OBVIOUS
  <2>1. ~using_flg[n]
    BY TotalNodeAssumption DEF GiveNode, StopsAt, Node
  <2>2. QED
    BY <2>1 DEF PoolInv, UsedIsHeld, GiveNode
<1>2. QED
  BY <1>1, PoolInvAlways, PTL DEF PoolSpec, NodeGivenOnce

-----------------------------------------------------------------------------
(* The daemon and its watchdog, apps/daemon/daemon.c.                      *)

(* The watchdog runs unfed only after the daemon has died, and only the    *)
(* update kills a daemon that was told of it.                              *)
WatchdogInv == /\ wdt \in {"fed", "run", "off"}
               /\ daemon = "up" => wdt # "run"
               /\ update = "told" => daemon = "up"
               /\ NoRebootInUpdate

LEMMA WatchdogInit == DaemonInit => WatchdogInv
BY DEF DaemonInit, WatchdogInv, NoRebootInUpdate

LEMMA WatchdogStep ==
  ASSUME "late" \notin DaemonFaults, WatchdogInv, [DaemonNext]_daemonVars
  PROVE  WatchdogInv'
<1> USE DEF WatchdogInv, NoRebootInUpdate
<1>1. CASE MonitorStep \/ AppStep \/ AppBoots \/ AppCrashes
  <2>1. UNCHANGED <<wdt, daemon, update>>
    BY <1>1 DEF MonitorStep, MonitorReads, MonitorRestarts, MonitorWakes, AppStep,
                FifoOpens, AppBeats, AppExits, AppBoots, AppCrashes
  <2>2. QED
    BY <2>1
<1>2. CASE FeedEnds
  BY <1>2 DEF FeedEnds, TurnsOff
<1>3. CASE DaemonDies
  BY <1>3 DEF DaemonDies
<1>4. CASE Reboot
  BY <1>4 DEF Reboot
<1>5. CASE close_watch_dog
  BY <1>5 DEF close_watch_dog
<1>6. CASE UpdateKills
  BY <1>6 DEF UpdateKills
<1>7. CASE UpdateWrites
  BY <1>7 DEF UpdateWrites
<1>8. CASE UNCHANGED daemonVars
  BY <1>8 DEF daemonVars
<1>9. QED
  BY <1>1, <1>2, <1>3, <1>4, <1>5, <1>6, <1>7, <1>8 DEF DaemonNext

(* For any number of crashes before the update and of heartbeats: no       *)
(* watchdog runs while update.sh writes the flash, whenever the daemon and *)
(* the application die (daemon.c:218-250).                                 *)
THEOREM NoRebootInUpdateAlways ==
  ASSUME "late" \notin DaemonFaults
  PROVE  DaemonInit /\ [][DaemonNext]_daemonVars => []NoRebootInUpdate
<1>1. WatchdogInv /\ [DaemonNext]_daemonVars => WatchdogInv'
  BY WatchdogStep
<1>2. WatchdogInv => NoRebootInUpdate
  BY DEF WatchdogInv
<1>3. QED
  BY <1>1, <1>2, WatchdogInit, PTL

-----------------------------------------------------------------------------
(* Replay, dvr/src/ak_dvr_replay.c.                                        *)

Stopped == status = "stop" \/ ~replay_run

(* The thread has the list exactly while it walks over it.                 *)
MutexIsWalk == file_mutex <=> rpc \in {"pick", "frame", "paused", "resumed", "send"}

(* The stop of the viewer who watches is seen until the next start ...     *)
StopIsKept == call = "free" /\ viewer = request.user => Stopped

(* ... also by a thread that a token of an earlier start leads to the list *)
(* of the next before that start has ended.                                *)
QuietIsStopped == request.user \in quiet => Stopped /\ rpc # "send"

QuietInv == MutexIsWalk /\ StopIsKept /\ QuietIsStopped

LEMMA QuietInit == ReplayInit => QuietInv
BY DEF ReplayInit, QuietInv, MutexIsWalk, StopIsKept, QuietIsStopped

(* What a step of the thread may do: it stops but never starts, leaves the *)
(* callers alone, and goes on to send only what was not stopped.           *)
ThreadMoves == /\ UNCHANGED <<request, replay_run, call, viewer, quiet>>
               /\ status' \in {status, "stop"}
               /\ rpc' = "send" => ~Stopped
               /\ MutexIsWalk'

LEMMA ThreadStepMoves == MutexIsWalk /\ ReplayStep => ThreadMoves
<1> SUFFICES ASSUME MutexIsWalk, ReplayStep PROVE ThreadMoves
  OBVIOUS
<1> USE DEF MutexIsWalk, ThreadMoves, Stopped, ThreadGoes, viewerVars, replaySync
<1>1. CASE ReplayWakes
  BY <1>1 DEF ReplayWakes
<1>2. CASE ReplayLocks
  BY <1>2 DEF ReplayLocks
<1>3. CASE WalkIsOver
  BY <1>3 DEF WalkIsOver, EndsWalk
<1>4. CASE EntrySkipped
  BY <1>4 DEF EntrySkipped, NextEntry, EndsWalk
<1>5. CASE EntryOpens
  BY <1>5 DEF EntryOpens
<1>6. CASE EntryFails
  BY <1>6 DEF EntryFails, EndsWalk
<1>7. CASE EntryIsOver
  BY <1>7 DEF EntryIsOver, NextEntry, EndsWalk
<1>8. CASE ReplayPauses
  BY <1>8 DEF ReplayPauses
<1>9. CASE FrameIsDue
  BY <1>9 DEF FrameIsDue, FrameChecked, EndsWalk
<1>10. CASE ReplayResumes
  BY <1>10 DEF ReplayResumes
<1>11. CASE FrameAfterPause
  BY <1>11 DEF FrameAfterPause, FrameChecked, EndsWalk
<1>12. CASE send_data
  BY <1>12 DEF send_data
<1>13. QED
  BY <1>1, <1>2, <1>3, <1>4, <1>5, <1>6, <1>7, <1>8, <1>9, <1>10, <1>11, <1>12
  DEF ReplayStep

LEMMA ThreadKeeps == QuietInv /\ ReplayStep => QuietInv'
BY ThreadStepMoves DEF ThreadMoves, QuietInv, StopIsKept, QuietIsStopped, Stopped

LEMMA CallersKeep ==
  ASSUME QuietInv, [ReplayNext]_replayVars, ~ReplayStep
  PROVE  QuietInv'
<1> USE DEF QuietInv, MutexIsWalk, StopIsKept, QuietIsStopped, Stopped, Caller,
            playVars, replaySync
<1>1. CASE \E v \in Viewer : ak_dvr_replay_stop(v)
  BY <1>1 DEF ak_dvr_replay_stop
<1>2. CASE StopFrees
  BY <1>2 DEF StopFrees, free_replay_list, ListIsFree
<1>3. CASE \E v \in Viewer : StartChecks(v)
  BY <1>3 DEF StartChecks
<1>4. CASE StartFrees
  BY <1>4 DEF StartFrees, free_replay_list
<1>5. CASE add_to_replay_tail
  BY <1>5 DEF add_to_replay_tail
<1>6. CASE StartPosts
  BY <1>6 DEF StartPosts
<1>7. CASE ak_dvr_replay_pause \/ ak_dvr_replay_resume
  BY <1>7 DEF ak_dvr_replay_pause, ak_dvr_replay_resume
<1>8. CASE ExitPosts \/ ExitJoins
  BY <1>8 DEF ExitPosts, ExitPost, ExitJoins
<1>9. CASE UNCHANGED replayVars
  BY <1>9 DEF replayVars, viewerVars
<1>10. QED
  BY <1>1, <1>2, <1>3, <1>4, <1>5, <1>6, <1>7, <1>8, <1>9
  DEF ReplayNext, CallerStep

(* For any viewers, files and spans, and with every fault: file_mutex is   *)
(* held exactly by a thread that walks the list, and a viewer's stop is in *)
(* force until the next start (ak_dvr_replay.c:558-632).                   *)
THEOREM QuietInvAlways == ReplayInit /\ [][ReplayNext]_replayVars => []QuietInv
<1>1. QuietInv /\ [ReplayNext]_replayVars => QuietInv'
  BY ThreadKeeps, CallersKeep
<1>2. QED
  BY <1>1, QuietInit, PTL

(* For any viewers, files and spans, and with every fault: the callback is *)
(* not made for a viewer whose ak_dvr_replay_stop has come back            *)
(* (ak_dvr_replay.c:617-632), although the thread may be at an entry of    *)
(* the list that the next start is filling.                                *)
THEOREM SilentAfterStopAlways ==
  ReplayInit /\ [][ReplayNext]_replayVars => SilentAfterStop
<1>1. QuietInv /\ [ReplayNext]_replayVars
        => [sent' # sent /\ sent' # {} => request.user \notin quiet]_replayVars
  <2> SUFFICES ASSUME QuietInv, ReplayNext, sent' # sent, sent' # {}
               PROVE  request.user \notin quiet
    OBVIOUS
  <2>1. send_data
    BY DEF ReplayNext, ReplayStep, CallerStep, ReplayWakes, ReplayLocks, WalkIsOver,
           EntrySkipped, EntryOpens, EntryFails, EntryIsOver, ReplayPauses, FrameIsDue,
           ReplayResumes, FrameAfterPause, NextEntry, EndsWalk, FrameChecked, StopFrees,
           StartFrees, free_replay_list, add_to_replay_tail, StartPosts, ExitJoins,
           ExitPosts, ExitPost, ak_dvr_replay_stop, StartChecks, ak_dvr_replay_pause,
           ak_dvr_replay_resume, Caller, playVars
  <2>2. QED
    BY <2>1 DEF send_data, QuietInv, QuietIsStopped
<1>2. QED
  BY <1>1, QuietInvAlways, PTL DEF SilentAfterStop

-----------------------------------------------------------------------------
(* The card and the daemon that mounts it, daemon/daemon.c.                *)

(* What the kernel says, and the values of the daemon's state.             *)
Event == [action : {"add", "remove"}, name : {"k0", "p1"}]
HotTypes == /\ slot \in Nat /\ inserts \in Nat /\ (slot # 0 => slot = inserts)
            /\ dev \subseteq {"k0", "p1"}
            /\ uevents \in Seq(Event)
            /\ hot \in {"boot", "look", "mount", "recv"}
(* At most one mount, of the card last put in, and none before the daemon  *)
(* has looked.                                                             *)
OneMount == /\ mnt = <<>> \/ mnt = <<inserts>>
            /\ hot \in {"boot", "look"} => mnt = <<>>
            /\ hot = "boot" => uevents = <<>>
(* With the slot empty, either its removal is the last of the events that  *)
(* wait, or the daemon has dealt with everything and nothing is mounted.   *)
CardIsGone == slot = 0 => /\ dev = {} /\ ~partitioned /\ ~leaving
                          /\ \/ /\ uevents # <<>>
                                /\ uevents[Len(uevents)] = [action |-> "remove", name |-> "k0"]
                             \/ uevents = <<>> /\ mnt = <<>> /\ hot # "mount"
(* With a card in, its devices are there, and no removal waits in the      *)
(* queue but that of a partition that is leaving.                          *)
CardIsIn == slot # 0 => /\ "k0" \in dev
                        /\ "p1" \in dev => partitioned /\ ~leaving
                        /\ leaving => partitioned
                        /\ \A i \in DOMAIN uevents : uevents[i].action = "remove" => leaving
(* The card is mounted or will be: the daemon has yet to look, is about to *)
(* mount it, or an event that tells it to waits.                           *)
Told(name) == \E i \in DOMAIN uevents : uevents[i] = [action |-> "add", name |-> name]
WillMount(name) == \/ mnt = <<slot>>
                   \/ hot \in {"boot", "look"}
                   \/ hot = "mount" /\ to_mount = name
                   \/ Told(name)

(* A card without partitions is mounted as a whole, another by its         *)
(* partition.                                                              *)
MountInv == /\ slot # 0 /\ ~partitioned => WillMount("k0")
            /\ "p1" \in dev => WillMount("p1")
HotInv == HotTypes /\ OneMount /\ CardIsGone /\ CardIsIn /\ MountInv

(* Without a card and before the first event the invariant holds.          *)
LEMMA HotInitInv == HotInit => HotInv
<1> SUFFICES ASSUME HotInit PROVE HotInv
  OBVIOUS
<1>1. uevents = <<>>
  BY Zenon DEF HotInit
<1>2. uevents \in Seq(Event)
  BY <1>1, EmptySeq
<1>3. QED
  BY <1>1, <1>2 DEF HotInit, HotInv, HotTypes, OneMount, CardIsGone, CardIsIn, Told, WillMount, MountInv

(* One event more at the end of the queue ...                              *)
LEMMA Queued ==
  ASSUME NEW q \in Seq(Event), NEW e \in Event
  PROVE  /\ Append(q, e) \in Seq(Event) /\ Append(q, e) # <<>>
         /\ Len(Append(q, e)) = Len(q) + 1
         /\ DOMAIN Append(q, e) = DOMAIN q \cup {Len(q) + 1}
         /\ Append(q, e)[Len(q) + 1] = e
         /\ \A i \in DOMAIN q : Append(q, e)[i] = q[i]
<1>1. Append(q, e) \in Seq(Event)
  BY AppendProperties
<1>2. QED
  BY <1>1

(* ... or one less at its beginning.                                       *)
LEMMA Dequeued ==
  ASSUME NEW q \in Seq(Event), q # <<>>
  PROVE  /\ Tail(q) \in Seq(Event) /\ Head(q) \in Event /\ Head(q) = q[1]
         /\ Len(Tail(q)) = Len(q) - 1 /\ Len(q) \in Nat \ {0}
         /\ DOMAIN Tail(q) = 1..Len(q) - 1 /\ DOMAIN q = 1..Len(q)
         /\ \A i \in 1..Len(q) - 1 : Tail(q)[i] = q[i + 1]
         /\ Tail(q) = <<>> => Len(q) = 1
<1>1. /\ Head(q) \in Event /\ Tail(q) \in Seq(Event) /\ Len(Tail(q)) = Len(q) - 1
      /\ \A i \in 1..Len(Tail(q)) : Tail(q)[i] = q[i + 1]
  BY HeadTailProperties
<1>2. Len(q) \in Nat \ {0} /\ DOMAIN q = 1..Len(q)
  BY EmptySeq, LenProperties
<1>3. Head(q) = q[1]
  OBVIOUS
<1>4. Tail(q) = <<>> => Len(q) = 1
  <2>1. Tail(q) = <<>> => Len(Tail(q)) = 0
    BY EmptySeq
  <2>2. QED
    BY <1>1, <1>2, <2>1
<1>5. DOMAIN Tail(q) = 1..Len(q) - 1
  BY <1>1, LenProperties
<1>6. QED
  BY <1>1, <1>2, <1>3, <1>4, <1>5

(* A card that is put in finds nothing mounted and no event waiting; the   *)
(* daemon will look, or is told of it.                                     *)
LEMMA CardInKeeps ==
  ASSUME HotInv, HotFaults = {}, NEW parts \in BOOLEAN, CardIn(parts) PROVE HotInv'
<1> DEFINE e == [action |-> "add", name |-> "k0"]
<1>1. /\ slot = 0 /\ uevents = <<>> /\ mnt = <<>> /\ hot # "mount" /\ dev = {} /\ ~leaving
      /\ slot' = inserts + 1 /\ inserts' = inserts + 1 /\ inserts \in Nat
      /\ dev' = {"k0"} /\ leaving' = leaving /\ hot' = hot /\ to_mount' = to_mount /\ mnt' = mnt
      /\ hot \in {"boot", "look", "recv"} /\ uevents \in Seq(Event)
  BY DEF CardIn, HotInv, HotTypes, CardIsGone
<1>2. uevents' = IF hot = "boot" THEN <<>> ELSE Append(uevents, e)
  BY <1>1 DEF CardIn, Sends
<1>3. e \in Event
  BY DEF Event
<1>4. uevents' \in Seq(Event)
  BY <1>1, <1>2, <1>3, Queued
<1>5. HotTypes'
  BY <1>1, <1>4 DEF HotTypes
<1>6. OneMount'
  BY <1>1, <1>2 DEF OneMount
<1>7. CardIsGone'
  BY <1>1 DEF CardIsGone
<1>8. \A i \in DOMAIN uevents' : uevents'[i] = e
  BY <1>1, <1>2, <1>3, Queued
<1>9. CardIsIn'
  BY <1>1, <1>8 DEF CardIsIn
<1>10. hot = "boot" \/ Told("k0")'
  BY <1>1, <1>2, <1>3, Queued DEF Told
<1>11. MountInv'
  BY <1>1, <1>10 DEF MountInv, WillMount
<1>12. QED
  BY <1>5, <1>6, <1>7, <1>9, <1>11 DEF HotInv

(* Its partition appears.                                                  *)
LEMMA PartitionInKeeps ==
  ASSUME HotInv, HotFaults = {}, PartitionIn PROVE HotInv'
<1> DEFINE e == [action |-> "add", name |-> "p1"]
<1>1. /\ slot # 0 /\ partitioned /\ ~leaving /\ dev' = dev \cup {"p1"}
      /\ slot' = slot /\ inserts' = inserts /\ partitioned' = partitioned /\ leaving' = leaving
      /\ hot' = hot /\ to_mount' = to_mount /\ mnt' = mnt /\ uevents \in Seq(Event)
  BY DEF PartitionIn, HotInv, HotTypes, cardInVars
<1>2. uevents' = IF hot = "boot" THEN uevents ELSE Append(uevents, e)
  BY <1>1 DEF PartitionIn, Sends
<1>3. e \in Event
  BY DEF Event
<1>4. uevents' \in Seq(Event)
  BY <1>1, <1>2, <1>3, Queued
<1>5. HotTypes'
  BY <1>1, <1>4 DEF HotInv, HotTypes
<1>6. OneMount'
  BY <1>1, <1>2 DEF HotInv, OneMount
<1>7. CardIsGone'
  BY <1>1 DEF CardIsGone
<1>8. \A i \in DOMAIN uevents' : uevents'[i].action = "remove" => i \in DOMAIN uevents /\ uevents[i].action = "remove"
  BY <1>1, <1>2, <1>3, Queued
<1>9. CardIsIn'
  BY <1>1, <1>8 DEF HotInv, CardIsIn
<1>10. hot = "boot" \/ Told("p1")'
  BY <1>1, <1>2, <1>3, Queued DEF Told
<1>11. MountInv'
  BY <1>1, <1>10 DEF MountInv, WillMount
<1>12. QED
  BY <1>5, <1>6, <1>7, <1>9, <1>11 DEF HotInv

(* Its partition goes first when it is taken out ...                       *)
LEMMA PartitionOutKeeps ==
  ASSUME HotInv, HotFaults = {}, PartitionOut PROVE HotInv'
<1> DEFINE e == [action |-> "remove", name |-> "p1"]
<1>1. /\ slot # 0 /\ partitioned /\ dev' = dev \ {"p1"}
      /\ slot' = slot /\ inserts' = inserts /\ partitioned' = partitioned /\ leaving' = TRUE
      /\ hot' = hot /\ to_mount' = to_mount /\ mnt' = mnt /\ uevents \in Seq(Event)
      /\ "k0" \in dev
  BY DEF PartitionOut, HotInv, HotTypes, CardIsIn
<1>2. uevents' = IF hot = "boot" THEN uevents ELSE Append(uevents, e)
  BY <1>1 DEF PartitionOut, Sends
<1>3. e \in Event
  BY DEF Event
<1>4. uevents' \in Seq(Event)
  BY <1>1, <1>2, <1>3, Queued
<1>5. HotTypes'
  BY <1>1, <1>4 DEF HotInv, HotTypes
<1>6. OneMount'
  BY <1>1, <1>2 DEF HotInv, OneMount
<1>7. CardIsGone'
  BY <1>1 DEF CardIsGone
<1>9. CardIsIn'
  BY <1>1 DEF CardIsIn
<1>11. MountInv'
  BY <1>1 DEF MountInv
<1>12. QED
  BY <1>5, <1>6, <1>7, <1>9, <1>11 DEF HotInv

(* ... and the card itself last: that event is the last of the queue.      *)
LEMMA CardOutKeeps ==
  ASSUME HotInv, HotFaults = {}, CardOut PROVE HotInv'
<1> DEFINE e == [action |-> "remove", name |-> "k0"]
<1>1. /\ slot # 0 /\ dev' = {} /\ slot' = 0 /\ inserts' = inserts /\ partitioned' = FALSE
      /\ leaving' = FALSE /\ hot' = hot /\ to_mount' = to_mount /\ mnt' = mnt
      /\ uevents \in Seq(Event)
  BY DEF CardOut, HotInv, HotTypes
<1>2. uevents' = IF hot = "boot" THEN uevents ELSE Append(uevents, e)
  BY <1>1 DEF CardOut, Sends
<1>3. e \in Event
  BY DEF Event
<1>4. uevents' \in Seq(Event)
  BY <1>1, <1>2, <1>3, Queued
<1>5. HotTypes'
  BY <1>1, <1>4 DEF HotInv, HotTypes
<1>6. OneMount'
  BY <1>1, <1>2 DEF HotInv, OneMount
<1>7. CardIsGone'
  <2>1. CASE hot = "boot"
    BY <1>1, <1>2, <2>1 DEF HotInv, OneMount, CardIsGone
  <2>2. CASE hot # "boot"
    <3>1. uevents' # <<>> /\ uevents'[Len(uevents')] = e
      BY <1>1, <1>2, <1>3, <2>2, Queued
    <3>2. QED
      BY <1>1, <3>1 DEF CardIsGone
  <2>3. QED
    BY <2>1, <2>2
<1>9. CardIsIn'
  BY <1>1 DEF CardIsIn
<1>11. MountInv'
  BY <1>1 DEF MountInv
<1>12. QED
  BY <1>5, <1>6, <1>7, <1>9, <1>11 DEF HotInv

(* The daemon begins to listen before it looks for a card that is in.      *)
LEMMA LooksKeep ==
  ASSUME HotInv, Binds \/ Looks PROVE HotInv'
<1>1. CASE Binds
  BY <1>1 DEF Binds, HotInv, HotTypes, OneMount, CardIsGone, CardIsIn, Told, WillMount, MountInv,
              cardInVars
<1>2. CASE Looks
  <2>1. /\ mnt = <<>> /\ mnt' = mnt /\ uevents' = uevents /\ dev' = dev /\ slot' = slot
        /\ partitioned' = partitioned /\ leaving' = leaving /\ inserts' = inserts
        /\ hot' \in {"recv", "mount"}
        /\ "p1" \in dev => to_mount' = "p1" /\ hot' = "mount"
        /\ "p1" \notin dev /\ "k0" \in dev => to_mount' = "k0" /\ hot' = "mount"
        /\ dev = {} => hot' = "recv"
    BY <1>2 DEF Looks, HotInv, OneMount, cardInVars
  <2>2. QED
    BY <2>1 DEF HotInv, HotTypes, OneMount, CardIsGone, CardIsIn, Told, WillMount, MountInv
<1>3. QED
  BY <1>1, <1>2

(* An event taken from the queue: the mount it asks for is then            *)
(* to_mount's; a removal unmounts.                                         *)
LEMMA CheckKeeps ==
  ASSUME HotInv, check_sd_card PROVE HotInv'
<1> DEFINE e == Head(uevents)
           mounts == e.action = "add" /\ (e.name = "k0" => "p1" \notin dev)
<1>1. /\ hot = "recv" /\ uevents # <<>> /\ uevents \in Seq(Event) /\ uevents' = Tail(uevents)
      /\ slot' = slot /\ partitioned' = partitioned /\ leaving' = leaving /\ inserts' = inserts
      /\ dev' = dev
  BY DEF check_sd_card, HotInv, HotTypes, cardInVars
<1>2. /\ to_mount' = IF mounts THEN e.name ELSE ""
      /\ hot' = IF mounts THEN "mount" ELSE "recv"
      /\ mnt' = IF e.action = "remove" /\ mnt # <<>> THEN Tail(mnt) ELSE mnt
  BY DEF check_sd_card, Umounts
<1>13. mnt # <<>> => Tail(mnt) = <<>>
  <2>1. mnt # <<>> => mnt = <<inserts>>
    BY DEF HotInv, OneMount
  <2>2. Tail(<<inserts>>) = <<>>
    OBVIOUS
  <2>3. QED
    BY <2>1, <2>2
<1>3. /\ Tail(uevents) \in Seq(Event) /\ e \in Event /\ e = uevents[1]
      /\ Len(Tail(uevents)) = Len(uevents) - 1 /\ Len(uevents) \in Nat \ {0}
      /\ DOMAIN Tail(uevents) = 1..Len(uevents) - 1 /\ DOMAIN uevents = 1..Len(uevents)
      /\ \A i \in 1..Len(uevents) - 1 : Tail(uevents)[i] = uevents[i + 1]
      /\ Tail(uevents) = <<>> => Len(uevents) = 1
  BY <1>1, Dequeued
<1> HIDE DEF e, mounts
<1>4. e.action \in {"add", "remove"} /\ e.name \in {"k0", "p1"}
  BY <1>3 DEF Event
<1>5. /\ mnt' = mnt \/ mnt' = <<>>
      /\ e.action = "remove" => mnt' = <<>>
      /\ e.action # "remove" => mnt' = mnt
  BY <1>2, <1>13, <1>4
<1>6. HotTypes'
  BY <1>1, <1>2, <1>3 DEF HotInv, HotTypes
<1>7. OneMount'
  BY <1>1, <1>2, <1>5 DEF HotInv, OneMount
<1>8. CardIsGone'
  <2>1. SUFFICES ASSUME slot = 0
                 PROVE  \/ /\ uevents' # <<>>
                           /\ uevents'[Len(uevents')] = [action |-> "remove", name |-> "k0"]
                        \/ uevents' = <<>> /\ mnt' = <<>> /\ hot' # "mount"
    BY <1>1 DEF HotInv, CardIsGone
  <2>2. uevents[Len(uevents)] = [action |-> "remove", name |-> "k0"]
    BY <1>1, <2>1 DEF HotInv, CardIsGone
  <2>3. CASE Len(uevents) = 1
    <3>1. e.action = "remove"
      BY <1>3, <2>2, <2>3
    <3>2. mnt' = <<>> /\ hot' = "recv"
      BY <1>2, <1>5, <3>1 DEF mounts
    <3>3. uevents' = <<>>
      BY <1>1, <1>3, <2>3, EmptySeq
    <3>4. QED
      BY <3>2, <3>3
  <2>4. CASE Len(uevents) # 1
    BY <1>1, <1>3, <2>2, <2>4
  <2>5. QED
    BY <2>3, <2>4
<1>9. CardIsIn'
  BY <1>1, <1>3 DEF HotInv, CardIsIn
<1>10. ASSUME NEW n \in {"k0", "p1"}, slot # 0, ~leaving, WillMount(n),
              n = "k0" => "p1" \notin dev
       PROVE  WillMount(n)'
  <2>1. e.action = "add"
    BY <1>1, <1>3, <1>4, <1>10 DEF HotInv, CardIsIn
  <2>2. CASE mnt = <<slot>>
    BY <1>1, <1>5, <2>1, <2>2 DEF WillMount
  <2>3. CASE Told(n)
    <3>1. PICK i \in DOMAIN uevents : uevents[i] = [action |-> "add", name |-> n]
      BY <2>3 DEF Told
    <3>2. CASE i = 1
      <4>1. e.action = "add" /\ e.name = n
        BY <1>3, <3>1, <3>2
      <4>2. hot' = "mount" /\ to_mount' = n
        BY <1>2, <1>10, <4>1 DEF mounts
      <4>3. QED
        BY <4>2 DEF WillMount
    <3>3. CASE i # 1
      <4>1. i - 1 \in 1..Len(uevents) - 1
        BY <1>3, <3>3
      <4>2. Tail(uevents)[i - 1] = uevents[i]
        BY <1>3, <4>1
      <4>3. QED
        BY <1>1, <1>3, <3>1, <4>1, <4>2 DEF WillMount, Told
    <3>4. QED
      BY <3>2, <3>3
  <2>4. QED
    BY <1>1, <1>10, <2>2, <2>3 DEF WillMount
<1>11. MountInv'
  <2>1. slot # 0 /\ ~partitioned => ~leaving /\ "p1" \notin dev
    BY DEF HotInv, CardIsIn
  <2>2. "p1" \in dev => slot # 0 /\ ~leaving
    BY DEF HotInv, CardIsIn, CardIsGone
  <2>3. slot # 0 /\ ~partitioned => WillMount("k0")'
    BY <1>10, <2>1 DEF HotInv, MountInv
  <2>4. "p1" \in dev => WillMount("p1")'
    BY <1>10, <2>2 DEF HotInv, MountInv
  <2>5. QED
    BY <1>1, <2>3, <2>4 DEF MountInv
<1>12. QED
  BY <1>6, <1>7, <1>8, <1>9, <1>11 DEF HotInv

(* The mount succeeds when the device is there and nothing is mounted yet. *)
LEMMA MountKeeps ==
  ASSUME HotInv, daemon_mount_sd PROVE HotInv'
<1>1. /\ hot = "mount" /\ hot' = "recv" /\ uevents' = uevents /\ dev' = dev /\ slot' = slot
      /\ partitioned' = partitioned /\ leaving' = leaving /\ inserts' = inserts
  BY DEF daemon_mount_sd, cardInVars
<1>2. mnt = <<>> \/ mnt = <<inserts>>
  BY DEF HotInv, OneMount
<1>3. slot = 0 => dev = {} /\ mnt' = mnt
  BY DEF daemon_mount_sd, HotInv, CardIsGone
<1>4. slot # 0 => slot = inserts
  BY DEF HotInv, HotTypes
<1>5. slot # 0 => mnt' = mnt \/ mnt' = <<slot>>
  <2> SUFFICES ASSUME slot # 0, mnt' # mnt PROVE mnt' = <<slot>>
    OBVIOUS
  <2>1. CanMount /\ mnt' = <<slot>> \o mnt
    BY DEF daemon_mount_sd
  <2>2. mnt = <<>>
    BY <1>2, <1>4, <2>1 DEF CanMount
  <2>3. QED
    BY <2>1, <2>2
<1>6. slot # 0 /\ to_mount \in dev /\ (to_mount = "k0" => ~partitioned) => mnt' = <<slot>>
  <2> SUFFICES ASSUME slot # 0, to_mount \in dev, to_mount = "k0" => ~partitioned
               PROVE  mnt' = <<slot>>
    OBVIOUS
  <2>1. CASE mnt = <<>>
    <3>1. mnt' = <<slot>> \o mnt
      BY <2>1 DEF daemon_mount_sd, CanMount
    <3>2. QED
      BY <2>1, <3>1
  <2>2. CASE mnt = <<inserts>>
    BY <2>2, <1>4, <1>5
  <2>3. QED
    BY <1>2, <2>1, <2>2
<1>7. HotTypes'
  BY <1>1 DEF HotInv, HotTypes
<1>8. OneMount'
  BY <1>1, <1>2, <1>3, <1>4, <1>5 DEF HotInv, OneMount
<1>9. CardIsGone'
  BY <1>1, <1>3 DEF HotInv, CardIsGone
<1>10. CardIsIn'
  BY <1>1 DEF HotInv, CardIsIn
<1>11. MountInv'
  <2>1. ASSUME NEW n \in {"k0", "p1"}, slot # 0, WillMount(n), n \in dev, n = "k0" => ~partitioned
        PROVE  WillMount(n)'
    <3>1. CASE mnt = <<slot>>
      BY <1>1, <1>5, <2>1, <3>1 DEF WillMount
    <3>2. CASE to_mount = n
      BY <1>1, <1>6, <2>1, <3>2 DEF WillMount
    <3>3. CASE Told(n)
      BY <1>1, <3>3 DEF WillMount, Told
    <3>4. QED
      BY <1>1, <2>1, <3>1, <3>2, <3>3 DEF WillMount
  <2>2. slot # 0 => "k0" \in dev
    BY DEF HotInv, CardIsIn
  <2>3. slot # 0 /\ ~partitioned => WillMount("k0")'
    BY <2>1, <2>2 DEF HotInv, MountInv
  <2>4. "p1" \in dev => slot # 0 /\ WillMount("p1")'
    BY <2>1 DEF HotInv, MountInv, CardIsGone
  <2>5. QED
    BY <1>1, <2>3, <2>4 DEF MountInv
<1>12. QED
  BY <1>7, <1>8, <1>9, <1>10, <1>11 DEF HotInv

(* Every step of the slot and of the daemon keeps it.                      *)
LEMMA HotStepInv ==
  ASSUME HotFaults = {}, HotInv, [HotNext]_hotVars PROVE HotInv'
<1>1. CASE UNCHANGED hotVars
  BY <1>1 DEF hotVars, cardInVars, HotInv, HotTypes, OneMount, CardIsGone, CardIsIn, Told,
              WillMount, MountInv
<1>2. CASE HotNext
  BY <1>2, CardInKeeps, PartitionInKeeps, PartitionOutKeeps, CardOutKeeps, LooksKeep, CheckKeeps,
     MountKeeps DEF HotNext, HotStep
<1>3. QED
  BY <1>1, <1>2

(* For any number of cards put in one after the other, when no event is    *)
(* lost and none is put in before the events of the one before are dealt   *)
(* with: once they are, the card in the slot is at /mnt, once, and without *)
(* a card nothing is (daemon.c:506-577).                                   *)
THEOREM SettledIsMountedAlways ==
  ASSUME HotFaults = {}
  PROVE  HotInit /\ [][HotNext]_hotVars => []SettledIsMounted
<1>1. HotInv /\ [HotNext]_hotVars => HotInv'
  BY HotStepInv
<1>2. HotInv => SettledIsMounted
  <2> SUFFICES ASSUME HotInv, Settled PROVE mnt = IF slot = 0 THEN <<>> ELSE <<slot>>
    BY DEF SettledIsMounted
  <2>1. uevents = <<>> /\ hot = "recv" /\ (partitioned => "p1" \in dev)
    BY DEF Settled
  <2>2. CASE slot = 0
    BY <2>1, <2>2 DEF HotInv, CardIsGone
  <2>3. CASE slot # 0
    BY <2>1, <2>3 DEF HotInv, MountInv, WillMount, Told
  <2>4. QED
    BY <2>2, <2>3
<1>3. QED
  BY <1>1, <1>2, HotInitInv, PTL

-----------------------------------------------------------------------------
(* What is wanted of a replay is sent, dvr/src/ak_dvr_replay.c.            *)

(* Files and requested spans, in seconds.                                  *)
File == [from : Nat, len : Nat \ {0}]
Span == [from : Nat, to : Nat]

(* The thread is at work with the list, and with a file of it.             *)
AtEntry == rpc \in {"frame", "paused", "resumed", "send"}
Live == status \in {"working", "pause"}

(* The thread's place in the list and in a file of it.                     *)
PlayTypes == /\ entry_nr \in Nat \ {0} /\ second \in Nat
             /\ replay_list \in Seq(File)
             /\ request.span \in Span /\ span \in Span

(* Nobody starts what is playing, and an exit stops it for good.           *)
CallsInOrder == /\ call \in {"refill", "fill", "post"} => ~Live
                /\ ~replay_run => ~Live /\ call \in {"join", "ended"}
                /\ replay_run => call \notin {"join", "ended"}
                /\ rpc = "none" => ~replay_run
                /\ Live /\ call = "free" => work_sem = 0 /\ rpc # "lock"

(* All that is recorded of a span is in the list.                          *)
Whole(list, w) == \A i \in DOMAIN Recorded :
                    Overlaps(Recorded[i], w) => \E k \in DOMAIN list : list[k] = Recorded[i]
ListIsWhole == /\ call = "post" => Whole(replay_list, span)
               /\ Live => Whole(replay_list, request.span) \/ (work_sem = 0 /\ rpc = "wait")

(* What was wanted of a file, before a second of it, is sent.              *)
SentTill(f, end) == \A t \in f.from..RecordEnd(f) - 1 :
                      t < end /\ t \in request.span.from..request.span.to - 1 => t \in sent
SentSoFar == /\ \A k \in DOMAIN replay_list :
                  k < entry_nr => SentTill(replay_list[k], RecordEnd(replay_list[k]))
             /\ AtEntry => entry_nr \in DOMAIN replay_list /\ SentTill(replay_list[entry_nr], second)
SentAll == \A i \in DOMAIN Recorded : SentTill(Recorded[i], RecordEnd(Recorded[i]))

(* The walk that follows the last token sends it all.                      *)
LastWalk == Live /\ work_sem = 0 => \/ rpc = "lock"
                                    \/ rpc = "wait" /\ SentAll
                                    \/ (AtEntry \/ rpc = "pick") /\ SentSoFar

PlayInv == ReplayTypeOK /\ PlayTypes /\ CallsInOrder /\ ListIsWhole /\ LastWalk
(* Nobody starts or exits over a paused replay, and no other viewer's stop *)
(* comes before the thread has the list.                                   *)
Playing == "paused" \notin ReplayFaults /\ "earlystop" \notin ReplayFaults

(* Nothing is recorded as sent, and nobody has asked for anything.         *)
LEMMA PlayInit == ReplayInit => PlayInv
<1> SUFFICES ASSUME ReplayInit PROVE PlayInv
  OBVIOUS
<1>1. replay_list \in Seq(File)
  BY EmptySeq DEF ReplayInit
<1>2. ReplayTypeOK
  BY DEF ReplayInit, ReplayTypeOK
<1>3. PlayTypes
  BY <1>1 DEF ReplayInit, PlayTypes, Span, NoSpan
<1>4. CallsInOrder /\ ListIsWhole /\ LastWalk
  BY DEF ReplayInit, CallsInOrder, ListIsWhole, LastWalk, Live
<1>5. QED
  BY <1>2, <1>3, <1>4 DEF PlayInv

-----------------------------------------------------------------------------
(* What an entry that is not of the request has of it, and one that is     *)
(* before its first second: nothing.                                       *)
LEMMA SkippedHasNone ==
  ASSUME NEW f \in File, NEW w \in Span, NEW t \in f.from..RecordEnd(f) - 1,
         t \in w.from..w.to - 1
  PROVE  check_entry_time(f, w) /\ PlayStart(f, w) <= t
<1>1. f.from \in Nat /\ RecordEnd(f) \in Nat /\ w.from \in Nat /\ w.to \in Nat
  BY DEF File, Span, RecordEnd
<1>2. QED
  BY <1>1 DEF check_entry_time, PlayStart

(* When every entry of the list is sent, so is all that was wanted.        *)
LEMMA WholeIsSent ==
  ASSUME PlayTypes, Whole(replay_list, request.span),
         \A k \in DOMAIN replay_list : SentTill(replay_list[k], RecordEnd(replay_list[k]))
  PROVE  SentAll
<1> SUFFICES ASSUME NEW i \in DOMAIN Recorded, NEW t \in Recorded[i].from..RecordEnd(Recorded[i]) - 1,
                    t \in request.span.from..request.span.to - 1
             PROVE  t \in sent
  BY DEF SentAll, SentTill
<1> DEFINE f == Recorded[i]
<1>0. Recorded \in Seq(File)
  BY ReplayAssumption, Zenon DEF File
<1>1. f \in File /\ request.span \in Span
  BY <1>0 DEF PlayTypes
<1>2. f.from \in Nat /\ RecordEnd(f) \in Nat /\ request.span.from \in Nat /\ request.span.to \in Nat
  BY <1>1 DEF File, Span, RecordEnd
<1>3. Overlaps(f, request.span)
  BY <1>2 DEF Overlaps
<1>4. PICK k \in DOMAIN replay_list : replay_list[k] = f
  BY <1>3 DEF Whole
<1>5. QED
  BY <1>2, <1>4 DEF SentTill

(* What every step of the thread leaves as it is, and what it may do.      *)
ThreadKeepsCalls == /\ UNCHANGED <<request, replay_run, replay_list, call, viewer, span>>
                    /\ status' \in {status, "stop"}
                    /\ rpc' = "none" => ~replay_run
                    /\ rpc' # "lock" \/ rpc = "wait"
                    /\ \/ work_sem' = work_sem /\ rpc \notin {"wait", "none"}
                       \/ work_sem > 0 /\ work_sem' = work_sem - 1 /\ rpc = "wait" /\ rpc' \in {"lock", "none"}
                    /\ ReplayTypeOK'

(* Every step of the thread is like that.                                  *)
LEMMA ThreadIsSo ==
  ASSUME ReplayTypeOK, ReplayStep PROVE ThreadKeepsCalls
<1> USE DEF ThreadKeepsCalls, ReplayTypeOK, ThreadGoes, viewerVars, replaySync
<1>1. CASE ReplayWakes
  BY <1>1 DEF ReplayWakes
<1>2. CASE ReplayLocks
  BY <1>2 DEF ReplayLocks
<1>3. CASE WalkIsOver
  BY <1>3 DEF WalkIsOver, EndsWalk
<1>4. CASE EntrySkipped
  BY <1>4 DEF EntrySkipped, NextEntry, EndsWalk
<1>5. CASE EntryOpens
  BY <1>5 DEF EntryOpens
<1>6. CASE EntryFails
  BY <1>6 DEF EntryFails, EndsWalk
<1>7. CASE EntryIsOver
  BY <1>7 DEF EntryIsOver, NextEntry, EndsWalk
<1>8. CASE ReplayPauses
  BY <1>8 DEF ReplayPauses
<1>9. CASE FrameIsDue
  BY <1>9 DEF FrameIsDue, FrameChecked, EndsWalk
<1>10. CASE ReplayResumes
  BY <1>10 DEF ReplayResumes
<1>11. CASE FrameAfterPause
  BY <1>11 DEF FrameAfterPause, FrameChecked, EndsWalk
<1>12. CASE send_data
  BY <1>12 DEF send_data
<1>13. QED
  BY <1>1, <1>2, <1>3, <1>4, <1>5, <1>6, <1>7, <1>8, <1>9, <1>10, <1>11, <1>12
  DEF ReplayStep

(* So the thread disturbs neither the order of the calls nor the list.     *)
LEMMA ThreadKeepsOrder ==
  ASSUME PlayInv, ReplayStep
  PROVE  ReplayTypeOK' /\ CallsInOrder' /\ ListIsWhole'
<1>1. ThreadKeepsCalls
  BY ThreadIsSo DEF PlayInv
<1>2. ReplayTypeOK'
  BY <1>1 DEF ThreadKeepsCalls
<1>3. CallsInOrder'
  BY <1>1 DEF ThreadKeepsCalls, PlayInv, ReplayTypeOK, CallsInOrder, Live
<1>4. ListIsWhole'
  <2>1. Whole(replay_list, span)' = Whole(replay_list, span)
        /\ Whole(replay_list, request.span)' = Whole(replay_list, request.span)
    BY <1>1 DEF ThreadKeepsCalls, Whole
  <2>2. Live' => Live
    BY <1>1 DEF ThreadKeepsCalls, Live
  <2>3. work_sem = 0 /\ rpc = "wait" => FALSE
    BY <1>1 DEF ThreadKeepsCalls
  <2>4. call' = call
    BY <1>1 DEF ThreadKeepsCalls
  <2>5. (call' = "post" => Whole(replay_list, span)') /\ (Live' => Whole(replay_list, request.span)')
    BY <2>1, <2>2, <2>3, <2>4, Zenon DEF PlayInv, ListIsWhole
  <2>6. QED
    BY <2>5, Zenon DEF ListIsWhole
<1>5. QED
  BY <1>2, <1>3, <1>4

(* The steps of the thread that send nothing ...                           *)
LEMMA SentStays ==
  ASSUME sent' = sent, request' = request
  PROVE  \A f, end : SentTill(f, end)' <=> SentTill(f, end)
BY DEF SentTill

(* ... and leave it at its place in the list.                              *)
LEMMA PlaceStays ==
  ASSUME UNCHANGED <<sent, request, replay_list, entry_nr, second>>, SentSoFar,
         AtEntry' => AtEntry
  PROVE  SentSoFar'
BY DEF SentSoFar, SentTill, AtEntry, RecordEnd

(* A step of the thread that stops the replay ends what LastWalk promises. *)
LEMMA ThreadTypes ==
  ASSUME PlayInv, ReplayStep PROVE PlayTypes'
<1>1. UNCHANGED <<request, replay_list, span>>
  BY ThreadIsSo DEF PlayInv, ThreadKeepsCalls
<1>2. entry_nr' \in Nat \ {0} /\ second' \in Nat
  <2>1. entry_nr \in Nat \ {0} /\ second \in Nat
    BY DEF PlayInv, PlayTypes
  <2>2. CASE EntryOpens
    <3>1. replay_list[entry_nr] \in File /\ request.span \in Span
      BY <2>1, <2>2 DEF EntryOpens, PlayInv, PlayTypes
    <3>2. PlayStart(replay_list[entry_nr], request.span) \in Nat
      BY <3>1 DEF PlayStart, File, Span
    <3>3. QED
      BY <2>1, <2>2, <3>2 DEF EntryOpens
  <2>3. CASE send_data
    BY <2>1, <2>3 DEF send_data, replaySync
  <2>4. CASE ~EntryOpens /\ ~send_data
    BY <2>1, <2>4 DEF ReplayStep, ReplayWakes, ReplayLocks, WalkIsOver, EntrySkipped, EntryFails,
       EntryIsOver, ReplayPauses, FrameIsDue, ReplayResumes, FrameAfterPause, NextEntry, EndsWalk,
       FrameChecked
  <2>5. QED
    BY <2>2, <2>3, <2>4
<1>3. QED
  BY <1>1, <1>2 DEF PlayInv, PlayTypes

(* The walk: an entry skipped holds nothing that is wanted, one that is    *)
(* sent is sent from its first wanted second on, and at the end of the     *)
(* list all is sent.                                                       *)
LEMMA ThreadSends ==
  ASSUME PlayInv, ReplayStep PROVE LastWalk'
<1>1. ThreadKeepsCalls
  BY ThreadIsSo DEF PlayInv
<1>2. /\ request' = request /\ replay_list' = replay_list /\ replay_run' = replay_run
      /\ entry_nr \in Nat \ {0} /\ second \in Nat /\ work_sem \in Nat
      /\ replay_list \in Seq(File) /\ request.span \in Span
  BY <1>1 DEF ThreadKeepsCalls, PlayInv, PlayTypes, ReplayTypeOK
<1>3. Live => replay_run /\ status # "stop"
  BY DEF PlayInv, CallsInOrder, Live
<1>4. SUFFICES ASSUME Live', work_sem' = 0
               PROVE  \/ rpc' = "lock"
                      \/ rpc' = "wait" /\ SentAll'
                      \/ (AtEntry' \/ rpc' = "pick") /\ SentSoFar'
  BY DEF LastWalk
<1>5. Live /\ status' # "stop" /\ replay_run
  BY <1>1, <1>3, <1>4 DEF ThreadKeepsCalls, Live
<1>6. CASE ReplayWakes
  BY <1>5, <1>6 DEF ReplayWakes, ThreadGoes
<1>7. ASSUME ~ReplayWakes
      PROVE  /\ work_sem = 0 /\ rpc # "wait"
             /\ Whole(replay_list, request.span)
             /\ rpc = "lock" \/ ((AtEntry \/ rpc = "pick") /\ SentSoFar)
  <2>1. rpc # "wait"
    BY <1>7 DEF ReplayStep, ReplayLocks, WalkIsOver, EntrySkipped, EntryOpens, EntryFails,
       EntryIsOver, ReplayPauses, FrameIsDue, ReplayResumes, FrameAfterPause, FrameChecked, send_data
  <2>2. work_sem = 0
    BY <1>1, <1>4, <2>1 DEF ThreadKeepsCalls
  <2>3. QED
    BY <1>5, <2>1, <2>2, Zenon DEF PlayInv, ListIsWhole, LastWalk
<1>8. CASE ReplayLocks
  <2>1. entry_nr' = 1 /\ rpc' = "pick"
    BY <1>8 DEF ReplayLocks, ThreadGoes
  <2>2. ~AtEntry' /\ \A k \in DOMAIN replay_list' : ~(k < entry_nr')
    BY <1>2, <2>1 DEF AtEntry
  <2>3. SentSoFar'
    BY <2>2 DEF SentSoFar
  <2>4. QED
    BY <2>1, <2>3
<1>9. CASE WalkIsOver
  <2>1. rpc = "pick" /\ entry_nr > Len(replay_list) /\ rpc' = "wait" /\ sent' = sent
    BY <1>5, <1>9 DEF WalkIsOver, EndsWalk, ThreadGoes
  <2>2. ~ReplayWakes
    BY <2>1 DEF ReplayWakes
  <2>3. SentSoFar /\ Whole(replay_list, request.span)
    BY <1>7, <2>1, <2>2
  <2>4. \A k \in DOMAIN replay_list : SentTill(replay_list[k], RecordEnd(replay_list[k]))
    BY <1>2, <2>1, <2>3 DEF SentSoFar
  <2>5. SentAll
    BY <2>3, <2>4, WholeIsSent DEF PlayInv
  <2>6. SentAll'
    BY <1>2, <2>1, <2>5 DEF SentAll, SentTill, RecordEnd
  <2>7. QED
    BY <2>1, <2>6
<1>10. CASE EntrySkipped
  <2> DEFINE f == replay_list[entry_nr]
  <2>1. /\ rpc = "pick" /\ entry_nr <= Len(replay_list) /\ ~check_entry_time(f, request.span)
        /\ rpc' = "pick" /\ entry_nr' = entry_nr + 1 /\ sent' = sent
    BY <1>5, <1>10 DEF EntrySkipped, NextEntry, EndsWalk, ThreadGoes
  <2>2. SentSoFar
    BY <1>7, <2>1 DEF ReplayWakes, AtEntry
  <2>3. f \in File
    BY <1>2, <2>1
  <2>4. SentTill(f, RecordEnd(f))
    BY <1>2, <2>1, <2>3, SkippedHasNone DEF SentTill
  <2>5. \A k \in DOMAIN replay_list : k < entry_nr' =>
          SentTill(replay_list[k], RecordEnd(replay_list[k]))
    BY <1>2, <2>1, <2>2, <2>4 DEF SentSoFar
  <2>6. ~AtEntry'
    BY <2>1 DEF AtEntry
  <2>7. SentSoFar'
    BY <1>2, <2>1, <2>5, <2>6 DEF SentSoFar, SentTill, RecordEnd
  <2>8. QED
    BY <2>1, <2>7
<1>11. CASE EntryOpens
  <2> DEFINE f == replay_list[entry_nr]
  <2>1. /\ rpc = "pick" /\ entry_nr <= Len(replay_list) /\ second' = PlayStart(f, request.span)
        /\ rpc' = "frame" /\ entry_nr' = entry_nr /\ sent' = sent
    BY <1>11 DEF EntryOpens, ThreadGoes
  <2>2. SentSoFar
    BY <1>7, <2>1 DEF ReplayWakes, AtEntry
  <2>3. f \in File /\ entry_nr \in DOMAIN replay_list
    BY <1>2, <2>1
  <2>4. PlayStart(f, request.span) \in Nat /\ f.from \in Nat /\ RecordEnd(f) \in Nat
    BY <1>2, <2>3 DEF PlayStart, File, Span, RecordEnd
  <2>5. SentTill(f, second')
    <3> SUFFICES ASSUME NEW t \in f.from..RecordEnd(f) - 1, t < second',
                        t \in request.span.from..request.span.to - 1
                 PROVE  FALSE
      BY DEF SentTill
    <3>1. PlayStart(f, request.span) <= t
      BY <1>2, <2>3, SkippedHasNone
    <3>2. QED
      BY <2>1, <2>4, <3>1
  <2>6. AtEntry'
    BY <2>1 DEF AtEntry
  <2>7. SentSoFar'
    BY <1>2, <2>1, <2>2, <2>3, <2>5 DEF SentSoFar, SentTill, RecordEnd
  <2>8. QED
    BY <2>6, <2>7
<1>12. CASE EntryIsOver
  <2> DEFINE f == replay_list[entry_nr]
  <2>1. /\ rpc = "frame" /\ ~InEntry
        /\ rpc' = "pick" /\ entry_nr' = entry_nr + 1 /\ sent' = sent
    BY <1>5, <1>12 DEF EntryIsOver, NextEntry, EndsWalk, ThreadGoes
  <2>2. SentSoFar /\ AtEntry
    BY <1>7, <2>1 DEF ReplayWakes, AtEntry
  <2>3. entry_nr \in DOMAIN replay_list /\ SentTill(f, second)
    BY <2>2 DEF SentSoFar
  <2>4. f \in File /\ RecordEnd(f) \in Nat /\ f.from \in Nat
    <3>1. f \in File
      BY <1>2, <2>3
    <3>2. QED
      BY <3>1 DEF File, RecordEnd
  <2>5. RecordEnd(f) <= second
    BY <1>2, <2>1, <2>3, <2>4 DEF InEntry
  <2>6. SentTill(f, RecordEnd(f))
    BY <1>2, <2>3, <2>4, <2>5 DEF SentTill
  <2>7. \A k \in DOMAIN replay_list : k < entry_nr' =>
          SentTill(replay_list[k], RecordEnd(replay_list[k]))
    BY <1>2, <2>1, <2>2, <2>6 DEF SentSoFar
  <2>8. ~AtEntry'
    BY <2>1 DEF AtEntry
  <2>9. SentSoFar'
    BY <1>2, <2>1, <2>7, <2>8 DEF SentSoFar, SentTill, RecordEnd
  <2>10. QED
    BY <2>1, <2>9
<1>13. CASE ReplayPauses \/ FrameIsDue \/ ReplayResumes \/ FrameAfterPause
  <2>1. /\ rpc \in {"frame", "paused", "resumed"} /\ rpc' \in {"paused", "resumed", "send"}
        /\ UNCHANGED <<sent, entry_nr, second>>
    BY <1>5, <1>13 DEF ReplayPauses, FrameIsDue, ReplayResumes, FrameAfterPause, FrameChecked,
       EndsWalk, ThreadGoes
  <2>2. AtEntry /\ AtEntry'
    BY <2>1 DEF AtEntry
  <2>3. SentSoFar
    BY <1>7, <2>1 DEF ReplayWakes, AtEntry
  <2>4. SentSoFar'
    BY <1>2, <2>1, <2>2, <2>3, PlaceStays
  <2>5. QED
    BY <2>2, <2>4
<1>14. CASE send_data
  <2> DEFINE f == replay_list[entry_nr]
  <2>1. /\ rpc = "send" /\ rpc' = "frame" /\ entry_nr' = entry_nr
        /\ sent' = sent \cup {second} /\ second' = second + 1
    BY <1>14 DEF send_data, ThreadGoes
  <2>2. SentSoFar /\ AtEntry /\ AtEntry'
    BY <1>7, <2>1 DEF ReplayWakes, AtEntry
  <2>3. entry_nr \in DOMAIN replay_list /\ SentTill(replay_list[entry_nr], second)
    BY <2>2 DEF SentSoFar
  <2>4. \A k \in DOMAIN replay_list : k < entry_nr =>
          SentTill(replay_list[k], RecordEnd(replay_list[k]))
    BY <2>2 DEF SentSoFar
  <2>5. \A t \in f.from..RecordEnd(f) - 1 :
          t < second' /\ t \in request.span.from..request.span.to - 1 => t \in sent'
    <3>1. f \in File
      BY <1>2, <2>3
    <3>2. \A t \in f.from..RecordEnd(f) - 1 : t < second + 1 => t < second \/ t = second
      BY <1>2, <3>1 DEF File, RecordEnd
    <3>3. QED
      BY <2>1, <2>3, <3>2 DEF SentTill
  <2>6. SentSoFar'
    BY <1>2, <2>1, <2>3, <2>4, <2>5 DEF SentSoFar, SentTill, RecordEnd
  <2>7. QED
    BY <2>2, <2>6
<1>15. CASE EntryFails
  BY <1>5, <1>15 DEF EntryFails
<1>16. QED
  BY <1>6, <1>8, <1>9, <1>10, <1>11, <1>12, <1>13, <1>14, <1>15 DEF ReplayStep

(* The list a start fills has every file that overlaps its span ...        *)
LEMMA FilledIsWhole ==
  ASSUME NEW keep \in SUBSET DOMAIN Recorded, NEW w,
         {i \in DOMAIN Recorded : Overlaps(Recorded[i], w)} \subseteq keep
  PROVE  Whole(Picked(Recorded, keep), w)
<1> SUFFICES ASSUME NEW i \in DOMAIN Recorded, Overlaps(Recorded[i], w)
             PROVE  \E k \in DOMAIN Picked(Recorded, keep) : Picked(Recorded, keep)[k] = Recorded[i]
  BY DEF Whole
<1>1. Recorded \in Seq(File) /\ i \in keep
  BY ReplayAssumption, Zenon DEF File
<1>2. /\ DOMAIN Picked(Recorded, keep) = 1..Cardinality(keep)
      /\ \A k \in 1..Cardinality(keep) : Picked(Recorded, keep)[k] = Recorded[Kth(keep, k)]
      /\ \E k \in 1..Cardinality(keep) : Kth(keep, k) = i
  BY <1>1, PickFacts
<1>3. QED
  BY <1>2

(* ... and files only.                                                     *)
LEMMA FilledIsTyped ==
  ASSUME NEW keep \in SUBSET DOMAIN Recorded
  PROVE  Picked(Recorded, keep) \in Seq(File)
<1>1. Recorded \in Seq(File)
  BY ReplayAssumption, Zenon DEF File
<1>2. QED
  BY <1>1, PickFacts

-----------------------------------------------------------------------------
(* The steps of the callers leave the walk alone, but for the list and the *)
(* request.                                                                *)
LEMMA CallersKeepTypes ==
  ASSUME PlayInv, ReplayNext, ~ReplayStep PROVE ReplayTypeOK' /\ PlayTypes'
<1> USE DEF PlayInv, ReplayTypeOK, Caller, playVars, replaySync
<1>1. CASE StopFrees \/ StartFrees
  <2>1. <<>> \in Seq(File)
    BY EmptySeq
  <2>2. PlayTypes'
    BY <1>1, <2>1 DEF StopFrees, StartFrees, free_replay_list, PlayTypes
  <2>3. ReplayTypeOK'
    BY <1>1 DEF StopFrees, StartFrees, free_replay_list
  <2>4. QED
    BY <2>2, <2>3
<1>2. CASE add_to_replay_tail
  <2>1. replay_list' \in Seq(File)
    BY <1>2, FilledIsTyped DEF add_to_replay_tail
  <2>2. PlayTypes'
    BY <1>2, <2>1 DEF add_to_replay_tail, PlayTypes
  <2>3. ReplayTypeOK'
    BY <1>2 DEF add_to_replay_tail
  <2>4. QED
    BY <2>2, <2>3
<1>3. CASE StartPosts
  BY <1>3 DEF StartPosts, PlayTypes
<1>4. CASE \E v \in Viewer : ak_dvr_replay_stop(v)
  BY <1>4 DEF ak_dvr_replay_stop, PlayTypes
<1>5. CASE \E v \in Viewer : StartChecks(v)
  <2>1. span' \in Span
    BY <1>5, ReplayAssumption DEF StartChecks, Span
  <2>2. QED
    BY <1>5, <2>1 DEF StartChecks, PlayTypes
<1>6. CASE ak_dvr_replay_pause \/ ak_dvr_replay_resume
  BY <1>6 DEF ak_dvr_replay_pause, ak_dvr_replay_resume, PlayTypes
<1>7. CASE ExitPosts
  BY <1>7 DEF ExitPosts, ExitPost, PlayTypes
<1>8. CASE ExitJoins
  <2>1. <<>> \in Seq(File)
    BY EmptySeq
  <2>2. QED
    BY <1>8, <2>1 DEF ExitJoins, PlayTypes
<1>9. QED
  BY <1>1, <1>2, <1>3, <1>4, <1>5, <1>6, <1>7, <1>8 DEF ReplayNext, CallerStep

(* What the callers do keeps their order ...                               *)
LEMMA CallersKeepOrder ==
  ASSUME Playing, PlayInv, ReplayNext, ~ReplayStep PROVE CallsInOrder'
<1> USE DEF PlayInv, ReplayTypeOK, CallsInOrder, Live, Caller, playVars, replaySync
<1>1. CASE StopFrees \/ StartFrees
  BY <1>1 DEF StopFrees, StartFrees, free_replay_list
<1>2. CASE add_to_replay_tail
  BY <1>2 DEF add_to_replay_tail
<1>3. CASE StartPosts
  BY <1>3 DEF StartPosts
<1>4. CASE \E v \in Viewer : ak_dvr_replay_stop(v)
  BY <1>4 DEF ak_dvr_replay_stop, Playing
<1>5. CASE \E v \in Viewer : StartChecks(v)
  BY <1>5 DEF StartChecks, Playing
<1>6. CASE ak_dvr_replay_pause \/ ak_dvr_replay_resume
  BY <1>6 DEF ak_dvr_replay_pause, ak_dvr_replay_resume
<1>7. CASE ExitPosts
  BY <1>7 DEF ExitPosts, ExitPost
<1>8. CASE ExitJoins
  BY <1>8 DEF ExitJoins
<1>9. QED
  BY <1>1, <1>2, <1>3, <1>4, <1>5, <1>6, <1>7, <1>8 DEF ReplayNext, CallerStep

(* ... the list, which only a start or a stop changes ...                  *)
LEMMA CallersKeepList ==
  ASSUME PlayInv, ReplayNext, ~ReplayStep PROVE ListIsWhole'
<1>1. CASE StopFrees \/ StartFrees
  <2>1. /\ call \in {"free", "refill"} /\ call' # "post" /\ ~file_mutex
        /\ status' = status /\ work_sem' = work_sem /\ rpc' = rpc
    BY <1>1 DEF StopFrees, StartFrees, free_replay_list, ListIsFree, Caller, playVars, replaySync
  <2>2. Live => work_sem = 0 /\ rpc # "lock" /\ rpc # "none"
    BY <2>1 DEF PlayInv, CallsInOrder
  <2>3. Live => rpc = "wait"
    BY <2>1, <2>2 DEF PlayInv, ReplayTypeOK
  <2>4. QED
    BY <2>1, <2>2, <2>3 DEF ListIsWhole, Live
<1>2. CASE add_to_replay_tail
  <2>1. call = "fill" /\ span' = span /\ status' = status
    BY <1>2 DEF add_to_replay_tail
  <2>2. Whole(replay_list', span)
    BY <1>2, FilledIsWhole DEF add_to_replay_tail
  <2>3. ~Live'
    BY <2>1 DEF PlayInv, CallsInOrder, Live
  <2>4. QED
    BY <2>1, <2>2, <2>3 DEF ListIsWhole, Whole
<1>3. CASE StartPosts
  <2>1. /\ call = "post" /\ call' = "out" /\ replay_list' = replay_list
        /\ request'.span = span
    BY <1>3 DEF StartPosts
  <2>2. Whole(replay_list, span)
    BY <2>1 DEF PlayInv, ListIsWhole
  <2>3. QED
    BY <2>1, <2>2 DEF ListIsWhole, Whole
<1>4. CASE \E v \in Viewer : ak_dvr_replay_stop(v)
  BY <1>4 DEF ak_dvr_replay_stop, PlayInv, ListIsWhole, Live, Whole, Caller, playVars
<1>5. CASE \E v \in Viewer : StartChecks(v)
  BY <1>5 DEF StartChecks, PlayInv, ListIsWhole, Live, Whole, Caller, playVars, replaySync
<1>6. CASE ak_dvr_replay_pause \/ ak_dvr_replay_resume
  BY <1>6 DEF ak_dvr_replay_pause, ak_dvr_replay_resume, PlayInv, ListIsWhole, Live, Whole, Caller,
              playVars, replaySync
<1>7. CASE ExitPosts
  BY <1>7 DEF ExitPosts, ExitPost, ListIsWhole, Live, Caller
<1>8. CASE ExitJoins
  <2>1. call' = "ended" /\ status' = status /\ ~Live
    BY <1>8 DEF ExitJoins, Caller, PlayInv, CallsInOrder
  <2>2. QED
    BY <2>1 DEF ListIsWhole, Live
<1>9. QED
  BY <1>1, <1>2, <1>3, <1>4, <1>5, <1>6, <1>7, <1>8 DEF ReplayNext, CallerStep

(* ... and the promise of the walk: a token added promises another one.    *)
LEMMA CallersKeepWalk ==
  ASSUME PlayInv, ReplayNext, ~ReplayStep PROVE LastWalk'
<1>1. CASE StartPosts
  BY <1>1 DEF StartPosts, LastWalk, PlayInv, ReplayTypeOK
<1>2. CASE ExitPosts
  BY <1>2 DEF ExitPosts, ExitPost, LastWalk, Live
<1>3. CASE ~StartPosts /\ ~ExitPosts
  <2>1. /\ UNCHANGED <<request, rpc, entry_nr, second, sent, work_sem>>
        /\ Live' => Live
    BY <1>3 DEF ReplayNext, CallerStep, StopFrees, StartFrees, free_replay_list, add_to_replay_tail,
       ExitJoins, ak_dvr_replay_stop, StartChecks, ak_dvr_replay_pause, ak_dvr_replay_resume,
       Caller, playVars, replaySync, Live
  <2>2. Live /\ (AtEntry \/ rpc = "pick") => replay_list' = replay_list
    <3>1. AtEntry \/ rpc = "pick" => file_mutex
      BY DEF AtEntry, PlayInv, ReplayTypeOK
    <3>2. CASE StopFrees \/ StartFrees
      BY <3>1, <3>2 DEF StopFrees, StartFrees, free_replay_list, ListIsFree
    <3>3. CASE add_to_replay_tail \/ ExitJoins
      BY <3>3 DEF add_to_replay_tail, ExitJoins, PlayInv, CallsInOrder
    <3>4. CASE ~(StopFrees \/ StartFrees \/ add_to_replay_tail \/ ExitJoins)
      BY <1>3, <3>4 DEF ReplayNext, CallerStep, ak_dvr_replay_stop, StartChecks,
         ak_dvr_replay_pause, ak_dvr_replay_resume
    <3>5. QED
      BY <3>2, <3>3, <3>4
  <2>3. SUFFICES ASSUME Live', work_sem' = 0
                 PROVE  \/ rpc' = "lock"
                        \/ rpc' = "wait" /\ SentAll'
                        \/ (AtEntry' \/ rpc' = "pick") /\ SentSoFar'
    BY DEF LastWalk
  <2>4. Live /\ work_sem = 0
    BY <2>1, <2>3
  <2>5. CASE rpc = "lock"
    BY <2>1, <2>5
  <2>6. CASE rpc = "wait" /\ SentAll
    BY <2>1, <2>6 DEF SentAll, SentTill, RecordEnd
  <2>7. CASE (AtEntry \/ rpc = "pick") /\ SentSoFar
    <3>1. replay_list' = replay_list
      BY <2>2, <2>4, <2>7, Zenon
    <3>2. (AtEntry' \/ rpc' = "pick") /\ (AtEntry' => AtEntry)
      BY <2>1, <2>7 DEF AtEntry
    <3>3. SentSoFar'
      BY <2>1, <2>7, <3>1, <3>2, PlaceStays
    <3>4. QED
      BY <3>2, <3>3
  <2>8. QED
    BY <2>4, <2>5, <2>6, <2>7 DEF PlayInv, LastWalk
<1>4. QED
  BY <1>1, <1>2, <1>3

(* Every step keeps the invariant.                                         *)
LEMMA PlayStepInv ==
  ASSUME Playing, PlayInv, [ReplayNext]_replayVars PROVE PlayInv'
<1>1. CASE ReplayStep
  BY <1>1, ThreadKeepsOrder, ThreadTypes, ThreadSends DEF PlayInv
<1>2. CASE ReplayNext /\ ~ReplayStep
  BY <1>2, CallersKeepTypes, CallersKeepOrder, CallersKeepList, CallersKeepWalk DEF PlayInv
<1>3. CASE UNCHANGED replayVars
  <2>1. UNCHANGED <<replay_run, file_mutex, work_sem, replay_sem, status, request, replay_list,
                    rpc, entry_nr, second, sent, call, span>>
    BY <1>3 DEF replayVars, replaySync, playVars, viewerVars
  <2>2. ReplayTypeOK' /\ PlayTypes' /\ CallsInOrder'
    BY <2>1 DEF PlayInv, ReplayTypeOK, PlayTypes, CallsInOrder, Live
  <2>3. ListIsWhole'
    BY <2>1 DEF PlayInv, ListIsWhole, Live, Whole
  <2>4. LastWalk'
    BY <2>1 DEF PlayInv, LastWalk, Live, AtEntry, SentAll, SentSoFar, SentTill, RecordEnd
  <2>5. QED
    BY <2>2, <2>3, <2>4 DEF PlayInv
<1>4. QED
  BY <1>1, <1>2, <1>3

(* For any viewers, files, spans and number of calls, files that cannot be *)
(* opened included: a replay that has come to its end is sent whole, as    *)
(* long as nobody starts or exits while it is paused and no other viewer's *)
(* stop comes before the thread has the list (ak_dvr_replay.c:345-387).    *)
THEOREM PlayedWholeAlways ==
  ASSUME Playing
  PROVE  ReplayInit /\ [][ReplayNext]_replayVars => []PlayedWhole
<1>1. PlayInv /\ [ReplayNext]_replayVars => PlayInv'
  BY PlayStepInv
<1>2. PlayInv => PlayedWhole
  <2> SUFFICES ASSUME PlayInv, Idle, status = "working", NEW i \in DOMAIN Recorded,
                      NEW t \in Recorded[i].from..RecordEnd(Recorded[i]) - 1,
                      t \in request.span.from..request.span.to - 1
               PROVE  t \in sent
    BY DEF PlayedWhole
  <2>1. Live /\ work_sem = 0 /\ rpc = "wait" /\ ~AtEntry
    BY DEF Idle, Live, AtEntry
  <2>2. SentTill(Recorded[i], RecordEnd(Recorded[i]))
    BY <2>1 DEF PlayInv, LastWalk, SentAll
  <2>3. Recorded[i].from \in Nat /\ RecordEnd(Recorded[i]) \in Nat
    <3>1. Recorded \in Seq(File)
      BY ReplayAssumption, Zenon DEF File
    <3>2. Recorded[i] \in File
      BY <3>1
    <3>3. QED
      BY <3>2 DEF File, RecordEnd
  <2>4. QED
    BY <2>2, <2>3 DEF SentTill
<1>3. QED
  BY <1>1, <1>2, PlayInit, PTL

-----------------------------------------------------------------------------
(* Pan and tilt, libplat/src/drv/ak_drv_ptz.c.                             *)


(* A quotient of natural numbers, rounded down.                            *)
LEMMA Divides ==
  ASSUME NEW a \in Nat, NEW b \in Nat \ {0}
  PROVE  a \div b \in Nat /\ (a \div b) * b <= a /\ a < (a \div b) * b + b
<1>1. a = b * (a \div b) + (a % b) /\ a \div b \in Int /\ a % b \in 0..b - 1
  BY SMT
<1>2. b * (a \div b) = (a \div b) * b
  BY <1>1, SMT
<1>3. a \div b >= 0
  BY <1>1, SMT
<1>4. QED
  BY <1>1, <1>2, <1>3

(* A positive factor is cancelled.                                         *)
LEMMA FactorCancels ==
  ASSUME NEW a \in Int, NEW b \in Int, NEW c \in Nat \ {0}, a * c < b * c
  PROVE  a < b
<1>1. CASE a >= b
  <2>1. PICK k \in Nat : a = b + k
    <3>1. a - b \in Nat /\ a = b + (a - b)
      BY <1>1
    <3>2. QED
      BY <3>1
  <2>2. a * c = b * c + k * c
    BY <2>1, SMT
  <2>3. k * c >= 0
    BY <2>1, SMT
  <2>4. b * c \in Int /\ k * c \in Int
    BY <2>1
  <2>5. QED
    BY <2>2, <2>3, <2>4
<1>2. QED
  BY <1>1

(* Steps that are counted in whole degrees and back lose less than a       *)
(* degree.                                                                 *)
LEMMA StepsBack ==
  ASSUME NEW s \in Nat
  PROVE  LET w == degree2step(step2degree(s))
         IN step2degree(s) \in Nat /\ w \in 0..s /\ (s - w - 1) * Degree < Cycle
<1> DEFINE q == step2degree(s)
           w == degree2step(q)
<1>0. Degree \in Nat \ {0} /\ Cycle \in Nat \ {0} /\ s * Degree \in Nat
  BY DegreeAssumption, StepsAssumption
<1>1. q \in Nat /\ q * Cycle <= s * Degree /\ s * Degree < q * Cycle + Cycle
  BY <1>0, Divides DEF step2degree
<1> HIDE DEF q
<1>2. Cycle * q \in Nat /\ Cycle * q = q * Cycle
  BY <1>0, <1>1
<1>3. w \in Nat /\ w * Degree <= Cycle * q /\ Cycle * q < w * Degree + Degree
  BY <1>0, <1>2, Divides DEF degree2step
<1> HIDE DEF w
<1>4. w * Degree \in Nat /\ (w - s) * Degree = w * Degree - s * Degree /\ (s - w - 1) * Degree = s * Degree - w * Degree - Degree
  BY <1>0, <1>3
<1>5. (s - w - 1) * Degree < Cycle
  BY <1>0, <1>1, <1>2, <1>3, <1>4
<1>6. ~(s < w)
  <2>1. SUFFICES ASSUME s < w PROVE FALSE
    OBVIOUS
  <2>2. w - s \in Nat \ {0} /\ (w - s) * Degree > 0
    BY <2>1, <1>0, <1>3
  <2>3. QED
    BY <2>2, <1>0, <1>1, <1>2, <1>3, <1>4
<1>7. QED
  BY <1>1, <1>3, <1>5, <1>6 DEF q, w

(* A turn by at most a circle fits the range and a circle.                 *)
LEMMA TurnFits ==
  ASSUME NEW d \in 0..Degree
  PROVE  degree2step(d) \in 0..Cycle
<1>0. Degree \in Nat \ {0} /\ Cycle \in Nat \ {0} /\ d \in Nat /\ Cycle * d \in Nat
  BY DegreeAssumption, StepsAssumption
<1> DEFINE w == degree2step(d)
<1>1. w \in Nat /\ w * Degree <= Cycle * d
  BY <1>0, Divides DEF degree2step
<1> HIDE DEF w
<1>2. Cycle * d <= Cycle * Degree /\ (Cycle + 1) * Degree = Cycle * Degree + Degree /\ Cycle * Degree \in Nat /\ w * Degree \in Nat
  BY <1>0, <1>1
<1>3. w < Cycle + 1
  <2>1. w * Degree < (Cycle + 1) * Degree
    BY <1>0, <1>1, <1>2
  <2>2. QED
    BY <1>0, <1>1, <2>1, FactorCancels
<1>4. QED
  BY <1>0, <1>1, <1>3 DEF w

(* The steps a motor may be told to turn at once.                          *)
Steps == -(Full + Cycle)..Full + Cycle

(* The caller, ...                                                         *)
CallTypes ==
  /\ caller \in {"closed", "opened", "check", "idle", "turnH", "turnV", "posH", "posV", "poll",
                 "joinH", "closeV", "joinV"}
  /\ calibrated \in BOOLEAN
  /\ run_flag_ptz \in [Motor -> BOOLEAN]
  /\ commands \in 0..MaxCommand

(* ... the motors' threads and what the self check has yet to turn, ...    *)
MotorThreads ==
  /\ mt_status \in [Motor -> {"wait_init", "init_ok", "sys_wait"}]
  /\ mpc \in [Motor -> {"none", "check", "wait", "taken", "busy", "run"}]
  /\ script \in [Motor -> Seq(-Full..Full)]

(* (degrees that a command turns by)                                       *)
Degrees == {d \in Nat : degree2step(d) \in 0..Full + Cycle}

(* ... the commands ...                                                    *)
CmdTypes ==
  /\ ctrl_sem \in [Motor -> Nat]
  /\ clkwise \in [Motor -> BOOLEAN]
  /\ dg \in [Motor -> Degrees]
  /\ aim \in [Motor -> {NoAim} \cup 0..Full - 1]

(* ... and the motors have their kinds.                                    *)
DriveTypes ==
  /\ pos \in [Motor -> 0..Full - 1]
  /\ left \in [Motor -> Steps]
  /\ event \in [Motor -> {"", "hit", "stop", "refused"}]

(* Every variable has its kind.                                            *)
PtzTypes == CallTypes /\ MotorThreads /\ CmdTypes /\ DriveTypes

(* The threads are to run.                                                 *)
AtWorkPtz == {"check", "idle", "turnH", "turnV", "posH", "posV", "poll"}

(* A caller that is about to post to the motor.                            *)
ToPost(m) == caller = AtTurn(m) \/ caller = "posH" \/ caller = AtPos(m)

(* A token for each command at most and one of the close; the threads run  *)
(* until then.                                                             *)
PostsFit == \A m \in Motor :
  /\ ctrl_sem[m] + (IF ToPost(m) THEN 1 ELSE 0) <= commands + (IF run_flag_ptz[m] THEN 0 ELSE 1)
  /\ caller \in AtWorkPtz => run_flag_ptz[m]
  /\ caller \in {"joinH", "closeV"} /\ m = "V" => run_flag_ptz[m]

(* The motor turns, or has an event to report, only for a thread that      *)
(* waits for it, and that says it is busy.                                 *)
TurnsForSomeone == \A m \in Motor :
  /\ left[m] # 0 \/ event[m] # "" => mpc[m] \in {"check", "run"}
  /\ mpc[m] \in {"check", "busy", "run"} => mt_status[m] = "sys_wait"
  /\ event[m] # "" => left[m] = 0

(* The self check waits for a turn that it has told the motor.             *)
SelfChecks == \A m \in Motor : mpc[m] = "check" => caller = "check" /\ script[m] # <<>>

(* What holds also when a caller gives its command late.                   *)
StandInv == PtzTypes /\ SelfChecks /\ PostsFit /\ TurnsForSomeone

(* A caller that is to give a command has found the motor done with the    *)
(* last.                                                                   *)
OneAtATime == \A m \in Motor :
  /\ caller \in {"idle", "turnH", "turnV", "posH"} => ~Pending(m)
  /\ caller = "posV" /\ m = "V" => ~Pending(m)
  /\ caller \in {"joinH", "closeV"} /\ m = "V" => ~Pending(m)
  /\ ctrl_sem[m] <= 1
  /\ ctrl_sem[m] = 1 \/ ~run_flag_ptz[m] => mpc[m] \notin {"taken", "busy", "run"}
  /\ caller \in {"closed", "opened", "check"} => aim[m] = NoAim
  /\ caller = "check" => ctrl_sem[m] = 0
  /\ caller \in {"closeV", "joinV"} /\ m = "H" => aim[m] = NoAim

(* The steps of its command that a motor has yet to turn.                  *)
Rest(m) == IF mpc[m] = "run" THEN left[m] ELSE Way(m)

(* A place less than a degree from the aim.                                *)
Near(m, p) == (Away(aim[m] - p) - 1) * Degree < Cycle

(* The thread has, or will have, a command to obey.                        *)
Obeying(m) == Pending(m) /\ run_flag_ptz[m]

(* A motor with an aim will come to it, or has come to it.                 *)
OnWay(m) == aim[m] # NoAim =>
  IF Obeying(m) THEN Near(m, Clamp(pos[m] + Rest(m))) ELSE Near(m, pos[m])

(* Each of the motors does.                                                *)
OnItsWay == \A m \in Motor : OnWay(m)

(* What holds when no caller gives its command late.                       *)
PtzInv == StandInv /\ OneAtATime /\ OnItsWay

(* The motors, and numbers of the constants.                               *)
LEMMA MotorIs == Motor = {"H", "V"} /\ NoAim = -1 /\ Full \in Nat \ {0} /\ Cycle \in Nat \ {0} /\ Degree \in Nat \ {0}
BY DegreeAssumption, StepsAssumption DEF Motor, NoAim

(* A place clamped is in the range, and one in the range stays.            *)
LEMMA Clamped == \A s \in Int : /\ Clamp(s) \in 0..Full - 1
                                /\ s \in 0..Full - 1 => Clamp(s) = s
BY MotorIs DEF Clamp

(* The steps a motor is told, and turns by one.                            *)
LEMMA StepsAre ==
  /\ 0 \in Steps /\ Steps \subseteq Int /\ \A n \in -Full..Full : n \in Steps
  /\ \A n \in Steps : n # 0 => (IF n > 0 THEN n - 1 ELSE n + 1) \in Steps
  /\ \A d \in Degrees : degree2step(d) \in Nat /\ degree2step(d) \in Steps /\ -degree2step(d) \in Steps
BY MotorIs DEF Steps, Degrees

(* Places in the range and the ways between them.                          *)
LEMMA PlacesAre ==
  /\ Full \div 2 \in 0..Full - 1
  /\ \A p, q \in 0..Full - 1 : Away(p - q) \in 0..Full
  /\ \A p \in 0..Full - 1 : p \in Int /\ p + 1 \in Int /\ p - 1 \in Int
BY MotorIs DEF Away

(* The turns of the self check lie within the range.                       *)
LEMMA Checks == \A pin \in BOOLEAN : SelfCheck(pin) \in Seq(-Full..Full)
<1> SUFFICES ASSUME NEW pin \in BOOLEAN PROVE SelfCheck(pin) \in Seq(-Full..Full)
  OBVIOUS
<1> DEFINE w == degree2step(step2degree(Full \div 2))
           S == -Full..Full
<1>1. Full \div 2 \in Nat /\ Full \div 2 <= Full
  BY MotorIs
<1>2. w \in S /\ Far \in S /\ -Far \in S
  BY <1>1, StepsBack, MotorIs DEF Far
<1> HIDE DEF w, S
<1>3. SelfCheck(pin) \in Seq(S)
  <2>1. <<-Far, w>> \in Seq(S) /\ <<Far>> \in Seq(S) /\ <<Far>> \o <<-Far, w>> \in Seq(S) /\ <<>> \o <<-Far, w>> \in Seq(S)
    BY <1>2, EmptySeq, ConcatProperties
  <2>2. QED
    BY <2>1 DEF SelfCheck, w
<1>4. QED
  BY <1>3 DEF S

(* The first state has the invariant.                                      *)
LEMMA PtzInitInv == PtzInit => PtzInv
<1> SUFFICES ASSUME PtzInit PROVE PtzInv
  OBVIOUS
<1>1. PtzTypes
  <2>1. NoSelfCheck \in Seq(-Full..Full)
    BY EmptySeq DEF NoSelfCheck
  <2>2. MotorThreads
    BY <2>1 DEF PtzInit, MotorThreads
  <2>3. 0 \in Degrees /\ 0 \in Steps /\ 0 \in 0..Full - 1 /\ 0 \in 0..MaxCommand
    BY TurnFits, MotorIs, TurnAssumption DEF Degrees, Steps
  <2>4. CmdTypes
    BY <2>3 DEF PtzInit, CmdTypes
  <2>5. CallTypes
    BY <2>3 DEF PtzInit, CallTypes
  <2>6. DriveTypes
    BY <2>3 DEF PtzInit, DriveTypes
  <2>7. QED
    BY <2>2, <2>4, <2>5, <2>6 DEF PtzTypes
<1>2. PostsFit
  <2>1. caller = "closed" /\ commands = 0 /\ \A m \in Motor : ctrl_sem[m] = 0 /\ ~run_flag_ptz[m]
    BY DEF PtzInit
  <2>2. \A m \in Motor : ~ToPost(m)
    BY <2>1 DEF ToPost, AtTurn, AtPos
  <2>3. QED
    BY <2>1, <2>2 DEF PostsFit, AtWorkPtz
<1>7. SelfChecks
  BY DEF PtzInit, SelfChecks
<1>5. TurnsForSomeone
  BY DEF PtzInit, TurnsForSomeone
<1>3. OneAtATime
  <2>1. caller = "closed" /\ \A m \in Motor : ctrl_sem[m] = 0 /\ mpc[m] = "none" /\ aim[m] = NoAim
    BY DEF PtzInit
  <2>2. QED
    BY <2>1 DEF OneAtATime, AtWorkPtz
<1>6. OnItsWay
  BY DEF PtzInit, OnItsWay, OnWay
<1>4. QED
  BY <1>1, <1>2, <1>3, <1>5, <1>6, <1>7 DEF PtzInv, StandInv

(* Every step keeps the kinds: of the caller, ...                          *)
LEMMA CallTypesKept ==
  ASSUME StandInv, PtzNext PROVE CallTypes'
<1> USE TurnAssumption DEF StandInv, PtzTypes, CallTypes, callVars
<1>0. \A m \in Motor : AtTurn(m) \in {"turnH", "turnV"} /\ AtPos(m) \in {"posH", "posV"} /\ AtJoin(m) \in {"joinH", "joinV"}
  BY DEF AtTurn, AtPos, AtJoin
<1>1. CASE ak_drv_ptz_open
  BY <1>1 DEF ak_drv_ptz_open
<1>2. ASSUME NEW pin \in BOOLEAN, ak_drv_ptz_check_self(pin) PROVE CallTypes'
  BY <1>2 DEF ak_drv_ptz_check_self
<1>3. CASE CheckStep
  BY <1>3 DEF CheckStep, CheckEnds, CheckTurns, CheckWaits
<1>6. CASE Polled
  BY <1>6 DEF Polled
<1>7. ASSUME NEW m \in Motor, NEW d \in TurnBy, TurnPosts(m, d) \/ PosPosts(m, d) PROVE CallTypes'
  BY <1>7 DEF TurnPosts, PosPosts
<1>9. ASSUME NEW m \in Motor, CloseJoins(m) PROVE CallTypes'
  BY <1>9 DEF CloseJoins
<1>10. ASSUME NEW m \in Motor, CloseStops(m) PROVE CallTypes'
  BY <1>0, <1>10 DEF CloseStops
<1>11. CASE PosLooks
  BY <1>11 DEF PosLooks
<1>12. ASSUME NEW m \in Motor, NEW cw \in BOOLEAN, TurnDirects(m, cw) PROVE CallTypes'
  BY <1>0, <1>12 DEF TurnDirects
<1>13. ASSUME NEW m \in Motor, ak_drv_ptz_turn_stop(m) \/ DriverMoves(m) \/ ThreadStep(m) PROVE CallTypes'
  BY <1>13 DEF ak_drv_ptz_turn_stop, DriverMoves, ThreadStep, ThreadTakes, ThreadBusy, ThreadTurns, ThreadTurnFails, ThreadWaits
<1>15. "H" \in Motor /\ "V" \in Motor
  BY DEF Motor
<1>20. QED
  BY <1>1, <1>2, <1>3, <1>6, <1>7, <1>9, <1>10, <1>11, <1>12, <1>13, <1>15 DEF PtzNext, CallStep

(* ... of the threads, ...                                                 *)
LEMMA ThreadTypesKept ==
  ASSUME StandInv, PtzNext PROVE MotorThreads'
<1> USE DEF StandInv, PtzTypes, MotorThreads, threadVars
<1>2. ASSUME NEW pin \in BOOLEAN, ak_drv_ptz_check_self(pin) PROVE MotorThreads'
  BY <1>2, Checks, EmptySeq DEF ak_drv_ptz_check_self, NoSelfCheck
<1>3. ASSUME NEW m \in Motor, CheckTurns(m) PROVE MotorThreads'
  BY <1>3 DEF CheckTurns
<1>4. ASSUME NEW m \in Motor, CheckWaits(m) PROVE MotorThreads'
  <2>1. Tail(script[m]) \in Seq(-Full..Full)
    BY <1>4, HeadTailProperties DEF CheckWaits, SelfChecks
  <2>2. QED
    BY <1>4, <2>1 DEF CheckWaits
<1>5. CASE CheckEnds
  BY <1>5 DEF CheckEnds
<1>6. CASE ak_drv_ptz_open \/ Polled \/ PosLooks \/ CloseStops("V") \/ CloseStops("H")
  BY <1>6 DEF ak_drv_ptz_open, Polled, PosLooks, CloseStops
<1>7. ASSUME NEW m \in Motor, NEW d \in TurnBy, TurnPosts(m, d) \/ PosPosts(m, d) PROVE MotorThreads'
  BY <1>7 DEF TurnPosts, PosPosts
<1>8. ASSUME NEW m \in Motor, NEW cw \in BOOLEAN, TurnDirects(m, cw) \/ ak_drv_ptz_turn_stop(m) \/ DriverMoves(m) \/ CloseJoins(m)
      PROVE MotorThreads'
  BY <1>8 DEF TurnDirects, ak_drv_ptz_turn_stop, DriverMoves, CloseJoins
<1>9. ASSUME NEW m \in Motor, ThreadTakes(m) \/ ThreadBusy(m) \/ ThreadTurns(m) PROVE MotorThreads'
  BY <1>9 DEF ThreadTakes, ThreadBusy, ThreadTurns, SaysBusy
<1>10. ASSUME NEW m \in Motor, ThreadTurnFails(m) \/ ThreadWaits(m) PROVE MotorThreads'
  BY <1>10 DEF ThreadTurnFails, ThreadWaits, SaysIdle, BackToWait
<1>20. QED
  BY <1>2, <1>3, <1>4, <1>5, <1>6, <1>7, <1>8, <1>9, <1>10 DEF PtzNext, CheckStep, CallStep, ThreadStep

(* ... of the commands ...                                                 *)
LEMMA CmdTypesKept ==
  ASSUME StandInv, PtzNext PROVE CmdTypes'
<1> USE DEF StandInv, PtzTypes, CmdTypes, cmdVars
<1>2. ASSUME NEW pin \in BOOLEAN, ak_drv_ptz_check_self(pin) PROVE CmdTypes'
  BY <1>2 DEF ak_drv_ptz_check_self
<1>3. CASE CheckStep \/ ak_drv_ptz_open \/ Polled \/ PosLooks
  BY <1>3 DEF CheckStep, CheckTurns, CheckWaits, CheckEnds, ak_drv_ptz_open, Polled, PosLooks
<1>5. ASSUME NEW m \in Motor, CloseStops(m) PROVE CmdTypes'
  BY <1>5 DEF CloseStops, WakesThread
<1>6. ASSUME NEW m \in Motor, NEW d \in TurnBy, TurnPosts(m, d) PROVE CmdTypes'
  <2>1. d \in Degrees
    BY TurnFits, TurnAssumption, MotorIs DEF Degrees
  <2>2. pos[m] + (IF clkwise[m] THEN 1 ELSE -1) * degree2step(d) \in Int
    <3>1. degree2step(d) \in Int /\ pos[m] \in Int
      BY <2>1, StepsAre, PlacesAre DEF DriveTypes
    <3>2. QED
      BY <3>1
  <2>3. Clamp(pos[m] + (IF clkwise[m] THEN 1 ELSE -1) * degree2step(d)) \in 0..Full - 1
    BY <2>2, Clamped
  <2>4. QED
    BY <1>6, <2>1, <2>3 DEF TurnPosts
<1>7. ASSUME NEW m \in Motor, NEW d \in TurnBy, PosPosts(m, d) PROVE CmdTypes'
  <2>1. SetStep(d) \in 0..Full - 1
    BY TurnFits, TurnAssumption, MotorIs, Clamped DEF SetStep
  <2>2. Away(SetStep(d) - pos[m]) \in 0..Full
    BY <2>1, PlacesAre DEF DriveTypes
  <2>3. step2degree(Away(SetStep(d) - pos[m])) \in Degrees
    BY <2>2, StepsBack, MotorIs DEF Degrees
  <2> DEFINE e == step2degree(Away(SetStep(d) - pos[m]))
             w == SetStep(d) - pos[m] > 0 /\ step2degree(SetStep(d) - pos[m]) > 0
  <2>4. w \in BOOLEAN
    OBVIOUS
  <2>5. \/ UNCHANGED cmdVars
        \/ /\ clkwise' = [clkwise EXCEPT ![m] = w] /\ dg' = [dg EXCEPT ![m] = e]
           /\ ctrl_sem' = [ctrl_sem EXCEPT ![m] = @ + 1]
           /\ aim' = [aim EXCEPT ![m] = SetStep(d)]
    BY <1>7 DEF PosPosts, check_dg
  <2>6. e \in Degrees
    BY <2>3
  <2> HIDE DEF e, w
  <2>7. QED
    BY <2>1, <2>4, <2>5, <2>6
<1>8. ASSUME NEW m \in Motor, NEW cw \in BOOLEAN, TurnDirects(m, cw) PROVE CmdTypes'
  BY <1>8 DEF TurnDirects
<1>9. ASSUME NEW m \in Motor, ak_drv_ptz_turn_stop(m) \/ CloseJoins(m) \/ ThreadTurnFails(m) PROVE CmdTypes'
  BY <1>9 DEF ak_drv_ptz_turn_stop, CloseJoins, ThreadTurnFails
<1>10. ASSUME NEW m \in Motor, DriverMoves(m) \/ ThreadBusy(m) \/ ThreadTurns(m) \/ ThreadWaits(m) PROVE CmdTypes'
  BY <1>10 DEF DriverMoves, ThreadBusy, ThreadTurns, ThreadWaits
<1>11. ASSUME NEW m \in Motor, ThreadTakes(m) PROVE CmdTypes'
  BY <1>11 DEF ThreadTakes
<1>15. "H" \in Motor /\ "V" \in Motor
  BY DEF Motor
<1>20. QED
  BY <1>2, <1>3, <1>5, <1>6, <1>7, <1>8, <1>9, <1>10, <1>11, <1>15 DEF PtzNext, CallStep, ThreadStep

(* ... and of the motors.                                                  *)
LEMMA DriveTypesKept ==
  ASSUME StandInv, PtzNext PROVE DriveTypes'
<1> USE DEF StandInv, PtzTypes, DriveTypes, driveVars
<1>1. CASE ak_drv_ptz_open
  BY <1>1, PlacesAre DEF ak_drv_ptz_open
<1>2. ASSUME NEW pin \in BOOLEAN, ak_drv_ptz_check_self(pin) PROVE DriveTypes'
  BY <1>2 DEF ak_drv_ptz_check_self
<1>3. ASSUME NEW m \in Motor, CheckTurns(m) PROVE DriveTypes'
  <2>1. Head(script[m]) \in -Full..Full
    BY <1>3, HeadTailProperties DEF CheckTurns, MotorThreads
  <2>2. Head(script[m]) \in Steps
    BY <2>1, StepsAre
  <2>3. QED
    BY <1>3, <2>2 DEF CheckTurns, Drive
<1>4. CASE CheckEnds \/ Polled \/ PosLooks \/ CloseStops("V") \/ CloseStops("H")
  BY <1>4 DEF CheckEnds, Polled, PosLooks, CloseStops
<1>5. ASSUME NEW m \in Motor, CheckWaits(m) \/ ThreadWaits(m) PROVE DriveTypes'
  BY <1>5 DEF CheckWaits, ThreadWaits
<1>6. ASSUME NEW m \in Motor, NEW d \in TurnBy, TurnPosts(m, d) \/ PosPosts(m, d) PROVE DriveTypes'
  BY <1>6 DEF TurnPosts, PosPosts
<1>7. ASSUME NEW m \in Motor, NEW cw \in BOOLEAN, TurnDirects(m, cw) \/ CloseJoins(m) \/ ThreadTakes(m) \/ ThreadBusy(m)
                                                   \/ ThreadTurnFails(m)
      PROVE DriveTypes'
  BY <1>7 DEF TurnDirects, CloseJoins, ThreadTakes, ThreadBusy, ThreadTurnFails
<1>8. ASSUME NEW m \in Motor, ak_drv_ptz_turn_stop(m) PROVE DriveTypes'
  BY <1>8, StepsAre DEF ak_drv_ptz_turn_stop
<1>9. ASSUME NEW m \in Motor, DriverMoves(m) PROVE DriveTypes'
  <2> DEFINE to == IF left[m] > 0 THEN pos[m] + 1 ELSE pos[m] - 1
             rest == IF left[m] > 0 THEN left[m] - 1 ELSE left[m] + 1
  <2>1. to \in Int /\ rest \in Steps /\ 0 \in Steps
    <3>1. left[m] \in Steps /\ left[m] # 0
      BY <1>9 DEF DriverMoves
    <3>2. rest \in Steps /\ 0 \in Steps
      BY <3>1, StepsAre
    <3>3. to \in Int
      BY PlacesAre
    <3>4. QED
      BY <3>2, <3>3
  <2>2. to = Clamp(to) => to \in 0..Full - 1
    BY <2>1, Clamped
  <2> HIDE DEF to, rest
  <2>3. \/ to = Clamp(to) /\ pos' = [pos EXCEPT ![m] = to] /\ left' = [left EXCEPT ![m] = rest]
             /\ event' = [event EXCEPT ![m] = IF rest = 0 THEN "stop" ELSE ""]
        \/ pos' = pos /\ left' = [left EXCEPT ![m] = 0] /\ event' = [event EXCEPT ![m] = "hit"]
    BY <1>9 DEF DriverMoves, to, rest
  <2>4. QED
    BY <2>1, <2>2, <2>3
<1>10. ASSUME NEW m \in Motor, ThreadTurns(m) PROVE DriveTypes'
  <2>1. dg[m] \in Degrees
    BY DEF CmdTypes
  <2>2. Way(m) \in Steps
    BY <2>1, StepsAre DEF Way
  <2>3. QED
    BY <1>10, <2>2 DEF ThreadTurns, Drive
<1>20. QED
  BY <1>1, <1>2, <1>3, <1>4, <1>5, <1>6, <1>7, <1>8, <1>9, <1>10 DEF PtzNext, CheckStep, CallStep, ThreadStep

(* The self check waits only for what it has told a motor.                 *)
LEMMA SelfChecksKept ==
  ASSUME StandInv, PtzNext PROVE SelfChecks'
<1> USE DEF StandInv, PtzTypes, SelfChecks, callVars, threadVars
<1>1. CASE ak_drv_ptz_open \/ Polled \/ PosLooks \/ CloseStops("V") \/ CloseStops("H")
  BY <1>1 DEF ak_drv_ptz_open, Polled, PosLooks, CloseStops
<1>2. ASSUME NEW pin \in BOOLEAN, ak_drv_ptz_check_self(pin) PROVE SelfChecks'
  BY <1>2 DEF ak_drv_ptz_check_self
<1>3. ASSUME NEW m \in Motor, CheckTurns(m) \/ CheckWaits(m) PROVE SelfChecks'
  BY <1>3 DEF CheckTurns, CheckWaits, MotorThreads
<1>4. CASE CheckEnds
  BY <1>4 DEF CheckEnds
<1>5. ASSUME NEW m \in Motor, NEW d \in TurnBy, TurnPosts(m, d) \/ PosPosts(m, d) PROVE SelfChecks'
  BY <1>5 DEF TurnPosts, PosPosts, AtTurn, AtPos
<1>6. ASSUME NEW m \in Motor, NEW cw \in BOOLEAN, TurnDirects(m, cw) \/ ak_drv_ptz_turn_stop(m) \/ DriverMoves(m) \/ CloseJoins(m)
      PROVE SelfChecks'
  BY <1>6 DEF TurnDirects, ak_drv_ptz_turn_stop, DriverMoves, CloseJoins, AtJoin
<1>7. ASSUME NEW m \in Motor, ThreadTakes(m) \/ ThreadBusy(m) \/ ThreadTurns(m) PROVE SelfChecks'
  BY <1>7 DEF ThreadTakes, ThreadBusy, ThreadTurns, MotorThreads
<1>8. ASSUME NEW m \in Motor, ThreadTurnFails(m) \/ ThreadWaits(m) PROVE SelfChecks'
  BY <1>8 DEF ThreadTurnFails, ThreadWaits, BackToWait, MotorThreads
<1>9. QED
  BY <1>1, <1>2, <1>3, <1>4, <1>5, <1>6, <1>7, <1>8 DEF PtzNext, CheckStep, CallStep, ThreadStep

(* No post without a command.                                              *)
LEMMA PostsFitKept ==
  ASSUME StandInv, PtzNext PROVE PostsFit'
<1> USE DEF StandInv, PtzTypes, PostsFit, AtWorkPtz, CallTypes, CmdTypes, callVars, ToPost, AtTurn, AtPos, AtJoin, Motor
<1>1. CASE ak_drv_ptz_open \/ Polled \/ PosLooks
  BY <1>1 DEF ak_drv_ptz_open, Polled, PosLooks, cmdVars
<1>2. ASSUME NEW pin \in BOOLEAN, ak_drv_ptz_check_self(pin) PROVE PostsFit'
  BY <1>2 DEF ak_drv_ptz_check_self
<1>3. ASSUME NEW m \in Motor, CheckTurns(m) \/ CheckWaits(m) PROVE PostsFit'
  BY <1>3 DEF CheckTurns, CheckWaits, cmdVars
<1>4. CASE CheckEnds
  BY <1>4 DEF CheckEnds, cmdVars
<1>5. ASSUME NEW m \in Motor, NEW d \in TurnBy, TurnPosts(m, d) PROVE PostsFit'
  BY <1>5 DEF TurnPosts
<1>6. ASSUME NEW m \in Motor, NEW d \in TurnBy, PosPosts(m, d) PROVE PostsFit'
  <2>1. \/ ctrl_sem' = ctrl_sem
        \/ ctrl_sem' = [ctrl_sem EXCEPT ![m] = @ + 1]
    BY <1>6 DEF PosPosts, check_dg, cmdVars
  <2>2. caller = AtPos(m) /\ caller' = (IF m = "H" THEN "posV" ELSE "poll") /\ UNCHANGED <<run_flag_ptz, commands>>
    BY <1>6 DEF PosPosts
  <2>3. QED
    BY <2>1, <2>2
<1>7. ASSUME NEW m \in Motor, NEW cw \in BOOLEAN, TurnDirects(m, cw) PROVE PostsFit'
  BY <1>7 DEF TurnDirects
<1>8. ASSUME NEW m \in Motor, ak_drv_ptz_turn_stop(m) \/ DriverMoves(m) \/ CloseJoins(m) PROVE PostsFit'
  BY <1>8 DEF ak_drv_ptz_turn_stop, DriverMoves, CloseJoins, cmdVars
<1>9. ASSUME NEW m \in Motor, CloseStops(m) PROVE PostsFit'
  BY <1>9 DEF CloseStops, WakesThread
<1>10. ASSUME NEW m \in Motor, ThreadTakes(m) PROVE PostsFit'
  BY <1>10 DEF ThreadTakes
<1>11. ASSUME NEW m \in Motor, ThreadBusy(m) \/ ThreadTurns(m) \/ ThreadTurnFails(m) \/ ThreadWaits(m) PROVE PostsFit'
  BY <1>11 DEF ThreadBusy, ThreadTurns, ThreadTurnFails, ThreadWaits, cmdVars
<1>12. QED
  BY <1>1, <1>2, <1>3, <1>4, <1>5, <1>6, <1>7, <1>8, <1>9, <1>10, <1>11 DEF PtzNext, CheckStep, CallStep, ThreadStep

(* A motor that turns has a thread that waits for it.                      *)
LEMMA TurnsKept ==
  ASSUME StandInv, PtzNext PROVE TurnsForSomeone'
<1> USE DEF StandInv, PtzTypes, TurnsForSomeone, MotorThreads, DriveTypes, threadVars, driveVars
<1>1. CASE ak_drv_ptz_open \/ Polled \/ PosLooks \/ CloseStops("V") \/ CloseStops("H")
  <2>1. UNCHANGED <<mt_status, mpc, left, event>>
    BY <1>1 DEF ak_drv_ptz_open, Polled, PosLooks, CloseStops
  <2>2. QED
    BY <2>1
<1>2. ASSUME NEW pin \in BOOLEAN, ak_drv_ptz_check_self(pin) PROVE TurnsForSomeone'
  BY <1>2 DEF ak_drv_ptz_check_self
<1>3. ASSUME NEW m \in Motor, CheckTurns(m) PROVE TurnsForSomeone'
  BY <1>3 DEF CheckTurns, Drive
<1>4. ASSUME NEW m \in Motor, CheckWaits(m) \/ ThreadWaits(m) PROVE TurnsForSomeone'
  BY <1>4 DEF CheckWaits, ThreadWaits, SaysIdle, BackToWait
<1>5. CASE CheckEnds
  BY <1>5 DEF CheckEnds
<1>6. ASSUME NEW m \in Motor, NEW d \in TurnBy, TurnPosts(m, d) \/ PosPosts(m, d) PROVE TurnsForSomeone'
  <2>1. UNCHANGED <<mt_status, mpc, left, event>>
    BY <1>6 DEF TurnPosts, PosPosts
  <2>2. QED
    BY <2>1
<1>7. ASSUME NEW m \in Motor, NEW cw \in BOOLEAN, TurnDirects(m, cw) \/ CloseJoins(m) PROVE TurnsForSomeone'
  BY <1>7 DEF TurnDirects, CloseJoins
<1>8. ASSUME NEW m \in Motor, ak_drv_ptz_turn_stop(m) PROVE TurnsForSomeone'
  BY <1>8 DEF ak_drv_ptz_turn_stop
<1>9. ASSUME NEW m \in Motor, DriverMoves(m) PROVE TurnsForSomeone'
  BY <1>9 DEF DriverMoves
<1>10. ASSUME NEW m \in Motor, ThreadTakes(m) \/ ThreadBusy(m) PROVE TurnsForSomeone'
  BY <1>10 DEF ThreadTakes, ThreadBusy, SaysBusy
<1>11. ASSUME NEW m \in Motor, ThreadTurns(m) PROVE TurnsForSomeone'
  BY <1>11 DEF ThreadTurns, Drive
<1>12. ASSUME NEW m \in Motor, ThreadTurnFails(m) PROVE TurnsForSomeone'
  BY <1>12 DEF ThreadTurnFails, SaysIdle, BackToWait
<1>20. QED
  BY <1>1, <1>2, <1>3, <1>4, <1>5, <1>6, <1>7, <1>8, <1>9, <1>10, <1>11, <1>12 DEF PtzNext, CheckStep, CallStep, ThreadStep

(* No command to a motor that is at another, when none is given late.      *)
LEMMA OneKept ==
  ASSUME ~Late, StandInv, OneAtATime, PtzNext PROVE OneAtATime'
<1> USE DEF StandInv, PtzTypes, OneAtATime, PostsFit, AtWorkPtz, MotorThreads, CallTypes, CmdTypes, SelfChecks, Pending,
      callVars, threadVars, cmdVars, AtTurn, AtPos, AtJoin, Motor, NoAim
<1>1. CASE ak_drv_ptz_open
  BY <1>1 DEF ak_drv_ptz_open
<1>2. ASSUME NEW pin \in BOOLEAN, ak_drv_ptz_check_self(pin) PROVE OneAtATime'
  BY <1>2 DEF ak_drv_ptz_check_self
<1>3. ASSUME NEW m \in Motor, CheckTurns(m) \/ CheckWaits(m) PROVE OneAtATime'
  BY <1>3 DEF CheckTurns, CheckWaits
<1>4. CASE CheckEnds
  BY <1>4 DEF CheckEnds
<1>5. CASE Polled \/ PosLooks
  BY <1>5 DEF Polled, PosLooks
<1>6. ASSUME NEW m \in Motor, NEW d \in TurnBy, TurnPosts(m, d) PROVE OneAtATime'
  BY <1>6 DEF TurnPosts
<1>7. ASSUME NEW m \in Motor, NEW d \in TurnBy, PosPosts(m, d) PROVE OneAtATime'
  <2>1. \/ ctrl_sem' = ctrl_sem /\ aim' = aim
        \/ ctrl_sem' = [ctrl_sem EXCEPT ![m] = @ + 1] /\ aim' = [aim EXCEPT ![m] = SetStep(d)]
    BY <1>7 DEF PosPosts, check_dg
  <2>2. /\ caller = AtPos(m) /\ caller' = (IF m = "H" THEN "posV" ELSE "poll")
        /\ UNCHANGED <<run_flag_ptz, mpc>>
    BY <1>7 DEF PosPosts
  <2>3. QED
    BY <2>1, <2>2
<1>8. ASSUME NEW m \in Motor, NEW cw \in BOOLEAN, TurnDirects(m, cw) PROVE OneAtATime'
  BY <1>8 DEF TurnDirects
<1>9. ASSUME NEW m \in Motor, ak_drv_ptz_turn_stop(m) \/ DriverMoves(m) PROVE OneAtATime'
  BY <1>9 DEF ak_drv_ptz_turn_stop, DriverMoves
<1>10. ASSUME NEW m \in Motor, CloseJoins(m) PROVE OneAtATime'
  BY <1>10 DEF CloseJoins
<1>11. ASSUME NEW m \in Motor, CloseStops(m) PROVE OneAtATime'
  BY <1>11 DEF CloseStops, WakesThread
<1>12. ASSUME NEW m \in Motor, ThreadTakes(m) PROVE OneAtATime'
  BY <1>12 DEF ThreadTakes
<1>13. ASSUME NEW m \in Motor, ThreadBusy(m) \/ ThreadTurns(m) PROVE OneAtATime'
  BY <1>13 DEF ThreadBusy, ThreadTurns
<1>14. ASSUME NEW m \in Motor, ThreadTurnFails(m) \/ ThreadWaits(m) PROVE OneAtATime'
  BY <1>14 DEF ThreadTurnFails, ThreadWaits, BackToWait
<1>20. QED
  BY <1>1, <1>2, <1>3, <1>4, <1>5, <1>6, <1>7, <1>8, <1>9, <1>10, <1>11, <1>12, <1>13, <1>14
  DEF PtzNext, CheckStep, CallStep, ThreadStep

(* A motor whose command and place do not change stays on its way.         *)
LEMMA OnWayStays ==
  ASSUME NEW m \in Motor, OnWay(m), aim'[m] = aim[m] \/ aim'[m] = NoAim, pos'[m] = pos[m],
         Obeying(m)' <=> Obeying(m), Obeying(m) => Rest(m)' = Rest(m)
  PROVE  OnWay(m)'
BY DEF OnWay, Near

(* The way to a position, cut down to whole degrees, ends less than a      *)
(* degree before it.                                                       *)
LEMMA PositionIsNear ==
  ASSUME NEW p \in 0..Full - 1, NEW to \in 0..Full - 1, to # p
  PROVE  LET dir == step2degree(Away(to - p))
             w == degree2step(dir)
             q == IF to - p > 0 /\ step2degree(to - p) > 0 THEN p + w ELSE p - w
         IN q \in 0..Full - 1 /\ (Away(to - q) - 1) * Degree < Cycle
<1> DEFINE s == Away(to - p)
           w == degree2step(step2degree(s))
<1>1. /\ s \in Nat /\ p \in Int /\ to \in Int /\ (to > p \/ to < p)
      /\ to > p => s = to - p
      /\ to < p => s = p - to
  BY MotorIs DEF Away
<1>2. w \in 0..s /\ (s - w - 1) * Degree < Cycle
  BY <1>1, StepsBack
<1>3. degree2step(0) = 0
  <2>1. Cycle * 0 = 0 /\ 0 \div Degree = 0
    BY MotorIs
  <2>2. QED
    BY <2>1 DEF degree2step
<1>4. to > p => (step2degree(to - p) > 0 \/ w = 0)
  <2>1. SUFFICES ASSUME to > p PROVE step2degree(to - p) > 0 \/ w = 0
    OBVIOUS
  <2>2. step2degree(s) \in Nat /\ s = to - p
    BY <1>1, <2>1, StepsBack
  <2>3. QED
    BY <1>3, <2>2
<1> HIDE DEF s, w
<1>5. CASE to > p
  <2>1. p + w \in 0..Full - 1 /\ Away(to - (p + w)) = s - w
    BY <1>1, <1>2, <1>5, MotorIs DEF Away
  <2>2. (IF to - p > 0 /\ step2degree(to - p) > 0 THEN p + w ELSE p - w) = p + w
    BY <1>1, <1>2, <1>4, <1>5
  <2>3. QED
    BY <1>2, <2>1, <2>2 DEF s, w
<1>6. CASE to < p
  <2>1. p - w \in 0..Full - 1 /\ Away(to - (p - w)) = s - w
    BY <1>1, <1>2, <1>6, MotorIs DEF Away
  <2>2. (IF to - p > 0 /\ step2degree(to - p) > 0 THEN p + w ELSE p - w) = p - w
    BY <1>1, <1>6
  <2>3. QED
    BY <1>2, <2>1, <2>2 DEF s, w
<1>7. QED
  BY <1>1, <1>5, <1>6

(* What the turns and the ways of the commands are.                        *)
LEMMA TurnsAre ==
  /\ \A d \in TurnBy : degree2step(d) \in Nat /\ degree2step(d) \in Int /\ SetStep(d) \in 0..Full - 1
  /\ \A x \in Int : (Away(x - x) - 1) * Degree < Cycle
  /\ \A p, q \in 0..Full - 1 : /\ Away(p - q) \in Nat /\ degree2step(step2degree(Away(p - q))) \in Int
                               /\ p - q = 0 \/ p # q
<1>1. \A d \in TurnBy : degree2step(d) \in Nat /\ degree2step(d) \in Int /\ SetStep(d) \in 0..Full - 1
  BY TurnFits, TurnAssumption, MotorIs, Clamped DEF SetStep
<1>2. ASSUME NEW x \in Int PROVE (Away(x - x) - 1) * Degree < Cycle
  <2>1. Away(x - x) = 0 /\ (0 - 1) * Degree < Cycle
    BY MotorIs DEF Away
  <2>2. QED
    BY <2>1
<1>3. ASSUME NEW p \in 0..Full - 1, NEW q \in 0..Full - 1
      PROVE  /\ Away(p - q) \in Nat /\ degree2step(step2degree(Away(p - q))) \in Int
             /\ p - q = 0 \/ p # q
  <2>1. Away(p - q) \in Nat
    BY MotorIs DEF Away
  <2>2. degree2step(step2degree(Away(p - q))) \in Int
    BY <2>1, StepsBack
  <2>3. QED
    BY <2>1, <2>2, MotorIs
<1>4. QED
  BY <1>1, <1>2, <1>3

(* A step of the driver, or its end at the border, leaves where the turn   *)
(* ends.                                                                   *)
LEMMA SameEnd ==
  ASSUME NEW p \in 0..Full - 1, NEW l \in Int, l # 0
  PROVE  LET to == IF l > 0 THEN p + 1 ELSE p - 1
             rest == IF l > 0 THEN l - 1 ELSE l + 1
         IN /\ to = Clamp(to) => Clamp(to + rest) = Clamp(p + l)
            /\ to # Clamp(to) => Clamp(p + 0) = Clamp(p + l)
BY MotorIs DEF Clamp

(* Every step leaves the motors on their ways: a new command sets one out, *)
(* a stop forgets the aim, and the end of a turn is at its aim.            *)
LEMMA WayKept ==
  ASSUME ~Late, StandInv, OneAtATime, OnItsWay, PtzNext PROVE OnItsWay'
<1> DEFINE Same == /\ aim' = aim /\ pos' = pos
                   /\ \A m \in Motor : (Obeying(m)' <=> Obeying(m)) /\ (Obeying(m) => Rest(m)' = Rest(m))
<1>0. Same => OnItsWay'
  BY OnWayStays DEF OnItsWay
<1>00. (\A m \in Motor : aim'[m] = NoAim) => OnItsWay'
  BY DEF OnItsWay, OnWay
<1> USE DEF StandInv, PtzTypes, OneAtATime, PostsFit, AtWorkPtz, MotorThreads, CallTypes, CmdTypes, Pending, Obeying,
      callVars, threadVars, cmdVars, driveVars, AtTurn, AtPos, AtJoin, Motor
<1>1. CASE ak_drv_ptz_open
  BY <1>00, <1>1 DEF ak_drv_ptz_open
<1>2. ASSUME NEW pin \in BOOLEAN, ak_drv_ptz_check_self(pin) PROVE OnItsWay'
  BY <1>00, <1>2 DEF ak_drv_ptz_check_self
<1>3. ASSUME NEW m \in Motor, CheckTurns(m) \/ CheckWaits(m) PROVE OnItsWay'
  BY <1>00, <1>3 DEF CheckTurns, CheckWaits, SelfChecks
<1>4. CASE CheckEnds
  BY <1>00, <1>4 DEF CheckEnds
<1>5. CASE Polled \/ PosLooks
  BY <1>0, <1>5 DEF Polled, PosLooks, Rest, Way
<1>6. ASSUME NEW m \in Motor, NEW cw \in BOOLEAN, TurnDirects(m, cw) PROVE OnItsWay'
  BY <1>0, <1>6 DEF TurnDirects
<1>7. ASSUME NEW m \in Motor, NEW d \in TurnBy, TurnPosts(m, d) PROVE OnItsWay'
  <2> DEFINE to == Clamp(pos[m] + (IF clkwise[m] THEN 1 ELSE -1) * degree2step(d))
  <2>1. /\ caller = AtTurn(m) /\ dg' = [dg EXCEPT ![m] = d] /\ ctrl_sem' = [ctrl_sem EXCEPT ![m] = @ + 1]
        /\ aim' = [aim EXCEPT ![m] = to] /\ UNCHANGED <<run_flag_ptz, clkwise, mpc, pos, left>>
    BY <1>7 DEF TurnPosts
  <2>2. \A n \in Motor \ {m} : OnWay(n)'
    <3> SUFFICES ASSUME NEW n \in Motor \ {m} PROVE OnWay(n)'
      OBVIOUS
    <3>1. Obeying(n)' <=> Obeying(n)
      BY <2>1
    <3>2. Rest(n)' = Rest(n)
      BY <2>1 DEF Rest, Way
    <3>3. QED
      BY <2>1, <3>1, <3>2, OnWayStays DEF OnItsWay
  <2>3. ~Pending(m) /\ run_flag_ptz[m]
    BY <2>1
  <2>4. Obeying(m)'
    BY <2>1, <2>3
  <2>5. Rest(m)' = IF clkwise[m] THEN degree2step(d) ELSE -degree2step(d)
    BY <2>1, <2>3 DEF Rest, Way
  <2>6. degree2step(d) \in Int /\ pos[m] \in Int
    BY TurnsAre, PlacesAre DEF DriveTypes
  <2>7. Clamp(pos[m] + Rest(m)') = to /\ to \in 0..Full - 1
    <3>1. pos[m] + Rest(m)' = pos[m] + (IF clkwise[m] THEN 1 ELSE -1) * degree2step(d)
      BY <2>5, <2>6
    <3>2. pos[m] + (IF clkwise[m] THEN 1 ELSE -1) * degree2step(d) \in Int
      BY <2>6
    <3>3. to \in 0..Full - 1
      BY <3>2, Clamped
    <3>4. QED
      BY <3>1, <3>3
  <2>8. to \in Int /\ aim'[m] = to /\ pos'[m] = pos[m]
    BY <2>1, <2>7, PlacesAre
  <2>9. (Away(aim'[m] - to) - 1) * Degree < Cycle
    BY <2>8, TurnsAre
  <2> HIDE DEF to
  <2>10. OnWay(m)'
    BY <2>4, <2>7, <2>8, <2>9 DEF OnWay, Near
  <2>11. QED
    BY <2>2, <2>10 DEF OnItsWay
<1>8. ASSUME NEW m \in Motor, NEW d \in TurnBy, PosPosts(m, d) PROVE OnItsWay'
  <2> DEFINE to == SetStep(d)
             step == to - pos[m]
  <2>1. caller = AtPos(m) /\ check_dg(m, d) /\ UNCHANGED <<run_flag_ptz, mpc, pos, left>>
    BY <1>8 DEF PosPosts
  <2>2. CASE step = 0
    <3>1. UNCHANGED cmdVars
      BY <2>1, <2>2 DEF check_dg
    <3>2. QED
      BY <1>0, <2>1, <3>1 DEF Rest, Way
  <2>3. CASE step # 0
    <3> DEFINE turn == step2degree(Away(step))
               w == step > 0 /\ step2degree(step) > 0
    <3>1. /\ dg' = [dg EXCEPT ![m] = turn] /\ ctrl_sem' = [ctrl_sem EXCEPT ![m] = @ + 1]
          /\ aim' = [aim EXCEPT ![m] = to]
          /\ clkwise' = [clkwise EXCEPT ![m] = w]
      BY <2>1, <2>3 DEF check_dg
    <3>2. to \in 0..Full - 1 /\ pos[m] \in 0..Full - 1 /\ to # pos[m]
      <4>1. to \in 0..Full - 1 /\ pos[m] \in 0..Full - 1
        BY TurnsAre DEF DriveTypes
      <4>2. QED
        BY <2>3, <4>1, TurnsAre, PlacesAre
    <3>3. ~Pending(m) /\ run_flag_ptz[m]
      BY <2>1
    <3>4. \A n \in Motor \ {m} : OnWay(n)'
      <4> SUFFICES ASSUME NEW n \in Motor \ {m} PROVE OnWay(n)'
        OBVIOUS
      <4> HIDE DEF w, turn, to
      <4>1. Obeying(n)' <=> Obeying(n)
        BY <2>1, <3>1
      <4>2. Rest(n)' = Rest(n)
        BY <2>1, <3>1 DEF Rest, Way
      <4>3. aim'[n] = aim[n] /\ pos'[n] = pos[n]
        BY <2>1, <3>1
      <4>4. QED
        BY <4>1, <4>2, <4>3, OnWayStays DEF OnItsWay
    <3> DEFINE q == IF w THEN pos[m] + degree2step(turn) ELSE pos[m] - degree2step(turn)
    <3>5. q \in 0..Full - 1 /\ (Away(to - q) - 1) * Degree < Cycle
      BY <3>2, PositionIsNear
    <3>6. w \in BOOLEAN /\ degree2step(turn) \in Int /\ pos[m] \in Int
      BY <3>2, PlacesAre, TurnsAre
    <3> HIDE DEF w, turn, to
    <3>7. Obeying(m)'
      BY <2>1, <3>1, <3>3
    <3>8. clkwise'[m] <=> w
      BY <3>1, <3>6
    <3>9. Rest(m)' = IF w THEN degree2step(turn) ELSE -degree2step(turn)
      BY <2>1, <3>1, <3>3, <3>8 DEF Rest, Way
    <3>10. pos[m] + Rest(m)' = q
      BY <3>6, <3>9
    <3> HIDE DEF q
    <3>11. aim'[m] = to /\ Clamp(pos'[m] + Rest(m)') = q
      BY <2>1, <3>1, <3>5, <3>10, Clamped, PlacesAre
    <3>12. (Away(aim'[m] - Clamp(pos'[m] + Rest(m)')) - 1) * Degree < Cycle
      BY <3>5, <3>11
    <3>13. OnWay(m)'
      BY <3>7, <3>12 DEF OnWay, Near
    <3>14. QED
      BY <3>4, <3>13 DEF OnItsWay
  <2>4. QED
    BY <2>2, <2>3
<1>9. ASSUME NEW m \in Motor, CloseStops(m) PROVE OnItsWay'
  BY <1>0, <1>9 DEF CloseStops, WakesThread, Rest, Way
<1>10. ASSUME NEW m \in Motor, CloseJoins(m) \/ ak_drv_ptz_turn_stop(m) \/ ThreadTurnFails(m) PROVE OnItsWay'
  <2>1. aim'[m] = NoAim /\ UNCHANGED <<run_flag_ptz, ctrl_sem, clkwise, dg, pos>>
    BY <1>10 DEF CloseJoins, ak_drv_ptz_turn_stop, ThreadTurnFails
  <2>2. \A n \in Motor \ {m} : aim'[n] = aim[n] /\ mpc'[n] = mpc[n] /\ left'[n] = left[n]
    BY <1>10 DEF CloseJoins, ak_drv_ptz_turn_stop, ThreadTurnFails, BackToWait, DriveTypes
  <2>3. \A n \in Motor \ {m} : OnWay(n)'
    BY <2>1, <2>2, OnWayStays DEF OnItsWay, Rest, Way
  <2>4. OnWay(m)'
    BY <2>1 DEF OnWay
  <2>5. QED
    BY <2>3, <2>4 DEF OnItsWay
<1>11. ASSUME NEW m \in Motor, DriverMoves(m) PROVE OnItsWay'
  <2>1. \A n \in Motor \ {m} : OnWay(n)'
    <3>1. \A n \in Motor \ {m} : pos'[n] = pos[n] /\ left'[n] = left[n]
      BY <1>11 DEF DriverMoves, DriveTypes
    <3>2. UNCHANGED <<callVars, threadVars, cmdVars>>
      BY <1>11 DEF DriverMoves
    <3>3. \A n \in Motor \ {m} : Rest(n)' = Rest(n) /\ (Obeying(n)' <=> Obeying(n))
      BY <3>1, <3>2 DEF Rest, Way
    <3>4. QED
      BY <3>1, <3>2, <3>3, OnWayStays DEF OnItsWay
  <2>2. CASE mpc[m] # "run"
    <3>1. aim'[m] = NoAim
      BY <1>11, <2>2 DEF DriverMoves, TurnsForSomeone, SelfChecks
    <3>2. QED
      BY <2>1, <3>1 DEF OnItsWay, OnWay
  <2>3. CASE mpc[m] = "run"
    <3> DEFINE to == IF left[m] > 0 THEN pos[m] + 1 ELSE pos[m] - 1
               rest == IF left[m] > 0 THEN left[m] - 1 ELSE left[m] + 1
    <3>1. /\ \/ to = Clamp(to) /\ pos' = [pos EXCEPT ![m] = to] /\ left' = [left EXCEPT ![m] = rest]
             \/ to # Clamp(to) /\ pos' = pos /\ left' = [left EXCEPT ![m] = 0]
          /\ left[m] # 0 /\ UNCHANGED <<aim, mpc, run_flag_ptz, ctrl_sem>>
      BY <1>11 DEF DriverMoves
    <3>2. left[m] \in Int /\ pos[m] \in 0..Full - 1
      BY StepsAre DEF DriveTypes
    <3>3. Obeying(m) /\ Obeying(m)'
      BY <2>3, <3>1
    <3>4. Rest(m) = left[m] /\ Rest(m)' = left'[m]
      BY <2>3, <3>1 DEF Rest
    <3>5. /\ to = Clamp(to) => Clamp(to + rest) = Clamp(pos[m] + left[m])
          /\ to # Clamp(to) => Clamp(pos[m] + 0) = Clamp(pos[m] + left[m])
      BY <3>1, <3>2, SameEnd
    <3> HIDE DEF to, rest
    <3>6. Clamp(pos'[m] + left'[m]) = Clamp(pos[m] + left[m])
      <4>1. CASE to = Clamp(to)
        <5>1. pos'[m] = to /\ left'[m] = rest
          BY <3>1, <4>1 DEF DriveTypes
        <5>2. QED
          BY <3>5, <4>1, <5>1
      <4>2. CASE to # Clamp(to)
        <5>1. pos'[m] = pos[m] /\ left'[m] = 0
          BY <3>1, <4>2 DEF DriveTypes
        <5>2. QED
          BY <3>5, <4>2, <5>1
      <4>3. QED
        BY <4>1, <4>2
    <3>7. OnWay(m)
      BY DEF OnItsWay
    <3>8. OnWay(m)'
      BY <3>1, <3>3, <3>4, <3>6, <3>7 DEF OnWay, Near
    <3>9. QED
      BY <2>1, <3>8 DEF OnItsWay
  <2>4. QED
    BY <2>2, <2>3
<1>12. ASSUME NEW m \in Motor, ThreadTakes(m) \/ ThreadBusy(m) PROVE OnItsWay'
  <2>1. UNCHANGED <<aim, pos, left, clkwise, dg, run_flag_ptz>>
    BY <1>12 DEF ThreadTakes, ThreadBusy
  <2>2. \A n \in Motor : (Obeying(n)' <=> Obeying(n)) /\ (Obeying(n) => (mpc'[n] = "run" <=> mpc[n] = "run"))
    BY <1>12 DEF ThreadTakes, ThreadBusy
  <2>3. QED
    BY <1>0, <2>1, <2>2 DEF Rest, Way
<1>13. ASSUME NEW m \in Motor, ThreadTurns(m) PROVE OnItsWay'
  <2>1. /\ UNCHANGED <<aim, pos, clkwise, dg, run_flag_ptz, ctrl_sem>>
        /\ mpc[m] = "busy" /\ mpc' = [mpc EXCEPT ![m] = "run"] /\ left' = [left EXCEPT ![m] = Way(m)]
    BY <1>13 DEF ThreadTurns, Drive
  <2>2. \A n \in Motor : Obeying(n)' <=> Obeying(n)
    BY <2>1
  <2>3. \A n \in Motor : Rest(n)' = Rest(n)
    BY <2>1 DEF Rest, Way, DriveTypes
  <2>4. QED
    BY <1>0, <2>1, <2>2, <2>3
<1>14. ASSUME NEW m \in Motor, ThreadWaits(m) PROVE OnItsWay'
  <2>1. /\ UNCHANGED <<aim, pos, clkwise, dg, run_flag_ptz, ctrl_sem, left>>
        /\ mpc[m] = "run" /\ event[m] # "" /\ mpc' = [mpc EXCEPT ![m] = IF run_flag_ptz[m] THEN "wait" ELSE "none"]
    BY <1>14 DEF ThreadWaits, BackToWait
  <2>2. \A n \in Motor \ {m} : OnWay(n)'
    BY <2>1, OnWayStays DEF OnItsWay, Rest, Way
  <2>3. left[m] = 0 /\ Obeying(m) /\ ~Obeying(m)'
    <3>1. ctrl_sem[m] \in Nat /\ ctrl_sem[m] <= 1 /\ ctrl_sem[m] # 1 /\ run_flag_ptz[m]
      BY <2>1
    <3>2. ctrl_sem[m] = 0
      BY <3>1
    <3>3. mpc'[m] \in {"wait", "none"}
      BY <2>1
    <3>4. left[m] = 0
      BY <2>1 DEF TurnsForSomeone
    <3>5. Obeying(m)
      BY <2>1, <3>1
    <3>7. ctrl_sem'[m] = 0
      BY <2>1, <3>2, Zenon
    <3>8. mpc'[m] \notin {"taken", "busy", "run"}
      BY <3>3, Zenon
    <3>9. ~Obeying(m)'
      BY <3>7, <3>8
    <3>6. QED
      BY <3>4, <3>5, <3>9
  <2>4. Clamp(pos[m] + Rest(m)) = pos[m]
    <3>1. pos[m] \in 0..Full - 1 /\ Rest(m) = 0
      BY <2>1, <2>3 DEF Rest, DriveTypes
    <3>2. pos[m] + 0 = pos[m] /\ pos[m] \in Int
      BY <3>1, PlacesAre
    <3>3. QED
      BY <3>1, <3>2, Clamped
  <2>5. OnWay(m)'
    BY <2>1, <2>3, <2>4 DEF OnItsWay, OnWay, Near
  <2>6. QED
    BY <2>2, <2>5 DEF OnItsWay
<1>20. QED
  BY <1>1, <1>2, <1>3, <1>4, <1>5, <1>6, <1>7, <1>8, <1>9, <1>10, <1>11, <1>12, <1>13, <1>14
  DEF PtzNext, CheckStep, CallStep, ThreadStep

(* The invariants are kept ...                                             *)
LEMMA StandStep == StandInv /\ [PtzNext]_ptzVars => StandInv'
<1>1. StandInv /\ PtzNext => StandInv'
  BY CallTypesKept, ThreadTypesKept, CmdTypesKept, DriveTypesKept, SelfChecksKept, PostsFitKept, TurnsKept
  DEF StandInv, PtzTypes
<1>2. StandInv /\ UNCHANGED ptzVars => StandInv'
  BY DEF StandInv, PtzTypes, CallTypes, MotorThreads, CmdTypes, DriveTypes, SelfChecks, PostsFit, TurnsForSomeone, ToPost,
         ptzVars, callVars, threadVars, cmdVars, driveVars
<1>3. QED
  BY <1>1, <1>2

(* ... by every step.                                                      *)
LEMMA PtzStep == ~Late /\ PtzInv /\ [PtzNext]_ptzVars => PtzInv'
<1>1. ~Late /\ PtzInv /\ PtzNext => PtzInv'
  BY StandStep, OneKept, WayKept DEF PtzInv
<1>2. PtzInv /\ UNCHANGED ptzVars => OneAtATime'
  BY DEF PtzInv, OneAtATime, Pending, ptzVars, callVars, threadVars, cmdVars, driveVars
<1>3. PtzInv /\ UNCHANGED ptzVars => OnItsWay'
  BY OnWayStays DEF PtzInv, OnItsWay, Obeying, Rest, Way, Pending, ptzVars, callVars, threadVars, cmdVars, driveVars
<1>4. QED
  BY <1>1, <1>2, <1>3, StandStep DEF PtzInv

(* A motor that says it is idle is not waited for, ...                     *)
LEMMA StandIs == StandInv => PtzTypeOK /\ IdleIsStill
<1> SUFFICES ASSUME StandInv PROVE PtzTypeOK /\ IdleIsStill
  OBVIOUS
<1>1. ctrl_sem \in [Motor -> 0..MaxCommand + 1]
  <2>1. \A m \in Motor : ctrl_sem[m] \in Nat /\ ctrl_sem[m] <= commands + 1 /\ commands \in 0..MaxCommand
    BY DEF StandInv, PtzTypes, PostsFit, CallTypes, CmdTypes
  <2>2. \A m \in Motor : ctrl_sem[m] \in 0..MaxCommand + 1
    BY <2>1, TurnAssumption
  <2>3. QED
    BY <2>2 DEF StandInv, PtzTypes, CmdTypes
<1>2. PtzTypeOK
  BY <1>1 DEF PtzTypeOK, StandInv, PtzTypes, MotorThreads, CmdTypes, DriveTypes, Steps
<1>3. IdleIsStill
  BY DEF IdleIsStill, StandInv, TurnsForSomeone, PtzTypes, MotorThreads, DriveTypes
<1>4. QED
  BY <1>2, <1>3

(* ... and one that rests has come to its aim.                             *)
LEMMA ObeyedIs == PtzInv => CommandIsObeyed
BY DEF PtzInv, CommandIsObeyed, OnItsWay, OnWay, Obeying, Pending, Resting, Near

(* For every range, circle and number of commands, given late or not: the  *)
(* counts and places keep their ranges, and a motor that says it is idle   *)
(* has no steps left and no event (ak_drv_ptz.c:717-719).                  *)
THEOREM MotorsStandAlways == PtzInit /\ [][PtzNext]_ptzVars => [](PtzTypeOK /\ IdleIsStill)
<1>1. PtzInit => StandInv
  BY PtzInitInv DEF PtzInv
<1>2. QED
  BY <1>1, StandStep, StandIs, PTL

(* For all of them, when no caller gives a command between another's look  *)
(* at a motor and its post: a command that was accepted takes the motor    *)
(* where it says, a position to within a degree (ak_drv_ptz.c:710-740).    *)
THEOREM CommandIsObeyedAlways == ASSUME ~Late PROVE PtzInit /\ [][PtzNext]_ptzVars => []CommandIsObeyed
<1>1. PtzInv /\ [PtzNext]_ptzVars => PtzInv'
  BY PtzStep
<1>2. QED
  BY <1>1, PtzInitInv, ObeyedIs, PTL

-----------------------------------------------------------------------------
(* The command server, libplat/src/ipc_srv/ipc_srv.c.                      *)

(* What is registered.                                                     *)
Entry == [cmd : Cmd, node : 1..MaxNode]

(* The server, ...                                                         *)
SrvTypes == /\ srv \in BOOLEAN /\ listening \in BOOLEAN
            /\ hpc \in {"none", "accept", "wait"} /\ srv_sem \in Nat
            /\ (hpc = "none" <=> ~srv)
            /\ ~srv => cmd_list = <<>>

(* ... what is registered ...                                              *)
ListTypes == cmd_list \in Seq(Entry) /\ nodes \in 0..MaxNode

(* ... and the askers have their kinds.                                    *)
AskTypes == /\ backlog \in Seq(Asker)
            /\ cpc \in [Asker -> {"idle", "queued", "spawned", "started", "matched"}]
            /\ asked_cmd \in [Asker -> Cmd]
            /\ match_msg \in [Asker -> 0..MaxNode]
            /\ reply \in [Asker -> {"none", "callback", "modules", "eof"}]
            /\ was_in \in [Asker -> BOOLEAN] /\ was_out \in [Asker -> BOOLEAN]

(* Who is in the backlog waits, and is there once.                         *)
Queue == \A i \in DOMAIN backlog : /\ cpc[backlog[i]] = "queued"
                                   /\ \A j \in DOMAIN backlog : backlog[i] = backlog[j] => i = j

(* The record of what was registered since an asker asked is kept up.      *)
Watched == \A a \in Asker :
  /\ cpc[a] # "idle" /\ Registered(cmd_list, asked_cmd[a]) => was_in[a]
  /\ cpc[a] # "idle" /\ ~Registered(cmd_list, asked_cmd[a]) => was_out[a]
  /\ cpc[a] = "matched" /\ match_msg[a] # 0 => was_in[a]
  /\ cpc[a] = "matched" /\ match_msg[a] = 0 => was_out[a]
  /\ reply[a] = "callback" => was_in[a]
  /\ reply[a] = "modules" => was_out[a]

(* Every variable has its kind, and the askers are served in their order.  *)
AskInv == SrvTypes /\ ListTypes /\ AskTypes /\ Queue /\ Watched

(* The handle thread waits for the one thread that has not begun.          *)
OnePost ==
  /\ hpc # "wait" => \A a \in Asker : cpc[a] # "spawned"
  /\ srv_sem <= 1
  /\ srv /\ srv_sem = 1 => hpc = "wait"
  /\ \A a, b \in Asker : cpc[a] = "spawned" /\ cpc[b] = "spawned" => a = b
  /\ \A a \in Asker : cpc[a] = "spawned" => srv_sem = 0

(* A command that is registered has a first node.                          *)
LEMMA FirstIs ==
  ASSUME NEW list \in Seq(Entry), NEW c, Registered(list, c)
  PROVE  First(list, c) \in DOMAIN list
<1> DEFINE T == {i \in DOMAIN list : list[i].cmd = c}
<1>1. DOMAIN list \subseteq Nat /\ \A i \in DOMAIN list : 1..i - 1 \subseteq DOMAIN list /\ i \in Nat
  BY LenProperties
<1>2. T \in SUBSET Nat /\ T # {}
  BY <1>1 DEF Registered
<1>3. PICK i \in T : \A j \in T : i <= j
  BY <1>2, LeastOf
<1>4. \A j \in 1..i - 1 : list[j].cmd # c
  <2>1. SUFFICES ASSUME NEW j \in 1..i - 1, list[j].cmd = c PROVE FALSE
    OBVIOUS
  <2>2. j \in T /\ i \in Nat /\ j \in Nat /\ ~(i <= j)
    BY <1>1, <2>1
  <2>3. QED
    BY <1>3, <2>2
<1>5. QED
  BY <1>3, <1>4 DEF First

(* A list without one of its nodes is a list of nodes.                     *)
LEMMA RemovedIs ==
  ASSUME NEW list \in Seq(Entry), NEW i \in DOMAIN list
  PROVE  RemoveAt(list, i) \in Seq(Entry)
<1>1. i \in Nat /\ Len(list) \in Nat /\ i <= Len(list) /\ 1 <= i /\ DOMAIN list = 1..Len(list) /\ \A j \in DOMAIN list : list[j] \in Entry
  BY LenProperties, ElementOfSeq
<1>2. SubSeq(list, 1, i - 1) \in Seq(Entry)
  <2>1. \A j \in 1..i - 1 : list[j] \in Entry
    BY <1>1
  <2>2. QED
    BY <1>1, <2>1, SubSeqProperties
<1>3. SubSeq(list, i + 1, Len(list)) \in Seq(Entry)
  <2>1. \A j \in i + 1..Len(list) : list[j] \in Entry
    BY <1>1
  <2>2. QED
    BY <1>1, <2>1, SubSeqProperties
<1>4. QED
  BY <1>2, <1>3, ConcatProperties DEF RemoveAt

(* What an asker has seen registered, or not registered, it has seen.      *)
LEMMA WatchIs ==
  ASSUME NEW list, Watch(list), AskTypes
  PROVE  /\ was_in' \in [Asker -> BOOLEAN] /\ was_out' \in [Asker -> BOOLEAN]
         /\ \A a \in Asker : /\ was_in[a] => was_in'[a]
                             /\ was_out[a] => was_out'[a]
                             /\ Registered(list, asked_cmd[a]) => was_in'[a]
                             /\ ~Registered(list, asked_cmd[a]) => was_out'[a]
<1>1. /\ was_in' = [a \in Asker |-> was_in[a] \/ Registered(list, asked_cmd[a])]
      /\ was_out' = [a \in Asker |-> was_out[a] \/ ~Registered(list, asked_cmd[a])]
  BY DEF Watch
<1>2. \A a \in Asker : was_in'[a] <=> was_in[a] \/ Registered(list, asked_cmd[a])
  BY <1>1, Zenon
<1>3. \A a \in Asker : was_out'[a] <=> was_out[a] \/ ~Registered(list, asked_cmd[a])
  BY <1>1, Zenon
<1>4. \A a \in Asker : (was_in[a] \/ Registered(list, asked_cmd[a])) \in BOOLEAN /\ (was_out[a] \/ ~Registered(list, asked_cmd[a])) \in BOOLEAN
  BY Zenon
<1>5. was_in' \in [Asker -> BOOLEAN] /\ was_out' \in [Asker -> BOOLEAN]
  BY <1>1, <1>4, Zenon
<1>6. QED
  BY <1>2, <1>3, <1>5

(* Who asked keeps what it knows while the list changes.                   *)
LEMMA ListMoves ==
  ASSUME AskInv, Watch(cmd_list'), UNCHANGED askVars
  PROVE  AskTypes' /\ Queue' /\ Watched'
BY WatchIs DEF AskInv, AskTypes, Queue, Watched, askVars

(* Nothing is registered in an empty list.                                 *)
LEMMA NoneRegistered == \A c : ~Registered(<<>>, c)
BY DEF Registered

(* The first state has the invariants, ...                                 *)
LEMMA IpcInitInv == IpcInit => AskInv /\ OnePost
<1> SUFFICES ASSUME IpcInit PROVE AskInv /\ OnePost
  OBVIOUS
<1>1. SrvTypes
  BY DEF IpcInit, SrvTypes
<1>6. OnePost
  <2>1. hpc = "none" /\ srv_sem = 0 /\ srv = FALSE /\ \A a \in Asker : cpc[a] = "idle"
    BY DEF IpcInit
  <2>2. QED
    BY <2>1 DEF OnePost
<1>2. ListTypes
  <2>1. 0 \in 0..MaxNode
    BY CmdAssumption
  <2>2. QED
    BY <2>1, EmptySeq DEF IpcInit, ListTypes
<1>3. AskTypes
  <2>1. backlog \in Seq(Asker)
    BY EmptySeq DEF IpcInit
  <2>2. match_msg \in [Asker -> 0..MaxNode]
    <3>1. 0 \in 0..MaxNode
      BY CmdAssumption
    <3>2. QED
      BY <3>1 DEF IpcInit
  <2>3. asked_cmd \in [Asker -> Cmd]
    BY CmdAssumption DEF IpcInit
  <2>4. QED
    BY <2>1, <2>2, <2>3 DEF IpcInit, AskTypes
<1>4. Queue /\ Watched
  <2>1. backlog = <<>> /\ \A a \in Asker : cpc[a] = "idle" /\ reply[a] = "none"
    BY DEF IpcInit
  <2>2. QED
    BY <2>1 DEF Queue, Watched
<1>5. QED
  BY <1>1, <1>2, <1>3, <1>4, <1>6 DEF AskInv

(* ... every step keeps the first, ...                                     *)
LEMMA AskKeeps == ASSUME AskInv, IpcNext PROVE AskInv'
<1> USE DEF AskInv, serverVars, listVars, askVars, ghostVars
<1>1. CASE ak_cmd_server_register
  BY <1>1, EmptySeq DEF ak_cmd_server_register, SrvTypes, ListTypes, AskTypes, Queue, Watched
<1>2. CASE ak_cmd_server_unregister
  <2>1. /\ srv' = FALSE /\ hpc' = "none" /\ listening' = FALSE /\ cmd_list' = <<>> /\ backlog' = <<>> /\ Watch(<<>>)
        /\ UNCHANGED <<srv_sem, nodes, asked_cmd, match_msg>>
    BY <1>2 DEF ak_cmd_server_unregister
  <2>2. SrvTypes' /\ ListTypes'
    BY <2>1, EmptySeq DEF SrvTypes, ListTypes
  <2>3. /\ cpc' \in [Asker -> {"idle", "queued", "spawned", "started", "matched"}]
        /\ reply' \in [Asker -> {"none", "callback", "modules", "eof"}]
        /\ \A a \in Asker : /\ cpc'[a] = cpc[a] \/ cpc'[a] = "idle"
                            /\ reply'[a] = reply[a] \/ reply'[a] = "eof"
    BY <1>2 DEF ak_cmd_server_unregister, AskTypes
  <2>7. /\ was_in' \in [Asker -> BOOLEAN] /\ was_out' \in [Asker -> BOOLEAN]
        /\ \A a \in Asker : /\ was_in[a] => was_in'[a]
                            /\ was_out[a] => was_out'[a]
                            /\ Registered(<<>>, asked_cmd[a]) => was_in'[a]
                            /\ ~Registered(<<>>, asked_cmd[a]) => was_out'[a]
    BY <2>1, WatchIs
  <2>8. backlog' \in Seq(Asker)
    BY <2>1, EmptySeq
  <2>4. AskTypes'
    BY <2>1, <2>3, <2>7, <2>8 DEF AskTypes
  <2>9. Queue'
    BY <2>1 DEF Queue
  <2>5. Watched'
    BY <2>1, <2>3, <2>7, NoneRegistered DEF Watched
  <2>6. QED
    BY <2>2, <2>4, <2>5, <2>9
<1>3. ASSUME NEW c \in Cmd, ak_cmd_register_msg_handle(c) PROVE AskInv'
  <2>1. [cmd |-> c, node |-> nodes + 1] \in Entry /\ nodes + 1 \in 0..MaxNode
    BY <1>3, CmdAssumption DEF ak_cmd_register_msg_handle, ListTypes, Entry
  <2>2. cmd_list' \in Seq(Entry)
    BY <1>3, <2>1, AppendProperties DEF ak_cmd_register_msg_handle, ListTypes
  <2>3. SrvTypes' /\ ListTypes'
    BY <1>3, <2>1, <2>2 DEF ak_cmd_register_msg_handle, SrvTypes, ListTypes
  <2>4. QED
    BY <1>3, <2>3, ListMoves DEF ak_cmd_register_msg_handle
<1>4. ASSUME NEW c \in Cmd, ak_cmd_unregister_msg_handle(c) PROVE AskInv'
  <2>1. cmd_list' \in Seq(Entry)
    BY <1>4, FirstIs, RemovedIs DEF ak_cmd_unregister_msg_handle, ListTypes
  <2>2. SrvTypes' /\ ListTypes'
    BY <1>4, <2>1 DEF ak_cmd_unregister_msg_handle, SrvTypes, ListTypes
  <2>3. QED
    BY <1>4, <2>2, ListMoves DEF ak_cmd_unregister_msg_handle
<1>5. ASSUME NEW a \in Asker, NEW c \in Cmd, ak_cmd_send(a, c) PROVE AskInv'
  <2>1. SrvTypes' /\ ListTypes'
    BY <1>5 DEF ak_cmd_send, SrvTypes, ListTypes
  <2>2. /\ cpc[a] = "idle" /\ cpc' = [cpc EXCEPT ![a] = "queued"] /\ backlog' = Append(backlog, a)
        /\ asked_cmd' = [asked_cmd EXCEPT ![a] = c] /\ reply' = [reply EXCEPT ![a] = "none"]
        /\ match_msg' = [match_msg EXCEPT ![a] = 0] /\ cmd_list' = cmd_list
    BY <1>5 DEF ak_cmd_send
  <2> DEFINE known == Registered(cmd_list, c)
             unknown == ~Registered(cmd_list, c)
  <2>3. /\ was_in' = [was_in EXCEPT ![a] = known] /\ was_out' = [was_out EXCEPT ![a] = unknown]
        /\ known \in BOOLEAN /\ (unknown <=> ~known)
    BY <1>5 DEF ak_cmd_send, Registered
  <2> HIDE DEF known, unknown
  <2>4. /\ was_in' \in [Asker -> BOOLEAN] /\ was_out' \in [Asker -> BOOLEAN]
        /\ was_in'[a] <=> known
        /\ was_out'[a] <=> ~known
        /\ \A b \in Asker : b # a => (was_in'[b] <=> was_in[b]) /\ (was_out'[b] <=> was_out[b])
    <3>1. was_in \in [Asker -> BOOLEAN] /\ was_out \in [Asker -> BOOLEAN] /\ unknown \in BOOLEAN
      BY DEF AskTypes, unknown
    <3>2. was_in' \in [Asker -> BOOLEAN] /\ was_out' \in [Asker -> BOOLEAN]
      BY <2>3, <3>1, Zenon
    <3>3. (was_in'[a] <=> known) /\ (was_out'[a] <=> ~known)
      BY <2>3, <3>1, Zenon
    <3>4. \A b \in Asker : b # a => (was_in'[b] <=> was_in[b]) /\ (was_out'[b] <=> was_out[b])
      BY <2>3, <3>1, Zenon
    <3>5. QED
      BY <3>2, <3>3, <3>4
  <2>5. backlog' \in Seq(Asker) /\ Len(backlog) \in Nat /\ DOMAIN backlog = 1..Len(backlog)
        /\ DOMAIN backlog' = 1..Len(backlog) + 1 /\ backlog'[Len(backlog) + 1] = a
        /\ \A i \in DOMAIN backlog : backlog'[i] = backlog[i] /\ backlog[i] \in Asker /\ backlog[i] # a
    BY <2>2, AppendProperties, LenProperties, ElementOfSeq DEF AskTypes, Queue
  <2>6. AskTypes'
    <3>1. 0 \in 0..MaxNode
      BY CmdAssumption
    <3>2. match_msg' \in [Asker -> 0..MaxNode]
      BY <2>2, <3>1 DEF AskTypes
    <3>3. /\ cpc' \in [Asker -> {"idle", "queued", "spawned", "started", "matched"}]
          /\ asked_cmd' \in [Asker -> Cmd]
          /\ reply' \in [Asker -> {"none", "callback", "modules", "eof"}]
      BY <2>2 DEF AskTypes
    <3>4. QED
      BY <2>4, <2>5, <3>2, <3>3 DEF AskTypes
  <2>7. Queue'
    <3>1. \A i \in DOMAIN backlog' : i \in DOMAIN backlog \/ i = Len(backlog) + 1
      BY <2>5
    <3>2. QED
      BY <2>2, <2>5, <3>1 DEF Queue, AskTypes
  <2>8. Watched'
    BY <2>2, <2>4 DEF Watched, AskTypes, known
  <2>9. QED
    BY <2>1, <2>6, <2>7, <2>8
<1>6. CASE Accept
  <2> DEFINE h == Head(backlog)
  <2>1. /\ h \in Asker /\ cpc[h] = "queued" /\ backlog' \in Seq(Asker)
        /\ \A i \in DOMAIN backlog' : i + 1 \in DOMAIN backlog /\ backlog'[i] = backlog[i + 1] /\ backlog'[i] # h /\ i \in Nat
    <3>1. /\ backlog \in Seq(Asker) /\ backlog # <<>> /\ backlog' = Tail(backlog)
      BY <1>6 DEF Accept, AskTypes
    <3>2. /\ Len(backlog) \in Nat /\ DOMAIN backlog = 1..Len(backlog) /\ Len(backlog) > 0 /\ h = backlog[1] /\ h \in Asker
          /\ backlog' \in Seq(Asker) /\ Len(backlog') = Len(backlog) - 1 /\ DOMAIN backlog' = 1..Len(backlog) - 1
          /\ \A i \in 1..Len(backlog) - 1 : backlog'[i] = backlog[i + 1]
      BY <3>1, HeadTailProperties, LenProperties, EmptySeq
    <3>3. \A i \in DOMAIN backlog' : i + 1 \in DOMAIN backlog /\ i + 1 # 1 /\ i \in Nat
      BY <3>2
    <3>4. 1 \in DOMAIN backlog
      BY <3>2
    <3> HIDE DEF h
    <3>5. QED
      BY <3>2, <3>3, <3>4 DEF Queue
  <2>2. /\ cpc' = [cpc EXCEPT ![h] = "spawned"] \/ cpc' = cpc
        /\ UNCHANGED <<srv, listening, srv_sem, cmd_list, nodes, asked_cmd, match_msg, reply, was_in, was_out>>
        /\ hpc = "accept" /\ hpc' = "wait"
    BY <1>6 DEF Accept
  <2> HIDE DEF h
  <2>3. SrvTypes' /\ ListTypes'
    BY <2>2 DEF SrvTypes, ListTypes
  <2>4. AskTypes'
    BY <2>1, <2>2 DEF AskTypes
  <2>5. Queue'
    <3>1. \A i, j \in DOMAIN backlog' : i + 1 = j + 1 => i = j
      BY <2>1
    <3>2. QED
      BY <2>1, <2>2, <3>1 DEF Queue, AskTypes
  <2>6. Watched'
    BY <2>1, <2>2 DEF Watched, AskTypes
  <2>7. QED
    BY <2>3, <2>4, <2>5, <2>6
<1>7. CASE HandleWakes
  BY <1>7 DEF HandleWakes, SrvTypes, ListTypes, AskTypes, Queue, Watched
<1>8. ASSUME NEW a \in Asker, ClientStarts(a) PROVE AskInv'
  BY <1>8 DEF ClientStarts, PostsSem, SrvTypes, ListTypes, AskTypes, Queue, Watched
<1>9. ASSUME NEW a \in Asker, ClientMatches(a) PROVE AskInv'
  <2> DEFINE n == Finds(asked_cmd[a])
  <2>1. n \in 0..MaxNode /\ (n # 0 <=> Registered(cmd_list, asked_cmd[a]))
    <3>1. Registered(cmd_list, asked_cmd[a]) => cmd_list[First(cmd_list, asked_cmd[a])] \in Entry
      BY FirstIs, ElementOfSeq, LenProperties DEF ListTypes
    <3>2. QED
      BY <3>1, CmdAssumption DEF Finds, Entry
  <2>2. /\ cpc[a] = "started" /\ match_msg' = [match_msg EXCEPT ![a] = n] /\ cpc' = [cpc EXCEPT ![a] = "matched"]
        /\ UNCHANGED <<serverVars, listVars, backlog, asked_cmd, reply, was_in, was_out>>
    BY <1>9 DEF ClientMatches
  <2> HIDE DEF n
  <2>3. SrvTypes' /\ ListTypes' /\ AskTypes' /\ Queue'
    BY <2>1, <2>2 DEF SrvTypes, ListTypes, AskTypes, Queue
  <2>4. Watched'
    BY <2>1, <2>2 DEF Watched, AskTypes
  <2>5. QED
    BY <2>3, <2>4
<1>10. ASSUME NEW a \in Asker, ClientAnswers(a) PROVE AskInv'
  BY <1>10 DEF ClientAnswers, SrvTypes, ListTypes, AskTypes, Queue, Watched
<1>11. QED
  BY <1>1, <1>2, <1>3, <1>4, <1>5, <1>6, <1>7, <1>8, <1>9, <1>10 DEF IpcNext, HandleStep, ClientStep

(* ... and the second, unless a server is taken from under a thread at     *)
(* work.                                                                   *)
LEMMA OnePostKeeps == ASSUME "live" \notin SrvFaults, AskInv, OnePost, IpcNext PROVE OnePost'
<1> USE DEF AskInv, SrvTypes, AskTypes, OnePost, serverVars, listVars, askVars, ghostVars
<1>1. CASE ak_cmd_server_register
  BY <1>1 DEF ak_cmd_server_register
<1>2. CASE ak_cmd_server_unregister
  BY <1>2 DEF ak_cmd_server_unregister, Undisturbed, Served
<1>3. ASSUME NEW c \in Cmd, ak_cmd_register_msg_handle(c) \/ ak_cmd_unregister_msg_handle(c) PROVE OnePost'
  BY <1>3 DEF ak_cmd_register_msg_handle, ak_cmd_unregister_msg_handle
<1>4. ASSUME NEW a \in Asker, NEW c \in Cmd, ak_cmd_send(a, c) PROVE OnePost'
  BY <1>4 DEF ak_cmd_send
<1>5. CASE Accept
  <2>1. Head(backlog) \in Asker
    BY <1>5, HeadTailProperties DEF Accept
  <2>2. QED
    BY <1>5, <2>1 DEF Accept
<1>6. CASE HandleWakes
  BY <1>6 DEF HandleWakes
<1>7. ASSUME NEW a \in Asker, ClientStep(a) PROVE OnePost'
  <2>1. CASE ClientStarts(a)
    <3>1. /\ cpc[a] = "spawned" /\ srv_sem = 0 /\ srv_sem' = 1 /\ cpc' = [cpc EXCEPT ![a] = "started"]
          /\ UNCHANGED <<srv, hpc>> /\ hpc = "wait"
      BY <2>1 DEF ClientStarts, PostsSem
    <3>2. \A b \in Asker : cpc'[b] # "spawned"
      BY <3>1
    <3>3. QED
      BY <3>1, <3>2
  <2>2. CASE ClientMatches(a)
    BY <2>2 DEF ClientMatches
  <2>3. CASE ClientAnswers(a)
    BY <2>3 DEF ClientAnswers
  <2>4. QED
    BY <1>7, <2>1, <2>2, <2>3 DEF ClientStep
<1>8. QED
  BY <1>1, <1>2, <1>3, <1>4, <1>5, <1>6, <1>7 DEF IpcNext, HandleStep

(* They need no more than the variables of the server and the askers.      *)
LEMMA IpcStays == AskInv /\ UNCHANGED srvVars => AskInv' /\ (OnePost => OnePost')
BY DEF AskInv, SrvTypes, ListTypes, AskTypes, Queue, Watched, OnePost, srvVars, serverVars, listVars, askVars, ghostVars

(* With them an answer fits, and the semaphore is a token for the thread   *)
(* that waits.                                                             *)
LEMMA IpcIs == /\ AskInv => AnswerFits
               /\ AskInv /\ OnePost => IpcTypeOK
BY DEF AskInv, SrvTypes, AskTypes, Watched, AnswerFits, OnePost, IpcTypeOK

(* For any askers and commands, with every fault: what an asker gets fits  *)
(* what was registered while it waited (ipc_srv.c:368-388).                *)
THEOREM AnswerFitsAlways == IpcInit /\ [][IpcNext]_srvVars => []AnswerFits
<1>1. AskInv /\ [IpcNext]_srvVars => AskInv'
  BY AskKeeps, IpcStays
<1>2. QED
  BY <1>1, IpcInitInv, IpcIs, PTL

(* For any askers and commands, when nothing is unregistered while a       *)
(* thread that looked it up is at work: the handle thread never finds a    *)
(* token of an earlier connection (lines 397-401, 424-440).                *)
THEOREM IpcTypeOKAlways ==
  ASSUME "live" \notin SrvFaults PROVE IpcInit /\ [][IpcNext]_srvVars => []IpcTypeOK
<1>1. AskInv /\ OnePost /\ [IpcNext]_srvVars => AskInv' /\ OnePost'
  BY AskKeeps, OnePostKeeps, IpcStays
<1>2. QED
  BY <1>1, IpcInitInv, IpcIs, PTL

-----------------------------------------------------------------------------
(* The parts together.                                                     *)

(* The daemon's types: the first state has them ...                        *)
LEMMA DaemonInitInv == DaemonInit => DaemonTypeOK
BY BeatAssumption DEF DaemonInit, DaemonTypeOK, Reader

(* ... and every step keeps them, whatever goes wrong.                     *)
LEMMA DaemonStepInv == DaemonTypeOK /\ [DaemonNext]_daemonVars => DaemonTypeOK'
<1> SUFFICES ASSUME DaemonTypeOK, [DaemonNext]_daemonVars PROVE DaemonTypeOK'
  OBVIOUS
<1> USE BeatAssumption DEF DaemonTypeOK, Reader
<1>1. CASE MonitorReads \/ MonitorWakes
  BY <1>1 DEF MonitorReads, MonitorWakes, WakesOrEnds
<1>2. CASE MonitorRestarts
  <2>1. app' \in {"off", "starting", "up", "exiting", "hung"}
    BY <1>2 DEF MonitorRestarts, Restart
  <2>2. QED
    BY <1>2, <2>1 DEF MonitorRestarts
<1>3. CASE FifoOpens \/ AppExits \/ AppBoots
  BY <1>3 DEF FifoOpens, AppExits, AppBoots
<1>4. CASE AppBeats
  BY <1>4 DEF AppBeats, ExitsUnread
<1>5. CASE AppCrashes
  BY <1>5 DEF AppCrashes
<1>6. CASE FeedEnds \/ DaemonDies \/ Reboot
  BY <1>6 DEF FeedEnds, TurnsOff, DaemonDies, Reboot
<1>7. CASE close_watch_dog \/ UpdateKills \/ UpdateWrites
  BY <1>7 DEF close_watch_dog, UpdateKills, UpdateWrites
<1>8. CASE UNCHANGED daemonVars
  BY <1>8 DEF daemonVars
<1>9. QED
  BY <1>1, <1>2, <1>3, <1>4, <1>5, <1>6, <1>7, <1>8 DEF DaemonNext, MonitorStep, AppStep

(* The callers of a replay keep its thread's and its own kinds, as the     *)
(* thread does (ThreadIsSo), also when they pause it and stop it early.    *)
LEMMA CallersKeepStatus ==
  ASSUME ReplayTypeOK, ReplayNext, ~ReplayStep PROVE ReplayTypeOK'
<1> USE DEF ReplayTypeOK, Caller, playVars, replaySync
<1>1. CASE StopFrees \/ StartFrees \/ add_to_replay_tail \/ StartPosts \/ ExitJoins
  BY <1>1 DEF StopFrees, StartFrees, free_replay_list, add_to_replay_tail, StartPosts, ExitJoins
<1>2. CASE \E v \in Viewer : ak_dvr_replay_stop(v) \/ StartChecks(v)
  BY <1>2 DEF ak_dvr_replay_stop, StartChecks
<1>3. CASE ak_dvr_replay_pause \/ ak_dvr_replay_resume \/ ExitPosts
  BY <1>3 DEF ak_dvr_replay_pause, ak_dvr_replay_resume, ExitPosts, ExitPost
<1>4. QED
  BY <1>1, <1>2, <1>3 DEF ReplayNext, CallerStep

LEMMA ReplayStepInv == ReplayTypeOK /\ [ReplayNext]_replayVars => ReplayTypeOK'
<1> SUFFICES ASSUME ReplayTypeOK, [ReplayNext]_replayVars PROVE ReplayTypeOK'
  OBVIOUS
<1>1. CASE ReplayStep
  BY <1>1, ThreadIsSo DEF ThreadKeepsCalls
<1>2. CASE ReplayNext /\ ~ReplayStep
  BY <1>2, CallersKeepStatus
<1>3. CASE UNCHANGED replayVars
  BY <1>3 DEF ReplayTypeOK, replayVars, replaySync, playVars, viewerVars
<1>4. QED
  BY <1>1, <1>2, <1>3

(* What each part's invariant says of it when the parts are put together.  *)
PartsInv == /\ IInv /\ PoolInv /\ StandInv /\ AskInv /\ OnePost
            /\ DaemonTypeOK /\ AencHolds /\ RbInv /\ ReplayTypeOK

LEMMA PartsInit == MCInit => PartsInv
<1> SUFFICES ASSUME MCInit PROVE PartsInv
  OBVIOUS
<1>1. /\ Init /\ PoolInit /\ PtzInit /\ IpcInit /\ DaemonInit
      /\ AencInit /\ RbInit /\ ReplayInit
  BY DEF MCInit
<1>2. IInv /\ PoolInv /\ StandInv
  BY <1>1, InitInv, PoolInitInv, PtzInitInv DEF PtzInv
<1>3. AskInv /\ OnePost /\ DaemonTypeOK
  BY <1>1, IpcInitInv, DaemonInitInv
<1>4. AencHolds /\ RbInv /\ ReplayTypeOK
  BY <1>1, AencInitInv, RbInitInv, PlayInit DEF AencHolds, AencInv, SessInv, PlayInv
<1>5. QED
  BY <1>2, <1>3, <1>4 DEF PartsInv

(* A step of one part is a step, or none, of every part.                   *)
LEMMA StepOfParts ==
  ASSUME [MCNext]_all
  PROVE  /\ [Next]_vars /\ [PoolNext]_poolVars /\ [PtzNext]_ptzVars /\ [IpcNext]_srvVars
         /\ [DaemonNext]_daemonVars /\ [AencNext]_aencVars /\ [RbNext]_rbVars
         /\ [ReplayNext]_replayVars
<1>1. CASE MCNext
  <2>1. [Next]_vars /\ [PoolNext]_poolVars
    BY <1>1 DEF MCNext, Keeps
  <2>2. [PtzNext]_ptzVars /\ [IpcNext]_srvVars
    BY <1>1 DEF MCNext, Keeps
  <2>3. [DaemonNext]_daemonVars /\ [AencNext]_aencVars
    BY <1>1 DEF MCNext, Keeps
  <2>4. [RbNext]_rbVars /\ [ReplayNext]_replayVars
    BY <1>1 DEF MCNext, Keeps
  <2>5. QED
    BY <2>1, <2>2, <2>3, <2>4
<1>2. CASE UNCHANGED all
  BY <1>2 DEF all
<1>3. QED
  BY <1>1, <1>2

LEMMA PartsStep ==
  ASSUME "live" \notin SrvFaults, PartsInv, [MCNext]_all PROVE PartsInv'
<1>1. IInv' /\ PoolInv' /\ StandInv'
  BY StepOfParts, StepInv, PoolStepInv, StandStep DEF PartsInv
<1>2. AskInv' /\ OnePost'
  BY StepOfParts, AskKeeps, OnePostKeeps, IpcStays DEF PartsInv
<1>3. DaemonTypeOK' /\ ReplayTypeOK'
  BY StepOfParts, DaemonStepInv, ReplayStepInv DEF PartsInv
<1>4. AencHolds' /\ RbInv'
  BY StepOfParts, AencKeeps, RbStepInv DEF PartsInv
<1>5. QED
  BY <1>1, <1>2, <1>3, <1>4 DEF PartsInv

(* For every value of the constants, when nothing is unregistered of a     *)
(* command server while it is at work: the bookkeeping of every part is    *)
(* sound.                                                                  *)
THEOREM PartsAreSoundAlways ==
  ASSUME "live" \notin SrvFaults PROVE MCSpec => []PartsAreSound
<1>1. PartsInv /\ [MCNext]_all => PartsInv'
  BY PartsStep
<1>2. PartsInv => PartsAreSound
  <2> SUFFICES ASSUME PartsInv PROVE PartsAreSound
    OBVIOUS
  <2>1. TypeOK /\ OffsetsAgree /\ PoolTypeOK /\ RefusedTwiceIsFull
    BY DEF PartsInv, IInv, PoolInv
  <2>2. PtzTypeOK /\ IdleIsStill /\ IpcTypeOK /\ AnswerFits
    BY StandIs, IpcIs DEF PartsInv
  <2>3. AencTypeOK
    BY DEF PartsInv, AencHolds, AencTypes, Numbers, AencTypeOK
  <2>4. RbTypeOK
    BY DEF PartsInv, RbInv, RbTypes, RbTypeOK
  <2>5. QED
    BY <2>1, <2>2, <2>3, <2>4 DEF PartsInv, PartsAreSound
<1>3. QED
  BY <1>1, <1>2, PartsInit, PTL DEF MCSpec
=============================================================================
