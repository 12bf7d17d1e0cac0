----------------------------- MODULE MCServices -----------------------------
(***************************************************************************)
(* Small instances of the parts that share nothing with one another, in    *)
(* one run: `part' says which of them moves, the others stand still.       *)
(***************************************************************************)
EXTENDS RingBuffer, NodePool, Ptz, IpcServer, Daemon, Hotplug, Aenc, AencRing, Replay

VARIABLE part

all == <<part, vars, poolVars, ptzVars, srvVars, daemonVars, hotVars, aencVars, rbVars, replayVars>>

RingReads == <<3, 2>>
(* Three files, one after a gap, and a span in the middle and one of all.  *)
ThreeFiles == <<[from |-> 0, len |-> 2], [from |-> 2, len |-> 3], [from |-> 6, len |-> 1]>>
Spans == {[from |-> 1, to |-> 3], [from |-> 0, to |-> 7]}

MCInit == /\ part \in {"ring", "pool", "ptz", "ipc", "daemon", "hotplug", "aenc", "aencring",
                      "replay"}
          /\ Init /\ PoolInit /\ PtzInit /\ IpcInit /\ DaemonInit /\ HotInit
          /\ AencInit /\ RbInit /\ ReplayInit

Keeps(p, v) == IF part = p THEN TRUE ELSE UNCHANGED v

MCNext == /\ UNCHANGED part
          /\ \/ part = "ring" /\ Next
             \/ part = "pool" /\ PoolNext
             \/ part = "ptz" /\ PtzNext
             \/ part = "ipc" /\ IpcNext
             \/ part = "daemon" /\ DaemonNext
             \/ part = "hotplug" /\ HotNext
             \/ part = "aenc" /\ AencNext
             \/ part = "aencring" /\ RbNext
             \/ part = "replay" /\ ReplayNext
          /\ Keeps("ring", vars)
          /\ Keeps("pool", poolVars)
          /\ Keeps("ptz", ptzVars)
          /\ Keeps("ipc", srvVars)
          /\ Keeps("daemon", daemonVars)
          /\ Keeps("hotplug", hotVars)
          /\ Keeps("aenc", aencVars)
          /\ Keeps("aencring", rbVars)
          /\ Keeps("replay", replayVars)

PtzFair == /\ \A m \in Motor : /\ WF_ptzVars(part = "ptz" /\ ThreadStep(m))
                               /\ WF_ptzVars(part = "ptz" /\ DriverMoves(m))
           /\ WF_ptzVars(part = "ptz" /\ (CheckStep \/ CallStep))
IpcFair == /\ WF_srvVars(part = "ipc" /\ HandleStep)
           /\ \A a \in Asker : WF_srvVars(part = "ipc" /\ ClientStep(a))
DaemonFair == /\ WF_daemonVars(part = "daemon" /\ MonitorStep)
              /\ WF_daemonVars(part = "daemon" /\ FifoOpens)
              /\ WF_daemonVars(part = "daemon" /\ AppBeats)
              /\ WF_daemonVars(part = "daemon" /\ AppExits)
              /\ WF_daemonVars(part = "daemon" /\ AppBoots)
              /\ WF_daemonVars(part = "daemon" /\ Reboot)

ReplayFair == /\ WF_replayVars(part = "replay" /\ ReplayStep)
              /\ WF_replayVars(part = "replay" /\ CallerStep)

(* The type invariants of the parts, and what holds of the bookkeeping of  *)
(* each: the offsets of the ring buffer fit its count, a pool that refuses *)
(* twice is full, a motor that says it is idle stands, a command's answer  *)
(* is of what was registered while its asker waited.                       *)
PartsAreSound == /\ TypeOK /\ OffsetsAgree
                 /\ PoolTypeOK /\ RefusedTwiceIsFull
                 /\ PtzTypeOK /\ IdleIsStill
                 /\ IpcTypeOK /\ AnswerFits
                 /\ DaemonTypeOK /\ AencTypeOK /\ RbTypeOK
                 /\ ReplayTypeOK

(* At boot the application starts: in the other parts nobody starts it.    *)
AppReturns == part = "daemon" => AppComesBack

MCSpec == MCInit /\ [][MCNext]_all /\ PtzFair /\ IpcFair /\ DaemonFair /\ ReplayFair
=============================================================================
