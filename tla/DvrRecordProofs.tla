-------------------------- MODULE DvrRecordProofs --------------------------
(***************************************************************************)
(* What holds of DvrRecord for every queue and every length of recording.  *)
(*                                                                         *)
(* Under every fault: record_mutex is held only inside ak_dvr_record_stop  *)
(* (the second early return of that function forgets to unlock; that it is *)
(* never taken is due to the order in which start and stop write           *)
(* trigger_type and record_flag, two fields no lock protects); an idle     *)
(* recorder has given its stream back; every variable keeps its type.      *)
(*                                                                         *)
(* Unless the system's calls fail or the alarm is disarmed (Steady): the   *)
(* queue and the mux handle have one user at a time, though main may lag,  *)
(* the queue fill up and the recorder stop itself, and a stop come before  *)
(* main has begun.  TakingInv says which thread is at work, UseInv that    *)
(* main's entry is the head of the queue and its handle open.              *)
(*                                                                         *)
(* Unless, besides, the mux refuses a frame, the queue fills up or a stop  *)
(* is hasty (Calm), every file is right, though video may be late with its *)
(* mark of the frame to cut at, main fall behind by groups, and an entry   *)
(* be used again before the filter has read it.  The invariants build on   *)
(* one another: HandInv (a stop waits for the main thread), QueueInv (the  *)
(* queue is a run of frames), HandleInv (the handle is open where it is    *)
(* used), SegmentInv (a segment is a run of frames from an I frame on),    *)
(* CutIsAhead (a frame that is due has a mark at it or behind it) and      *)
(* MarkInv (until a mark is late or main a group behind, the frame a       *)
(* segment must end at is marked by the time main comes to it).            *)
(***************************************************************************)
EXTENDS DvrRecord, FiniteSetTheorems, SequenceTheorems, WellFoundedInduction, TLAPS

(* Where ak_dvr_record_stop holds record_mutex ...                         *)
Holding == StopLabel \ {"stop"}

(* ... where it has found that there is something to stop ...              *)
Stopping == Holding \ {"stop_check", "stop_flag"}

(* ... and where ak_dvr_record_start has taken the trigger, not the flag.  *)
Starting == {"start", "start_work", "start_flag"}

(* The part of the type invariant the argument needs.                      *)
LockTypeOK == /\ record_mutex \in Stopper \union {Free}
              /\ mode \in {"plan", "alarm"}
              /\ pc = [t \in Thread |-> pc[t]]

(* The owner of record_mutex is the one thread that holds it.              *)
OwnerHolds == \A t \in Stopper : record_mutex = t <=> pc[t] \in Holding

(* Who stops has the flag and the trigger, and nobody starts meanwhile.    *)
StopperHasBoth ==
  \A t \in Stopper : pc[t] \in Stopping =>
    record_flag /\ trigger_type # "reserved" /\ pc["ctl"] \notin Starting

(* Who starts has the trigger; a flag still up is about to come down.      *)
StarterHasTrigger ==
  pc["ctl"] \in Starting =>
    trigger_type # "reserved" /\ (record_flag => At("video", "stop_flag"))

(* A flag with no trigger is about to come down.                           *)
FlagHasTrigger ==
  record_flag => \/ trigger_type # "reserved"
                 \/ \E t \in Stopper : At(t, "stop_flag")

LockInv == /\ LockTypeOK
           /\ OwnerHolds
           /\ StopperHasBoth
           /\ StarterHasTrigger
           /\ FlagHasTrigger

(* A step that touches neither lock nor flag nor trigger, and moves at     *)
(* most one thread between places that are all alike for the invariant.    *)
Apart == StopLabel \union Starting

Strolls(t) == /\ UNCHANGED <<record_mutex, record_flag, trigger_type>>
              /\ mode' \in {"plan", "alarm"}
              /\ \/ pc' = pc
                 \/ \E to : /\ pc[t] \notin Apart \ {"stop"}
                            /\ to \notin Apart \ {"stop"}
                            /\ Goto(t, to)

(* A step inside ak_dvr_record_stop between two places past its check.     *)
StopsOn(t) == /\ UNCHANGED <<record_mutex, record_flag, trigger_type, mode>>
              /\ pc[t] \in Stopping /\ \E to \in Stopping : Goto(t, to)

(* What Goto does to the places of the threads.                            *)
LEMMA GotoMoves ==
  ASSUME LockTypeOK, NEW t \in Thread, NEW to, Goto(t, to)
  PROVE  /\ pc' = [u \in Thread |-> pc'[u]]
         /\ pc'[t] = to
         /\ \A u \in Thread \ {t} : pc'[u] = pc[u]
<1>1. pc = [u \in Thread |-> pc[u]] /\ pc' = [pc EXCEPT ![t] = to]
  BY DEF LockTypeOK, Goto
<1> HIDE DEF Thread
<1> QED BY <1>1

(* The kinds of places do not overlap.                                     *)
LEMMA Places ==
  /\ Stopping \subseteq Holding
  /\ Holding \subseteq Apart \ {"stop"}
  /\ Starting \subseteq Apart \ {"stop"}
  /\ Starting \intersect Holding = {}
  /\ "stop_flag" \in Holding \ Stopping
<1> USE DEF Holding, Stopping, Starting, Apart
<1>1. Starting \intersect StopLabel = {}
  BY DEF StopLabel
<1>2. "stop_flag" \in StopLabel /\ "stop_flag" # "stop"
  BY DEF StopLabel
<1>4. "stop" \notin Starting
  OBVIOUS
<1>5. Stopping \subseteq Holding
  OBVIOUS
<1>6. Holding \subseteq Apart \ {"stop"}
  OBVIOUS
<1>7. Starting \subseteq Apart \ {"stop"}
  BY <1>4
<1>8. Starting \intersect Holding = {}
  BY <1>1
<1>9. "stop_flag" \in Holding \ Stopping
  BY <1>2
<1> QED BY <1>5, <1>6, <1>7, <1>8, <1>9

(* A stroll keeps the invariant.                                           *)
LEMMA StrollKeeps ==
  ASSUME LockInv, NEW t \in Thread, Strolls(t)
  PROVE  LockInv'
<1> USE DEF LockInv, OwnerHolds, StopperHasBoth, StarterHasTrigger, FlagHasTrigger,
            At, Stopper, Thread
<1>1. CASE pc' = pc
  BY <1>1 DEF Strolls, LockTypeOK
<1>2. CASE pc' # pc
  <2>1. PICK to : /\ pc[t] \notin Apart \ {"stop"}
                  /\ to \notin Apart \ {"stop"}
                  /\ Goto(t, to)
    BY <1>2 DEF Strolls
  <2>2. /\ pc' = [u \in Thread |-> pc'[u]]
        /\ pc'[t] = to
        /\ \A u \in Thread \ {t} : pc'[u] = pc[u]
    BY <2>1, GotoMoves
  <2>3. /\ to \notin Holding \union Stopping \union Starting \union {"stop_flag"}
        /\ pc[t] \notin Holding \union Stopping \union Starting \union {"stop_flag"}
    BY <2>1, Places
  <2>4. LockTypeOK'
    BY <2>2 DEF LockTypeOK, Strolls
  <2>5. \A u \in Thread : /\ pc'[u] \in Holding <=> pc[u] \in Holding
                          /\ pc'[u] \in Stopping <=> pc[u] \in Stopping
                          /\ pc'[u] \in Starting <=> pc[u] \in Starting
                          /\ pc'[u] = "stop_flag" <=> pc[u] = "stop_flag"
    BY <2>2, <2>3
  <2>6. UNCHANGED <<record_mutex, record_flag, trigger_type>>
    BY DEF Strolls
  <2> QED BY <2>4, <2>5, <2>6
<1> QED BY <1>1, <1>2 DEF Strolls

(* Going on inside a stop keeps the invariant.                             *)
LEMMA StopOnKeeps ==
  ASSUME LockInv, NEW t \in Stopper, StopsOn(t)
  PROVE  LockInv'
<1> USE DEF LockInv, OwnerHolds, StopperHasBoth, StarterHasTrigger, FlagHasTrigger,
            At, Stopper, Thread
<1>1. PICK to \in Stopping : pc[t] \in Stopping /\ Goto(t, to)
  BY DEF StopsOn
<1>2. /\ pc' = [u \in Thread |-> pc'[u]]
      /\ pc'[t] = to
      /\ \A u \in Thread \ {t} : pc'[u] = pc[u]
  BY <1>1, GotoMoves, Places
<1>3. LockTypeOK'
  BY <1>2 DEF LockTypeOK, StopsOn
<1>4. \A u \in Thread : /\ pc'[u] \in Holding <=> pc[u] \in Holding
                        /\ pc'[u] \in Stopping <=> pc[u] \in Stopping
                        /\ pc'[u] \in Starting <=> pc[u] \in Starting
                        /\ pc'[u] = "stop_flag" <=> pc[u] = "stop_flag"
  BY <1>1, <1>2, Places
<1>5. UNCHANGED <<record_mutex, record_flag, trigger_type>>
  BY DEF StopsOn
<1> QED BY <1>3, <1>4, <1>5

(* The places outside start and stop.                                      *)
LEMMA PlacesApart ==
  /\ MainLabel \intersect Apart = {}
  /\ {"sleep", "loop", "got", "mark", "stamp", "over", "stop", "ready",
      "off_cancel", "off_release", "off_end"} \intersect (Apart \ {"stop"}) = {}
BY DEF MainLabel, Apart, StopLabel, Starting

(* The main thread's steps are strolls.                                    *)
LEMMA MainStrolls == ASSUME LockInv, Main PROVE Strolls("main")
<1>1. SUFFICES /\ UNCHANGED <<record_mutex, record_flag, trigger_type, mode>>
               /\ \/ pc' = pc
                  \/ pc["main"] \in MainLabel /\ \E to \in MainLabel : Goto("main", to)
  BY <1>1, PlacesApart DEF Strolls, LockInv, LockTypeOK
<1> USE DEF At, control, stream, others, triggers, locks, app, MainLabel
<1>2. CASE MainWakes         BY <1>2 DEF MainWakes
<1>3. CASE MainSwitches      BY <1>3 DEF MainSwitches
<1>4. CASE MainEnters        BY <1>4 DEF MainEnters
<1>5. CASE MainSyncs \/ MainLoops BY <1>5 DEF MainSyncs, MainLoops
<1>6. CASE sync_video_data   BY <1>6 DEF sync_video_data
<1>7. CASE sync_drops        BY <1>7 DEF sync_drops
<1>8. CASE mux_video_data    BY <1>8 DEF mux_video_data
<1>9. CASE MainAdds          BY <1>9 DEF MainAdds
<1>10. CASE add_video_to_mux BY <1>10 DEF add_video_to_mux
<1>11. CASE MainFreesMuxed   BY <1>11 DEF MainFreesMuxed
<1>12. CASE MainLeaves       BY <1>12 DEF MainLeaves
<1>13. CASE video_record_filter BY <1>13 DEF video_record_filter
<1>14. CASE filter_video_data   BY <1>14 DEF filter_video_data
<1>15. CASE drop_extra_frames   BY <1>15 DEF drop_extra_frames
<1>16. CASE FilterFrees         BY <1>16 DEF FilterFrees
<1> QED
  BY <1>2, <1>3, <1>4, <1>5, <1>6, <1>7, <1>8, <1>9, <1>10, <1>11, <1>12, <1>13,
     <1>14, <1>15, <1>16 DEF Main

(* So are the video thread's, up to the call of ak_dvr_record_stop.        *)
LEMMA VideoStrolls == ASSUME LockInv, Video PROVE Strolls("video")
<1> DEFINE Label == {"sleep", "loop", "got", "mark", "stamp", "over", "stop"}
<1>1. SUFFICES /\ UNCHANGED <<record_mutex, record_flag, trigger_type, mode>>
               /\ pc["video"] \in Label /\ \E to \in Label : Goto("video", to)
  BY <1>1, PlacesApart DEF Strolls, LockInv, LockTypeOK
<1> USE DEF At, control, stream, others, triggers, locks, app
<1>2. CASE VideoWakes        BY <1>2 DEF VideoWakes
<1>3. CASE VideoLoops        BY <1>3 DEF VideoLoops
<1>4. CASE get_video_stream
  <2>1. pc["video"] = "got" /\ (Goto("video", "over") \/ Goto("video", "mark"))
    BY <1>4 DEF get_video_stream
  <2> QED BY <1>4, <2>1 DEF get_video_stream
<1>5. CASE GetFails          BY <1>5 DEF GetFails
<1>6. CASE mark_seq_num_end  BY <1>6 DEF mark_seq_num_end
<1>7. CASE stamp_unixts_end  BY <1>7 DEF stamp_unixts_end
<1>8. CASE VideoChecksSize   BY <1>8 DEF VideoChecksSize
<1> QED BY <1>2, <1>3, <1>4, <1>5, <1>6, <1>7, <1>8 DEF Video

(* The calls of record_ctrl, ak_dvr_record_start apart.                    *)
LEMMA CtlStrolls ==
  ASSUME LockInv,
         CtlStops \/ CtlForgets \/ TurnOn \/ TurnOff \/ OffCancels \/ OffReleases \/ OffEnds
  PROVE  Strolls("ctl")
<1> DEFINE Label == {"ready", "stop", "off_cancel", "off_release", "off_end"}
<1>1. SUFFICES /\ UNCHANGED <<record_mutex, record_flag, trigger_type>>
               /\ mode' \in {"plan", "alarm"}
               /\ \/ pc' = pc
                  \/ pc["ctl"] \in Label /\ \E to \in Label : Goto("ctl", to)
  BY <1>1, PlacesApart DEF Strolls, LockInv, LockTypeOK
<1> USE DEF At, control, stream, others, triggers, locks, app, LockInv, LockTypeOK
<1>2. CASE CtlStops          BY <1>2 DEF CtlStops
<1>3. CASE CtlForgets        BY <1>3 DEF CtlForgets
<1>4. CASE TurnOn            BY <1>4 DEF TurnOn
<1>5. CASE TurnOff           BY <1>5 DEF TurnOff
<1>6. CASE OffCancels        BY <1>6 DEF OffCancels
<1>7. CASE OffReleases       BY <1>7 DEF OffReleases
<1>8. CASE OffEnds           BY <1>8 DEF OffEnds
<1> QED BY <1>2, <1>3, <1>4, <1>5, <1>6, <1>7, <1>8

(* What ak_dvr_record_stop does between its check and its last two writes. *)
LEMMA StopGoesOn ==
  ASSUME LockInv, NEW t \in Stopper,
         \/ StopCancels(t) \/ StopReadsStatus(t) \/ StopPauses(t) \/ StopWaits(t)
         \/ StopIsOver(t) \/ StopGenerates(t) \/ StopReleases(t) \/ StopIdles(t)
         \/ StopRearms(t)
  PROVE  StopsOn(t)
<1> DEFINE Label == {"stop_cancel", "stop_status", "stop_pause", "stop_wait", "stop_over",
                     "stop_file", "stop_release", "stop_idle", "stop_rearm", "stop_end"}
<1>0. Label \subseteq Stopping
  BY DEF Stopping, Holding, StopLabel
<1>1. SUFFICES /\ UNCHANGED <<record_mutex, record_flag, trigger_type, mode>>
               /\ pc[t] \in Label /\ \E to \in Label : Goto(t, to)
  <2> HIDE DEF Label
  <2> QED BY <1>0, <1>1 DEF StopsOn
<1> USE DEF At, control, stream, others, triggers, locks, app
<1>2. CASE StopCancels(t)     BY <1>2 DEF StopCancels
<1>3. CASE StopReadsStatus(t) BY <1>3 DEF StopReadsStatus
<1>4. CASE StopPauses(t)      BY <1>4 DEF StopPauses
<1>5. CASE StopWaits(t)       BY <1>5 DEF StopWaits
<1>6. CASE StopIsOver(t)      BY <1>6 DEF StopIsOver
<1>7. CASE StopGenerates(t)   BY <1>7 DEF StopGenerates
<1>8. CASE StopReleases(t)    BY <1>8 DEF StopReleases
<1>9. CASE StopIdles(t)       BY <1>9 DEF StopIdles
<1>10. CASE StopRearms(t)     BY <1>10 DEF StopRearms
<1> QED BY <1>2, <1>3, <1>4, <1>5, <1>6, <1>7, <1>8, <1>9, <1>10

(* A step of a stop that is not such a stroll: it takes the lock, ...      *)
LEMMA StopLocksKeeps == ASSUME LockInv, NEW t \in Stopper, StopLocks(t) PROVE LockInv'
<1> USE DEF LockInv, OwnerHolds, StopperHasBoth, StarterHasTrigger, FlagHasTrigger, At
<1>1. /\ pc[t] = "stop" /\ Goto(t, "stop_check")
      /\ record_mutex = Free /\ record_mutex' = t
      /\ UNCHANGED <<record_flag, trigger_type, mode>>
  BY DEF StopLocks, control, triggers, app
<1>2. /\ pc' = [u \in Thread |-> pc'[u]]
      /\ pc'[t] = "stop_check"
      /\ \A u \in Thread \ {t} : pc'[u] = pc[u]
  BY <1>1, GotoMoves DEF Stopper, Thread
<1>3. /\ "stop_check" \in Holding
      /\ "stop_check" \notin Stopping \union Starting
      /\ "stop" \notin Holding \union Stopping \union Starting
  BY DEF Holding, Stopping, Starting, StopLabel
<1>4. LockTypeOK'
  BY <1>1, <1>2 DEF LockTypeOK
<1>5. OwnerHolds'
  BY <1>1, <1>2, <1>3 DEF Stopper, Thread, Free
<1>6. (StopperHasBoth /\ StarterHasTrigger)'
  BY <1>1, <1>2, <1>3 DEF Stopper, Thread
<1>7. FlagHasTrigger'
  BY <1>1, <1>2 DEF Stopper, Thread
<1> QED BY <1>4, <1>5, <1>6, <1>7

(* ... looks whether there is anything to stop, and never finds the flag   *)
(* up without a trigger, ...                                               *)
LEMMA StopChecksKeeps == ASSUME LockInv, NEW t \in Stopper, StopChecks(t) PROVE LockInv'
<1> USE DEF LockInv, OwnerHolds, StopperHasBoth, StarterHasTrigger, FlagHasTrigger, At
<1>0. /\ "stop_check" \in Holding
      /\ "stop_check" \notin Stopping \union Starting
      /\ {"stop_cancel", "stop_status"} \subseteq Stopping
      /\ Stopping \subseteq Holding /\ Stopping \intersect Starting = {}
      /\ "stop_flag" \in Holding
      /\ Returned(t) \notin Holding \union Stopping \union Starting
      /\ Returned(t) # "stop_flag" /\ "stop_flag" \notin Stopping
  BY DEF Holding, Stopping, Starting, StopLabel, Returned
<1>1. /\ pc[t] = "stop_check" /\ record_mutex = t
      /\ UNCHANGED <<record_flag, trigger_type, mode>>
  BY <1>0 DEF StopChecks, control, triggers, app
<1>2. \A u \in Stopper \ {t} : pc[u] \notin Holding
  BY <1>1
<1>3. record_flag => trigger_type # "reserved" /\ pc["ctl"] \notin Starting
  BY <1>0, <1>1, <1>2 DEF Stopper
<1>4. CASE ~record_flag /\ record_mutex' = Free /\ Goto(t, Returned(t))
  <2>1. /\ pc' = [u \in Thread |-> pc'[u]]
        /\ pc'[t] = Returned(t)
        /\ \A u \in Thread \ {t} : pc'[u] = pc[u]
    BY <1>4, GotoMoves DEF Stopper, Thread
  <2>2. LockTypeOK' /\ OwnerHolds'
    BY <1>0, <1>1, <1>2, <1>4, <2>1 DEF LockTypeOK, Stopper, Thread, Free
  <2>3. StopperHasBoth' /\ StarterHasTrigger' /\ FlagHasTrigger'
    BY <1>0, <1>1, <1>2, <1>4, <2>1 DEF Stopper, Thread
  <2> QED BY <2>2, <2>3
<1>5. CASE /\ record_flag /\ record_mutex' = record_mutex
           /\ Goto(t, "stop_cancel") \/ Goto(t, "stop_status")
  <2>1. PICK to \in {"stop_cancel", "stop_status"} : Goto(t, to)
    BY <1>5
  <2>2. /\ pc' = [u \in Thread |-> pc'[u]]
        /\ pc'[t] = to
        /\ \A u \in Thread \ {t} : pc'[u] = pc[u]
    BY <2>1, GotoMoves DEF Stopper, Thread
  <2>3. to \in Holding /\ to \in Stopping /\ to \notin Starting
    BY <1>0
  <2>4. LockTypeOK' /\ OwnerHolds'
    BY <1>0, <1>1, <1>5, <2>2, <2>3 DEF LockTypeOK, Stopper, Thread
  <2>5. StopperHasBoth' /\ StarterHasTrigger' /\ FlagHasTrigger'
    BY <1>0, <1>1, <1>2, <1>3, <1>5, <2>2, <2>3 DEF Stopper, Thread
  <2> QED BY <2>4, <2>5
<1> QED BY <1>3, <1>4, <1>5 DEF StopChecks

(* ... gives the trigger back before the flag, ...                         *)
LEMMA StopEndsKeeps == ASSUME LockInv, NEW t \in Stopper, StopEnds(t) PROVE LockInv'
<1> USE DEF LockInv, OwnerHolds, StopperHasBoth, StarterHasTrigger, FlagHasTrigger, At
<1>0. /\ "stop_end" \in Stopping /\ "stop_flag" \in Holding \ Stopping
      /\ Stopping \subseteq Holding /\ "stop_flag" \notin Starting
      /\ "stop_end" \notin Starting
  BY DEF Holding, Stopping, Starting, StopLabel
<1>1. /\ pc[t] = "stop_end" /\ Goto(t, "stop_flag")
      /\ trigger_type' = "reserved"
      /\ UNCHANGED <<record_mutex, record_flag, mode>>
  BY DEF StopEnds, others, locks, app
<1>2. /\ pc' = [u \in Thread |-> pc'[u]]
      /\ pc'[t] = "stop_flag"
      /\ \A u \in Thread \ {t} : pc'[u] = pc[u]
  BY <1>1, GotoMoves DEF Stopper, Thread
<1>3. record_mutex = t /\ pc["ctl"] \notin Starting
  BY <1>0, <1>1
<1>4. LockTypeOK' /\ OwnerHolds'
  BY <1>0, <1>1, <1>2, <1>3 DEF LockTypeOK, Stopper, Thread
<1>5. StopperHasBoth' /\ StarterHasTrigger' /\ FlagHasTrigger'
  BY <1>0, <1>1, <1>2, <1>3 DEF Stopper, Thread
<1> QED BY <1>4, <1>5

(* ... and lets the lock go with the flag.                                 *)
LEMMA StopUnlocksKeeps ==
  ASSUME LockInv, NEW t \in Stopper, StopUnlocks(t) PROVE LockInv'
<1> USE DEF LockInv, OwnerHolds, StopperHasBoth, StarterHasTrigger, FlagHasTrigger, At
<1>0. /\ "stop_flag" \in Holding \ Stopping /\ "stop_flag" \notin Starting
      /\ Stopping \subseteq Holding
      /\ Returned(t) \notin Holding \union Stopping \union Starting
  BY DEF Holding, Stopping, Starting, StopLabel, Returned
<1>1. /\ pc[t] = "stop_flag" /\ Goto(t, Returned(t))
      /\ record_mutex' = Free /\ ~record_flag'
      /\ UNCHANGED <<trigger_type, mode>>
  BY DEF StopUnlocks, ClearFlag
<1>2. /\ pc' = [u \in Thread |-> pc'[u]]
      /\ pc'[t] = Returned(t)
      /\ \A u \in Thread \ {t} : pc'[u] = pc[u]
  BY <1>1, GotoMoves DEF Stopper, Thread
<1>3. record_mutex = t
  BY <1>0, <1>1
<1>4. LockTypeOK' /\ OwnerHolds'
  BY <1>0, <1>1, <1>2, <1>3 DEF LockTypeOK, Stopper, Thread, Free
<1>5. StopperHasBoth' /\ StarterHasTrigger' /\ FlagHasTrigger'
  BY <1>0, <1>1, <1>2, <1>3 DEF Stopper, Thread
<1> QED BY <1>4, <1>5

(* ak_dvr_record_start: the trigger first, the flag last.                  *)
LEMMA StartKeeps ==
  ASSUME LockInv, StartBegins \/ StartChecks \/ StartWorks \/ StartFlags
  PROVE  LockInv'
<1> USE DEF LockInv, OwnerHolds, StopperHasBoth, StarterHasTrigger, FlagHasTrigger, At
<1>0. /\ {"start", "start_work", "start_flag"} = Starting
      /\ "ready" \notin Holding \union Stopping \union Starting
      /\ Starting \intersect (Holding \union Stopping) = {}
      /\ "stop_flag" \notin Starting /\ "stop_flag" \in Holding
      /\ Stopping \subseteq Holding /\ "stop_flag" \notin Stopping
  BY DEF Holding, Stopping, Starting, StopLabel
<1>1. CASE StartBegins
  <2>1. CASE trigger_type # "reserved"
    BY <1>1, <2>1 DEF StartBegins, LockTypeOK, locks, Stopper, Thread
  <2>2. CASE trigger_type = "reserved"
    <3>1. /\ pc["ctl"] = "ready" /\ Goto("ctl", "start")
          /\ trigger_type' # "reserved"
          /\ UNCHANGED <<record_mutex, record_flag, mode>>
      BY <1>1, <2>2 DEF StartBegins, locks, LockTypeOK
    <3>2. /\ pc' = [u \in Thread |-> pc'[u]]
          /\ pc'["ctl"] = "start"
          /\ \A u \in Thread \ {"ctl"} : pc'[u] = pc[u]
      BY <3>1, GotoMoves DEF Thread
    <3>3. LockTypeOK' /\ OwnerHolds'
      BY <1>0, <3>1, <3>2 DEF LockTypeOK, Stopper, Thread
    <3>4. record_flag => pc["video"] = "stop_flag"
      BY <2>2, <3>1 DEF Stopper
    <3>5. StopperHasBoth' /\ StarterHasTrigger' /\ FlagHasTrigger'
      BY <1>0, <2>2, <3>1, <3>2, <3>4 DEF Stopper, Thread
    <3> QED BY <3>3, <3>5
  <2> QED BY <2>1, <2>2
<1>2. CASE StartChecks \/ StartWorks
  <2>1. UNCHANGED <<record_mutex, record_flag, trigger_type, mode>>
    BY <1>2 DEF StartChecks, StartWorks, control, triggers, others, locks, app
  <2>2. /\ pc["ctl"] \in {"start", "start_work", "start_flag"}
        /\ Goto("ctl", "start_work") \/ Goto("ctl", "start_flag")
    BY <1>2 DEF StartChecks, StartWorks
  <2>3. PICK to \in Starting : Goto("ctl", to)
    BY <2>2 DEF Starting
  <2>4. /\ pc' = [u \in Thread |-> pc'[u]]
        /\ pc'["ctl"] = to
        /\ \A u \in Thread \ {"ctl"} : pc'[u] = pc[u]
    BY <2>3, GotoMoves DEF Thread
  <2>5. LockTypeOK' /\ OwnerHolds'
    BY <1>0, <2>1, <2>2, <2>4 DEF LockTypeOK, Stopper, Thread
  <2>6. StopperHasBoth' /\ StarterHasTrigger' /\ FlagHasTrigger'
    BY <1>0, <2>1, <2>2, <2>4 DEF Stopper, Thread
  <2> QED BY <2>5, <2>6
<1>3. CASE StartFlags
  <2>1. /\ pc["ctl"] = "start_flag" /\ Goto("ctl", "ready")
        /\ record_mutex = Free /\ record_mutex' = Free
        /\ UNCHANGED <<trigger_type, mode>>
    BY <1>3 DEF StartFlags, others, locks, app
  <2>2. /\ pc' = [u \in Thread |-> pc'[u]]
        /\ pc'["ctl"] = "ready"
        /\ \A u \in Thread \ {"ctl"} : pc'[u] = pc[u]
    BY <2>1, GotoMoves DEF Thread
  <2>3. LockTypeOK' /\ OwnerHolds'
    BY <1>0, <2>1, <2>2 DEF LockTypeOK, Stopper, Thread
  <2>4. \A t \in Stopper : pc[t] \notin Holding
    BY <2>1 DEF Stopper, Free
  <2>5. trigger_type # "reserved"
    BY <1>0, <2>1
  <2>6. StopperHasBoth' /\ StarterHasTrigger' /\ FlagHasTrigger'
    BY <1>0, <2>1, <2>2, <2>4, <2>5 DEF Stopper, Thread
  <2> QED BY <2>3, <2>6
<1> QED BY <1>1, <1>2, <1>3

(* The lock's invariant: only a thread inside ak_dvr_record_stop has       *)
(* record_mutex, and flag and trigger type agree wherever it looks.        *)
THEOREM LockInvAlways == Spec => []LockInv
<1>1. Init => LockInv
  BY DEF Init, LockInv, LockTypeOK, OwnerHolds, StopperHasBoth, StarterHasTrigger,
     FlagHasTrigger, At, Holding, Stopping, Starting, StopLabel, Stopper, Thread, Free
<1>2. LockInv /\ [Next]_vars => LockInv'
  <2> SUFFICES ASSUME LockInv, [Next]_vars PROVE LockInv'
    OBVIOUS
  <2>1. CASE Video
    BY <2>1, VideoStrolls, StrollKeeps DEF Thread
  <2>2. CASE Main
    BY <2>2, MainStrolls, StrollKeeps DEF Thread
  <2>3. CASE \E t \in Stopper : ak_dvr_record_stop(t)
    <3>1. PICK t \in Stopper : ak_dvr_record_stop(t)
      BY <2>3
    <3>2. CASE StopLocks(t)
      BY <3>2, StopLocksKeeps
    <3>3. CASE StopChecks(t)
      BY <3>3, StopChecksKeeps
    <3>4. CASE StopEnds(t)
      BY <3>4, StopEndsKeeps
    <3>5. CASE StopUnlocks(t)
      BY <3>5, StopUnlocksKeeps
    <3> QED
      BY <3>1, <3>2, <3>3, <3>4, <3>5, StopGoesOn, StopOnKeeps DEF ak_dvr_record_stop
  <2>4. CASE Ctl
    <3>1. CASE StartBegins \/ StartChecks \/ StartWorks \/ StartFlags
      BY <3>1, StartKeeps
    <3>2. CASE \/ CtlStops \/ CtlForgets \/ TurnOn \/ TurnOff
               \/ OffCancels \/ OffReleases \/ OffEnds
      BY <3>2, CtlStrolls, StrollKeeps DEF Thread
    <3> QED BY <2>4, <3>1, <3>2 DEF Ctl
  <2>5. CASE EncoderRunsOn \/ UNCHANGED vars
    <3>1. Strolls("main")
      BY <2>5 DEF EncoderRunsOn, vars, control, triggers, others, locks, app, Strolls,
         LockInv, LockTypeOK
    <3> QED BY <3>1, StrollKeeps DEF Thread
  <2> QED BY <2>1, <2>2, <2>3, <2>4, <2>5 DEF Next
<1> QED BY <1>1, <1>2, PTL DEF Spec

(* record_mutex is never left locked by a stop that has returned: the      *)
(* early return that forgets to unlock it is not taken.                    *)
THEOREM RecordMutexNotLeakedAlways == Spec => []RecordMutexNotLeaked
<1>1. LockInv => RecordMutexNotLeaked
  BY DEF LockInv, LockTypeOK, OwnerHolds, RecordMutexNotLeaked, Holding
<1> QED BY <1>1, LockInvAlways, PTL

-----------------------------------------------------------------------------
(* The stream: who gives it back.                                          *)

(* Where turning the trigger off has begun.                                *)
Off == {"off_cancel", "off_release", "off_end"}

(* Somebody starts, or a recording that was started is not over.           *)
Busy == trigger_type # "reserved" \/ record_flag \/ pc["ctl"] \in Starting

(* record_ctrl knows of a recording that it has not begun to stop.         *)
BusyIsNoted == Busy => started \/ pc["ctl"] \in StopLabel

(* A recorder that has stopped itself has nothing left to stop.            *)
StoppedIsIdle == rec_stopped => ~Busy

(* ak_dvr_record_stop takes the trigger down before the flag.              *)
FlagGoesLast == \A t \in Stopper : At(t, "stop_flag") =>
    record_flag /\ trigger_type = "reserved" /\ pc["ctl"] \notin Starting

(* A trigger that is set has its flag, or a start is about to set it.      *)
TriggerHasFlag == trigger_type # "reserved" => record_flag \/ pc["ctl"] \in Starting

(* Alarms are disarmed only with nothing started.                          *)
OffIsIdle == pc["ctl"] \in Off => ~started

(* Only a recorder that does not pre-record releases its frames.           *)
IframesKept ==
  \A t \in Stopper : pc[t] \in {"stop_release", "stop_idle"} => trigger_iframe = 0

(* Who stops without pre-recording has given the stream back, and so has   *)
(* an idle recorder, except between the two writes of a start.             *)
HandleForgotten ==
  /\ \A t \in Stopper : pc[t] \in Stopping \ {"stop_cancel"} /\ trigger_iframe = 0 => ~req_handle
  /\ At("ctl", "off_release") => ~req_handle
  /\ status = "idle" /\ ~At("ctl", "start_work") => ~req_handle

StreamInv == /\ BusyIsNoted /\ StoppedIsIdle /\ FlagGoesLast /\ TriggerHasFlag
             /\ OffIsIdle /\ IframesKept /\ HandleForgotten

(* The main thread touches none of the fields the invariant is about.      *)
LEMMA StreamInvMain ==
  ASSUME LockInv, StreamInv, Main PROVE StreamInv'
<1>1. /\ UNCHANGED <<trigger_type, record_flag, started, rec_stopped, trigger_iframe,
                     req_handle>>
      /\ pc'["ctl"] = pc["ctl"] /\ pc'["video"] = pc["video"]
      /\ status' = status \/ status' # "idle"
  <2> USE DEF LockInv, LockTypeOK, Goto, Thread, control, stream, others, triggers,
              app
  <2>1. CASE MainWakes         BY <2>1 DEF MainWakes
  <2>2. CASE MainSwitches      BY <2>2 DEF MainSwitches
  <2>3. CASE MainEnters        BY <2>3 DEF MainEnters
  <2>4. CASE MainSyncs \/ MainLoops BY <2>4 DEF MainSyncs, MainLoops
  <2>5. CASE sync_video_data   BY <2>5 DEF sync_video_data
  <2>6. CASE sync_drops        BY <2>6 DEF sync_drops
  <2>7. CASE mux_video_data    BY <2>7 DEF mux_video_data
  <2>8. CASE MainAdds          BY <2>8 DEF MainAdds
  <2>9. CASE add_video_to_mux  BY <2>9 DEF add_video_to_mux
  <2>10. CASE MainFreesMuxed   BY <2>10 DEF MainFreesMuxed
  <2>11. CASE MainLeaves       BY <2>11 DEF MainLeaves
  <2>12. CASE video_record_filter BY <2>12 DEF video_record_filter
  <2>13. CASE filter_video_data   BY <2>13 DEF filter_video_data
  <2>14. CASE drop_extra_frames   BY <2>14 DEF drop_extra_frames
  <2>15. CASE FilterFrees         BY <2>15 DEF FilterFrees
  <2> QED
    BY <2>1, <2>2, <2>3, <2>4, <2>5, <2>6, <2>7, <2>8, <2>9, <2>10, <2>11, <2>12,
       <2>13, <2>14, <2>15 DEF Main
<1> QED
  BY <1>1 DEF StreamInv, Busy, BusyIsNoted, StoppedIsIdle, FlagGoesLast,
     TriggerHasFlag,
     OffIsIdle, IframesKept, HandleForgotten, At, Stopper

(* Nor does the video thread, until it stops the recording itself.         *)
LEMMA StreamInvVideo ==
  ASSUME LockInv, StreamInv, Video PROVE StreamInv'
<1>1. /\ UNCHANGED <<trigger_type, record_flag, started, rec_stopped, trigger_iframe,
                     req_handle, status>>
      /\ pc'["ctl"] = pc["ctl"]
      /\ pc'["video"] \notin Holding
  <2> USE DEF LockInv, LockTypeOK, Goto, Thread, control, stream, others, triggers,
              app,
              Holding, StopLabel
  <2>1. CASE VideoWakes        BY <2>1 DEF VideoWakes
  <2>2. CASE VideoLoops        BY <2>2 DEF VideoLoops
  <2>3. CASE get_video_stream  BY <2>3 DEF get_video_stream
  <2>4. CASE GetFails          BY <2>4 DEF GetFails
  <2>5. CASE mark_seq_num_end  BY <2>5 DEF mark_seq_num_end
  <2>6. CASE stamp_unixts_end  BY <2>6 DEF stamp_unixts_end
  <2>7. CASE VideoChecksSize   BY <2>7 DEF VideoChecksSize
  <2> QED BY <2>1, <2>2, <2>3, <2>4, <2>5, <2>6, <2>7 DEF Video
<1> QED
  BY <1>1 DEF StreamInv, Busy, BusyIsNoted, StoppedIsIdle, FlagGoesLast,
     TriggerHasFlag,
     OffIsIdle, IframesKept, HandleForgotten, At, Stopper, Holding, Stopping,
     StopLabel

(* Each step of a stop keeps the invariant.                                *)
LEMMA StreamInvStop ==
  ASSUME LockInv, StreamInv, NEW t \in Stopper,
         ak_dvr_record_stop(t) PROVE StreamInv'
<1> USE DEF LockInv, LockTypeOK, OwnerHolds, StopperHasBoth, StarterHasTrigger,
            FlagHasTrigger, StreamInv, Busy, BusyIsNoted, StoppedIsIdle,
            FlagGoesLast,
            TriggerHasFlag, OffIsIdle, IframesKept, HandleForgotten, At, Stopper,
            Goto,
            Thread, Returned, Holding, Stopping, Starting, StopLabel, Off, control,
            stream, others, triggers, locks, app
<1>1. CASE StopLocks(t)       BY <1>1 DEF StopLocks
<1>2. CASE StopChecks(t)      BY <1>2 DEF StopChecks
<1>3. CASE StopCancels(t)     BY <1>3 DEF StopCancels, ForgetHandle
<1>4. CASE StopReadsStatus(t) BY <1>4 DEF StopReadsStatus
<1>5. CASE StopPauses(t)      BY <1>5 DEF StopPauses
<1>6. CASE StopWaits(t)       BY <1>6 DEF StopWaits
<1>7. CASE StopIsOver(t)      BY <1>7 DEF StopIsOver
<1>8. CASE StopGenerates(t)   BY <1>8 DEF StopGenerates
<1>9. CASE StopReleases(t)    BY <1>9 DEF StopReleases
<1>10. CASE StopIdles(t)      BY <1>10 DEF StopIdles
<1>11. CASE StopRearms(t)     BY <1>11 DEF StopRearms
<1>12. CASE StopEnds(t)       BY <1>12 DEF StopEnds
<1>13. CASE StopUnlocks(t)    BY <1>13 DEF StopUnlocks, ClearFlag
<1> QED
  BY <1>1, <1>2, <1>3, <1>4, <1>5, <1>6, <1>7, <1>8, <1>9, <1>10, <1>11, <1>12,
     <1>13
  DEF ak_dvr_record_stop

(* So does each step of record_ctrl.                                       *)
LEMMA StreamInvCtl ==
  ASSUME LockInv, StreamInv, Ctl PROVE StreamInv'
<1> USE DEF LockInv, LockTypeOK, OwnerHolds, StopperHasBoth, StarterHasTrigger,
            FlagHasTrigger, StreamInv, Busy, BusyIsNoted, StoppedIsIdle,
            FlagGoesLast,
            TriggerHasFlag, OffIsIdle, IframesKept, HandleForgotten, At, Stopper,
            Goto,
            Thread, Returned, Holding, Stopping, Starting, StopLabel, Off, control,
            stream, others, triggers, locks, app, Free
<1>1. CASE StartBegins        BY <1>1 DEF StartBegins
<1>2. CASE StartChecks        BY <1>2 DEF StartChecks
<1>3. CASE StartWorks         BY <1>3 DEF StartWorks
<1>4. CASE StartFlags         BY <1>4 DEF StartFlags
<1>5. CASE CtlStops           BY <1>5 DEF CtlStops
<1>6. CASE CtlForgets         BY <1>6 DEF CtlForgets
<1>7. CASE TurnOn             BY <1>7 DEF TurnOn
<1>8. CASE TurnOff            BY <1>8 DEF TurnOff
<1>9. CASE OffCancels         BY <1>9 DEF OffCancels, ForgetHandle
<1>10. CASE OffReleases       BY <1>10 DEF OffReleases
<1>11. CASE OffEnds           BY <1>11 DEF OffEnds
<1> QED
  BY <1>1, <1>2, <1>3, <1>4, <1>5, <1>6, <1>7, <1>8, <1>9, <1>10, <1>11 DEF Ctl

(* The stream is given back by whoever stops, whatever goes wrong around   *)
(* the recorder: StreamInv is inductive under LockInv.                     *)
THEOREM StreamInvAlways == Spec => []StreamInv
<1>1. Init => StreamInv
  BY DEF Init, StreamInv, Busy, BusyIsNoted, StoppedIsIdle, FlagGoesLast,
     TriggerHasFlag, OffIsIdle, IframesKept, HandleForgotten, At, Stopper, Stopping,
     Holding, StopLabel, Starting, Off
<1>2. LockInv /\ StreamInv /\ [Next]_vars => StreamInv'
  <2> SUFFICES ASSUME LockInv, StreamInv, [Next]_vars PROVE StreamInv'
    OBVIOUS
  <2>1. CASE EncoderRunsOn \/ UNCHANGED vars
    BY <2>1 DEF EncoderRunsOn, vars, control, triggers, stream, others, app,
       StreamInv,
       Busy, BusyIsNoted, StoppedIsIdle, FlagGoesLast, TriggerHasFlag, OffIsIdle,
       IframesKept, HandleForgotten, At
  <2> QED
    BY <2>1, StreamInvMain, StreamInvVideo, StreamInvStop, StreamInvCtl DEF Next
<1> QED BY <1>1, <1>2, LockInvAlways, PTL DEF Spec

(* An idle recorder has given its stream back, under every fault.          *)
THEOREM NoStreamLeftOpenAlways == Spec => []NoStreamLeftOpen
<1>1. StreamInv => NoStreamLeftOpen
  BY DEF StreamInv, HandleForgotten, NoStreamLeftOpen, At
<1> QED BY <1>1, StreamInvAlways, PTL

(* A set of natural numbers has a least one: what Min picks exists.        *)
LEMMA LeastExists ==
  ASSUME NEW T \in SUBSET Nat, T # {}
  PROVE  \E x \in T : \A y \in T : x <= y
<1> DEFINE R == OpToRel(<, Nat)
<1>1. \A x, y \in Nat : y < x => <<y, x>> \in R
  BY DEF OpToRel
<1>2. IsWellFoundedOn(R, Nat)
  BY NatLessThanWellFounded
<1> HIDE DEF R
<1>3. PICK x \in T : \A y \in T : ~(<<y, x>> \in R)
  BY <1>2, WFMin
<1>4. \A y \in T : ~(y < x)
  BY <1>1, <1>3, Zenon
<1>5. \A y \in T : x <= y
  BY <1>4
<1> QED BY <1>5, Zenon

-----------------------------------------------------------------------------
(* The types.                                                              *)

(* Unlinking an entry leaves a queue of frames.                            *)
LEMMA UnlinkedKeeps ==
  ASSUME mux_head \in Seq(Frame), NEW f
  PROVE  Unlinked(f) \in Seq(Frame)
<1>1. CASE ~InQueue(f)
  BY <1>1 DEF Unlinked
<1>2. CASE InQueue(f)
  <2>1. Position(f) \in 1..Len(mux_head)
    BY <1>2 DEF Position, InQueue
  <2>2. RemoveAt(mux_head, Position(f)) \in Seq(Frame)
    BY <2>1 DEF RemoveAt
  <2> QED BY <1>2, <2>2 DEF Unlinked
<1> QED BY <1>1, <1>2

(* The number of I frames queued is a number.                              *)
LEMMA IframeNumIsNat == ASSUME mux_head \in Seq(Frame) PROVE IframeNum \in Nat
<1>1. Len(mux_head) \in Nat
  BY LenProperties
<1>2. IsFiniteSet(1..Len(mux_head))
  BY <1>1, FS_Interval
<1> QED BY <1>2, FS_Subset, FS_CardinalityType DEF IframeNum

(* The entry behind another is a frame, or there is none.                  *)
LEMMA SuccessorIsThere ==
  ASSUME mux_head \in Seq(Frame), NEW f \in Nat
  PROVE  Successor(f) \in Frame \union {NoFrame}
<1>1. CASE Behind(f) = {}
  BY <1>1 DEF Successor
<1>2. CASE Behind(f) # {}
  <2>1. Behind(f) \in SUBSET Nat /\ Behind(f) \subseteq 1..Len(mux_head)
    BY LenProperties DEF Behind
  <2>2. \E x \in Behind(f) : \A y \in Behind(f) : x <= y
    BY <1>2, <2>1, LeastExists
  <2>3. Min(Behind(f)) \in Behind(f)
    BY <2>2 DEF Min
  <2> QED BY <1>2, <2>1, <2>3 DEF Successor
<1> QED BY <1>1, <1>2

(* Where main has a pointer to an entry.                                   *)
Carrying == {"drop", "add", "muxing", "muxed", "thin", "trimming"}

(* The pointer is not NULL where main uses it.                             *)
TypeInv == TypeOK /\ (pc["main"] \in Carrying => held # NoFrame)

(* The flags, which Zenon keeps apart from the arithmetic.                 *)
Flags == /\ record_flag \in BOOLEAN
         /\ mux_over_size \in BOOLEAN
         /\ req_handle \in BOOLEAN
         /\ cur_mux_handle \in BOOLEAN
         /\ gotidr \in BOOLEAN
         /\ slipped \in BOOLEAN
         /\ started \in BOOLEAN
         /\ rec_stopped \in BOOLEAN

(* Every step keeps the flags flags.                                       *)
LEMMA FlagsStay == ASSUME Flags, [Next]_vars PROVE Flags'
<1> USE DEF Flags, control, stream, others, triggers, mark, file, app
<1>1. CASE Video
  BY <1>1, Zenon DEF Video, VideoWakes, VideoLoops, get_video_stream, GetFails,
     mark_seq_num_end,
     stamp_unixts_end, VideoChecksSize
<1>2. CASE Main
  BY <1>2, ZenonT(60) DEF Main, MainWakes, MainSwitches, MainEnters, MainSyncs, MainLoops,
     sync_video_data,
     sync_drops, mux_video_data, MainAdds, add_video_to_mux, MainFreesMuxed,
     MainLeaves,
     video_record_filter, filter_video_data, drop_extra_frames, FilterFrees
<1>3. ASSUME NEW t \in Stopper, ak_dvr_record_stop(t) PROVE Flags'
  BY <1>3, ZenonT(60) DEF ak_dvr_record_stop, StopLocks, StopChecks, StopCancels,
     ForgetHandle,
     StopReadsStatus, StopPauses, StopWaits, StopIsOver, StopGenerates,
     StopReleases,
     StopIdles, StopRearms, StopEnds, StopUnlocks, ClearFlag
<1>4. CASE Ctl
  BY <1>4, ZenonT(60) DEF Ctl, StartBegins, StartChecks, StartWorks, StartFlags,
     CtlStops, CtlForgets,
     TurnOn, TurnOff, OffCancels, ForgetHandle, OffReleases, OffEnds
<1>5. CASE EncoderRunsOn \/ UNCHANGED vars
  BY <1>5, Zenon DEF EncoderRunsOn, vars
<1> QED BY <1>1, <1>2, <1>3, <1>4, <1>5, Zenon DEF Next

(* Frames are numbers, and none of them is 0.                              *)
LEMMA FrameFacts ==
  /\ Frame \subseteq Nat /\ NoFrame \notin Frame /\ Frame \union {NoFrame} = 0..MaxFrame
  /\ TriggerIframe \in Nat /\ Duration \in Nat
BY BoundsAssumption, TriggerAssumption, DurationAssumption DEF Frame, NoFrame

(* A queue with a member of S added is a queue of S.                       *)
LEMMA AppendStays ==
  ASSUME NEW S, NEW q \in Seq(S), NEW f \in S PROVE Append(q, f) \in Seq(S)
BY AppendProperties

(* The head of the queue is a frame.                                       *)
LEMMA HeadIsFrame ==
  ASSUME mux_head \in Seq(Frame), mux_head # <<>>
  PROVE  Head(mux_head) \in Frame
OBVIOUS

(* switch_record_file leaves times that are numbers.                       *)
LEMMA MuxTypes ==
  ASSUME TypeOK, mux_video_data
  PROVE  /\ start_time' \in Nat /\ end_time' \in Nat /\ date' \in Nat
         /\ seq_num_end' \in Nat /\ unixts_end' \in Nat
         /\ IF mux_head = <<>> THEN held' = held ELSE held' \in Frame
<1>0. /\ start_time \in Nat /\ end_time \in Nat /\ date \in Nat
      /\ seq_num_end \in Nat /\ unixts_end \in Nat
  BY DEF TypeOK
<1>1. CASE mux_head = <<>>
  BY <1>0, <1>1 DEF mux_video_data, times, mark
<1>2. CASE mux_head # <<>>
  <2>1. PICK f \in Frame : f = Head(mux_head)
    BY <1>2, HeadIsFrame DEF TypeOK
  <2>2. switch_record_file(f) /\ held' = f
    BY <1>2, <2>1 DEF mux_video_data
  <2>3. f \in Nat /\ f + Duration \in Nat
    BY <2>1, FrameFacts
  <2> QED
    BY <1>0, <1>2, <2>1, <2>2, <2>3 DEF switch_record_file, NewDateFromMark,
       NoFrame, times, mark
<1> QED BY <1>1, <1>2

(* mux_video_data leaves a segment of frames and a status.                 *)
LEMMA MuxMoves ==
  ASSUME TypeOK, mux_video_data
  PROVE  /\ segment' \in Seq(Frame)
         /\ status' \in {"idle", "work", "sleep", "filter", "except", "stop"}
<1>1. /\ segment \in Seq(Frame)
      /\ status \in {"idle", "work", "sleep", "filter", "except", "stop"}
  BY DEF TypeOK
<1>2. segment' = segment \/ segment' = <<>>
  BY DEF mux_video_data, file
<1>3. status' = status \/ status' = "except"
  BY DEF mux_video_data
<1>4. segment' \in Seq(Frame)
  BY <1>1, <1>2, EmptySeq
<1> QED BY <1>1, <1>3, <1>4

(* get_video_stream leaves a queue of frames and marks that are numbers.   *)
LEMMA GetTypes ==
  ASSUME TypeOK, get_video_stream
  PROVE  /\ mux_head' \in Seq(Frame) /\ next' \in 1..MaxFrame + 1
         /\ seq_num_end' \in Nat /\ unixts_end' \in Nat
<1>1. next \in Frame /\ next' = next + 1
  BY DEF get_video_stream
<1>2. next' \in 1..MaxFrame + 1
  BY <1>1, BoundsAssumption DEF Frame
<1>3. mux_head' = Append(mux_head, next) \/ mux_head' = mux_head
  BY DEF get_video_stream
<1>4. mux_head' \in Seq(Frame)
  BY <1>1, <1>3, AppendStays DEF TypeOK
<1>5. seq_num_end' \in {seq_num_end, next} /\ unixts_end' \in {unixts_end, next}
  BY DEF get_video_stream, mark
<1>6. next \in Nat /\ seq_num_end \in Nat /\ unixts_end \in Nat
  BY <1>1, FrameFacts DEF TypeOK
<1> QED BY <1>2, <1>4, <1>5, <1>6

(* add_video_to_mux leaves a segment of frames and a status.               *)
LEMMA AddTypes ==
  ASSUME Flags', TypeInv, add_video_to_mux PROVE TypeInv'
<1>1. held \in Frame
  BY FrameFacts DEF add_video_to_mux, TypeInv, TypeOK, Carrying, At
<1>2. /\ segment' = Append(segment, held) \/ segment' = segment
      /\ status' = status \/ status' = "except"
      /\ Goto("main", "muxed")
      /\ UNCHANGED <<triggers, req_handle, mux_head, times, mark, cur_mux_handle, others>>
  BY DEF add_video_to_mux
<1>3. segment' \in Seq(Frame)
  <2>1. segment \in Seq(Frame)
    BY DEF TypeInv, TypeOK
  <2> QED BY <1>1, <1>2, <2>1, AppendStays
<1>4. /\ pc' \in [Thread -> MainLabel \union VideoLabel \union CtlLabel]
      /\ pc'["main"] = "muxed" /\ pc'["ctl"] = pc["ctl"] /\ pc'["video"] = pc["video"]
      /\ "muxed" \in MainLabel
  BY <1>2 DEF TypeInv, TypeOK, Goto, Thread, MainLabel
<1>5. /\ UNCHANGED <<trigger_type, trigger_iframe, mux_head, start_time, end_time, date,
                     seq_num_end, unixts_end, work_sem, stop_sem, video_sem, record_mutex,
                     stop_mutex, held, left, next, mode, starts>>
      /\ status' \in {"idle", "work", "sleep", "filter", "except", "stop"}
  BY <1>2 DEF TypeInv, TypeOK, triggers, times, mark, others, sems, locks, local, app
<1>6. NoFrame # held
  BY <1>1, FrameFacts
<1> QED BY <1>3, <1>4, <1>5, <1>6 DEF Flags, TypeInv, TypeOK

(* Each step of the main thread keeps the types.                           *)
LEMMA TypeInvMain == ASSUME Flags', TypeInv, Main PROVE TypeInv'
<1> USE DEF Flags, TypeInv, TypeOK, Carrying, MainLabel, Thread, At, Goto, control,
            stream, others, triggers, times, mark, file, sems,
            locks, local, app
<1> USE FrameFacts
<1>0. Unlinked(held) \in Seq(Frame)
  BY UnlinkedKeeps
<1>1. CASE MainWakes         BY <1>1 DEF MainWakes
<1>2. CASE MainSwitches      BY <1>2 DEF MainSwitches
<1>3. CASE MainEnters        BY <1>3 DEF MainEnters
<1>4. CASE MainSyncs \/ MainLoops BY <1>4 DEF MainSyncs, MainLoops
<1>5. CASE sync_video_data   BY <1>5, HeadIsFrame DEF sync_video_data
<1>6. CASE sync_drops        BY <1>0, <1>6 DEF sync_drops, FreeHeld
<1>7. CASE mux_video_data
  <2>1. \/ mux_head = <<>> /\ Goto("main", "loop") /\ UNCHANGED <<stop_mutex, held>>
        \/ held' \in Frame /\ Goto("main", "add") /\ stop_mutex' = "main"
    BY <1>7, MuxTypes DEF mux_video_data
  <2>2. UNCHANGED <<triggers, req_handle, mux_head, sems, record_mutex, left, next, app>>
    BY <1>7 DEF mux_video_data
  <2> QED BY <1>7, <2>1, <2>2, MuxTypes, MuxMoves
<1>8. CASE MainAdds          BY <1>8 DEF MainAdds
<1>9. CASE add_video_to_mux  BY <1>9, AddTypes
<1>10. CASE MainFreesMuxed   BY <1>0, <1>10 DEF MainFreesMuxed, FreeHeld
<1>11. CASE MainLeaves       BY <1>11 DEF MainLeaves, PostStop
<1>12. CASE video_record_filter
  BY <1>12, IframeNumIsNat, HeadIsFrame DEF video_record_filter
<1>13. CASE filter_video_data
  BY <1>0, <1>13, SuccessorIsThere DEF filter_video_data
<1>14. CASE drop_extra_frames   BY <1>14, HeadIsFrame DEF drop_extra_frames
<1>15. CASE FilterFrees         BY <1>0, <1>15 DEF FilterFrees, FreeHeld
<1> QED
  BY <1>1, <1>2, <1>3, <1>4, <1>5, <1>6, <1>7, <1>8, <1>9, <1>10, <1>11, <1>12,
     <1>13, <1>14, <1>15 DEF Main

(* Each step of the video thread does.                                     *)
LEMMA TypeInvVideo == ASSUME Flags', TypeInv, Video PROVE TypeInv'
<1> USE FrameFacts DEF Flags, TypeInv, TypeOK, Carrying, VideoLabel, StopLabel,
        Thread, At, Goto, control, stream, others, triggers, times, mark, file,
        sems,
            locks, local, app
<1>1. CASE VideoWakes        BY <1>1 DEF VideoWakes
<1>2. CASE VideoLoops        BY <1>2 DEF VideoLoops
<1>3. CASE get_video_stream
  <2>1. /\ Goto("video", "over") \/ Goto("video", "mark")
        /\ UNCHANGED <<status, trigger_type, trigger_iframe, record_flag, req_handle, times,
                      file, sems, locks, local, app>>
    BY <1>3 DEF get_video_stream
  <2>2. /\ mux_head' \in Seq(Frame) /\ next' \in 1..MaxFrame + 1
        /\ seq_num_end' \in Nat /\ unixts_end' \in Nat
    BY <1>3, GetTypes
  <2>3. /\ pc' \in [Thread -> MainLabel \union VideoLabel \union CtlLabel]
        /\ pc'["main"] = pc["main"] /\ pc'["ctl"] = pc["ctl"] /\ pc'["video"] \in VideoLabel
    BY <2>1
  <2> HIDE DEF Goto
  <2> QED BY <2>1, <2>2, <2>3
<1>4. CASE GetFails          BY <1>4 DEF GetFails
<1>5. CASE mark_seq_num_end
  <2>1. next - 1 \in Nat
    BY BoundsAssumption
  <2>2. seq_num_end' \in Nat
    BY <1>5, <2>1 DEF mark_seq_num_end
  <2>3. /\ Goto("video", "over") \/ Goto("video", "stamp")
        /\ UNCHANGED <<control, req_handle, mux_head, times, unixts_end, slipped, file, others>>
    BY <1>5 DEF mark_seq_num_end
  <2>4. /\ pc' \in [Thread -> MainLabel \union VideoLabel \union CtlLabel]
        /\ pc'["main"] = pc["main"] /\ pc'["ctl"] = pc["ctl"] /\ pc'["video"] \in VideoLabel
    BY <2>3
  <2> HIDE DEF Goto
  <2> QED BY <2>2, <2>3, <2>4
<1>6. CASE stamp_unixts_end  BY <1>6, BoundsAssumption DEF stamp_unixts_end
<1>7. CASE VideoChecksSize   BY <1>7 DEF VideoChecksSize
<1> QED BY <1>1, <1>2, <1>3, <1>4, <1>5, <1>6, <1>7 DEF Video

(* Each step of a stop does.                                               *)
LEMMA TypeInvStop ==
  ASSUME Flags', TypeInv, NEW t \in Stopper, ak_dvr_record_stop(t) PROVE TypeInv'
<1> USE DEF Flags, TypeInv, TypeOK, Carrying, VideoLabel, CtlLabel, StopLabel,
            Stopper, Thread, Returned, At, Goto, control, stream, others, triggers,
            times, mark, file, sems,
            locks, local, app
<1>1. CASE StopLocks(t)       BY <1>1 DEF StopLocks
<1>2. CASE StopChecks(t)      BY <1>2 DEF StopChecks
<1>3. CASE StopCancels(t)     BY <1>3 DEF StopCancels, ForgetHandle
<1>4. CASE StopReadsStatus(t) BY <1>4 DEF StopReadsStatus
<1>5. CASE StopPauses(t)      BY <1>5 DEF StopPauses
<1>6. CASE StopWaits(t)       BY <1>6 DEF StopWaits, TakeStopToken
<1>7. CASE StopIsOver(t)      BY <1>7 DEF StopIsOver
<1>8. CASE StopGenerates(t)   BY <1>8 DEF StopGenerates
<1>9. CASE StopReleases(t)    BY <1>9 DEF StopReleases
<1>10. CASE StopIdles(t)      BY <1>10 DEF StopIdles
<1>11. CASE StopRearms(t)     BY <1>11 DEF StopRearms
<1>12. CASE StopEnds(t)       BY <1>12 DEF StopEnds
<1>13. CASE StopUnlocks(t)    BY <1>13 DEF StopUnlocks, ClearFlag
<1> QED
  BY <1>1, <1>2, <1>3, <1>4, <1>5, <1>6, <1>7, <1>8, <1>9, <1>10, <1>11, <1>12,
     <1>13
  DEF ak_dvr_record_stop

(* Each step of record_ctrl does.                                          *)
LEMMA TypeInvCtl == ASSUME Flags', TypeInv, Ctl PROVE TypeInv'
<1> USE DEF Flags, TypeInv, TypeOK, Carrying, CtlLabel, StopLabel, Stopper, Thread,
            At, Goto, control, stream, others, triggers, times, mark, file, sems,
            locks, local, app
<1>1. CASE StartBegins        BY <1>1, BoundsAssumption DEF StartBegins, MayRequest
<1>2. CASE StartChecks        BY <1>2 DEF StartChecks
<1>3. CASE StartWorks         BY <1>3 DEF StartWorks
<1>4. CASE StartFlags         BY <1>4 DEF StartFlags
<1>5. CASE CtlStops           BY <1>5 DEF CtlStops
<1>6. CASE CtlForgets         BY <1>6 DEF CtlForgets
<1>7. CASE TurnOn
  BY <1>7, BoundsAssumption, FrameFacts DEF TurnOn, MayRequest
<1>8. CASE TurnOff            BY <1>8 DEF TurnOff
<1>9. CASE OffCancels         BY <1>9 DEF OffCancels, ForgetHandle
<1>10. CASE OffReleases       BY <1>10 DEF OffReleases
<1>11. CASE OffEnds           BY <1>11 DEF OffEnds
<1> QED
  BY <1>1, <1>2, <1>3, <1>4, <1>5, <1>6, <1>7, <1>8, <1>9, <1>10, <1>11 DEF Ctl

(* Every variable keeps its type, under every fault.                       *)
THEOREM TypeOKAlways == Spec => []TypeOK
<1>1. Init => TypeInv
  <2> SUFFICES ASSUME Init PROVE TypeInv
    OBVIOUS
  <2>1. Flags
    BY Zenon DEF Init, Flags
  <2> QED
  BY <2>1, FrameFacts, BoundsAssumption DEF Init, Flags, TypeInv, TypeOK, Carrying,
     MainLabel, VideoLabel, CtlLabel, Thread
<1>2. TypeInv /\ [Next]_vars => TypeInv'
  <2> SUFFICES ASSUME TypeInv, [Next]_vars PROVE TypeInv'
    OBVIOUS
  <2>0. Flags'
    BY FlagsStay DEF TypeInv, TypeOK, Flags
  <2>1. CASE EncoderRunsOn
    <3>1. next' \in 1..MaxFrame + 1
      BY <2>1, BoundsAssumption DEF EncoderRunsOn, Frame
    <3> QED
      BY <2>0, <2>1, <3>1 DEF EncoderRunsOn, Flags, TypeInv, TypeOK, control,
         stream, others, triggers, times,
         mark, file, sems, locks, local, app
  <2>2. CASE UNCHANGED vars
    BY <2>2 DEF vars, TypeInv, TypeOK, control, stream, others, triggers, times,
       mark, file, sems, locks, local, app
  <2> QED
    BY <2>0, <2>1, <2>2, TypeInvMain, TypeInvVideo, TypeInvStop, TypeInvCtl DEF Next
<1>3. TypeInv => TypeOK
  BY DEF TypeInv
<1> QED BY <1>1, <1>2, <1>3, PTL DEF Spec

-----------------------------------------------------------------------------
(* One user at a time.  The system's calls succeed and nobody disarms the  *)
(* alarm, but main may lag, the queue fill up, the video thread stop its   *)
(* own recording, and a stop come before main has begun.                   *)

Steady == "syserr" \notin Faults /\ "disarm" \notin Faults

(* trigger_iframe as the mode sets it, and what a stop makes of it.        *)
Iframes == IF mode = "plan" THEN 0 ELSE TriggerIframe
ByIframes(a, b) == IF trigger_iframe = 0 THEN a ELSE b

(* Where main is inside video_record_working ...                           *)
Working == {"sync", "syncing", "drop", "loop", "mux", "add", "muxing", "muxed"}

(* ... or filtering ...                                                    *)
Filtering == {"filter", "thin", "trim", "trimming"}

(* ... and where a stop has paused the recorder.                           *)
Paused == {"stop_wait", "stop_over", "stop_file", "stop_release", "stop_idle",
           "stop_rearm", "stop_end", "stop_flag"}

Somebody(places) == \E t \in Stopper : pc[t] \in places
Runs == At("ctl", "start_flag") \/ (record_flag /\ ~Somebody(Paused))
Rests == \/ ~record_flag /\ ~At("ctl", "start_flag")
         \/ Somebody({"stop_end", "stop_flag"})
Awaited == Somebody({"stop_wait"}) /\ stop_sem = 0

(* The flag is up only for record_ctrl's recording, or for its stop of it. *)
FlagInv ==
  /\ trigger_iframe = Iframes
  /\ pc["ctl"] \in {"ready"} \union Starting \union StopLabel
  /\ record_flag => started \/ pc["ctl"] \in StopLabel
  /\ rec_stopped => ~record_flag
  /\ pc["ctl"] \in Starting => started /\ ~record_flag /\ ~rec_stopped
  /\ \A t \in Stopper : pc[t] \in Stopping \union {"stop_flag"} => record_flag

(* The status tells how far a stop has come, except that main, called late,*)
(* may set it to work once more: then the stop waits on.                   *)
StatusInv ==
  /\ Runs => status = "work"
  /\ Rests => status = ByIframes("idle", "filter")
  /\ \A t \in Stopper :
       /\ pc[t] = "stop_wait" => status \in {"work", ByIframes("sleep", "filter")}
       /\ pc[t] = "stop_over" => status = ByIframes("sleep", "filter")
       /\ pc[t] \in {"stop_file", "stop_release", "stop_idle", "stop_rearm"} =>
            status = ByIframes("stop", "filter")
       /\ pc[t] \in {"stop_release", "stop_idle"} => trigger_iframe = 0
       /\ pc[t] = "stop_rearm" => trigger_iframe # 0

(* Main works only while the recorder runs or a stop waits for it, and     *)
(* filters only before an alarm.                                           *)
PlaceInv ==
  /\ pc["main"] \in Working \union {"enter"} => Runs \/ Awaited
  /\ At("main", "leave") => Awaited /\ status # "work"
  /\ stop_sem # 0 => Somebody({"stop_wait"}) /\ stop_sem = 1 /\ status # "work"
  /\ pc["main"] \in Filtering => trigger_iframe # 0

(* Main leaves its second loop for no other reason than a stop.            *)
LoopInv ==
  /\ pc["main"] \in {"mux", "add", "muxing", "muxed"} => end_time # 0
  /\ At("main", "loop") /\ end_time = 0 => Awaited /\ status # "work"

TakingInv == FlagInv /\ StatusInv /\ PlaceInv /\ LoopInv

(* The queue is in order, main's entry is its head, and main has a handle  *)
(* while it adds a frame.                                                  *)
Ascends(s) == \A i, j \in 1..Len(s) : i < j => s[i] < s[j]
HeldIsHead ==
  IF pc["main"] \in Carrying THEN mux_head # <<>> /\ held = mux_head[1] ELSE held = NoFrame
UseInv == /\ Ascends(mux_head)
          /\ \A i \in 1..Len(mux_head) : mux_head[i] < next
          /\ HeldIsHead
          /\ pc["main"] \in {"add", "muxing", "muxed"} => cur_mux_handle

(* The threads that stop exclude one another.                              *)
LEMMA OneStops ==
  ASSUME LockInv, NEW t \in Stopper, pc[t] \in Holding
  PROVE  \A u \in Stopper : u # t => pc[u] \notin Holding
BY DEF LockInv, OwnerHolds

(* While a stop waits the recorder neither runs nor rests.                 *)
LEMMA WaitingIsBetween ==
  ASSUME LockInv, FlagInv, Somebody({"stop_wait"})
  PROVE  /\ ~Runs /\ ~Rests
         /\ \A t \in Stopper : pc[t] \in Paused => pc[t] = "stop_wait"
<1>1. PICK w \in Stopper : pc[w] = "stop_wait"
  BY DEF Somebody
<1>2. pc[w] \in Paused /\ pc[w] \in Stopping /\ Paused \subseteq Holding
  BY <1>1 DEF Paused, Stopping, Holding, StopLabel
<1>3. \A u \in Stopper : u # w => pc[u] \notin Paused
  BY <1>2, OneStops DEF Stopping
<1>4. record_flag /\ ~At("ctl", "start_flag")
  BY <1>1, <1>2 DEF FlagInv, Starting, At
<1>5. ~Somebody({"stop_end", "stop_flag"})
  BY <1>1, <1>3 DEF Somebody, Paused
<1> QED BY <1>1, <1>2, <1>3, <1>4, <1>5 DEF Runs, Rests, Somebody

(* Each step of the main thread keeps TakingInv.                           *)
LEMMA TakingInvMain ==
  ASSUME Steady, TypeOK, LockInv, TakingInv, Main PROVE TakingInv'
<1> USE DEF Steady, LockInv, LockTypeOK, TakingInv, FlagInv, StatusInv, PlaceInv, LoopInv, Runs,
        Rests, Awaited, Somebody, Iframes, ByIframes, Working, Filtering, Paused, Stopper, Thread,
        At, Goto, control, stream, others, triggers, times, sems, locks, app
<1>0. Somebody({"stop_wait"}) =>
        ~Runs /\ ~Rests /\ \A t \in Stopper : pc[t] \in Paused => pc[t] = "stop_wait"
  BY WaitingIsBetween
<1>1. CASE MainWakes         BY <1>1 DEF MainWakes
<1>2. CASE MainSwitches      BY <1>2 DEF MainSwitches
<1>3. CASE MainEnters        BY <1>0, <1>3 DEF MainEnters
<1>4. CASE MainSyncs \/ MainLoops
  <2>1. CASE MainSyncs BY <2>1 DEF MainSyncs
  <2>2. CASE MainLoops
    <3>1. end_time \in Nat
      BY DEF TypeOK
    <3>2. end_time > 0 <=> end_time # 0
      BY <3>1
    <3> QED BY <2>2, <3>2 DEF MainLoops
  <2> QED BY <1>4, <2>1, <2>2
<1>5. CASE sync_video_data   BY <1>5 DEF sync_video_data
<1>6. CASE sync_drops        BY <1>6 DEF sync_drops
<1>7. CASE mux_video_data
  <2>1. end_time' # 0
    <3>1. end_time # 0 /\ end_time' \in {end_time, Head(mux_head) + Duration}
      BY <1>7 DEF mux_video_data, switch_record_file
    <3>2. mux_head # <<>> => Head(mux_head) + Duration # 0
      BY HeadIsFrame, BoundsAssumption, DurationAssumption DEF TypeOK, Frame
    <3>3. mux_head = <<>> => UNCHANGED end_time
      BY <1>7 DEF mux_video_data
    <3> QED BY <3>1, <3>2, <3>3
  <2>2. /\ UNCHANGED <<status, trigger_iframe, record_flag, stop_sem, app>>
        /\ At("main", "mux") /\ (Goto("main", "loop") \/ Goto("main", "add"))
    BY <1>7 DEF mux_video_data
  <2> QED BY <2>1, <2>2
<1>8. CASE MainAdds          BY <1>8 DEF MainAdds
<1>9. CASE add_video_to_mux  BY <1>9 DEF add_video_to_mux
<1>10. CASE MainFreesMuxed   BY <1>10 DEF MainFreesMuxed
<1>11. CASE MainLeaves       BY <1>11 DEF MainLeaves, PostStop
<1>12. CASE video_record_filter BY <1>12 DEF video_record_filter
<1>13. CASE filter_video_data   BY <1>13 DEF filter_video_data
<1>14. CASE drop_extra_frames   BY <1>14 DEF drop_extra_frames
<1>15. CASE FilterFrees         BY <1>15 DEF FilterFrees
<1> QED
  BY <1>1, <1>2, <1>3, <1>4, <1>5, <1>6, <1>7, <1>8, <1>9, <1>10, <1>11, <1>12,
     <1>13, <1>14, <1>15 DEF Main

(* Each step of the video thread does: it touches none of this.            *)
LEMMA TakingInvVideo == ASSUME LockInv, TakingInv, Video PROVE TakingInv'
<1>1. /\ UNCHANGED <<status, trigger_iframe, record_flag, stop_sem, end_time, app>>
      /\ pc'["main"] = pc["main"] /\ pc'["ctl"] = pc["ctl"]
      /\ pc["video"] \notin Holding /\ pc'["video"] \notin Holding
  <2> USE DEF LockInv, LockTypeOK, Thread, Goto, At, control, stream, others, triggers, times, sems,
              locks, app, Holding, StopLabel
  <2>1. CASE VideoWakes        BY <2>1 DEF VideoWakes
  <2>2. CASE VideoLoops        BY <2>2 DEF VideoLoops
  <2>3. CASE get_video_stream
    <3>1. /\ pc["video"] = "got" /\ (Goto("video", "over") \/ Goto("video", "mark"))
          /\ UNCHANGED <<status, trigger_iframe, record_flag, stop_sem, end_time, app>>
      BY <2>3 DEF get_video_stream
    <3> QED BY <3>1
  <2>4. CASE GetFails          BY <2>4 DEF GetFails
  <2>5. CASE mark_seq_num_end  BY <2>5 DEF mark_seq_num_end
  <2>6. CASE stamp_unixts_end  BY <2>6 DEF stamp_unixts_end
  <2>7. CASE VideoChecksSize   BY <2>7 DEF VideoChecksSize
  <2> QED BY <2>1, <2>2, <2>3, <2>4, <2>5, <2>6, <2>7 DEF Video
<1>2. Paused \subseteq Holding /\ Stopping \union {"stop_flag"} \subseteq Holding
  BY DEF Paused, Stopping, Holding, StopLabel
<1>3. \A places \in SUBSET Holding : Somebody(places)' <=> Somebody(places)
  BY <1>1 DEF Somebody, Stopper
<1>4. /\ Runs' <=> Runs
      /\ Rests' <=> Rests
      /\ Awaited' <=> Awaited
      /\ Somebody({"stop_wait"})' <=> Somebody({"stop_wait"})
  <2>1. {"stop_end", "stop_flag"} \subseteq Holding /\ {"stop_wait"} \subseteq Holding
    BY DEF Holding, StopLabel
  <2> QED BY <1>1, <1>2, <1>3, <2>1 DEF Runs, Rests, Awaited, At
<1>5. FlagInv'
  BY <1>1, <1>2 DEF TakingInv, FlagInv, Iframes, app, Stopper
<1>6. StatusInv'
  <2>1. {"stop_wait", "stop_over", "stop_file", "stop_release", "stop_idle", "stop_rearm"}
          \subseteq Holding
    BY DEF Holding, StopLabel
  <2> QED BY <1>1, <1>4, <2>1 DEF TakingInv, StatusInv, ByIframes, Stopper
<1>7. PlaceInv' /\ LoopInv'
  BY <1>1, <1>4 DEF TakingInv, PlaceInv, LoopInv, At
<1> QED BY <1>5, <1>6, <1>7 DEF TakingInv

(* Each step of a stop does, whoever stops.                                *)
LEMMA TakingInvStop ==
  ASSUME Steady, LockInv, TakingInv, NEW t \in Stopper, ak_dvr_record_stop(t)
  PROVE  TakingInv'
<1>0. TriggerIframe # 0
  BY TriggerAssumption
<1>9. pc[t] \in Holding => \A u \in Stopper : u # t => pc[u] \notin Holding
  BY OneStops
<1> USE <1>0, <1>9 DEF Steady, LockInv, LockTypeOK, FlagHasTrigger, StopperHasBoth, TakingInv,
        FlagInv, StatusInv, PlaceInv, LoopInv, Runs, Rests, Awaited, Somebody, Iframes, ByIframes, Working,
        Filtering, Paused, Stopper, Thread, Holding, Stopping, Starting, StopLabel, Returned,
        At, Goto, control, stream, others, triggers, times, sems, locks, app
<1>1. CASE StopLocks(t)       BY <1>1 DEF StopLocks
<1>2. CASE StopChecks(t)      BY <1>2 DEF StopChecks
<1>3. CASE StopCancels(t)     BY <1>3 DEF StopCancels, ForgetHandle
<1>4. CASE StopReadsStatus(t) BY <1>4 DEF StopReadsStatus
<1>5. CASE StopPauses(t)      BY <1>5 DEF StopPauses
<1>6. CASE StopWaits(t)       BY <1>6 DEF StopWaits, TakeStopToken
<1>7. CASE StopIsOver(t)      BY <1>7 DEF StopIsOver
<1>8. CASE StopGenerates(t)   BY <1>8 DEF StopGenerates
<1>10. CASE StopReleases(t)   BY <1>10 DEF StopReleases
<1>11. CASE StopIdles(t)      BY <1>11 DEF StopIdles
<1>12. CASE StopRearms(t)     BY <1>12 DEF StopRearms
<1>13. CASE StopEnds(t)       BY <1>13 DEF StopEnds
<1>14. CASE StopUnlocks(t)    BY <1>14 DEF StopUnlocks, ClearFlag
<1> QED
  BY <1>1, <1>2, <1>3, <1>4, <1>5, <1>6, <1>7, <1>8, <1>10, <1>11, <1>12, <1>13, <1>14
  DEF ak_dvr_record_stop

(* Each step of record_ctrl does.                                          *)
LEMMA TakingInvCtl == ASSUME Steady, LockInv, TakingInv, Ctl PROVE TakingInv'
<1> USE TriggerAssumption DEF Steady, LockInv, LockTypeOK, TakingInv,
        FlagInv, StatusInv, PlaceInv, LoopInv, Runs, Rests, Awaited, Somebody, Iframes, ByIframes, Working,
        Filtering, Paused, Stopper, Thread, Stopping, Starting, Holding, StopLabel,
        At, Goto, control, stream, others, triggers, times, sems, locks, app
<1>1. CASE StartBegins        BY <1>1 DEF StartBegins
<1>2. CASE StartChecks        BY <1>2 DEF StartChecks
<1>3. CASE StartWorks         BY <1>3 DEF StartWorks
<1>4. CASE StartFlags         BY <1>4 DEF StartFlags, OwnerHolds, Free
<1>5. CASE CtlStops           BY <1>5 DEF CtlStops
<1>6. CASE CtlForgets         BY <1>6 DEF CtlForgets
<1>7. CASE TurnOn             BY <1>7 DEF TurnOn
<1>8. CASE TurnOff \/ OffCancels \/ OffReleases \/ OffEnds
  BY <1>8 DEF TurnOff, OffCancels, OffReleases, OffEnds
<1> QED
  BY <1>1, <1>2, <1>3, <1>4, <1>5, <1>6, <1>7, <1>8 DEF Ctl

(* Main works only while the recorder runs or a stop waits for it.         *)
THEOREM TakingInvAlways == Steady => (Spec => []TakingInv)
<1> SUFFICES ASSUME Steady PROVE Spec => []TakingInv
  OBVIOUS
<1>1. Init => TakingInv
  BY DEF Init, TakingInv, FlagInv, StatusInv, PlaceInv, LoopInv, Runs, Rests, Awaited, Somebody, Iframes,
     ByIframes, Working, Filtering, Stopping, Starting, Holding, StopLabel, Stopper, At
<1>2. TypeOK /\ LockInv /\ TakingInv /\ [Next]_vars => TakingInv'
  <2> SUFFICES ASSUME TypeOK, LockInv, TakingInv, [Next]_vars PROVE TakingInv'
    OBVIOUS
  <2>1. CASE EncoderRunsOn \/ UNCHANGED vars
    BY <2>1 DEF EncoderRunsOn, vars, control, triggers, stream, others, times, sems, app, TakingInv,
       FlagInv, StatusInv, PlaceInv, LoopInv, Runs, Rests, Awaited, Somebody, Iframes, ByIframes, At
  <2> QED
    BY <2>1, TakingInvMain, TakingInvVideo, TakingInvStop, TakingInvCtl DEF Next
<1> QED BY <1>1, <1>2, TypeOKAlways, LockInvAlways, PTL DEF Spec

(* RemoveAt(s, 1) is the tail.                                             *)
LEMMA HeadRemoved ==
  ASSUME NEW S, NEW s \in Seq(S), s # <<>>
  PROVE  /\ Len(RemoveAt(s, 1)) = Len(s) - 1
         /\ \A i \in 1..Len(s) - 1 : RemoveAt(s, 1)[i] = s[i + 1]
<1>1. Len(s) \in Nat /\ Len(s) >= 1
  <2>1. Len(s) \in Nat \ {0}
    BY EmptySeq, Zenon
  <2> QED BY <2>1
<1>2. SubSeq(s, 1, 0) = <<>>
  BY <1>1
<1>3. /\ SubSeq(s, 2, Len(s)) \in Seq(S)
      /\ Len(SubSeq(s, 2, Len(s))) = Len(s) - 1
      /\ \A i \in 1..Len(s) - 1 : SubSeq(s, 2, Len(s))[i] = s[i + 1]
  BY <1>1, HeadTailProperties, TailIsSubSeq
<1>4. RemoveAt(s, 1) = SubSeq(s, 2, Len(s))
  BY <1>2, <1>3 DEF RemoveAt
<1> QED BY <1>3, <1>4

(* Unlinking the head of a queue in order leaves the others as they are.   *)
LEMMA HeadUnlinked ==
  ASSUME mux_head \in Seq(Frame), Ascends(mux_head), mux_head # <<>>
  PROVE  LET q == Unlinked(mux_head[1]) IN
         /\ q \in Seq(Frame)
         /\ Len(q) = Len(mux_head) - 1
         /\ \A i \in 1..Len(q) : q[i] = mux_head[i + 1]
         /\ Ascends(q)
         /\ Successor(mux_head[1]) = IF q = <<>> THEN NoFrame ELSE q[1]
<1> DEFINE n == Len(mux_head)
<1>1. n \in Nat /\ n >= 1 /\ \A i \in 1..n : mux_head[i] \in Nat
  <2>1. n \in Nat \ {0}
    BY EmptySeq, Zenon
  <2>2. \A i \in 1..n : mux_head[i] \in Frame
    OBVIOUS
  <2> QED BY <2>1, <2>2, FrameFacts
<1>2. \A i \in 2..n : mux_head[1] < mux_head[i]
  BY <1>1 DEF Ascends
<1>3. InQueue(mux_head[1]) /\ Position(mux_head[1]) = 1
  <2>1. \A i \in 1..n : mux_head[i] = mux_head[1] => i = 1
    BY <1>1, <1>2
  <2> QED BY <1>1, <2>1 DEF InQueue, Position
<1>4. PICK q \in Seq(Frame) : q = Unlinked(mux_head[1])
  BY UnlinkedKeeps
<1>5. q = RemoveAt(mux_head, 1)
  BY <1>3, <1>4 DEF Unlinked
<1>6. Len(q) = n - 1 /\ \A i \in 1..n - 1 : q[i] = mux_head[i + 1]
  <2>1. /\ Len(RemoveAt(mux_head, 1)) = Len(mux_head) - 1
        /\ \A i \in 1..Len(mux_head) - 1 : RemoveAt(mux_head, 1)[i] = mux_head[i + 1]
    BY HeadRemoved
  <2> QED BY <1>5, <2>1
<1>7. Ascends(q)
  <2> SUFFICES ASSUME NEW i \in 1..n - 1, NEW j \in 1..n - 1, i < j
               PROVE  q[i] < q[j]
    BY <1>6 DEF Ascends
  <2>1. i + 1 \in 1..n /\ j + 1 \in 1..n /\ i + 1 < j + 1
    BY <1>1
  <2> QED BY <1>6, <2>1 DEF Ascends
<1>8. Successor(mux_head[1]) = IF q = <<>> THEN NoFrame ELSE q[1]
  <2>1. Behind(mux_head[1]) = 2..n
    <3>1. ~(mux_head[1] > mux_head[1])
      BY <1>1
    <3>2. \A i \in 1..n : i = 1 \/ i \in 2..n
      BY <1>1
    <3>3. 2..n \subseteq 1..n
      BY <1>1
    <3>4. \A i \in 2..n : mux_head[i] > mux_head[1]
      BY <1>1, <1>2, <3>3
    <3> QED BY <3>1, <3>2, <3>3, <3>4 DEF Behind
  <2>2. CASE n = 1
    BY <1>6, <2>1, <2>2 DEF Successor
  <2>3. CASE n # 1
    <3>1. Min(2..n) = 2
      BY <1>1, <2>3 DEF Min
    <3> QED BY <1>1, <1>6, <2>1, <2>3, <3>1 DEF Successor
  <2> QED BY <2>2, <2>3
<1> QED BY <1>4, <1>6, <1>7, <1>8

(* What freeing the entry main holds leaves of UseInv.                     *)
LEMMA HeadIsFreed ==
  ASSUME TypeOK, UseInv, pc["main"] \in Carrying, mux_head' = Unlinked(held), next' = next
  PROVE  /\ Ascends(mux_head') /\ \A i \in 1..Len(mux_head') : mux_head'[i] < next'
         /\ Successor(held) = IF mux_head' = <<>> THEN NoFrame ELSE mux_head'[1]
<1>1. mux_head \in Seq(Frame) /\ Ascends(mux_head) /\ mux_head # <<>> /\ held = mux_head[1]
  BY DEF TypeOK, UseInv, HeldIsHead
<1>2. PICK q \in Seq(Frame) : q = mux_head'
  BY <1>1, UnlinkedKeeps
<1>3. /\ Len(q) = Len(mux_head) - 1
      /\ \A i \in 1..Len(q) : q[i] = mux_head[i + 1]
      /\ Ascends(q)
      /\ Successor(held) = IF q = <<>> THEN NoFrame ELSE q[1]
  BY <1>1, <1>2, HeadUnlinked
<1>4. \A i \in 1..Len(q) : q[i] < next
  <2>1. Len(mux_head) \in Nat
    BY <1>1, LenProperties
  <2>2. \A i \in 1..Len(q) : i + 1 \in 1..Len(mux_head)
    BY <1>3, <2>1
  <2> QED BY <1>3, <2>2 DEF UseInv
<1> QED BY <1>2, <1>3, <1>4

(* Each step of the video thread keeps the queue in order.                 *)
LEMMA UseInvVideo == ASSUME TypeOK, LockInv, UseInv, Video PROVE UseInv'
<1>0. pc'["main"] = pc["main"] /\ UNCHANGED <<held, cur_mux_handle>>
  BY DEF LockInv, LockTypeOK, Video, VideoWakes, VideoLoops, get_video_stream, GetFails,
     mark_seq_num_end, stamp_unixts_end, VideoChecksSize, Goto, Thread, control, stream, others,
     local, file
<1>1. CASE UNCHANGED <<mux_head, next>>
  BY <1>0, <1>1 DEF UseInv, HeldIsHead
<1>2. CASE next \in Frame /\ next' = next + 1 /\ mux_head' = mux_head
  <2>1. \A i \in 1..Len(mux_head) : mux_head[i] \in Nat /\ mux_head[i] < next + 1
    BY <1>2, FrameFacts DEF UseInv, TypeOK
  <2> QED BY <1>0, <1>2, <2>1 DEF UseInv, HeldIsHead
<1>3. CASE next \in Frame /\ next' = next + 1 /\ mux_head' = Append(mux_head, next)
  <2> DEFINE q == Append(mux_head, next)
             n == Len(mux_head)
  <2>1. /\ n \in Nat /\ Len(q) = n + 1 /\ q[n + 1] = next
        /\ \A i \in 1..n : q[i] = mux_head[i] /\ mux_head[i] \in Nat
    BY <1>3, LenProperties, AppendProperties, FrameFacts DEF TypeOK
  <2>2. next \in Nat /\ \A i \in 1..n : mux_head[i] < next
    BY <1>3, FrameFacts DEF UseInv
  <2> HIDE DEF q
  <2>3. \A i \in 1..Len(q) : q[i] < next + 1
    BY <2>1, <2>2
  <2>4. Ascends(q)
    <3> SUFFICES ASSUME NEW i \in 1..n + 1, NEW j \in 1..n + 1, i < j
                 PROVE  q[i] < q[j]
      BY <2>1 DEF Ascends
    <3>1. i \in 1..n /\ (j \in 1..n \/ j = n + 1)
      BY <2>1
    <3> QED BY <2>1, <2>2, <3>1 DEF UseInv, Ascends
  <2>5. mux_head # <<>> => q # <<>> /\ q[1] = mux_head[1]
    <3>1. n >= 1 => q[1] = mux_head[1] /\ Len(q) # 0
      BY <2>1
    <3>2. mux_head # <<>> => n # 0
      BY EmptySeq DEF TypeOK
    <3> QED BY <2>1, <3>1, <3>2
  <2>6. HeldIsHead'
    BY <1>0, <1>3, <2>5 DEF UseInv, HeldIsHead, q
  <2> QED BY <1>0, <1>3, <2>3, <2>4, <2>6 DEF UseInv, q
<1> QED
  BY <1>1, <1>2, <1>3 DEF Video, VideoWakes, VideoLoops, get_video_stream, GetFails,
     mark_seq_num_end, stamp_unixts_end, VideoChecksSize, stream, others

(* Each step of the main thread does: what it frees is the head.           *)
LEMMA UseInvMain == ASSUME Steady, TypeOK, LockInv, UseInv, Main PROVE UseInv'
<1> USE DEF LockInv, LockTypeOK, Goto, Thread, control, stream, others, local, file, At
<1>h. mux_head # <<>> => Head(mux_head) = mux_head[1]
  BY DEF TypeOK
<1>1. CASE MainWakes \/ MainSwitches \/ MainEnters \/ MainSyncs \/ MainLoops \/ MainLeaves
           \/ sync_video_data \/ video_record_filter \/ drop_extra_frames
  <2> USE DEF UseInv, HeldIsHead, Carrying
  <2>1. CASE MainWakes         BY <2>1 DEF MainWakes
  <2>2. CASE MainSwitches      BY <2>2 DEF MainSwitches
  <2>3. CASE MainEnters        BY <2>3 DEF MainEnters
  <2>4. CASE MainSyncs \/ MainLoops BY <2>4 DEF MainSyncs, MainLoops
  <2>5. CASE MainLeaves        BY <2>5 DEF MainLeaves
  <2>6. CASE sync_video_data   BY <1>h, <2>6 DEF sync_video_data
  <2>7. CASE video_record_filter BY <1>h, <2>7 DEF video_record_filter
  <2>8. CASE drop_extra_frames BY <1>h, <2>8 DEF drop_extra_frames
  <2> QED BY <1>1, <2>1, <2>2, <2>3, <2>4, <2>5, <2>6, <2>7, <2>8
<1>2. CASE MainAdds \/ add_video_to_mux
  BY <1>2 DEF MainAdds, add_video_to_mux, UseInv, HeldIsHead, Carrying
<1>3. CASE mux_video_data
  <2>1. CASE mux_head = <<>>
    BY <1>3, <2>1 DEF mux_video_data, UseInv, HeldIsHead, Carrying
  <2>2. CASE mux_head # <<>>
    <3>1. /\ pc["main"] = "mux" /\ held' = mux_head[1] /\ UNCHANGED <<mux_head, next>>
          /\ pc'["main"] = "add"
          /\ cur_mux_handle' = TRUE \/ (cur_mux_handle /\ cur_mux_handle' = cur_mux_handle)
      BY <1>3, <1>h, <2>2 DEF mux_video_data, MustOpen, Steady
    <3>2. cur_mux_handle'
      <4>1. CASE cur_mux_handle' = TRUE
        BY <4>1, Zenon
      <4>2. CASE cur_mux_handle /\ cur_mux_handle' = cur_mux_handle
        BY <4>2, Zenon
      <4> QED BY <3>1, <4>1, <4>2
    <3> QED BY <2>2, <3>1, <3>2 DEF UseInv, HeldIsHead, Carrying
  <2> QED BY <2>1, <2>2
<1>4. CASE /\ pc["main"] \in Carrying
           /\ mux_head' = Unlinked(held) /\ next' = next
           /\ pc'["main"] \notin {"add", "muxing", "muxed"}
           /\ \/ held' = NoFrame /\ pc'["main"] \notin Carrying
              \/ held' = Successor(held) /\ (held' = NoFrame <=> pc'["main"] \notin Carrying)
  <2>1. /\ Ascends(mux_head') /\ \A i \in 1..Len(mux_head') : mux_head'[i] < next'
        /\ Successor(held) = IF mux_head' = <<>> THEN NoFrame ELSE mux_head'[1]
    BY <1>4, HeadIsFreed
  <2> QED BY <1>4, <2>1 DEF UseInv, HeldIsHead
<1>5. CASE sync_drops \/ MainFreesMuxed \/ FilterFrees
  BY <1>4, <1>5 DEF sync_drops, MainFreesMuxed, FilterFrees, FreeHeld, Carrying
<1>6. CASE filter_video_data
  BY <1>4, <1>6 DEF filter_video_data, Carrying
<1> QED BY <1>1, <1>2, <1>3, <1>5, <1>6 DEF Main

(* A stop closes the file and empties the queue while main is elsewhere.   *)
LEMMA UseInvStop ==
  ASSUME LockInv, TakingInv, UseInv, NEW t \in Stopper, ak_dvr_record_stop(t)
  PROVE  UseInv'
<1>0. pc'["main"] = pc["main"] /\ UNCHANGED <<next, held>>
  BY DEF ak_dvr_record_stop, StopLocks, StopChecks, StopCancels, StopReadsStatus, StopPauses,
     StopWaits, StopIsOver, StopGenerates, StopReleases, StopIdles, StopRearms, StopEnds,
     StopUnlocks, Goto, LockInv, LockTypeOK, Stopper, Thread, others, local
<1>1. ASSUME pc[t] \in {"stop_file", "stop_release"} PROVE pc["main"] \notin Working
  <2>1. pc[t] \in Paused /\ pc[t] \in Stopping /\ record_flag
    BY <1>1 DEF Paused, Stopping, Holding, StopLabel, TakingInv, FlagInv
  <2>2. ~Runs
    BY <2>1 DEF Runs, Somebody, TakingInv, FlagInv, Starting, At
  <2>3. ~Somebody({"stop_wait"})
    BY <1>1, WaitingIsBetween, <2>1 DEF TakingInv
  <2> QED BY <2>2, <2>3 DEF TakingInv, PlaceInv, Awaited
<1>2. CASE StopGenerates(t)
  <2>1. pc["main"] \notin Working /\ UNCHANGED mux_head
    BY <1>1, <1>2 DEF StopGenerates, At
  <2> QED BY <1>0, <2>1 DEF UseInv, HeldIsHead, Working
<1>3. CASE StopReleases(t)
  <2>1. /\ pc["main"] \notin Working /\ trigger_iframe = 0
        /\ mux_head' = <<>> /\ UNCHANGED cur_mux_handle
    BY <1>1, <1>3 DEF StopReleases, At, TakingInv, StatusInv, file
  <2>2. pc["main"] \notin Carrying
    BY <2>1 DEF TakingInv, PlaceInv, Working, Filtering, Carrying
  <2>3. \A i \in 1..Len(mux_head') : FALSE
    BY <2>1
  <2> QED BY <1>0, <2>1, <2>2, <2>3 DEF UseInv, HeldIsHead, Ascends
<1>4. CASE ~StopGenerates(t) /\ ~StopReleases(t)
  <2>1. UNCHANGED <<mux_head, cur_mux_handle>>
    BY <1>4 DEF ak_dvr_record_stop, StopLocks, StopChecks, StopCancels, StopReadsStatus,
       StopPauses, StopWaits, StopIsOver, StopIdles, StopRearms, StopEnds, StopUnlocks, stream, file
  <2> QED BY <1>0, <2>1 DEF UseInv, HeldIsHead
<1> QED BY <1>2, <1>3, <1>4

(* Each step of record_ctrl and of the encoder keeps it.                   *)
LEMMA UseInvCtl ==
  ASSUME TypeOK, LockInv, TakingInv, UseInv, Ctl \/ EncoderRunsOn \/ UNCHANGED vars
  PROVE  UseInv'
<1>1. pc'["main"] = pc["main"] /\ UNCHANGED <<mux_head, held, cur_mux_handle>>
  BY DEF Ctl, StartBegins, StartChecks, StartWorks, StartFlags, CtlStops, CtlForgets, TurnOn,
     TurnOff, OffCancels, OffReleases, OffEnds, EncoderRunsOn, vars, TakingInv, FlagInv, Starting,
     StopLabel, LockInv, LockTypeOK, Goto, Thread, At, control, stream, others, local, file
<1>2. next' = next \/ (next \in Frame /\ next' = next + 1)
  BY DEF Ctl, StartBegins, StartChecks, StartWorks, StartFlags, CtlStops, CtlForgets, TurnOn,
     TurnOff, OffCancels, OffReleases, OffEnds, EncoderRunsOn, vars, others
<1>3. \A i \in 1..Len(mux_head) : mux_head[i] \in Nat /\ mux_head[i] < next'
  BY <1>2, FrameFacts DEF UseInv, TypeOK
<1> QED BY <1>1, <1>3 DEF UseInv, HeldIsHead

(* The queue and the mux handle have one user at a time, unless the        *)
(* system's calls fail or the alarm is disarmed.                           *)
THEOREM OneUserAtATimeAlways == Steady => (Spec => []OneUserAtATime)
<1> SUFFICES ASSUME Steady PROVE Spec => []OneUserAtATime
  OBVIOUS
<1>1. Init => UseInv
  BY DEF Init, UseInv, Ascends, HeldIsHead, Carrying
<1>2. TypeOK /\ LockInv /\ TakingInv /\ UseInv /\ [Next]_vars => UseInv'
  BY UseInvVideo, UseInvMain, UseInvStop, UseInvCtl DEF Next
<1>3. TypeOK /\ UseInv => OneUserAtATime
  <2> SUFFICES ASSUME TypeOK, UseInv PROVE OneUserAtATime
    OBVIOUS
  <2>1. NoCloseWhileMuxing
    BY DEF UseInv, NoCloseWhileMuxing, At
  <2>2. ASSUME held # NoFrame PROVE InQueue(held)
    <3>1. mux_head # <<>> /\ held = mux_head[1]
      BY <2>2 DEF UseInv, HeldIsHead
    <3>2. 1 \in 1..Len(mux_head)
      BY <3>1, EmptySeq DEF TypeOK
    <3> QED BY <3>1, <3>2 DEF InQueue
  <2> QED BY <2>1, <2>2 DEF OneUserAtATime, NoDoubleFree
<1>4. Spec => []TakingInv
  BY TakingInvAlways
<1> QED BY <1>1, <1>2, <1>3, <1>4, TypeOKAlways, LockInvAlways, PTL DEF Spec

-----------------------------------------------------------------------------
(* The handshake of a stop with the main thread.  From here on the queue   *)
(* stays small, the mux takes every frame it is given and a stop comes     *)
(* when main has begun.  Still video may be late with its mark and main a  *)
(* group behind, and the memory of a freed frame may be used again before  *)
(* the filter reads it.                                                    *)

Calm == /\ Steady
        /\ "skip" \notin Faults
        /\ "oversize" \notin Faults
        /\ "hasty" \notin Faults

(* Where a stop has not paused the recorder yet ...                        *)
Deciding == {"stop", "stop_check", "stop_cancel", "stop_status", "stop_pause"}

(* ... and where a stop has seen it leave.                                 *)
Waited == {"stop_over", "stop_file", "stop_release", "stop_idle", "stop_rearm"}

(* record_ctrl has the recorder at work ...                                *)
Recording == \/ At("ctl", "ready") /\ started
             \/ pc["ctl"] \in {"start_flag"} \union Deciding

(* ... or at rest.                                                         *)
Resting == \/ At("ctl", "ready") /\ ~started
           \/ pc["ctl"] \in {"start", "start_work", "stop_end", "stop_flag"}

(* In a calm, the recorder never stops itself, so the only thread that     *)
(* stops it is "ctl", and the trigger is the mode's.                       *)
CalmTypeOK ==
  /\ mux_over_size = FALSE
  /\ rec_stopped = FALSE
  /\ trigger_iframe = Iframes
  /\ trigger_type \in {"reserved", mode}
  /\ work_sem \in Nat /\ stop_sem \in Nat
  /\ pc["main"] \in MainLabel
  /\ pc["video"] \in {"sleep", "loop", "got", "mark", "stamp", "over"}
  /\ pc["ctl"] \in {"ready"} \union Starting \union StopLabel

(* Where record_ctrl is decides the status.                                *)
StatusOfCtl ==
  /\ Recording => status = "work"
  /\ Resting => status = ByIframes("idle", "filter")
  /\ pc["ctl"] \in {"stop_wait", "stop_over"} => status = ByIframes("sleep", "filter")
  /\ pc["ctl"] \in {"stop_release", "stop_idle"} => trigger_iframe = 0
  /\ At("ctl", "stop_rearm") => trigger_iframe # 0
  /\ pc["ctl"] \in {"stop_file", "stop_release", "stop_idle", "stop_rearm"} =>
       status = ByIframes("stop", "filter")

(* record_ctrl forgets the recording when it begins to stop it.            *)
StartedOfCtl ==
  /\ pc["ctl"] \in StopLabel => started = FALSE
  /\ Recording /\ ~At("ctl", "start_flag") => record_flag

(* Main works exactly while it is meant to, and stop_sem carries one token *)
(* from the end of its work to the stop that waits for it.                 *)
PlaceOfMain ==
  /\ At("main", "enter") => status = "work" /\ pc["ctl"] \in {"ready", "start_flag"}
  /\ pc["main"] \in Working => Recording \/ At("ctl", "stop_wait")
  /\ At("main", "leave") => At("ctl", "stop_wait")
  /\ pc["ctl"] \in Deciding => pc["main"] \in Working /\ work_sem = 0
  /\ pc["ctl"] \in Waited => At("main", "sleep") /\ work_sem = 0
  /\ At("ctl", "stop_wait") =>
       /\ work_sem = 0
       /\ \/ pc["main"] \in Working \union {"leave"} /\ stop_sem = 0
          \/ At("main", "sleep") /\ stop_sem = 1
  /\ ~At("ctl", "stop_wait") => stop_sem = 0

HandInv == CalmTypeOK /\ StatusOfCtl /\ StartedOfCtl /\ PlaceOfMain

(* Each step of the main thread keeps the handshake.                       *)
LEMMA HandInvMain ==
  ASSUME Calm, TypeOK, LockInv, TakingInv, HandInv, Main PROVE HandInv'
<1>0. At("main", "loop") /\ end_time = 0 => At("ctl", "stop_wait")
  BY DEF TakingInv, LoopInv, Awaited, Somebody, Stopper, HandInv, CalmTypeOK, At
<1> USE DEF LockInv, LockTypeOK, HandInv, CalmTypeOK, StatusOfCtl, StartedOfCtl,
            PlaceOfMain,
            Recording, Resting, Iframes, ByIframes, Working, Deciding, Waited, At,
            Goto,
            Thread, MainLabel, StopLabel, Starting, control, stream, others,
            triggers, sems,
            locks, app
<1>1. CASE MainWakes         BY <1>1 DEF MainWakes
<1>2. CASE MainSwitches      BY <1>2 DEF MainSwitches
<1>3. CASE MainEnters        BY <1>3 DEF MainEnters
<1>4. CASE MainSyncs \/ MainLoops
  <2>1. end_time \in Nat
    BY DEF TypeOK
  <2>2. end_time > 0 <=> end_time # 0
    BY <2>1
  <2>3. CASE MainSyncs BY <2>3 DEF MainSyncs
  <2>4. CASE MainLoops BY <1>0, <2>2, <2>4 DEF MainLoops
  <2> QED BY <1>4, <2>3, <2>4
<1>5. CASE sync_video_data   BY <1>5 DEF sync_video_data
<1>6. CASE sync_drops        BY <1>6 DEF sync_drops
<1>7. CASE mux_video_data    BY <1>7 DEF Calm, Steady, mux_video_data
<1>8. CASE MainAdds          BY <1>8 DEF MainAdds
<1>9. CASE add_video_to_mux  BY <1>9 DEF Calm, Steady, add_video_to_mux
<1>10. CASE MainFreesMuxed   BY <1>10 DEF MainFreesMuxed
<1>11. CASE MainLeaves       BY <1>11 DEF MainLeaves, PostStop
<1>12. CASE video_record_filter BY <1>12 DEF video_record_filter
<1>13. CASE filter_video_data   BY <1>13 DEF filter_video_data
<1>14. CASE drop_extra_frames   BY <1>14 DEF drop_extra_frames
<1>15. CASE FilterFrees         BY <1>15 DEF FilterFrees
<1> QED
  BY <1>1, <1>2, <1>3, <1>4, <1>5, <1>6, <1>7, <1>8, <1>9, <1>10, <1>11, <1>12,
     <1>13, <1>14, <1>15 DEF Main

(* A frame always finds room when the queue may not fill up.               *)
LEMMA QueueHasRoom ==
  ASSUME Calm, TypeOK, get_video_stream PROVE ~OverSize
<1>1. Len(mux_head) \in Nat
  BY LenProperties DEF TypeOK
<1>2. Len(mux_head) < MaxQueue
  BY DEF Calm, get_video_stream, QueueStaysSmall
<1> QED BY <1>1, <1>2, MaxQueueAssumption DEF OverSize

(* Each step of the video thread keeps it.                                 *)
LEMMA HandInvVideo ==
  ASSUME Calm, TypeOK, LockInv, HandInv, Video PROVE HandInv'
<1> USE DEF LockInv, LockTypeOK, HandInv, CalmTypeOK, StatusOfCtl, StartedOfCtl,
            PlaceOfMain,
            Recording, Resting, Iframes, ByIframes, At, Goto,
            Thread, control, stream, others, triggers, sems, locks, app
<1>1. CASE VideoWakes        BY <1>1 DEF VideoWakes
<1>2. CASE VideoLoops        BY <1>2 DEF VideoLoops
<1>3. CASE get_video_stream
  <2>1. /\ At("video", "got") /\ (Goto("video", "over") \/ Goto("video", "mark"))
        /\ UNCHANGED <<control, sems, app>>
    BY <1>3, QueueHasRoom DEF Calm, get_video_stream
  <2> QED BY <2>1
<1>4. CASE GetFails          BY <1>4 DEF GetFails
<1>5. CASE mark_seq_num_end  BY <1>5 DEF mark_seq_num_end
<1>6. CASE stamp_unixts_end  BY <1>6 DEF stamp_unixts_end
<1>7. CASE VideoChecksSize   BY <1>7 DEF VideoChecksSize
<1> QED BY <1>1, <1>2, <1>3, <1>4, <1>5, <1>6, <1>7 DEF Video

(* The one caller of ak_dvr_record_stop is record_ctrl.                    *)
LEMMA OnlyCtlStops ==
  ASSUME HandInv, NEW t \in Stopper, ak_dvr_record_stop(t)
  PROVE  t = "ctl"
BY DEF HandInv, CalmTypeOK, Stopper, ak_dvr_record_stop, StopLocks, StopChecks,
   StopCancels, StopReadsStatus, StopPauses, StopWaits, StopIsOver, StopGenerates,
   StopReleases, StopIdles, StopRearms, StopEnds, StopUnlocks, At

(* Each step of a stop keeps it.                                           *)
LEMMA HandInvStop ==
  ASSUME Calm, LockInv, StreamInv, HandInv, NEW t \in Stopper,
         ak_dvr_record_stop(t)
  PROVE  HandInv'
<1>0. t = "ctl" /\ TriggerIframe # 0
  BY OnlyCtlStops, TriggerAssumption
<1> USE <1>0 DEF LockInv, LockTypeOK, StopperHasBoth, FlagHasTrigger, HandInv,
        CalmTypeOK, StatusOfCtl, StartedOfCtl, PlaceOfMain,
            Recording, Resting, Iframes, ByIframes, Working, Deciding, Waited, At,
            Goto, Returned,
            Stopper, Thread, MainLabel, StopLabel, Holding, Stopping, Starting,
            control, stream, others, triggers, sems,
            locks, app
<1>1. CASE StopLocks(t)       BY <1>1 DEF StopLocks
<1>2. CASE StopChecks(t)      BY <1>2 DEF StopChecks
<1>3. CASE StopCancels(t)     BY <1>3 DEF StopCancels, ForgetHandle
<1>4. CASE StopReadsStatus(t) BY <1>4 DEF StopReadsStatus
<1>5. CASE StopPauses(t)      BY <1>5 DEF StopPauses
<1>6. CASE StopWaits(t)       BY <1>6 DEF StopWaits, TakeStopToken
<1>7. CASE StopIsOver(t)      BY <1>7 DEF StopIsOver
<1>8. CASE StopGenerates(t)   BY <1>8 DEF StopGenerates
<1>9. CASE StopReleases(t)    BY <1>9 DEF StopReleases
<1>10. CASE StopIdles(t)      BY <1>10 DEF StopIdles
<1>11. CASE StopRearms(t)     BY <1>11 DEF StopRearms
<1>12. CASE StopEnds(t)       BY <1>12 DEF StopEnds
<1>13. CASE StopUnlocks(t)    BY <1>13 DEF StopUnlocks, ClearFlag
<1> QED
  BY <1>1, <1>2, <1>3, <1>4, <1>5, <1>6, <1>7, <1>8, <1>9, <1>10, <1>11, <1>12,
     <1>13
  DEF ak_dvr_record_stop

(* Each step of record_ctrl keeps it.                                      *)
LEMMA HandInvCtl ==
  ASSUME Calm, LockInv, StreamInv, HandInv, Ctl PROVE HandInv'
<1> USE TriggerAssumption DEF LockInv, LockTypeOK, StreamInv, BusyIsNoted, Busy,
        HandInv, CalmTypeOK, StatusOfCtl, StartedOfCtl, PlaceOfMain,
            Recording, Resting, Iframes, ByIframes, Working, Deciding, Waited, At,
            Goto,
            Thread, MainLabel, StopLabel, Starting, control, stream, others,
            triggers, sems,
            locks, app
<1>1. CASE StartBegins        BY <1>1 DEF StartBegins
<1>2. CASE StartChecks        BY <1>2 DEF StartChecks
<1>3. CASE StartWorks         BY <1>3 DEF StartWorks
<1>4. CASE StartFlags         BY <1>4 DEF StartFlags
<1>5. CASE CtlStops           BY <1>5 DEF Calm, CtlStops, MainTookUp
<1>6. CASE CtlForgets         BY <1>6 DEF CtlForgets
<1>7. CASE TurnOn             BY <1>7 DEF TurnOn
<1>8. CASE TurnOff            BY <1>8 DEF Calm, Steady, TurnOff
<1>9. CASE OffCancels         BY <1>9 DEF OffCancels
<1>10. CASE OffReleases       BY <1>10 DEF OffReleases
<1>11. CASE OffEnds           BY <1>11 DEF OffEnds
<1> QED
  BY <1>1, <1>2, <1>3, <1>4, <1>5, <1>6, <1>7, <1>8, <1>9, <1>10, <1>11 DEF Ctl

(* In a calm, the stop handshake is exact: a stop waits until main has     *)
(* left its loop, and main works only between a start and a stop.          *)
THEOREM HandInvAlways == Calm => (Spec => []HandInv)
<1>1. Init => HandInv
  BY DEF Init, HandInv, CalmTypeOK, StatusOfCtl, StartedOfCtl, PlaceOfMain,
     Recording,
     Resting, Iframes, ByIframes, Working, Deciding, Waited, At, MainLabel,
     StopLabel, Starting
<1> SUFFICES ASSUME Calm PROVE Spec => []HandInv
  OBVIOUS
<1>2. TypeOK /\ LockInv /\ StreamInv /\ TakingInv /\ HandInv /\ [Next]_vars => HandInv'
  <2> SUFFICES ASSUME TypeOK, LockInv, StreamInv, TakingInv, HandInv, [Next]_vars PROVE HandInv'
    OBVIOUS
  <2>1. CASE EncoderRunsOn \/ UNCHANGED vars
    BY <2>1 DEF EncoderRunsOn, vars, control, triggers, stream, others, sems, app,
       HandInv,
       CalmTypeOK, StatusOfCtl, StartedOfCtl, PlaceOfMain, Recording,
       Resting, Iframes, ByIframes, At
  <2> QED
    BY <2>1, HandInvMain, HandInvVideo, HandInvStop, HandInvCtl DEF Next
<1>3. Spec => []TakingInv
  BY TakingInvAlways DEF Calm
<1> QED BY <1>1, <1>2, <1>3, TypeOKAlways, LockInvAlways, StreamInvAlways, PTL DEF Spec

-----------------------------------------------------------------------------
(* Runs of frames.                                                         *)

(* Frames that follow one another.                                         *)
Run(s) == \A i \in 1..Len(s) : s[i] = s[1] + i - 1

(* The next frame added to a run gives a run.                              *)
LEMMA RunGrows ==
  ASSUME NEW s \in Seq(Frame), Run(s), NEW f \in Frame,
         s # <<>> => f = s[Len(s)] + 1
  PROVE  /\ Run(Append(s, f)) /\ Append(s, f)[Len(Append(s, f))] = f
         /\ Append(s, f) # <<>>
         /\ Append(s, f)[1] = IF s = <<>> THEN f ELSE s[1]
<1> USE FrameFacts DEF Run
<1>1. CASE s = <<>>
  BY <1>1
<1>2. CASE s # <<>>
  <2>1. Len(s) \in Nat /\ Len(s) >= 1 /\ \A i \in 1..Len(s) : s[i] \in Frame
    BY <1>2
  <2>2. s[1] \in Nat /\ s[Len(s)] = s[1] + Len(s) - 1
    BY <2>1
  <2>4. f = s[1] + Len(s)
    BY <1>2, <2>1, <2>2
  <2>3. /\ Len(Append(s, f)) = Len(s) + 1
        /\ \A i \in 1..Len(s) : Append(s, f)[i] = s[i]
        /\ Append(s, f)[Len(s) + 1] = f
    BY AppendProperties
  <2>5. Run(Append(s, f))
    <3> DEFINE q == Append(s, f)
    <3>1. Len(q) = Len(s) + 1 /\ q[1] = s[1] /\ q[Len(s) + 1] = s[1] + (Len(s) + 1) - 1
      BY <2>1, <2>2, <2>3, <2>4
    <3>2. \A i \in 1..Len(s) : q[i] = s[1] + i - 1
      BY <2>3
    <3> HIDE DEF q
    <3>3. \A i \in 1..Len(q) : q[i] = q[1] + i - 1
      <4> SUFFICES ASSUME NEW i \in 1..Len(q) PROVE q[i] = q[1] + i - 1
        OBVIOUS
      <4>1. i \in 1..Len(s) \/ i = Len(s) + 1
        BY <2>1, <3>1
      <4> QED BY <3>1, <3>2, <4>1
    <3> QED BY <3>3 DEF q
  <2>6. Append(s, f)[1] = s[1]
    BY <2>1, <2>3
  <2>7. Append(s, f) # <<>>
    BY <2>1, <2>3, EmptySeq
  <2> QED BY <1>2, <2>1, <2>3, <2>5, <2>6, <2>7
<1> QED BY <1>1, <1>2

(* Unlinking the head of a run of frames shifts it by one.                 *)
LEMMA HeadGoes ==
  ASSUME mux_head \in Seq(Frame), Run(mux_head), mux_head # <<>>
  PROVE  LET q == Unlinked(mux_head[1]) IN
         /\ q \in Seq(Frame)
         /\ Len(q) = Len(mux_head) - 1
         /\ \A i \in 1..Len(q) : q[i] = mux_head[1] + i
         /\ Run(q)
         /\ Successor(mux_head[1]) = IF q = <<>> THEN NoFrame ELSE q[1]
<1> DEFINE n == Len(mux_head)
<1>1. n \in Nat /\ \A i \in 1..n : mux_head[i] \in Nat /\ mux_head[i] = mux_head[1] + i - 1
  <2>1. n \in Nat /\ \A i \in 1..n : mux_head[i] \in Frame
    OBVIOUS
  <2> QED BY <2>1, FrameFacts DEF Run
<1>2. Ascends(mux_head)
  <2>1. n \in Nat \ {0} /\ mux_head[1] \in Nat
    BY <1>1, EmptySeq
  <2> QED BY <1>1, <2>1 DEF Ascends
<1>3. PICK q \in Seq(Frame) : q = Unlinked(mux_head[1])
  BY UnlinkedKeeps
<1>4. /\ Len(q) = n - 1
      /\ \A i \in 1..Len(q) : q[i] = mux_head[i + 1]
      /\ Successor(mux_head[1]) = IF q = <<>> THEN NoFrame ELSE q[1]
  BY <1>2, <1>3, HeadUnlinked
<1>5. \A i \in 1..Len(q) : q[i] = mux_head[1] + i
  BY <1>1, <1>4
<1>6. Run(q)
  <2> SUFFICES ASSUME NEW i \in 1..Len(q) PROVE q[i] = q[1] + i - 1
    BY DEF Run
  <2>1. 1 \in 1..Len(q) /\ i \in Int /\ mux_head[1] \in Int
    BY <1>1, <1>4
  <2>2. q[i] = mux_head[1] + i /\ q[1] = mux_head[1] + 1
    BY <1>5, <2>1
  <2> QED BY <2>1, <2>2
<1> QED BY <1>3, <1>4, <1>5, <1>6

-----------------------------------------------------------------------------
(* The queue.                                                              *)

(* The queue misses no frame.                                              *)
QueueIsRun == Run(mux_head)

(* It ends before the encoder's next frame, and with the stream open right *)
(* before it.                                                              *)
QueueIsBehind ==
  mux_head # <<>> =>
    mux_head[Len(mux_head)] < next /\ (req_handle => mux_head[Len(mux_head)] = next - 1)

(* A frame is taken only for a recorder that wants it.                     *)
GotIsWanted == At("video", "got") => req_handle /\ status \in {"work", "filter"}

(* The stream is not given back while a frame is marked.                   *)
MarkIsWanted == pc["video"] \in {"mark", "stamp"} => req_handle

(* An idle recorder has no frames.                                         *)
IdleIsEmpty == status = "idle" \/ At("ctl", "stop_idle") => mux_head = <<>>

QueueInv == /\ QueueIsRun /\ QueueIsBehind /\ HeldIsHead
            /\ GotIsWanted /\ MarkIsWanted /\ IdleIsEmpty

(* What freeing the entry main holds does to the queue.                    *)
LEMMA HeadLeaves ==
  ASSUME TypeOK, QueueInv, pc["main"] \in Carrying, mux_head' = Unlinked(held),
         UNCHANGED <<next, req_handle>>
  PROVE  /\ QueueIsRun' /\ QueueIsBehind'
         /\ mux_head' \in Seq(Frame) /\ Len(mux_head') = Len(mux_head) - 1
         /\ \A i \in 1..Len(mux_head') : mux_head'[i] = held + i
         /\ Successor(held) = IF mux_head' = <<>> THEN NoFrame ELSE mux_head'[1]
         /\ \A i \in 1..Len(mux_head') : mux_head'[i] = mux_head[i + 1]
<1>1. mux_head \in Seq(Frame) /\ Run(mux_head) /\ mux_head # <<>> /\ held = mux_head[1]
  BY DEF TypeOK, QueueInv, QueueIsRun, HeldIsHead
<1>2. PICK q \in Seq(Frame) : q = mux_head'
  BY <1>1, UnlinkedKeeps
<1>3. /\ Len(q) = Len(mux_head) - 1
      /\ \A i \in 1..Len(q) : q[i] = mux_head[1] + i
      /\ Run(q)
      /\ Successor(mux_head[1]) = IF q = <<>> THEN NoFrame ELSE q[1]
  BY <1>1, <1>2, HeadGoes
<1>4. Len(mux_head) \in Nat /\ Len(q) \in Nat /\ mux_head[1] \in Nat
  BY <1>1, LenProperties, FrameFacts
<1>5. \A i \in 1..Len(q) : q[i] = mux_head[i + 1]
  BY <1>1, <1>3, <1>4 DEF Run
<1>6. q # <<>> => q[Len(q)] = mux_head[Len(mux_head)]
  <2>1. q # <<>> => Len(q) \in 1..Len(q)
    BY <1>4, EmptySeq
  <2> QED BY <1>3, <1>4, <1>5, <2>1
<1>7. QueueIsBehind'
  BY <1>1, <1>2, <1>6 DEF QueueInv, QueueIsBehind
<1> QED BY <1>1, <1>2, <1>3, <1>5, <1>7 DEF QueueIsRun

(* A paused recorder that does not pre-record has no stream.               *)
LEMMA SleepIsForgotten == ASSUME HandInv, StreamInv, status = "sleep" PROVE ~req_handle
<1>1. pc["ctl"] \in {"stop_wait", "stop_over"} /\ trigger_iframe = 0
  BY DEF HandInv, CalmTypeOK, StatusOfCtl, ByIframes, Resting, Recording, Starting,
     Deciding, StopLabel, At
<1>2. pc["ctl"] \in Stopping \ {"stop_cancel"}
  BY <1>1 DEF Stopping, Holding, StopLabel
<1> QED BY <1>1, <1>2 DEF StreamInv, HandleForgotten, Stopper

(* Each step of the video thread keeps the queue.                          *)
LEMMA QueueInvVideo ==
  ASSUME Calm, TypeOK, LockInv, StreamInv, HandInv, QueueInv, Video
  PROVE  QueueInv'
<1>0. /\ pc'["main"] = pc["main"] /\ pc'["ctl"] = pc["ctl"]
      /\ UNCHANGED <<status, req_handle, held>>
  BY DEF LockInv, LockTypeOK, Video, VideoWakes, VideoLoops, get_video_stream,
     GetFails,
     mark_seq_num_end, stamp_unixts_end, VideoChecksSize, Goto, Thread, control,
     stream, others, local
<1>1. CASE get_video_stream
  <2>1. QueueInv /\ At("video", "got")
    BY <1>1 DEF get_video_stream
  <2>2. status \in {"work", "filter"} /\ req_handle
    BY <2>1 DEF QueueInv, GotIsWanted
  <2>3. ~At("ctl", "stop_idle")
    BY <2>2 DEF HandInv, StatusOfCtl, ByIframes, At
  <2>4. /\ next \in Frame /\ next' = next + 1
        /\ mux_head' = Append(mux_head, next)
        /\ pc'["video"] # "got"
    BY <1>1, <2>2, QueueHasRoom DEF get_video_stream, Goto, LockInv, LockTypeOK,
       Thread
  <2>5. mux_head # <<>> => next = mux_head[Len(mux_head)] + 1
    BY <2>1, <2>2, <2>4, FrameFacts, EmptySeq DEF QueueInv, QueueIsBehind, TypeOK
  <2>6. /\ Run(mux_head') /\ mux_head'[Len(mux_head')] = next /\ mux_head' # <<>>
        /\ mux_head'[1] = IF mux_head = <<>> THEN next ELSE mux_head[1]
    BY <2>1, <2>4, <2>5, RunGrows DEF QueueInv, QueueIsRun, TypeOK
  <2>7. QueueIsRun' /\ QueueIsBehind'
    BY <2>4, <2>6, FrameFacts DEF QueueIsRun, QueueIsBehind
  <2>8. HeldIsHead'
    BY <1>0, <2>1, <2>6 DEF QueueInv, HeldIsHead
  <2>9. GotIsWanted' /\ MarkIsWanted' /\ IdleIsEmpty'
    BY <1>0, <2>2, <2>3, <2>4 DEF GotIsWanted, MarkIsWanted, IdleIsEmpty, At
  <2> QED BY <2>7, <2>8, <2>9 DEF QueueInv
<1>2. CASE VideoWakes \/ VideoLoops \/ GetFails \/ mark_seq_num_end \/ stamp_unixts_end
           \/ VideoChecksSize
  <2>1. UNCHANGED <<mux_head, next>>
    BY <1>2 DEF VideoWakes, VideoLoops, GetFails, mark_seq_num_end,
       stamp_unixts_end,
       VideoChecksSize, stream, others
  <2>2. GotIsWanted'
    <3>1. CASE VideoLoops
      <4>1. At("video", "got")' => status \in {"work", "filter", "sleep"} /\ req_handle
        BY <3>1 DEF VideoLoops, At, Goto, LockInv, LockTypeOK, Thread
      <4> QED BY <1>0, <4>1, SleepIsForgotten DEF GotIsWanted
    <3>2. CASE ~VideoLoops
      <4>1. pc'["video"] # "got"
        BY <1>2, <3>2 DEF VideoWakes, GetFails, mark_seq_num_end, stamp_unixts_end,
           VideoChecksSize, Goto, LockInv, LockTypeOK, Thread
      <4> QED BY <4>1 DEF GotIsWanted, At
    <3> QED BY <3>1, <3>2
  <2>3. pc'["video"] \in {"mark", "stamp"} => pc["video"] \in {"mark", "stamp"}
    BY <1>2 DEF VideoWakes, VideoLoops, GetFails, mark_seq_num_end, stamp_unixts_end,
       VideoChecksSize, Goto, LockInv, LockTypeOK, Thread, At
  <2>4. MarkIsWanted'
    BY <1>0, <2>3 DEF QueueInv, MarkIsWanted
  <2> QED BY <1>0, <2>1, <2>2, <2>4 DEF QueueInv, QueueIsRun, QueueIsBehind, HeldIsHead,
      IdleIsEmpty, At
<1> QED BY <1>1, <1>2 DEF Video

(* Each step of the main thread does.                                      *)
LEMMA QueueInvMain ==
  ASSUME Calm, TypeOK, LockInv, HandInv, QueueInv, Main
  PROVE  QueueInv'
<1>0. /\ UNCHANGED <<req_handle, next>>
      /\ pc'["video"] = pc["video"] /\ pc'["ctl"] = pc["ctl"]
  <2> USE DEF LockInv, LockTypeOK, Goto, Thread, control, stream, others, triggers,
              app
  <2>1. CASE MainWakes         BY <2>1 DEF MainWakes
  <2>2. CASE MainSwitches      BY <2>2 DEF MainSwitches
  <2>3. CASE MainEnters        BY <2>3 DEF MainEnters
  <2>4. CASE MainSyncs \/ MainLoops BY <2>4 DEF MainSyncs, MainLoops
  <2>5. CASE sync_video_data   BY <2>5 DEF sync_video_data
  <2>6. CASE sync_drops        BY <2>6 DEF sync_drops
  <2>7. CASE mux_video_data    BY <2>7 DEF mux_video_data
  <2>8. CASE MainAdds          BY <2>8 DEF MainAdds
  <2>9. CASE add_video_to_mux  BY <2>9 DEF add_video_to_mux
  <2>10. CASE MainFreesMuxed   BY <2>10 DEF MainFreesMuxed
  <2>11. CASE MainLeaves       BY <2>11 DEF MainLeaves
  <2>12. CASE video_record_filter BY <2>12 DEF video_record_filter
  <2>13. CASE filter_video_data   BY <2>13 DEF filter_video_data
  <2>14. CASE drop_extra_frames   BY <2>14 DEF drop_extra_frames
  <2>15. CASE FilterFrees         BY <2>15 DEF FilterFrees
  <2> QED
    BY <2>1, <2>2, <2>3, <2>4, <2>5, <2>6, <2>7, <2>8, <2>9, <2>10, <2>11, <2>12,
       <2>13, <2>14, <2>15 DEF Main
<1>1. UNCHANGED status
  <2>1. ~MainEnters => UNCHANGED status
    BY DEF Calm, Steady, Main, MainWakes, MainSwitches, MainSyncs, MainLoops, sync_video_data,
       sync_drops,
       mux_video_data, MainAdds, add_video_to_mux, MainFreesMuxed, MainLeaves,
       video_record_filter, filter_video_data, drop_extra_frames, FilterFrees,
       control
  <2>2. MainEnters => UNCHANGED status
    BY DEF MainEnters, HandInv, PlaceOfMain
  <2> QED BY <2>1, <2>2
<1>2. GotIsWanted' /\ MarkIsWanted'
  BY <1>0, <1>1 DEF QueueInv, GotIsWanted, MarkIsWanted, At
<1>3. CASE /\ UNCHANGED mux_head
           /\ HeldIsHead'
  BY <1>0, <1>1, <1>2, <1>3 DEF QueueInv, QueueIsRun, QueueIsBehind, IdleIsEmpty, At
<1>4. CASE /\ pc["main"] \in Carrying
           /\ mux_head' = Unlinked(held)
           /\ \/ held' = NoFrame /\ pc'["main"] \notin Carrying
              \/ held' = Successor(held) /\ held' = NoFrame /\ pc'["main"] \notin Carrying
              \/ held' = Successor(held) /\ held' # NoFrame /\ pc'["main"] \in Carrying
  <2>1. /\ QueueIsRun' /\ QueueIsBehind'
        /\ Successor(held) = IF mux_head' = <<>> THEN NoFrame ELSE mux_head'[1]
    BY <1>0, <1>4, HeadLeaves
  <2>2. HeldIsHead'
    BY <1>4, <2>1 DEF HeldIsHead
  <2>3. mux_head # <<>>
    BY <1>4 DEF QueueInv, HeldIsHead
  <2>4. IdleIsEmpty'
    BY <1>0, <1>1, <2>3 DEF QueueInv, IdleIsEmpty, At
  <2> QED BY <1>2, <2>1, <2>2, <2>4 DEF QueueInv
<1>5. CASE MainWakes \/ MainSwitches \/ MainEnters \/ MainSyncs \/ MainLoops \/ MainAdds
           \/ add_video_to_mux \/ MainLeaves \/ sync_video_data \/ mux_video_data
           \/ video_record_filter \/ drop_extra_frames
  <2> USE DEF LockInv, LockTypeOK, Goto, Thread, control, stream, others, local,
              QueueInv, HeldIsHead, Carrying, At
  <2>h. mux_head # <<>> => Head(mux_head) = mux_head[1]
    OBVIOUS
  <2>1. CASE MainWakes         BY <2>1, <1>3 DEF MainWakes
  <2>2. CASE MainSwitches      BY <2>2, <1>3 DEF MainSwitches
  <2>3. CASE MainEnters        BY <2>3, <1>3 DEF MainEnters
  <2>4. CASE MainSyncs \/ MainLoops BY <2>4, <1>3 DEF MainSyncs, MainLoops
  <2>5. CASE sync_video_data   BY <2>h, <2>5, <1>3 DEF sync_video_data
  <2>7. CASE mux_video_data    BY <2>h, <2>7, <1>3 DEF mux_video_data
  <2>8. CASE MainAdds          BY <2>8, <1>3 DEF MainAdds
  <2>9. CASE add_video_to_mux  BY <2>9, <1>3 DEF add_video_to_mux
  <2>11. CASE MainLeaves       BY <2>11, <1>3 DEF MainLeaves
  <2>12. CASE video_record_filter BY <2>h, <2>12, <1>3 DEF video_record_filter
  <2>14. CASE drop_extra_frames   BY <2>h, <2>14, <1>3 DEF drop_extra_frames
  <2> QED BY <1>5, <2>1, <2>2, <2>3, <2>4, <2>5, <2>7, <2>8, <2>9, <2>11, <2>12,
      <2>14
<1>6. CASE sync_drops \/ MainFreesMuxed \/ FilterFrees
  BY <1>4, <1>6 DEF sync_drops, MainFreesMuxed, FilterFrees, FreeHeld, LockInv,
     LockTypeOK, Goto, Thread,
     Carrying, At
<1>7. CASE filter_video_data
  BY <1>4, <1>7 DEF filter_video_data, LockInv, LockTypeOK, Goto, Thread, Carrying,
     At
<1> QED BY <1>5, <1>6, <1>7 DEF Main

(* Each step of a stop does.                                               *)
LEMMA QueueInvStop ==
  ASSUME Calm, TypeOK, LockInv, StreamInv, HandInv, QueueInv,
         NEW t \in Stopper, ak_dvr_record_stop(t)
  PROVE  QueueInv'
<1>0. t = "ctl"
  BY OnlyCtlStops
<1>1. /\ pc'["main"] = pc["main"] /\ pc'["video"] = pc["video"]
      /\ UNCHANGED <<next, held>>
  BY <1>0 DEF ak_dvr_record_stop, StopLocks, StopChecks, StopCancels,
     StopReadsStatus, StopPauses, StopWaits, StopIsOver, StopGenerates,
     StopReleases,
     StopIdles, StopRearms, StopEnds, StopUnlocks, Goto, LockInv, LockTypeOK,
     Thread, others, local
<1>2. CASE StopCancels(t)
  <2>1. /\ pc["video"] \notin {"got", "mark", "stamp"} /\ ~req_handle'
        /\ UNCHANGED <<mux_head, status>> /\ pc'["ctl"] # "stop_idle"
    BY <1>0, <1>2 DEF StopCancels, CancelMutexFree, ForgetHandle, At, control,
       LockInv, LockTypeOK, Goto, Thread
  <2> QED BY <1>1, <2>1 DEF QueueInv, QueueIsRun, QueueIsBehind, HeldIsHead,
      GotIsWanted, MarkIsWanted, IdleIsEmpty, At
<1>3. CASE StopReleases(t)
  <2>1. At("main", "sleep") /\ mux_head' = <<>> /\ UNCHANGED <<req_handle, status>>
    BY <1>0, <1>3 DEF StopReleases, HandInv, PlaceOfMain, Waited, At, control
  <2>2. \A i \in 1..Len(mux_head') : FALSE
    BY <2>1
  <2> QED BY <1>1, <2>1, <2>2 DEF QueueInv, QueueIsRun, Run, QueueIsBehind,
      HeldIsHead, GotIsWanted, MarkIsWanted, IdleIsEmpty, At, Carrying
<1>4. CASE ~StopCancels(t) /\ ~StopReleases(t)
  <2>1. UNCHANGED <<req_handle, mux_head>>
    BY <1>4 DEF ak_dvr_record_stop, StopLocks, StopChecks,
     StopReadsStatus, StopPauses, StopWaits, StopIsOver, StopGenerates,
     StopIdles, StopRearms, StopEnds, StopUnlocks, stream
  <2>2. At("ctl", "stop_idle")' => FALSE
    BY <1>0, <1>4 DEF ak_dvr_record_stop, StopLocks, StopChecks,
     StopReadsStatus, StopPauses, StopWaits, StopIsOver, StopGenerates,
     StopIdles, StopRearms, StopEnds, StopUnlocks, At, Goto, LockInv, LockTypeOK,
     Thread, Returned
  <2>3. status' = "idle" => status = "idle" \/ At("ctl", "stop_idle")
    BY <1>0, <1>4 DEF ak_dvr_record_stop, StopLocks, StopChecks,
     StopReadsStatus, StopPauses, StopWaits, StopIsOver, StopGenerates,
     StopIdles, StopRearms, StopEnds, StopUnlocks, control, At
  <2>4. \/ status' \in {"work", "filter"} \/ UNCHANGED status
        \/ pc["ctl"] \in Stopping \ {"stop_cancel"} /\ trigger_iframe = 0
    BY <1>0, <1>4 DEF ak_dvr_record_stop, StopLocks, StopChecks,
     StopReadsStatus, StopPauses, StopWaits, StopIsOver, StopGenerates,
     StopIdles, StopRearms, StopEnds, StopUnlocks, control, At, HandInv,
     StatusOfCtl, Stopping, Holding, StopLabel
  <2>5. GotIsWanted'
    BY <1>1, <2>1, <2>4 DEF QueueInv, GotIsWanted, StreamInv, HandleForgotten,
       Stopper, At
  <2> QED BY <1>1, <2>1, <2>2, <2>3, <2>5 DEF QueueInv, QueueIsRun, QueueIsBehind,
      HeldIsHead, MarkIsWanted, IdleIsEmpty, At
<1> QED BY <1>2, <1>3, <1>4

(* Each step of record_ctrl and of the encoder does.                       *)
LEMMA QueueInvCtl ==
  ASSUME Calm, TypeOK, LockInv, StreamInv, HandInv, QueueInv,
         Ctl \/ EncoderRunsOn \/ UNCHANGED vars
  PROVE  QueueInv'
<1> USE DEF LockInv, LockTypeOK, HandInv, StatusOfCtl, ByIframes, Resting,
            Recording, QueueInv, QueueIsRun, QueueIsBehind, HeldIsHead,
            GotIsWanted, MarkIsWanted, IdleIsEmpty, At, Goto, Thread, control,
            stream, others, local
<1>1. CASE StartBegins        BY <1>1 DEF StartBegins
<1>2. CASE StartChecks        BY <1>2 DEF StartChecks
<1>3. CASE StartWorks         BY <1>3 DEF StartWorks
<1>4. CASE StartFlags         BY <1>4 DEF StartFlags
<1>5. CASE CtlStops           BY <1>5 DEF CtlStops
<1>6. CASE CtlForgets         BY <1>6 DEF CtlForgets
<1>7. CASE TurnOn             BY <1>7 DEF TurnOn
<1>8. CASE TurnOff            BY <1>8 DEF TurnOff
<1>9. CASE OffCancels \/ OffReleases \/ OffEnds
  BY <1>9 DEF OffCancels, OffReleases, OffEnds, CalmTypeOK, Starting, StopLabel
<1>10. CASE EncoderRunsOn     BY <1>10, FrameFacts DEF EncoderRunsOn, TypeOK
<1>11. CASE UNCHANGED vars    BY <1>11 DEF vars
<1> QED
  BY <1>1, <1>2, <1>3, <1>4, <1>5, <1>6, <1>7, <1>8, <1>9, <1>10, <1>11 DEF Ctl

(* In a calm, the queue is a run of frames and main frees nothing but      *)
(* its head.                                                               *)
THEOREM QueueInvAlways == Calm => (Spec => []QueueInv)
<1> SUFFICES ASSUME Calm PROVE Spec => []QueueInv
  OBVIOUS
<1>1. Init => QueueInv
  BY DEF Init, QueueInv, QueueIsRun, Run, QueueIsBehind, HeldIsHead, GotIsWanted,
     MarkIsWanted, IdleIsEmpty, At, Carrying
<1>2. TypeOK /\ LockInv /\ StreamInv /\ HandInv /\ QueueInv /\ [Next]_vars => QueueInv'
  BY QueueInvVideo, QueueInvMain, QueueInvStop, QueueInvCtl DEF Next
<1>3. Spec => []HandInv
  BY HandInvAlways
<1> QED BY <1>1, <1>2, <1>3, TypeOKAlways, LockInvAlways, StreamInvAlways,
    PTL DEF Spec

-----------------------------------------------------------------------------
(* The mux handle.                                                         *)

(* The times sync_video_data sets for a segment that begins at f.          *)
SyncedAt(f) == IsI(f) /\ start_time = f /\ date = f /\ end_time = f + Duration

(* Without a handle there is no segment.                                   *)
ClosedIsEmpty == ~cur_mux_handle => segment = <<>>

(* Main has a handle while it adds a frame, and none outlives its work.    *)
HandleIsUsed ==
  /\ pc["main"] \in {"add", "muxing", "muxed"} => cur_mux_handle
  /\ cur_mux_handle => \/ pc["main"] \in Working \union {"leave"}
                       \/ pc["ctl"] \in {"stop_wait", "stop_over", "stop_file"}

(* end_time is 0 exactly where main still has to synchronise.              *)
TimesOfMain ==
  /\ (status = "work" \/ At("ctl", "start_work")) /\ pc["main"] \notin Working => end_time = 0
  /\ pc["main"] \in {"syncing", "drop"} => end_time = 0
  /\ pc["main"] \in {"mux", "add", "muxing", "muxed"} => end_time # 0
  /\ pc["main"] \in Working /\ end_time = 0 => ~cur_mux_handle

(* Until the first file is open, the queue begins where it was             *)
(* synchronised.                                                           *)
SyncIsKept ==
  pc["main"] \in {"sync", "loop", "mux"} /\ end_time # 0 /\ ~cur_mux_handle =>
    mux_head # <<>> /\ SyncedAt(mux_head[1])

(* While no mark was late, its number and its time agree.                  *)
MarkIsWhole ==
  ~slipped => unixts_end = seq_num_end /\ pc["video"] \notin {"mark", "stamp"}

HandleInv == ClosedIsEmpty /\ HandleIsUsed /\ TimesOfMain /\ SyncIsKept /\ MarkIsWhole

(* A slip is remembered.                                                   *)
LEMMA SlippedStays == ASSUME Video PROVE slipped => slipped'
BY DEF Video, VideoWakes, VideoLoops, get_video_stream, GetFails, mark_seq_num_end,
   stamp_unixts_end, VideoChecksSize, stream, mark

(* Each step of the video thread keeps the handle's invariant.             *)
LEMMA HandleInvVideo ==
  ASSUME Calm, TypeOK, LockInv, HandInv, QueueInv, HandleInv,
         Video PROVE HandleInv'
<1>0. /\ pc'["main"] = pc["main"] /\ pc'["ctl"] = pc["ctl"]
      /\ UNCHANGED <<status, times, file>>
  BY DEF LockInv, LockTypeOK, Video, VideoWakes, VideoLoops, get_video_stream,
     GetFails,
     mark_seq_num_end, stamp_unixts_end, VideoChecksSize, Goto, Thread, control,
     stream, others, local
<1>2. MarkIsWhole'
  <2> SUFFICES ASSUME ~slipped'
               PROVE  unixts_end' = seq_num_end' /\ pc'["video"] \notin {"mark", "stamp"}
    BY DEF MarkIsWhole
  <2>s. ~slipped
    BY SlippedStays
  <2>0. ~mark_seq_num_end /\ ~stamp_unixts_end
    BY <2>s DEF HandleInv, MarkIsWhole, mark_seq_num_end, stamp_unixts_end, At
  <2>1. unixts_end = seq_num_end
    BY <2>s DEF HandleInv, MarkIsWhole
  <2>2. CASE get_video_stream
    <3>1. pc'["video"] # "mark" /\ (Goto("video", "over") \/ Goto("video", "mark"))
      BY <2>2 DEF get_video_stream
    <3>2. pc'["video"] \notin {"mark", "stamp"}
      BY <3>1 DEF Goto, LockInv, LockTypeOK, Thread
    <3>3. \/ UNCHANGED <<seq_num_end, unixts_end>>
          \/ seq_num_end' = next /\ unixts_end' = next
      BY <2>2, <3>1 DEF get_video_stream
    <3> QED BY <2>1, <3>2, <3>3
  <2>3. CASE VideoWakes \/ VideoLoops \/ GetFails \/ VideoChecksSize
    BY <2>1, <2>3 DEF VideoWakes, VideoLoops, GetFails, VideoChecksSize, stream, mark, Goto,
       LockInv, LockTypeOK, Thread
  <2> QED BY <2>0, <2>2, <2>3 DEF Video
<1>3. mux_head # <<>> => mux_head' # <<>> /\ mux_head'[1] = mux_head[1]
  <2>1. CASE get_video_stream
    <3>1. next \in Frame /\ (UNCHANGED mux_head \/ mux_head' = Append(mux_head, next))
      BY <2>1 DEF get_video_stream
    <3>2. mux_head # <<>> => next = mux_head[Len(mux_head)] + 1
      <4>1. At("video", "got") /\ req_handle
        BY <2>1 DEF get_video_stream, QueueInv, GotIsWanted
      <4> QED BY <3>1, <4>1, FrameFacts, EmptySeq DEF QueueInv, QueueIsBehind,
          TypeOK
    <3> QED BY <3>1, <3>2, RunGrows DEF QueueInv, QueueIsRun, TypeOK
  <2>2. CASE ~get_video_stream
    BY <2>2 DEF Video, VideoWakes, VideoLoops, GetFails,
     mark_seq_num_end, stamp_unixts_end, VideoChecksSize, stream
  <2> QED BY <2>1, <2>2
<1> QED BY <1>0, <1>2, <1>3 DEF HandleInv, ClosedIsEmpty, HandleIsUsed,
    TimesOfMain, SyncIsKept, SyncedAt,
           times, file, At

(* Each step of the main thread does.                                      *)
LEMMA HandleInvMain ==
  ASSUME Calm, TypeOK, LockInv, HandInv, QueueInv, HandleInv,
         Main PROVE HandleInv'
<1> USE DEF LockInv, LockTypeOK, Goto, Thread, control, stream, others, times,
            mark, file, 
            HandleInv, ClosedIsEmpty, HandleIsUsed, TimesOfMain, SyncIsKept,
            SyncedAt, MarkIsWhole, Working, At
<1>h. mux_head # <<>> => Head(mux_head) = mux_head[1] /\ mux_head[1] \in Frame
  BY DEF TypeOK
<1>e. At("main", "enter") => status = "work" /\ pc["ctl"] \in {"ready", "start_flag"}
  BY DEF HandInv, PlaceOfMain
<1>w. pc["main"] \in Working => ~At("ctl", "start_work")
  BY DEF HandInv, PlaceOfMain, Recording, Deciding
<1>l. At("main", "leave") => At("ctl", "stop_wait")
  BY DEF HandInv, PlaceOfMain
<1>1. CASE MainWakes         BY <1>1 DEF MainWakes
<1>2. CASE MainSwitches      BY <1>2 DEF MainSwitches
<1>3. CASE MainEnters        BY <1>3, <1>e DEF MainEnters
<1>4. CASE MainSyncs \/ MainLoops
  <2>1. end_time \in Nat
    BY DEF TypeOK
  <2>2. end_time > 0 <=> end_time # 0
    BY <2>1
  <2>3. CASE MainSyncs BY <2>3, <1>w DEF MainSyncs
  <2>4. CASE MainLoops BY <2>2, <2>4, <1>w DEF MainLoops
  <2> QED BY <1>4, <2>3, <2>4
<1>5. CASE sync_video_data   BY <1>5, <1>h, FrameFacts DEF sync_video_data, MayBegin
<1>6. CASE sync_drops        BY <1>6 DEF sync_drops
<1>7. CASE mux_video_data
  <2>1. CASE mux_head = <<>>
    BY <1>7, <2>1 DEF mux_video_data
  <2>2. CASE mux_head # <<>>
    <3>1. PICK f \in Frame : f = Head(mux_head)
      BY <1>h, <2>2
    <3>2. /\ switch_record_file(f) /\ Goto("main", "add") /\ UNCHANGED <<status, mux_head>>
          /\ cur_mux_handle' = TRUE \/ (cur_mux_handle /\ cur_mux_handle' = cur_mux_handle)
          /\ At("main", "mux")
      BY <1>7, <2>2, <3>1 DEF Calm, Steady, mux_video_data, MustOpen
    <3>3. cur_mux_handle'
      <4>1. cur_mux_handle' = TRUE \/ (cur_mux_handle /\ cur_mux_handle' = cur_mux_handle)
        BY <3>2
      <4>2. CASE cur_mux_handle' = TRUE
        BY <4>2, Zenon
      <4>3. CASE cur_mux_handle /\ cur_mux_handle' = cur_mux_handle
        BY <4>3, Zenon
      <4> QED BY <4>1, <4>2, <4>3
    <3>4. f + Duration # 0
      BY <3>1, BoundsAssumption, DurationAssumption DEF Frame
    <3>5. end_time' # 0 /\ MarkIsWhole'
      BY <1>7, <3>2, <3>4 DEF mux_video_data, switch_record_file, NewDateFromMark, NoFrame
    <3> QED BY <3>2, <3>3, <3>5
  <2> QED BY <2>1, <2>2
<1>8. CASE MainAdds          BY <1>8 DEF MainAdds
<1>9. CASE add_video_to_mux  BY <1>9 DEF add_video_to_mux
<1>10. CASE MainFreesMuxed   BY <1>10 DEF MainFreesMuxed
<1>11. CASE MainLeaves       BY <1>11, <1>l DEF MainLeaves
<1>12. CASE video_record_filter BY <1>12 DEF video_record_filter
<1>13. CASE filter_video_data   BY <1>13 DEF filter_video_data
<1>14. CASE drop_extra_frames   BY <1>14 DEF drop_extra_frames
<1>15. CASE FilterFrees         BY <1>15 DEF FilterFrees
<1> QED
  BY <1>1, <1>2, <1>3, <1>4, <1>5, <1>6, <1>7, <1>8, <1>9, <1>10, <1>11, <1>12,
     <1>13, <1>14, <1>15 DEF Main

(* Each step of a stop does.                                               *)
LEMMA HandleInvStop ==
  ASSUME Calm, TypeOK, LockInv, HandInv, QueueInv, HandleInv,
         NEW t \in Stopper, ak_dvr_record_stop(t)
  PROVE  HandleInv'
<1>0. t = "ctl"
  BY OnlyCtlStops
<1>s. pc["ctl"] \in StopLabel \ {"stop_wait"} =>
        (pc["main"] \in Working => pc["ctl"] \in Deciding)
  BY DEF HandInv, PlaceOfMain, Recording, At, StopLabel
<1> USE <1>0, <1>s DEF LockInv, LockTypeOK, Goto, Thread, control, stream, others,
        times, mark, file, Returned, StopLabel, Deciding,
            HandInv, StatusOfCtl, PlaceOfMain, Waited,
            HandleInv, ClosedIsEmpty, HandleIsUsed, TimesOfMain, SyncIsKept,
            SyncedAt, MarkIsWhole, Working, At
<1>1. CASE StopLocks(t)       BY <1>1 DEF StopLocks
<1>2. CASE StopChecks(t)      BY <1>2 DEF StopChecks
<1>3. CASE StopCancels(t)     BY <1>3 DEF StopCancels
<1>4. CASE StopReadsStatus(t) BY <1>4 DEF StopReadsStatus
<1>5. CASE StopPauses(t)      BY <1>5 DEF StopPauses
<1>6. CASE StopWaits(t)       BY <1>6 DEF StopWaits, TakeStopToken
<1>7. CASE StopIsOver(t)      BY <1>7 DEF StopIsOver
<1>8. CASE StopGenerates(t)   BY <1>8 DEF StopGenerates
<1>9. CASE StopReleases(t)    BY <1>9 DEF StopReleases
<1>10. CASE StopIdles(t)      BY <1>10 DEF StopIdles
<1>11. CASE StopRearms(t)     BY <1>11 DEF StopRearms
<1>12. CASE StopEnds(t)       BY <1>12 DEF StopEnds
<1>13. CASE StopUnlocks(t)    BY <1>13 DEF StopUnlocks
<1> QED
  BY <1>1, <1>2, <1>3, <1>4, <1>5, <1>6, <1>7, <1>8, <1>9, <1>10, <1>11, <1>12,
     <1>13
  DEF ak_dvr_record_stop

(* Each step of record_ctrl and of the encoder does.                       *)
LEMMA HandleInvCtl ==
  ASSUME Calm, TypeOK, LockInv, HandInv, QueueInv, HandleInv,
         Ctl \/ EncoderRunsOn \/ UNCHANGED vars
  PROVE  HandleInv'
<1> USE DEF LockInv, LockTypeOK, Goto, Thread, control, stream, others, times,
            mark, file, 
            HandInv, StatusOfCtl, ByIframes, Resting, Recording, PlaceOfMain,
            Deciding,
            HandleInv, ClosedIsEmpty, HandleIsUsed, TimesOfMain, SyncIsKept,
            SyncedAt, MarkIsWhole, Working, At
<1>1. CASE StartBegins        BY <1>1 DEF StartBegins
<1>2. CASE StartChecks        BY <1>2 DEF StartChecks
<1>3. CASE StartWorks         BY <1>3 DEF StartWorks
<1>4. CASE StartFlags         BY <1>4 DEF StartFlags
<1>5. CASE CtlStops           BY <1>5 DEF CtlStops
<1>6. CASE CtlForgets         BY <1>6 DEF CtlForgets
<1>7. CASE TurnOn             BY <1>7 DEF TurnOn
<1>8. CASE TurnOff            BY <1>8 DEF TurnOff
<1>9. CASE OffCancels \/ OffReleases \/ OffEnds
  BY <1>9 DEF OffCancels, OffReleases, OffEnds, CalmTypeOK, Starting, StopLabel
<1>10. CASE EncoderRunsOn     BY <1>10 DEF EncoderRunsOn
<1>11. CASE UNCHANGED vars    BY <1>11 DEF vars
<1> QED
  BY <1>1, <1>2, <1>3, <1>4, <1>5, <1>6, <1>7, <1>8, <1>9, <1>10, <1>11 DEF Ctl

(* In a calm, the mux handle is open where main uses it, and a file        *)
(* begins where the queue was synchronised.                                *)
THEOREM HandleInvAlways == Calm => (Spec => []HandleInv)
<1> SUFFICES ASSUME Calm PROVE Spec => []HandleInv
  OBVIOUS
<1>1. Init => HandleInv
  BY DEF Init, HandleInv, ClosedIsEmpty, HandleIsUsed, TimesOfMain, SyncIsKept,
     MarkIsWhole, Working, At, NoFrame
<1>2. TypeOK /\ LockInv /\ HandInv /\ QueueInv /\ HandleInv /\ [Next]_vars => HandleInv'
  BY HandleInvVideo, HandleInvMain, HandleInvStop, HandleInvCtl DEF Next
<1>3. Spec => []HandInv /\ []QueueInv
  BY HandInvAlways, QueueInvAlways
<1> QED BY <1>1, <1>2, <1>3, TypeOKAlways, LockInvAlways, PTL DEF Spec

-----------------------------------------------------------------------------
(* The segment.                                                            *)

(* The last of a sequence.                                                 *)
LastOf(s) == s[Len(s)]

(* Between two frames, the queue goes on where the segment ends.           *)
MuxFollows ==
  pc["main"] \in {"sync", "loop", "mux"} /\ cur_mux_handle /\ status = "work" =>
    /\ segment # <<>>
    /\ mux_head # <<>> => mux_head[1] = LastOf(segment) + 1
    /\ mux_head = <<>> /\ req_handle => next = LastOf(segment) + 1

(* A handle that is open has a frame in its file.                          *)
MuxHasBegun == At("main", "mux") /\ cur_mux_handle => segment # <<>>

(* The frame in main's hand follows the segment, or is its last.           *)
HeldFollows ==
  /\ segment # <<>> /\ (At("main", "muxing") \/ (At("main", "add") /\ status = "work")) =>
       held = LastOf(segment) + 1
  /\ At("main", "muxed") /\ status = "work" => segment # <<>> /\ held = LastOf(segment)

(* The first frame of a segment is an I frame, and dates it.               *)
HeldBegins ==
  pc["main"] \in {"add", "muxing"} /\ segment = <<>> =>
    IsI(held) /\ (~slipped => date = held) /\ end_time = held + Duration

(* A segment misses no frame, begins with an I frame, and is timed by it;  *)
(* while no mark was late, dated too.                                      *)
SegmentIsRun ==
  segment # <<>> => /\ Run(segment) /\ IsI(segment[1])
                    /\ ~slipped => date = segment[1]
                    /\ pc["main"] \in Working => end_time = segment[1] + Duration

(* The mux has the I frame it waits for as soon as the segment has one.    *)
MuxGotIt == segment # <<>> => gotidr

SegmentInv == /\ MuxFollows /\ MuxHasBegun /\ HeldFollows /\ HeldBegins
              /\ SegmentIsRun /\ MuxGotIt

(* All the video thread does to the queue is add the next frame.           *)
LEMMA VideoAppends ==
  ASSUME Calm, TypeOK, QueueInv, Video
  PROVE  \/ UNCHANGED <<mux_head, next>>
         \/ /\ get_video_stream
            /\ req_handle
            /\ mux_head' = Append(mux_head, next)
            /\ mux_head' # <<>>
            /\ mux_head'[1] = IF mux_head = <<>> THEN next ELSE mux_head[1]
<1>1. CASE get_video_stream
  <2>1. status \in {"work", "filter"} /\ req_handle
    BY <1>1 DEF get_video_stream, QueueInv, GotIsWanted
  <2>2. next \in Frame /\ mux_head' = Append(mux_head, next)
    BY <1>1, <2>1, QueueHasRoom DEF get_video_stream
  <2>3. mux_head # <<>> => next = mux_head[Len(mux_head)] + 1
    BY <2>1, <2>2, FrameFacts, EmptySeq DEF QueueInv, QueueIsBehind, TypeOK
  <2>4. /\ mux_head' # <<>>
        /\ mux_head'[1] = IF mux_head = <<>> THEN next ELSE mux_head[1]
    BY <2>2, <2>3, RunGrows DEF QueueInv, QueueIsRun, TypeOK
  <2> QED BY <1>1, <2>1, <2>2, <2>4
<1>2. CASE ~get_video_stream
  BY <1>2 DEF Video, VideoWakes, VideoLoops, GetFails,
     mark_seq_num_end, stamp_unixts_end, VideoChecksSize, stream, others, At
<1> QED BY <1>1, <1>2

(* Each step of the video thread keeps the segment.                        *)
LEMMA SegmentInvVideo ==
  ASSUME Calm, TypeOK, LockInv, HandInv, QueueInv, SegmentInv,
         Video PROVE SegmentInv'
<1>0. /\ pc'["main"] = pc["main"] /\ pc'["ctl"] = pc["ctl"]
      /\ UNCHANGED <<status, req_handle, times, file, held>>
  BY DEF LockInv, LockTypeOK, Video, VideoWakes, VideoLoops, get_video_stream,
     GetFails,
     mark_seq_num_end, stamp_unixts_end, VideoChecksSize, Goto, Thread, control,
     stream, others, local
<1>1. slipped => slipped'
  BY SlippedStays
<1>2. MuxFollows'
  BY <1>0, VideoAppends DEF SegmentInv, MuxFollows, file
<1> QED
  BY <1>0, <1>1, <1>2 DEF SegmentInv, MuxHasBegun, HeldFollows,
     HeldBegins, SegmentIsRun, MuxGotIt, times, file, At

(* Each step of the main thread does.                                      *)
LEMMA SegmentInvMain ==
  ASSUME Calm, TypeOK, LockInv, HandInv, QueueInv, HandleInv, SegmentInv,
         Main PROVE SegmentInv'
<1> USE DEF LockInv, LockTypeOK, Goto, Thread, control, stream, others, times,
            mark, file, Working,
            HandleInv, ClosedIsEmpty, HandleIsUsed, TimesOfMain, SyncIsKept,
            SyncedAt, MarkIsWhole, 
            SegmentInv, MuxFollows, MuxHasBegun, HeldFollows, HeldBegins,
            SegmentIsRun, MuxGotIt, At
<1>h. mux_head # <<>> => Head(mux_head) = mux_head[1] /\ mux_head[1] \in Frame
  BY DEF TypeOK
<1>e. At("main", "enter") => pc["ctl"] \in {"ready", "start_flag"}
  BY DEF HandInv, PlaceOfMain
<1>1. CASE MainWakes         BY <1>1 DEF MainWakes
<1>2. CASE MainSwitches      BY <1>2 DEF MainSwitches
<1>3. CASE MainEnters        BY <1>3, <1>e DEF MainEnters
<1>4. CASE MainSyncs \/ MainLoops BY <1>4 DEF MainSyncs, MainLoops
<1>5. CASE sync_video_data   BY <1>5 DEF sync_video_data
<1>6. CASE sync_drops        BY <1>6 DEF sync_drops
<1>7. CASE mux_video_data
  <2>1. CASE mux_head = <<>>
    BY <1>7, <2>1 DEF mux_video_data
  <2>2. CASE mux_head # <<>>
    <3>1. PICK f \in Frame : f = Head(mux_head)
      BY <1>h, <2>2
    <3>2. /\ switch_record_file(f) /\ Goto("main", "add") /\ UNCHANGED status /\ held' = f
          /\ At("main", "mux") /\ UNCHANGED slipped
          /\ IF MustOpen(f) THEN segment' = <<>> ELSE UNCHANGED <<segment, gotidr>>
      BY <1>7, <2>2, <3>1 DEF Calm, Steady, mux_video_data
    <3>3. f = mux_head[1]
      BY <1>h, <2>2, <3>1
    <3>4. CASE MustOpen(f)
      <4>1. IsI(f) /\ end_time' = f + Duration /\ (~slipped => date' = f)
        BY <2>2, <3>2, <3>3, <3>4 DEF switch_record_file, NewDateFromMark, MustOpen
      <4> QED BY <3>2, <3>4, <4>1
    <3>5. CASE ~MustOpen(f)
      <4>1. UNCHANGED times /\ cur_mux_handle
        BY <3>2, <3>5 DEF switch_record_file, MustOpen
      <4>2. status = "work" => f = LastOf(segment) + 1
        BY <2>2, <3>2, <3>3, <4>1
      <4>3. segment # <<>> /\ UNCHANGED segment
        BY <3>2, <3>5, <4>1
      <4> QED BY <3>2, <4>1, <4>2, <4>3
    <3> QED BY <3>4, <3>5
  <2> QED BY <2>1, <2>2
<1>8. CASE MainAdds
  <2>1. At("main", "add") /\ cur_mux_handle
    BY <1>8 DEF MainAdds
  <2>2. UNCHANGED <<status, req_handle, mux_head, times, slipped, file, held, next>>
    BY <1>8 DEF MainAdds, local
  <2>3. pc'["main"] = IF status = "work" THEN "muxing" ELSE "muxed"
    BY <1>8, <2>1 DEF MainAdds
  <2> QED BY <2>1, <2>2, <2>3
<1>9. CASE add_video_to_mux
  <2>1. held \in Frame
    <3>1. mux_head # <<>> /\ held = mux_head[1]
      BY <1>9 DEF add_video_to_mux, QueueInv, HeldIsHead, Carrying
    <3> QED BY <1>h, <3>1
  <2>3. /\ segment # <<>> => held = LastOf(segment) + 1 /\ Run(segment)
        /\ segment = <<>> => /\ IsI(held) /\ (~slipped => date = held)
                             /\ end_time = held + Duration
    BY <1>9 DEF add_video_to_mux
  <2>2. gotidr' /\ segment' = Append(segment, held) /\ segment \in Seq(Frame)
    BY <1>9, <2>3 DEF Calm, Steady, add_video_to_mux, TypeOK
  <2>4. Run(<<>>)
    BY DEF Run
  <2>5. /\ Run(segment') /\ LastOf(segment') = held /\ segment' # <<>>
        /\ segment'[1] = IF segment = <<>> THEN held ELSE segment[1]
    BY <2>1, <2>2, <2>3, <2>4, RunGrows DEF LastOf
  <2>6. /\ UNCHANGED <<held, times, slipped>>
        /\ Goto("main", "muxed") /\ At("main", "muxing")
    BY <1>9 DEF add_video_to_mux, local
  <2> QED BY <2>2, <2>3, <2>5, <2>6
<1>10. CASE MainFreesMuxed
  <2>1. /\ At("main", "muxed") /\ Goto("main", "loop") /\ mux_head' = Unlinked(held)
        /\ UNCHANGED <<status, req_handle, next, times, slipped, file>>
    BY <1>10 DEF MainFreesMuxed, FreeHeld
  <2>2. /\ Len(mux_head') = Len(mux_head) - 1 /\ mux_head' \in Seq(Frame)
        /\ \A i \in 1..Len(mux_head') : mux_head'[i] = held + i
    BY <2>1, HeadLeaves DEF Carrying
  <2>3. mux_head' # <<>> => mux_head'[1] = held + 1
    BY <2>2, EmptySeq
  <2>4. mux_head' = <<>> /\ req_handle => next = held + 1
    <3>1. mux_head # <<>> /\ held = mux_head[1] /\ mux_head \in Seq(Frame)
      BY <2>1 DEF QueueInv, HeldIsHead, Carrying, TypeOK
    <3>2. mux_head' = <<>> => Len(mux_head) = 1
      BY <2>2, <3>1, EmptySeq
    <3>3. next \in Nat /\ held \in Nat
      BY BoundsAssumption DEF TypeOK
    <3>4. mux_head' = <<>> /\ req_handle => mux_head[1] = next - 1
      BY <3>1, <3>2 DEF QueueInv, QueueIsBehind
    <3> QED BY <3>1, <3>3, <3>4
  <2> QED BY <2>1, <2>3, <2>4
<1>11. CASE MainLeaves       BY <1>11 DEF MainLeaves
<1>12. CASE video_record_filter BY <1>12 DEF video_record_filter
<1>13. CASE filter_video_data   BY <1>13 DEF filter_video_data
<1>14. CASE drop_extra_frames   BY <1>14 DEF drop_extra_frames
<1>15. CASE FilterFrees         BY <1>15 DEF FilterFrees
<1> QED
  BY <1>1, <1>2, <1>3, <1>4, <1>5, <1>6, <1>7, <1>8, <1>9, <1>10, <1>11, <1>12,
     <1>13, <1>14, <1>15 DEF Main

(* Each step of a stop does.                                               *)
LEMMA SegmentInvStop ==
  ASSUME Calm, TypeOK, LockInv, HandInv, SegmentInv, NEW t \in Stopper,
         ak_dvr_record_stop(t)
  PROVE  SegmentInv'
<1>0. t = "ctl"
  BY OnlyCtlStops
<1>1. /\ pc'["main"] = pc["main"]
      /\ UNCHANGED <<times, slipped, held, next>>
      /\ req_handle' = req_handle \/ ~req_handle'
      /\ status' = status \/ status' # "work"
  BY <1>0 DEF ak_dvr_record_stop, StopLocks, StopChecks, StopCancels, ForgetHandle,
     StopReadsStatus, StopPauses, StopWaits, StopIsOver, StopGenerates,
     StopReleases,
     StopIdles, StopRearms, StopEnds, StopUnlocks, Goto, LockInv, LockTypeOK,
     Thread, control, stream, mark, others, local
<1>2. \/ UNCHANGED <<file, mux_head>>
      \/ At("main", "sleep") /\ (segment' = <<>> \/ UNCHANGED file)
  BY <1>0 DEF ak_dvr_record_stop, StopLocks, StopChecks, StopCancels, ForgetHandle,
     StopReadsStatus, StopPauses, StopWaits, StopIsOver, StopGenerates,
     StopReleases,
     StopIdles, StopRearms, StopEnds, StopUnlocks, stream, HandInv, PlaceOfMain,
     Waited, At
<1> QED BY <1>1, <1>2 DEF times, file, SegmentInv, MuxFollows, MuxHasBegun,
    HeldFollows, HeldBegins, SegmentIsRun, MuxGotIt, At, Working

(* Each step of record_ctrl and of the encoder does.                       *)
LEMMA SegmentInvCtl ==
  ASSUME Calm, TypeOK, LockInv, HandInv, SegmentInv,
         Ctl \/ EncoderRunsOn \/ UNCHANGED vars
  PROVE  SegmentInv'
<1> USE DEF LockInv, LockTypeOK, Goto, Thread, control, stream, others, times,
            mark, file, local,
            HandInv, StatusOfCtl, ByIframes, Resting, Recording, PlaceOfMain,
            Deciding, Working,
            SegmentInv, MuxFollows, MuxHasBegun, HeldFollows, HeldBegins,
            SegmentIsRun, MuxGotIt, At
<1>1. CASE StartBegins        BY <1>1 DEF StartBegins
<1>2. CASE StartChecks        BY <1>2 DEF StartChecks
<1>3. CASE StartWorks         BY <1>3 DEF StartWorks
<1>4. CASE StartFlags         BY <1>4 DEF StartFlags
<1>5. CASE CtlStops           BY <1>5 DEF CtlStops
<1>6. CASE CtlForgets         BY <1>6 DEF CtlForgets
<1>7. CASE TurnOn             BY <1>7 DEF TurnOn
<1>8. CASE TurnOff            BY <1>8 DEF TurnOff
<1>9. CASE OffCancels \/ OffReleases \/ OffEnds
  BY <1>9 DEF OffCancels, OffReleases, OffEnds, CalmTypeOK, Starting, StopLabel
<1>10. CASE EncoderRunsOn     BY <1>10 DEF EncoderRunsOn
<1>11. CASE UNCHANGED vars    BY <1>11 DEF vars
<1> QED
  BY <1>1, <1>2, <1>3, <1>4, <1>5, <1>6, <1>7, <1>8, <1>9, <1>10, <1>11 DEF Ctl

(* In a calm, a segment is a run of frames from an I frame on, dated       *)
(* and timed by its first.                                                 *)
THEOREM SegmentInvAlways == Calm => (Spec => []SegmentInv)
<1> SUFFICES ASSUME Calm PROVE Spec => []SegmentInv
  OBVIOUS
<1>1. Init => SegmentInv
  BY DEF Init, SegmentInv, MuxFollows, MuxHasBegun, HeldFollows, HeldBegins,
     SegmentIsRun, MuxGotIt, At
<1>2. TypeOK /\ LockInv /\ HandInv /\ QueueInv /\ HandleInv /\ SegmentInv /\ [Next]_vars
      => SegmentInv'
  BY SegmentInvVideo, SegmentInvMain, SegmentInvStop, SegmentInvCtl DEF Next
<1>3. Spec => []HandInv /\ []QueueInv /\ []HandleInv
  BY HandInvAlways, QueueInvAlways, HandleInvAlways
<1> QED BY <1>1, <1>2, <1>3, TypeOKAlways, LockInvAlways, PTL DEF Spec

-----------------------------------------------------------------------------
(* The mark of a segment's end.                                            *)

(* A planned recording is at work.                                         *)
PlannedWork == trigger_type = "plan" /\ status = "work"

(* Main is never a whole group of pictures behind.                         *)
OneIframe ==
  PlannedWork =>
    \A i, j \in 1..Len(mux_head) : IsI(mux_head[i]) /\ IsI(mux_head[j]) => i = j

(* An I frame that is due is the one marked.                               *)
DueIsMarked ==
  PlannedWork => \A i \in 1..Len(mux_head) :
                   IsI(mux_head[i]) /\ mux_head[i] >= end_time => seq_num_end = mux_head[i]

(* The frame main is about to add does not belong into the next segment.   *)
HeldIsInTime ==
  /\ trigger_type = "plan" /\ segment # <<>>
  /\ At("main", "muxing") \/ (At("main", "add") /\ status = "work")
  => (IsI(held) => held < segment[1] + Duration)

Marks == OneIframe /\ DueIsMarked /\ SplitOnTime /\ HeldIsInTime

(* All this while no mark was late and main never a group behind.          *)
MarkInv == ~slipped => Marks

(* No I frames counted, none there.                                        *)
LEMMA NoIframe ==
  ASSUME mux_head \in Seq(Frame), IframeNum = 0
  PROVE  \A i \in 1..Len(mux_head) : ~IsI(mux_head[i])
<1> DEFINE I == {i \in 1..Len(mux_head) : IsI(mux_head[i])}
<1>1. IsFiniteSet(I)
  <2>1. Len(mux_head) \in Nat
    BY LenProperties
  <2>2. IsFiniteSet(1..Len(mux_head))
    BY <2>1, FS_Interval
  <2> QED BY <2>2, FS_Subset
<1>2. I = {}
  BY <1>1, FS_EmptySet DEF IframeNum
<1> QED BY <1>2

(* Freeing the head of the queue keeps the mark on what is left.           *)
LEMMA FewerAreMarked ==
  ASSUME TypeOK, QueueInv, Marks, pc["main"] \in Carrying,
         mux_head' = Unlinked(held),
         UNCHANGED <<next, req_handle, trigger_type, status, end_time, seq_num_end>>
  PROVE  OneIframe' /\ DueIsMarked'
<1>1. /\ Len(mux_head') = Len(mux_head) - 1
      /\ \A i \in 1..Len(mux_head') : mux_head'[i] = mux_head[i + 1]
  BY HeadLeaves
<1>2. Len(mux_head) \in Nat /\ Len(mux_head') \in Nat
  BY HeadLeaves, LenProperties DEF TypeOK
<1>3. \A i \in 1..Len(mux_head') : i + 1 \in 1..Len(mux_head) /\ i \in Nat
  BY <1>1, <1>2
<1> QED BY <1>1, <1>3 DEF Marks, OneIframe, DueIsMarked, PlannedWork

(* Each step of the video thread keeps the mark.                           *)
LEMMA MarkInvVideo ==
  ASSUME Calm, TypeOK, LockInv, HandInv, QueueInv, HandleInv, Marks, ~slipped, ~slipped',
         Video PROVE Marks'
<1>0. /\ pc'["main"] = pc["main"]
      /\ UNCHANGED <<status, trigger_type, times, file, held>>
  BY DEF LockInv, LockTypeOK, Video, VideoWakes, VideoLoops, get_video_stream,
     GetFails,
     mark_seq_num_end, stamp_unixts_end, VideoChecksSize, Goto, Thread, control,
     triggers, stream, others, local
<1>1. pc["video"] \notin {"mark", "stamp"}
  BY DEF HandleInv, MarkIsWhole
<1>2. SplitOnTime' /\ HeldIsInTime'
  BY <1>0 DEF Marks, SplitOnTime, HeldIsInTime, file, At
<1>3. CASE get_video_stream
  <2> SUFFICES ASSUME PlannedWork PROVE OneIframe' /\ DueIsMarked'
    BY <1>0, <1>2 DEF Marks, OneIframe, DueIsMarked, PlannedWork
  <2>1. /\ next \in Frame /\ mux_head' = Append(mux_head, next)
        /\ IF EndsSegment(next) THEN seq_num_end' = next ELSE seq_num_end' = seq_num_end
        /\ MainKeepsUp
    <3>1. MainKeepsUp /\ pc'["video"] # "mark"
      BY <1>3 DEF get_video_stream
    <3>2. ~Goto("video", "mark")
      BY <3>1 DEF Goto, LockInv, LockTypeOK, Thread
    <3> QED BY <1>3, <3>1, <3>2, QueueHasRoom DEF get_video_stream, PlannedWork
  <2>2. /\ Len(mux_head') = Len(mux_head) + 1 /\ mux_head'[Len(mux_head) + 1] = next
        /\ \A i \in 1..Len(mux_head) : mux_head'[i] = mux_head[i]
    BY <2>1, AppendProperties DEF TypeOK
  <2>3. Len(mux_head) \in Nat
    BY LenProperties DEF TypeOK
  <2>4. \A i \in 1..Len(mux_head') : i \in 1..Len(mux_head) \/ i = Len(mux_head) + 1
    BY <2>2, <2>3
  <2>5. IsI(next) => \A i \in 1..Len(mux_head) : ~IsI(mux_head[i])
    BY <2>1, NoIframe DEF Calm, MainKeepsUp, PlannedWork, TypeOK
  <2>6. OneIframe'
    BY <1>0, <2>2, <2>4, <2>5 DEF Marks, OneIframe, PlannedWork
  <2>7. ~IsI(next) => seq_num_end' = seq_num_end
    BY <2>1 DEF EndsSegment
  <2>8. end_time' = end_time /\ (IsI(next) /\ next >= end_time => seq_num_end' = next)
    BY <1>0, <2>1 DEF EndsSegment, PlannedWork, times
  <2>9. DueIsMarked'
    BY <1>0, <2>2, <2>4, <2>5, <2>7, <2>8 DEF Marks, DueIsMarked, PlannedWork
  <2> QED BY <2>6, <2>9
<1>4. CASE ~get_video_stream
  <2>1. UNCHANGED <<mux_head, mark, end_time>>
    BY <1>0, <1>1, <1>4 DEF Video, VideoWakes, VideoLoops, GetFails,
       mark_seq_num_end,
       stamp_unixts_end, VideoChecksSize, stream, At, times
  <2> QED BY <1>0, <1>2, <2>1 DEF Marks, OneIframe, DueIsMarked, PlannedWork, mark
<1> QED BY <1>3, <1>4

(* Each step of the main thread does.                                      *)
LEMMA MarkInvMain ==
  ASSUME Calm, TypeOK, LockInv, HandInv, QueueInv, HandleInv, SegmentInv,
         Marks, Main
  PROVE  Marks'
<1> USE DEF LockInv, LockTypeOK, Goto, Thread, control, triggers, stream, others,
            local, times, mark, file,
            Marks, PlannedWork, OneIframe, DueIsMarked, SplitOnTime,
            HeldIsInTime, At
<1>h. mux_head # <<>> =>
        Head(mux_head) = mux_head[1] /\ mux_head[1] \in Frame /\ 1 \in 1..Len(mux_head)
  BY EmptySeq DEF TypeOK
<1>f. \A f \in Frame : f < f + Duration
  BY FrameFacts, DurationAssumption
<1>1. CASE MainWakes         BY <1>1 DEF MainWakes
<1>2. CASE MainSwitches      BY <1>2 DEF MainSwitches
<1>3. CASE MainEnters
  <2>1. status = "work"
    BY <1>3 DEF MainEnters, HandInv, PlaceOfMain
  <2> QED BY <1>3, <2>1 DEF MainEnters
<1>4. CASE MainSyncs \/ MainLoops BY <1>4 DEF MainSyncs, MainLoops
<1>5. CASE sync_video_data
  <2>1. \/ UNCHANGED end_time
        \/ /\ mux_head # <<>> /\ IsI(mux_head[1])
           /\ end_time' = mux_head[1] + Duration
    BY <1>5, <1>h DEF sync_video_data, MayBegin
  <2>2. DueIsMarked'
    <3>1. CASE UNCHANGED end_time
      BY <1>5, <3>1 DEF sync_video_data
    <3>2. CASE /\ mux_head # <<>> /\ IsI(mux_head[1])
               /\ end_time' = mux_head[1] + Duration
      <4>1. ~(mux_head[1] >= end_time')
        BY <1>h, <3>2, FrameFacts, DurationAssumption
      <4> QED BY <1>5, <1>h, <3>2, <4>1 DEF sync_video_data
    <3> QED BY <2>1, <3>1, <3>2
  <2> QED BY <1>5, <2>2 DEF sync_video_data
<1>6. CASE sync_drops
  BY <1>6, FewerAreMarked DEF sync_drops, FreeHeld, Carrying
<1>7. CASE mux_video_data
  <2>1. CASE mux_head = <<>>
    BY <1>7, <2>1 DEF mux_video_data
  <2>2. CASE mux_head # <<>>
    <3>1. PICK f \in Frame : f = Head(mux_head)
      BY <1>h, <2>2
    <3>2. /\ switch_record_file(f) /\ Goto("main", "add") /\ held' = f
          /\ At("main", "mux") /\ UNCHANGED <<status, trigger_type, mux_head>>
          /\ IF MustOpen(f) THEN segment' = <<>> ELSE segment' = segment
      BY <1>7, <2>2, <3>1 DEF Calm, Steady, mux_video_data
    <3>3. f = mux_head[1]
      BY <1>h, <2>2, <3>1
    <3>4. OneIframe' /\ SplitOnTime'
      BY <3>2, EmptySeq
    <3>5. DueIsMarked'
      <4>1. CASE IsI(f) /\ f = seq_num_end
        <5>1. end_time' = f + Duration /\ ~(f >= f + Duration)
          BY <3>1, <4>1, <3>2, FrameFacts, DurationAssumption DEF switch_record_file
        <5> QED BY <1>h, <2>2, <3>2, <3>3, <4>1, <5>1
      <4>2. CASE ~(IsI(f) /\ f = seq_num_end)
        BY <3>2, <4>2 DEF switch_record_file
      <4> QED BY <4>1, <4>2
    <3>6. HeldIsInTime'
      <4> SUFFICES ASSUME PlannedWork, segment' # <<>>, IsI(f) PROVE f < segment[1] + Duration
        BY <3>2
      <4>1. ~MustOpen(f) /\ segment' = segment
        BY <3>2
      <4>2. f # seq_num_end
        BY <4>1 DEF MustOpen
      <4>3. ~(f >= end_time)
        BY <1>h, <2>2, <3>3, <4>2
      <4>4. end_time = segment[1] + Duration
        BY <3>2, <4>1 DEF SegmentInv, SegmentIsRun, Working
      <4>5. f \in Nat /\ end_time \in Nat
        BY <3>1, FrameFacts DEF TypeOK
      <4> QED BY <4>3, <4>4, <4>5
    <3> QED BY <3>4, <3>5, <3>6
  <2> QED BY <2>1, <2>2
<1>8. CASE MainAdds
  <2>1. /\ At("main", "add") /\ pc'["main"] \in {"muxing", "muxed"}
        /\ pc'["main"] = "muxing" => status = "work"
    BY <1>8 DEF MainAdds
  <2>2. UNCHANGED <<control, mux_head, times, mark, file, held>>
    BY <1>8 DEF MainAdds
  <2> QED BY <2>1, <2>2
<1>9. CASE add_video_to_mux
  <2>g. gotidr \/ IsI(held)
    BY <1>9 DEF add_video_to_mux, SegmentInv, HeldBegins, MuxGotIt
  <2>1. segment' = Append(segment, held) /\ segment \in Seq(Frame) /\ At("main", "muxing")
        /\ UNCHANGED <<control, mux_head, times, mark, held>> /\ pc'["main"] = "muxed"
    BY <1>9, <2>g DEF Calm, Steady, add_video_to_mux, TypeOK
  <2>2. held \in Frame
    <3>1. mux_head # <<>> /\ held = mux_head[1]
      BY <2>1 DEF QueueInv, HeldIsHead, Carrying
    <3> QED BY <1>h, <3>1
  <2>3. /\ Len(segment') = Len(segment) + 1 /\ segment'[Len(segment) + 1] = held
        /\ \A i \in 1..Len(segment) : segment'[i] = segment[i]
        /\ Len(segment) \in Nat
    BY <2>1, <2>2, AppendProperties, LenProperties
  <2>4. ASSUME trigger_type = "plan", NEW i \in 2..Len(segment'), IsI(segment'[i])
        PROVE  segment'[i] < segment'[1] + Duration
    <3>1. CASE i \in 2..Len(segment)
      <4>1. segment'[i] = segment[i] /\ segment'[1] = segment[1]
        BY <2>3, <3>1
      <4> QED BY <2>4, <3>1, <4>1
    <3>2. CASE i \notin 2..Len(segment)
      <4>1. i = Len(segment) + 1 /\ Len(segment) >= 1
        BY <2>3, <3>2
      <4>2. segment # <<>> /\ segment'[1] = segment[1] /\ segment'[i] = held
        BY <2>3, <4>1
      <4> QED BY <2>1, <2>4, <4>2
    <3> QED BY <3>1, <3>2
  <2> QED BY <2>1, <2>4
<1>10. CASE MainFreesMuxed
  BY <1>10, FewerAreMarked DEF MainFreesMuxed, FreeHeld, Carrying
<1>11. CASE MainLeaves
  <2>1. status # "work"
    BY <1>11 DEF MainLeaves, HandInv, PlaceOfMain, StatusOfCtl, ByIframes
  <2> QED BY <1>11, <2>1 DEF MainLeaves
<1>12. CASE video_record_filter BY <1>12 DEF video_record_filter
<1>13. CASE filter_video_data
  <2>1. OneIframe' /\ DueIsMarked'
    BY <1>13, FewerAreMarked DEF filter_video_data, Carrying
  <2> QED BY <1>13, <2>1 DEF filter_video_data
<1>14. CASE drop_extra_frames   BY <1>14 DEF drop_extra_frames
<1>15. CASE FilterFrees
  BY <1>15, FewerAreMarked DEF FilterFrees, FreeHeld, Carrying
<1> QED
  BY <1>1, <1>2, <1>3, <1>4, <1>5, <1>6, <1>7, <1>8, <1>9, <1>10, <1>11, <1>12,
     <1>13, <1>14, <1>15 DEF Main

(* Each step of a stop does.                                               *)
LEMMA MarkInvStop ==
  ASSUME Calm, TypeOK, LockInv, HandInv, Marks, NEW t \in Stopper,
         ak_dvr_record_stop(t)
  PROVE  Marks'
<1>0. t = "ctl"
  BY OnlyCtlStops
<1>1. /\ pc'["main"] = pc["main"]
      /\ UNCHANGED <<times, held, mark>>
      /\ mux_head' = mux_head \/ mux_head' = <<>>
      /\ segment' = segment \/ segment' = <<>>
      /\ status' = status \/ status' # "work"
      /\ trigger_type' = trigger_type \/ trigger_type' = "reserved"
  BY <1>0 DEF ak_dvr_record_stop, StopLocks, StopChecks, StopCancels, ForgetHandle,
     StopReadsStatus, StopPauses, StopWaits, StopIsOver, StopGenerates,
     StopReleases,
     StopIdles, StopRearms, StopEnds, StopUnlocks, Goto, LockInv, LockTypeOK,
     Thread, control,
     triggers, stream, others, local, file
<1>2. Len(<<>>) = 0
  OBVIOUS
<1> QED
  BY <1>1, <1>2 DEF Marks, PlannedWork, OneIframe, DueIsMarked, SplitOnTime,
     HeldIsInTime, At,
     times, mark

(* Each step of record_ctrl and of the encoder does.                       *)
LEMMA MarkInvCtl ==
  ASSUME Calm, TypeOK, LockInv, HandInv, QueueInv, HandleInv, Marks,
         Ctl \/ EncoderRunsOn \/ UNCHANGED vars
  PROVE  Marks'
<1>r. Resting => segment = <<>> /\ status # "work" /\ pc["main"] \notin Working
  BY DEF Resting, HandInv, StatusOfCtl, ByIframes, PlaceOfMain, HandleInv,
     HandleIsUsed, ClosedIsEmpty,
     Recording, Deciding, At
<1>e. Len(<<>>) = 0
  OBVIOUS
<1> USE DEF LockInv, LockTypeOK, Goto, Thread, control, triggers, stream, others,
            local, times, mark, file,
            Marks, PlannedWork, OneIframe, DueIsMarked, SplitOnTime,
            HeldIsInTime, At
<1>1. CASE StartBegins        BY <1>1, <1>r, <1>e DEF StartBegins, Resting
<1>2. CASE StartChecks        BY <1>2, <1>r DEF StartChecks, Resting
<1>3. CASE StartWorks
  <2>1. trigger_type = "plan" => mux_head = <<>>
    BY <1>3 DEF StartWorks, HandInv, CalmTypeOK, StatusOfCtl, ByIframes, Resting,
       Iframes,
       QueueInv, IdleIsEmpty
  <2>2. segment = <<>> /\ UNCHANGED <<trigger_type, mux_head, times, mark, file>>
    BY <1>3, <1>r DEF StartWorks, Resting
  <2> QED BY <1>e, <2>1, <2>2
<1>4. CASE StartFlags         BY <1>4 DEF StartFlags
<1>5. CASE CtlStops           BY <1>5 DEF CtlStops
<1>6. CASE CtlForgets         BY <1>6 DEF CtlForgets
<1>7. CASE TurnOn             BY <1>7 DEF TurnOn
<1>8. CASE TurnOff            BY <1>8 DEF TurnOff
<1>9. CASE OffCancels \/ OffReleases \/ OffEnds
  BY <1>9 DEF OffCancels, OffReleases, OffEnds, HandInv, CalmTypeOK, Starting,
     StopLabel
<1>10. CASE EncoderRunsOn     BY <1>10 DEF EncoderRunsOn
<1>11. CASE UNCHANGED vars    BY <1>11 DEF vars
<1> QED
  BY <1>1, <1>2, <1>3, <1>4, <1>5, <1>6, <1>7, <1>8, <1>9, <1>10, <1>11 DEF Ctl

(* Only the video thread slips.                                            *)
LEMMA OthersDoNotSlip ==
  ASSUME Main \/ (\E u \in Stopper : ak_dvr_record_stop(u)) \/ Ctl \/ EncoderRunsOn
           \/ UNCHANGED vars
  PROVE  UNCHANGED slipped
<1> USE DEF stream, mark
<1>1. CASE Main
  BY <1>1 DEF Main, MainWakes, MainSwitches, MainEnters, MainSyncs, MainLoops,
     sync_video_data, sync_drops, mux_video_data, MainAdds, add_video_to_mux, MainFreesMuxed,
     MainLeaves, video_record_filter, filter_video_data, drop_extra_frames, FilterFrees
<1>2. ASSUME NEW u \in Stopper, ak_dvr_record_stop(u) PROVE UNCHANGED slipped
  BY <1>2 DEF ak_dvr_record_stop, StopLocks, StopChecks, StopCancels, StopReadsStatus,
     StopPauses, StopWaits, StopIsOver, StopGenerates, StopReleases, StopIdles, StopRearms,
     StopEnds, StopUnlocks
<1>3. CASE Ctl
  BY <1>3 DEF Ctl, StartBegins, StartChecks, StartWorks, StartFlags, CtlStops, CtlForgets,
     TurnOn, TurnOff, OffCancels, OffReleases, OffEnds
<1>4. CASE EncoderRunsOn \/ UNCHANGED vars
  BY <1>4 DEF EncoderRunsOn, vars
<1> QED BY <1>1, <1>2, <1>3, <1>4

(* While no mark was late and main never a group behind, the mark is where *)
(* main needs it.                                                          *)
THEOREM MarkInvAlways == Calm => (Spec => []MarkInv)
<1> SUFFICES ASSUME Calm PROVE Spec => []MarkInv
  OBVIOUS
<1>1. Init => MarkInv
  <2>1. Len(<<>>) = 0
    OBVIOUS
  <2> QED BY <2>1 DEF Init, MarkInv, Marks, PlannedWork, OneIframe, DueIsMarked,
      SplitOnTime, HeldIsInTime, At
<1>2. TypeOK /\ LockInv /\ HandInv /\ QueueInv /\ HandleInv /\ SegmentInv /\ MarkInv /\ [Next]_vars
      => MarkInv'
  <2> SUFFICES ASSUME TypeOK, LockInv, HandInv, QueueInv, HandleInv, SegmentInv, MarkInv,
                      [Next]_vars, ~slipped'
               PROVE  Marks'
    BY DEF MarkInv
  <2>1. ~slipped
    BY SlippedStays, OthersDoNotSlip DEF Next
  <2>2. Marks
    BY <2>1 DEF MarkInv
  <2> QED BY <2>1, <2>2, MarkInvVideo, MarkInvMain, MarkInvStop, MarkInvCtl DEF Next
<1>4. Spec => []HandInv /\ []QueueInv /\ []HandleInv /\ []SegmentInv
  BY HandInvAlways, QueueInvAlways, HandleInvAlways, SegmentInvAlways
<1> QED BY <1>1, <1>2, <1>4, TypeOKAlways, LockInvAlways, PTL DEF Spec

-----------------------------------------------------------------------------
(* The mark ahead of main, late or not.                                    *)

(* What is ahead of main, in terms of the queue.                           *)
LEMMA AheadIs ==
  ASSUME TypeOK, QueueInv, NEW f \in Ahead
  PROVE  /\ f \in Frame /\ f # held /\ mux_head # <<>>
         /\ mux_head[1] \in Nat /\ mux_head[1] <= f
         /\ mux_head[Len(mux_head)] \in Nat /\ f <= mux_head[Len(mux_head)]
         /\ f < next
<1>1. PICK i \in 1..Len(mux_head) : f = mux_head[i] /\ f # held
  BY DEF Ahead, ToSet
<1>2. Len(mux_head) \in Nat /\ mux_head \in Seq(Frame)
  BY LenProperties DEF TypeOK
<1>3. mux_head # <<>> /\ 1 \in 1..Len(mux_head) /\ Len(mux_head) \in 1..Len(mux_head)
  BY <1>1, <1>2, EmptySeq
<1>4. \A j \in 1..Len(mux_head) :
        mux_head[j] \in Frame /\ mux_head[j] \in Nat /\ mux_head[j] = mux_head[1] + j - 1
  BY <1>2, FrameFacts DEF QueueInv, QueueIsRun, Run
<1>5. mux_head[Len(mux_head)] < next /\ next \in Nat
  BY <1>3, BoundsAssumption DEF QueueInv, QueueIsBehind, TypeOK
<1>6. /\ f \in Nat /\ f = mux_head[1] + i - 1 /\ mux_head[1] \in Nat /\ i \in 1..Len(mux_head)
      /\ mux_head[Len(mux_head)] = mux_head[1] + Len(mux_head) - 1
  BY <1>1, <1>3, <1>4
<1>7. f \in Frame /\ f # held /\ mux_head[Len(mux_head)] \in Nat
  BY <1>1, <1>3, <1>4
<1>8. mux_head[1] <= f
  BY <1>6
<1>9. f <= mux_head[Len(mux_head)]
  BY <1>2, <1>6
<1>10. f < next
  BY <1>5, <1>6, <1>7, <1>9
<1> QED BY <1>3, <1>6, <1>7, <1>8, <1>9, <1>10

(* The last frame of the queue is ahead of main, unless main holds it.     *)
LEMMA LastIsAhead ==
  ASSUME TypeOK, QueueInv, NEW f \in Ahead
  PROVE  mux_head[Len(mux_head)] \in Ahead
<1> DEFINE l == mux_head[Len(mux_head)]
<1>1. mux_head # <<>> /\ f # held /\ mux_head[1] <= f /\ f <= l /\ mux_head[1] \in Nat
      /\ f \in Nat /\ l \in Nat
  BY AheadIs, FrameFacts
<1>2. Len(mux_head) \in 1..Len(mux_head)
  BY <1>1, EmptySeq, LenProperties DEF TypeOK
<1>3. l \in Frame
  BY <1>2 DEF TypeOK
<1>4. l # held
  <2>1. CASE pc["main"] \in Carrying
    BY <1>1, <2>1 DEF QueueInv, HeldIsHead
  <2>2. CASE pc["main"] \notin Carrying
    BY <1>3, <2>2, FrameFacts DEF QueueInv, HeldIsHead
  <2> QED BY <2>1, <2>2
<1> QED BY <1>2, <1>4 DEF Ahead, ToSet

(* A step that leaves the mark and takes nothing from under it keeps it.   *)
LEMMA CutStays ==
  ASSUME TypeOK, CutIsAhead, PlannedWork' => PlannedWork, end_time' \in Nat,
         end_time' >= end_time, seq_num_end' = seq_num_end, Done' \subseteq Done,
         Done' \subseteq Frame,
         \A f \in Done', g \in Ahead : g >= f => g \in Ahead'
  PROVE  CutIsAhead'
<1> SUFFICES ASSUME PlannedWork', NEW f \in Done', IsI(f), f >= end_time'
             PROVE  seq_num_end' \in Ahead' /\ seq_num_end' >= f
  BY DEF CutIsAhead, PlannedWork, IsI
<1>1. f \in Nat /\ end_time \in Nat
  BY FrameFacts DEF TypeOK
<1>2. f >= end_time
  BY <1>1
<1> QED BY <1>2 DEF CutIsAhead, PlannedWork

(* One that leaves the queue, main's entry and the time does.              *)
LEMMA CutRests ==
  ASSUME TypeOK, QueueInv, CutIsAhead, PlannedWork' => PlannedWork,
         UNCHANGED <<mux_head, held, end_time, seq_num_end, next>>,
         At("video", "mark")' <=> At("video", "mark")
  PROVE  CutIsAhead'
<1>1. Ahead' = Ahead /\ Done' = Done
  BY DEF Ahead, Done
<1>2. Done \subseteq Frame
  BY AheadIs DEF Done
<1>3. end_time \in Nat
  BY DEF TypeOK
<1> QED BY <1>1, <1>2, <1>3, CutStays

(* So does emptying the queue, or the end of a planned recording.          *)
LEMMA CutEnds ==
  ASSUME ~PlannedWork' \/ mux_head' = <<>> PROVE CutIsAhead'
<1>1. CASE ~PlannedWork'
  BY <1>1 DEF CutIsAhead, PlannedWork
<1>2. CASE mux_head' = <<>>
  <2>1. Done' = {}
    BY <1>2, EmptySeq DEF Done, Ahead, ToSet
  <2> QED BY <2>1 DEF CutIsAhead
<1> QED BY <1>1, <1>2

(* Each step of the video thread keeps the mark ahead of main.             *)
LEMMA CutIsAheadVideo ==
  ASSUME Calm, TypeOK, LockInv, HandInv, QueueInv, CutIsAhead, Video
  PROVE  CutIsAhead'
<1>0. /\ pc'["main"] = pc["main"]
      /\ UNCHANGED <<status, trigger_type, end_time, held>>
  BY DEF LockInv, LockTypeOK, Video, VideoWakes, VideoLoops, get_video_stream,
     GetFails, mark_seq_num_end, stamp_unixts_end, VideoChecksSize, Goto, Thread,
     control, triggers, stream, times, others, local
<1>p. PlannedWork' => PlannedWork
  BY <1>0 DEF PlannedWork
<1>n. next \in Nat /\ end_time \in Nat /\ held \in Nat
  BY BoundsAssumption DEF TypeOK
<1>1. CASE get_video_stream
  <2>1. /\ At("video", "got") /\ next \in Frame /\ next' = next + 1
        /\ mux_head' = Append(mux_head, next)
    BY <1>1, QueueHasRoom DEF get_video_stream, QueueInv, GotIsWanted
  <2>2. ToSet(mux_head') = ToSet(mux_head) \union {next}
    <3>1. /\ Len(mux_head') = Len(mux_head) + 1 /\ Len(mux_head) \in Nat
          /\ mux_head'[Len(mux_head) + 1] = next
          /\ \A i \in 1..Len(mux_head) : mux_head'[i] = mux_head[i]
      BY <2>1, AppendProperties, LenProperties DEF TypeOK
    <3>2. 1..Len(mux_head') = (1..Len(mux_head)) \union {Len(mux_head) + 1}
      BY <3>1
    <3> QED BY <3>1, <3>2 DEF ToSet
  <2>3. held # next
    <3>1. CASE pc["main"] \in Carrying
      <4>1. mux_head # <<>> /\ held = mux_head[1]
        BY <3>1 DEF QueueInv, HeldIsHead
      <4>2. /\ Len(mux_head) \in Nat \ {0}
            /\ mux_head[1] \in Nat
            /\ mux_head[Len(mux_head)] = mux_head[1] + Len(mux_head) - 1
        BY <4>1, EmptySeq, LenProperties, FrameFacts DEF TypeOK, QueueInv, QueueIsRun, Run
      <4>3. mux_head[Len(mux_head)] < next
        BY <4>1 DEF QueueInv, QueueIsBehind
      <4> QED BY <1>n, <4>1, <4>2, <4>3
    <3>2. CASE pc["main"] \notin Carrying
      BY <2>1, <3>2, FrameFacts DEF QueueInv, HeldIsHead
    <3> QED BY <3>1, <3>2
  <2>4. Ahead' = Ahead \union {next} /\ Done = Ahead
    BY <1>0, <2>1, <2>2, <2>3 DEF Ahead, Done, At
  <2>5. \A f \in Ahead : f < next /\ f \in Frame /\ f \in Nat
    BY AheadIs, FrameFacts
  <2>6. pc'["video"] \in {"mark", "over"}
    <3>1. Goto("video", "over") \/ Goto("video", "mark")
      BY <1>1 DEF get_video_stream
    <3> QED BY <3>1 DEF Goto, LockInv, LockTypeOK, Thread
  <2>7. CASE pc'["video"] = "mark"
    <3>1. Done' = Done
      <4>1. next' - 1 = next /\ next \notin Ahead
        BY <1>n, <2>1, <2>5
      <4> QED BY <2>4, <2>7, <4>1 DEF Done, At
    <3>2. seq_num_end' = seq_num_end
      <4>1. ~Goto("video", "over")
        BY <2>7 DEF Goto, LockInv, LockTypeOK, Thread
      <4> QED BY <1>1, <4>1 DEF get_video_stream
    <3>3. Done' \subseteq Frame
      BY <2>4, <2>5, <3>1
    <3> QED BY <1>0, <1>p, <1>n, <2>4, <3>1, <3>2, <3>3, CutStays
  <2>8. CASE pc'["video"] # "mark"
    <3>1. Done' = Ahead \union {next}
      BY <2>4, <2>8 DEF Done, At
    <3>2. IF EndsSegment(next) THEN seq_num_end' = next ELSE seq_num_end' = seq_num_end
      <4>1. ~Goto("video", "mark")
        BY <2>8 DEF Goto, LockInv, LockTypeOK, Thread
      <4>2. status # "sleep"
        BY <2>1, <1>1 DEF get_video_stream, QueueInv, GotIsWanted
      <4>3. ~OverSize
        BY <1>1, QueueHasRoom DEF get_video_stream
      <4> QED BY <1>1, <4>1, <4>2, <4>3 DEF get_video_stream
    <3> SUFFICES ASSUME PlannedWork, NEW f \in Ahead \union {next}, IsI(f), f >= end_time
                 PROVE  seq_num_end' \in Ahead' /\ seq_num_end' >= f
      BY <1>0, <1>p, <3>1 DEF CutIsAhead, PlannedWork
    <3>3. CASE EndsSegment(next)
      BY <1>n, <2>4, <2>5, <3>2, <3>3
    <3>4. CASE ~EndsSegment(next)
      <4>1. f \in Done
        BY <2>4, <3>4 DEF EndsSegment, PlannedWork
      <4> QED BY <2>4, <3>2, <3>4, <4>1 DEF CutIsAhead, PlannedWork
    <3> QED BY <3>3, <3>4
  <2> QED BY <2>7, <2>8
<1>2. CASE mark_seq_num_end
  <2>1. /\ At("video", "mark") /\ UNCHANGED <<mux_head, next>>
        /\ IF EndsSegment(next - 1) THEN seq_num_end' = next - 1
                                    ELSE seq_num_end' = seq_num_end
    BY <1>2 DEF mark_seq_num_end, others
  <2>2. pc'["video"] # "mark"
    BY <1>2 DEF mark_seq_num_end, Goto, LockInv, LockTypeOK, Thread
  <2>3. Ahead' = Ahead /\ Done' = Ahead
    BY <1>0, <2>1, <2>2 DEF Ahead, Done, At
  <2> SUFFICES ASSUME PlannedWork, NEW f \in Ahead, IsI(f), f >= end_time
               PROVE  seq_num_end' \in Ahead /\ seq_num_end' >= f
    BY <1>0, <1>p, <2>3 DEF CutIsAhead, PlannedWork
  <2>4. CASE EndsSegment(next - 1)
    <3>1. req_handle
      BY <2>1 DEF QueueInv, MarkIsWanted, At
    <3>2. mux_head # <<>> /\ f <= mux_head[Len(mux_head)]
      BY AheadIs
    <3>3. mux_head[Len(mux_head)] = next - 1
      BY <3>1, <3>2 DEF QueueInv, QueueIsBehind
    <3>4. next - 1 \in Ahead
      BY <3>3, LastIsAhead
    <3>5. f \in Nat
      BY AheadIs, FrameFacts
    <3> QED BY <1>n, <2>1, <2>4, <3>2, <3>3, <3>4, <3>5
  <2>5. CASE ~EndsSegment(next - 1)
    <3>1. f # next - 1
      BY <2>5 DEF EndsSegment, PlannedWork
    <3>2. f \in Done
      BY <3>1 DEF Done
    <3> QED BY <2>1, <2>5, <3>2 DEF CutIsAhead, PlannedWork
  <2> QED BY <2>4, <2>5
<1>3. CASE ~get_video_stream /\ ~mark_seq_num_end
  <2>1. UNCHANGED <<mux_head, seq_num_end, next>>
    BY <1>3 DEF Video, VideoWakes, VideoLoops, GetFails, stamp_unixts_end, VideoChecksSize,
       stream, mark, others
  <2>2. pc["video"] # "mark" /\ pc'["video"] # "mark"
    BY <1>3 DEF Video, VideoWakes, VideoLoops, GetFails, stamp_unixts_end, VideoChecksSize,
       Goto, LockInv, LockTypeOK, Thread, At
  <2> QED BY <1>0, <1>p, <2>1, <2>2, CutRests DEF At
<1> QED BY <1>1, <1>2, <1>3

(* Every entry of the queue is a frame.                                    *)
LEMMA NoFrameQueued == ASSUME TypeOK PROVE NoFrame \notin ToSet(mux_head)
<1>1. \A i \in 1..Len(mux_head) : mux_head[i] \in Frame
  BY DEF TypeOK
<1> QED BY <1>1, FrameFacts DEF ToSet

(* Main takes up the head of the queue: what is due behind it stays ahead. *)
LEMMA CutGoesOn ==
  ASSUME TypeOK, QueueInv, CutIsAhead, PlannedWork' => PlannedWork, held = NoFrame,
         mux_head # <<>>, held' = mux_head[1],
         UNCHANGED <<mux_head, end_time, seq_num_end, next>>,
         pc'["video"] = pc["video"]
  PROVE  CutIsAhead'
<1>1. Ahead' \subseteq Ahead /\ Done' \subseteq Done
  <2>1. Ahead = ToSet(mux_head)
    BY NoFrameQueued DEF Ahead
  <2>2. Ahead' \subseteq Ahead
    BY <2>1 DEF Ahead
  <2> QED BY <2>2 DEF Done, At
<1>2. Done' \subseteq Frame
  BY <1>1, AheadIs DEF Done
<1>3. ASSUME NEW f \in Done', NEW g \in Ahead, g >= f PROVE g \in Ahead'
  <2>1. f \in Ahead /\ f # mux_head[1]
    BY <1>1 DEF Done, Ahead
  <2>2. f \in Nat /\ mux_head[1] \in Nat /\ mux_head[1] <= f
    BY <2>1, AheadIs, FrameFacts
  <2>3. g \in Nat
    BY AheadIs, FrameFacts
  <2>4. g # mux_head[1]
    BY <1>3, <2>1, <2>2, <2>3
  <2> QED BY <2>4 DEF Ahead
<1>4. end_time \in Nat
  BY DEF TypeOK
<1> QED BY <1>1, <1>2, <1>3, <1>4, CutStays

(* Main frees the head of the queue: nothing ahead of it changes.          *)
LEMMA CutIsFreed ==
  ASSUME TypeOK, QueueInv, CutIsAhead, PlannedWork' => PlannedWork,
         pc["main"] \in Carrying, FreeHeld,
         UNCHANGED <<end_time, seq_num_end, next, req_handle>>,
         pc'["video"] = pc["video"]
  PROVE  CutIsAhead'
<1>1. /\ mux_head \in Seq(Frame) /\ Len(mux_head) \in Nat /\ held = mux_head[1]
      /\ mux_head # <<>> /\ held \in Nat
  BY LenProperties, FrameFacts, EmptySeq DEF TypeOK, QueueInv, HeldIsHead
<1>2. /\ Len(mux_head') = Len(mux_head) - 1
      /\ \A i \in 1..Len(mux_head') : mux_head'[i] = held + i
      /\ \A i \in 1..Len(mux_head') : mux_head'[i] = mux_head[i + 1]
      /\ held' = NoFrame
  BY HeadLeaves DEF FreeHeld
<1>3. Ahead' = ToSet(mux_head')
  <2>1. \A i \in 1..Len(mux_head') : mux_head'[i] # NoFrame
    BY <1>1, <1>2 DEF NoFrame
  <2> QED BY <1>2, <2>1 DEF Ahead, ToSet
<1>4. \A i \in 1..Len(mux_head) : mux_head[i] = held + i - 1
  BY <1>1 DEF QueueInv, QueueIsRun, Run
<1>5. Ahead \subseteq ToSet(mux_head')
  <2> SUFFICES ASSUME NEW i \in 1..Len(mux_head), mux_head[i] # held
               PROVE  \E j \in 1..Len(mux_head') : mux_head'[j] = mux_head[i]
    BY DEF Ahead, ToSet
  <2>1. i # 1
    BY <1>1
  <2>2. i - 1 \in 1..Len(mux_head') /\ (i - 1) + 1 = i
    BY <1>1, <1>2, <2>1
  <2> QED BY <1>2, <2>2
<1>6. ToSet(mux_head') \subseteq Ahead
  <2> SUFFICES ASSUME NEW j \in 1..Len(mux_head') PROVE mux_head'[j] \in Ahead
    BY DEF ToSet
  <2>1. j + 1 \in 1..Len(mux_head) /\ j \in Nat \ {0}
    BY <1>1, <1>2
  <2>2. mux_head'[j] = mux_head[j + 1] /\ mux_head'[j] # held
    BY <1>1, <1>2, <2>1
  <2> QED BY <2>1, <2>2 DEF Ahead, ToSet
<1>7. Ahead' = Ahead
  BY <1>3, <1>5, <1>6
<1>8. Done' = Done /\ Done' \subseteq Frame
  BY <1>7, AheadIs DEF Done, At
<1>9. end_time \in Nat
  BY DEF TypeOK
<1> QED BY <1>7, <1>8, <1>9, CutStays

(* Each step of the main thread keeps the mark ahead of it.                *)
LEMMA CutIsAheadMain ==
  ASSUME Calm, TypeOK, LockInv, TakingInv, HandInv, QueueInv, HandleInv, SegmentInv,
         CutIsAhead, Main
  PROVE  CutIsAhead'
<1> USE DEF LockInv, LockTypeOK, Goto, Thread, control, triggers, stream, others,
            local, times, mark
<1>h. mux_head # <<>> =>
        Head(mux_head) = mux_head[1] /\ mux_head[1] \in Frame /\ mux_head[1] \in Nat
  BY EmptySeq, FrameFacts DEF TypeOK
<1>v. pc'["video"] = pc["video"] /\ UNCHANGED <<next, trigger_type>>
  BY DEF Main, MainWakes, MainSwitches, MainEnters, MainSyncs, MainLoops,
     sync_video_data, sync_drops, mux_video_data, MainAdds, add_video_to_mux,
     MainFreesMuxed, MainLeaves, video_record_filter, filter_video_data,
     drop_extra_frames, FilterFrees
<1>t. end_time \in Nat
  BY DEF TypeOK
<1>1. CASE MainWakes \/ MainSwitches \/ MainSyncs \/ MainLoops \/ MainAdds \/ add_video_to_mux
  <2>1. UNCHANGED <<mux_head, held, end_time, seq_num_end>> /\ (status' = "work" => status = "work")
    BY <1>1 DEF MainWakes, MainSwitches, MainSyncs, MainLoops, MainAdds, add_video_to_mux
  <2> QED BY <1>v, <2>1, CutRests DEF PlannedWork, At
<1>2. CASE MainEnters
  <2>1. UNCHANGED <<mux_head, held, end_time, seq_num_end>> /\ At("main", "enter")
    BY <1>2 DEF MainEnters
  <2>2. status = "work"
    BY <2>1 DEF HandInv, PlaceOfMain
  <2> QED BY <1>v, <2>1, <2>2, CutRests DEF PlannedWork, At
<1>3. CASE sync_video_data
  <2>1. At("main", "syncing") /\ UNCHANGED <<mux_head, seq_num_end, status>>
    BY <1>3 DEF sync_video_data
  <2>2. end_time = 0 /\ held = NoFrame
    BY <2>1 DEF HandleInv, TimesOfMain, QueueInv, HeldIsHead, Carrying, At
  <2>3. CASE held' = held
    <3>1. Ahead' = Ahead /\ Done' = Done /\ Done \subseteq Frame
      BY <1>v, <2>1, <2>3, AheadIs DEF Ahead, Done, At
    <3>2. end_time' \in Nat
      BY <1>3, <1>h, <1>t, DurationAssumption DEF sync_video_data
    <3> QED BY <1>v, <2>1, <2>2, <3>1, <3>2, CutStays DEF PlannedWork
  <2>4. CASE held' # held
    <3>1. mux_head # <<>> /\ held' = mux_head[1] /\ UNCHANGED end_time
      BY <1>3, <1>h, <2>4 DEF sync_video_data
    <3> QED BY <1>v, <2>1, <2>2, <3>1, CutGoesOn DEF PlannedWork
  <2> QED BY <2>3, <2>4
<1>4. CASE sync_drops \/ MainFreesMuxed
  <2>1. /\ pc["main"] \in Carrying /\ FreeHeld
        /\ UNCHANGED <<end_time, seq_num_end, req_handle, status>>
    BY <1>4 DEF sync_drops, MainFreesMuxed, Carrying, At
  <2> QED BY <1>v, <2>1, CutIsFreed DEF PlannedWork
<1>5. CASE mux_video_data
  <2>1. At("main", "mux") /\ UNCHANGED <<mux_head, status>>
    BY <1>5 DEF mux_video_data, Calm, Steady
  <2>2. held = NoFrame /\ end_time # 0
    BY <2>1 DEF HandleInv, TimesOfMain, QueueInv, HeldIsHead, Carrying, At
  <2>3. CASE mux_head = <<>>
    BY <2>1, <2>3, CutEnds
  <2>4. CASE mux_head # <<>>
    <3> DEFINE f == mux_head[1]
    <3>1. held' = f /\ switch_record_file(f) /\ f \in Nat
      BY <1>5, <1>h, <2>4 DEF mux_video_data
    <3>2. CASE ~(IsI(f) /\ f = seq_num_end)
      <4>1. UNCHANGED <<end_time, seq_num_end>>
        BY <3>1, <3>2 DEF switch_record_file
      <4> QED BY <1>v, <2>1, <2>2, <2>4, <3>1, <4>1, CutGoesOn DEF PlannedWork
    <3>3. CASE IsI(f) /\ f = seq_num_end
      <4>1. end_time' = f + Duration
        BY <3>1, <3>3 DEF switch_record_file
      <4> SUFFICES ASSUME PlannedWork', NEW e \in Done', IsI(e), e >= end_time'
                   PROVE  FALSE
        BY DEF CutIsAhead, PlannedWork
      <4>2. PlannedWork
        BY <1>v, <2>1 DEF PlannedWork
      <4>3. e \in Done
        <5>1. Ahead = ToSet(mux_head)
          BY <2>2, NoFrameQueued DEF Ahead
        <5> QED BY <1>v, <2>1, <5>1 DEF Done, Ahead, At
      <4>4. e \in Nat /\ Duration \in Nat /\ Duration > 0
        BY <4>3, AheadIs, FrameFacts, DurationAssumption DEF Done
      <4>5. end_time <= f + Duration
        <5>1. CASE cur_mux_handle
          <6>1. segment # <<>> /\ f = LastOf(segment) + 1
            BY <2>1, <2>4, <4>2, <5>1 DEF SegmentInv, MuxFollows, PlannedWork, At
          <6>2. Run(segment) /\ end_time = segment[1] + Duration
            BY <2>1, <6>1 DEF SegmentInv, SegmentIsRun, Working, At
          <6>3. Len(segment) \in Nat \ {0} /\ segment[1] \in Nat
            BY <6>1, EmptySeq, LenProperties, FrameFacts DEF TypeOK
          <6>4. segment[Len(segment)] = segment[1] + Len(segment) - 1
            BY <6>2, <6>3 DEF Run
          <6> QED BY <4>4, <6>1, <6>2, <6>3, <6>4 DEF LastOf
        <5>2. CASE ~cur_mux_handle
          BY <2>1, <2>2, <3>1, <4>4, <5>2 DEF HandleInv, SyncIsKept, SyncedAt, At
        <5> QED BY <5>1, <5>2 DEF TypeOK
      <4>6. e >= end_time /\ e > f
        BY <1>t, <3>1, <4>1, <4>4, <4>5
      <4>7. seq_num_end >= e
        BY <4>2, <4>3, <4>6 DEF CutIsAhead, PlannedWork
      <4> QED BY <3>1, <3>3, <4>4, <4>6, <4>7
    <3> QED BY <3>2, <3>3
  <2> QED BY <2>3, <2>4
<1>6. CASE MainLeaves
  <2>1. status # "work" /\ UNCHANGED status
    BY <1>6 DEF MainLeaves, HandInv, PlaceOfMain, StatusOfCtl, ByIframes, At
  <2> QED BY <2>1, CutEnds DEF PlannedWork
<1>7. CASE video_record_filter \/ filter_video_data \/ drop_extra_frames \/ FilterFrees
  <2>1. pc["main"] \in Filtering /\ UNCHANGED status
    BY <1>7 DEF video_record_filter, filter_video_data, drop_extra_frames, FilterFrees,
       Filtering, At
  <2>2. trigger_iframe # 0
    BY <2>1 DEF TakingInv, PlaceInv
  <2>3. trigger_type # "plan"
    BY <2>2 DEF HandInv, CalmTypeOK, Iframes
  <2> QED BY <1>v, <2>3, CutEnds DEF PlannedWork
<1> QED BY <1>1, <1>2, <1>3, <1>4, <1>5, <1>6, <1>7 DEF Main

(* Each step of a stop does.                                               *)
LEMMA CutIsAheadStop ==
  ASSUME Calm, TypeOK, LockInv, HandInv, QueueInv, CutIsAhead, NEW t \in Stopper,
         ak_dvr_record_stop(t)
  PROVE  CutIsAhead'
<1>0. t = "ctl"
  BY OnlyCtlStops
<1>1. /\ pc'["video"] = pc["video"]
      /\ UNCHANGED <<end_time, held, seq_num_end, next>>
      /\ mux_head' = mux_head \/ mux_head' = <<>>
      /\ status' = status \/ status' # "work"
      /\ trigger_type' = trigger_type \/ trigger_type' = "reserved"
  BY <1>0 DEF ak_dvr_record_stop, StopLocks, StopChecks, StopCancels, ForgetHandle,
     StopReadsStatus, StopPauses, StopWaits, StopIsOver, StopGenerates, StopReleases,
     StopIdles, StopRearms, StopEnds, StopUnlocks, Goto, LockInv, LockTypeOK, Thread,
     control, triggers, stream, others, local, times, mark
<1>2. PlannedWork' => PlannedWork
  BY <1>1 DEF PlannedWork
<1>3. CASE mux_head' = mux_head
  BY <1>1, <1>2, <1>3, CutRests DEF At
<1>4. CASE mux_head' = <<>>
  BY <1>4, CutEnds
<1> QED BY <1>1, <1>3, <1>4

(* Each step of record_ctrl and of the encoder does.                       *)
LEMMA CutIsAheadCtl ==
  ASSUME Calm, TypeOK, LockInv, HandInv, QueueInv, CutIsAhead,
         Ctl \/ EncoderRunsOn \/ UNCHANGED vars
  PROVE  CutIsAhead'
<1>r. Resting => status # "work"
  BY DEF HandInv, StatusOfCtl, ByIframes
<1> USE DEF LockInv, LockTypeOK, Goto, Thread, control, triggers, stream, others,
            local, times, mark
<1>1. CASE StartBegins \/ StartChecks \/ TurnOn
  <2>1. pc["ctl"] \in {"ready", "start"} /\ (At("ctl", "ready") => ~started)
        /\ (status' # "work" \/ UNCHANGED status)
    BY <1>1 DEF StartBegins, StartChecks, TurnOn, At
  <2>2. Resting
    BY <2>1 DEF Resting, At
  <2> QED BY <1>r, <2>1, <2>2, CutEnds DEF PlannedWork
<1>2. CASE StartWorks
  <2>1. trigger_type = "plan" => mux_head = <<>>
    BY <1>2 DEF StartWorks, HandInv, CalmTypeOK, StatusOfCtl, ByIframes, Resting,
       Iframes, QueueInv, IdleIsEmpty, At
  <2>2. UNCHANGED <<trigger_type, mux_head>>
    BY <1>2 DEF StartWorks
  <2> QED BY <2>1, <2>2, CutEnds DEF PlannedWork
<1>3. CASE StartFlags \/ CtlStops \/ CtlForgets
  <2>1. /\ UNCHANGED <<mux_head, held, end_time, seq_num_end, next, status, trigger_type>>
        /\ pc'["video"] = pc["video"]
    BY <1>3 DEF StartFlags, CtlStops, CtlForgets
  <2> QED BY <2>1, CutRests DEF PlannedWork, At
<1>4. CASE TurnOff \/ OffCancels \/ OffReleases \/ OffEnds
  BY <1>4 DEF TurnOff, OffCancels, OffReleases, OffEnds, HandInv, CalmTypeOK, Starting,
     StopLabel, Calm, Steady, At
<1>5. CASE EncoderRunsOn
  <2>1. /\ UNCHANGED <<mux_head, held, end_time, seq_num_end, status, trigger_type, pc>>
        /\ ~req_handle
    BY <1>5 DEF EncoderRunsOn
  <2>2. pc["video"] # "mark"
    BY <2>1 DEF QueueInv, MarkIsWanted
  <2>3. Ahead' = Ahead /\ Done' = Done /\ Done \subseteq Frame
    BY <2>1, <2>2, AheadIs DEF Ahead, Done, At
  <2>4. end_time \in Nat
    BY DEF TypeOK
  <2> QED BY <2>1, <2>3, <2>4, CutStays DEF PlannedWork
<1>6. CASE UNCHANGED vars
  BY <1>6, CutRests DEF vars, PlannedWork, At
<1> QED BY <1>1, <1>2, <1>3, <1>4, <1>5, <1>6 DEF Ctl

(* However late the mark is set and however far main is behind, a frame    *)
(* that is due has a mark at it or behind it.                              *)
THEOREM CutIsAheadAlways == Calm => (Spec => []CutIsAhead)
<1> SUFFICES ASSUME Calm PROVE Spec => []CutIsAhead
  OBVIOUS
<1>1. Init => CutIsAhead
  BY DEF Init, CutIsAhead
<1>2. TypeOK /\ LockInv /\ TakingInv /\ HandInv /\ QueueInv /\ HandleInv /\ SegmentInv
      /\ CutIsAhead /\ [Next]_vars => CutIsAhead'
  BY CutIsAheadVideo, CutIsAheadMain, CutIsAheadStop, CutIsAheadCtl DEF Next
<1>3. Spec => []TakingInv /\ []HandInv /\ []QueueInv /\ []HandleInv /\ []SegmentInv
  BY TakingInvAlways, HandInvAlways, QueueInvAlways, HandleInvAlways, SegmentInvAlways DEF Calm
<1> QED BY <1>1, <1>2, <1>3, TypeOKAlways, LockInvAlways, PTL DEF Spec

(* Every file can be played, and a planned one is cut when it is due; at   *)
(* the right frame and with the right date until a mark is late or main a  *)
(* group behind.                                                           *)
THEOREM SegmentIsRightAlways == Calm => (Spec => []SegmentIsRight)
<1> SUFFICES ASSUME Calm PROVE Spec => []SegmentIsRight
  OBVIOUS
<1>1. SegmentInv /\ MarkInv /\ CutIsAhead => SegmentIsRight
  <2> SUFFICES ASSUME SegmentInv, MarkInv, CutIsAhead PROVE SegmentIsRight
    OBVIOUS
  <2>1. SegmentIsPlayable
    BY DEF SegmentInv, SegmentIsRun, Run, SegmentIsPlayable
  <2>2. ~slipped => SplitOnTime /\ DateIsOfFirstFrame
    BY DEF SegmentInv, SegmentIsRun, MarkInv, Marks, DateIsOfFirstFrame
  <2> QED BY <2>1, <2>2 DEF SegmentIsRight
<1>2. Spec => []SegmentInv /\ []MarkInv /\ []CutIsAhead
  BY SegmentInvAlways, MarkInvAlways, CutIsAheadAlways
<1> QED BY <1>1, <1>2, PTL
=============================================================================
