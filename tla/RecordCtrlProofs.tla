-------------------------- MODULE RecordCtrlProofs --------------------------
(***************************************************************************)
(* What holds of record control for every table of plans, every length of  *)
(* a day, week and alarm, and with every fault:                            *)
(*   CtrlInv    what is recorded is known to record control, so that every *)
(*              stop finds what it has to stop                             *)
(*   TypeInv    the types, and the shapes of plan and alarm                *)
(*   KindInv    a recording is of the mode that is on                      *)
(*   ListInv    a card whose files are not listed is reported              *)
(*   AlarmInv   an alarm's recording has an end, not too near and not too  *)
(*              far                                                        *)
(*   PlanInv    a planned recording is of a day its plan names             *)
(* and from them the safety properties that the runs check.                *)
(***************************************************************************)
EXTENDS RecordCtrl, TLAPS, WellFoundedInduction

(* plan and alarm are records with a status.                               *)
HaveStatus == "status" \in DOMAIN plan /\ "status" \in DOMAIN alarm

(* What is recorded was started by the plan or an alarm: the first part of *)
(* RecordingIsKnown, by which every stop finds what it has to stop.        *)
KnownAtAll == rec # "none" => Started

(* A recorder that reported its end records nothing, also while the value  *)
(* of except_type that tells so is being written anew.                     *)
StoppedIsStill == /\ "stopped" \in except_type => rec = "none"
                  /\ "stopped" \in seen => rec = "none" /\ pc = "store"

(* A card found removed is acted upon before the next look at it.          *)
RemovedIsHeeded == /\ "removed" \in except_type /\ rec # "none" => pc = "act"
                   /\ "removed" \in seen /\ rec # "none" => pc = "store"

(* There is a new value of except_type only while it is being written.     *)
SeenIsOfNow == pc \notin {"store", "stored"} => seen = {}

FormatsAlone == pc = "formatting" => rec = "none"

CtrlInv == /\ HaveStatus /\ KnownAtAll /\ StoppedIsStill /\ RemovedIsHeeded
           /\ SeenIsOfNow /\ FormatsAlone

LEMMA CtrlInit == Init => CtrlInv
BY DEF Init, CtrlInv, HaveStatus, KnownAtAll, StoppedIsStill, RemovedIsHeeded,
       SeenIsOfNow, FormatsAlone, NoPlan

(* A step at no recording's start: it leaves the recorder alone or ends    *)
(* what it does, and takes no status away.                                 *)
LEMMA StopEnds ==
  ASSUME CtrlInv, StopRecord
  PROVE  rec' = "none" /\ HaveStatus'
<1>1. rec' = "none"
  BY DEF CtrlInv, StoppedIsStill, StopRecord, End
<1>2. HaveStatus'
  BY DEF CtrlInv, HaveStatus, StopRecord, NoPlan
<1>3. QED
  BY <1>1, <1>2

LEMMA StopIfStartedEnds ==
  ASSUME CtrlInv, StopIfStarted
  PROVE  rec' = "none" /\ HaveStatus'
<1>1. CASE Started
  BY <1>1, StopEnds DEF StopIfStarted
<1>2. CASE ~Started
  BY <1>2 DEF StopIfStarted, CtrlInv, KnownAtAll, HaveStatus
<1>3. QED
  BY <1>1, <1>2

-----------------------------------------------------------------------------
(* The looks at plan and alarm: whatever records afterwards is known.      *)
LEMMA PlanKnown ==
  ASSUME CtrlInv, check_record_plan
  PROVE  HaveStatus' /\ KnownAtAll'
<1>1. CASE plan.status = "start"
  <2>1. check_plan_record_stop
    BY <1>1 DEF check_record_plan
  <2>2. CASE UNCHANGED <<rec, plan, alarm>>
    BY <2>2 DEF CtrlInv, HaveStatus, KnownAtAll, Started
  <2>3. CASE StopRecord
    BY <2>3, StopEnds DEF KnownAtAll
  <2>4. CASE /\ \E d \in NextDays : plan' = [plan EXCEPT
                  !.end_time = DayLen * d + SecsToTotal(config[plan.index].end_time),
                  !.start_wday = (plan.start_wday + d) % DayPerWeek]
             /\ UNCHANGED <<rec, alarm>>
    <3>1. plan'.status = "start" /\ "status" \in DOMAIN plan'
      BY <1>1, <2>4 DEF CtrlInv, HaveStatus
    <3>2. QED
      BY <3>1, <2>4 DEF CtrlInv, HaveStatus, KnownAtAll, Started
  <2>5. QED
    BY <2>1, <2>2, <2>3, <2>4 DEF check_plan_record_stop
<1>2. CASE plan.status # "start"
  <2>1. check_plan_record_start /\ UNCHANGED alarm
    BY <1>2 DEF check_record_plan
  <2>2. CASE ~Planned(now)
    BY <2>1, <2>2 DEF check_plan_record_start, CtrlInv, HaveStatus, KnownAtAll, Started
  <2>3. CASE Planned(now)
    <3>1. plan'.status = "start" /\ "status" \in DOMAIN plan'
      BY <2>1, <2>3 DEF check_plan_record_start
    <3>2. QED
      BY <2>1, <3>1 DEF CtrlInv, HaveStatus, KnownAtAll, Started
  <2>4. QED
    BY <2>2, <2>3
<1>3. QED
  BY <1>1, <1>2

LEMMA AlarmKnown ==
  ASSUME CtrlInv, check_record_alarm
  PROVE  HaveStatus' /\ KnownAtAll'
<1>1. CASE alarm.status = "start"
  <2>1. check_alarm_record_stop
    BY <1>1 DEF check_record_alarm
  <2>2. CASE now >= Extended
    <3>1. rec' = "none"
      BY <2>1, <2>2 DEF check_alarm_record_stop, End, CtrlInv, StoppedIsStill
    <3>2. HaveStatus'
      BY <2>1, <2>2 DEF check_alarm_record_stop, NoPlan, HaveStatus
    <3>3. QED
      BY <3>1, <3>2 DEF KnownAtAll
  <2>3. CASE ~(now >= Extended)
    <3>1. alarm' = [alarm EXCEPT !.end_time = Extended] /\ UNCHANGED <<rec, plan>>
      BY <2>1, <2>3 DEF check_alarm_record_stop
    <3>2. alarm'.status = "start" /\ "status" \in DOMAIN alarm'
      BY <1>1, <3>1 DEF CtrlInv, HaveStatus
    <3>3. QED
      BY <3>1, <3>2 DEF CtrlInv, HaveStatus, KnownAtAll, Started
  <2>4. QED
    BY <2>2, <2>3
<1>2. CASE alarm.status # "start"
  <2>1. check_alarm_record_start /\ UNCHANGED plan
    BY <1>2 DEF check_record_alarm
  <2>2. CASE UNCHANGED <<rec, alarm>>
    BY <2>1, <2>2 DEF CtrlInv, HaveStatus, KnownAtAll, Started
  <2>3. CASE alarm' = [status |-> "start", start_time |-> now - PreTime,
                       end_time |-> now + StopTime]
    <3>1. alarm'.status = "start" /\ "status" \in DOMAIN alarm'
      BY <2>3
    <3>2. QED
      BY <2>1, <3>1 DEF CtrlInv, HaveStatus, KnownAtAll, Started
  <2>4. QED
    BY <2>1, <2>2, <2>3 DEF check_alarm_record_start
<1>3. QED
  BY <1>1, <1>2

-----------------------------------------------------------------------------
(* One step per action of record_ctrl_main ...                             *)
LEMMA MainKeeps ==
  ASSUME CtrlInv, record_ctrl_main
  PROVE  CtrlInv'
<1> USE DEF flags, modes, times, cardVars, exitVars, counts, app
<1>1. CASE check_record_exception
  <2>1. /\ UNCHANGED <<plan, alarm, rec, except_type>> /\ pc = "check" /\ pc' = "store"
        /\ seen' \subseteq except_type \union {"removed", "umount", "write_error"}
    BY <1>1 DEF check_record_exception, CheckSd
  <2>2. QED
    BY <2>1 DEF CtrlInv, HaveStatus, KnownAtAll, Started, StoppedIsStill,
                RemovedIsHeeded, SeenIsOfNow, FormatsAlone
<1>2. CASE StoreExcept
  <2>1. /\ UNCHANGED <<plan, alarm, rec>> /\ pc \in {"store", "stored"}
        /\ except_type' = seen /\ seen' = {}
        /\ pc' = IF pc = "store" THEN "act" ELSE "slept"
    BY <1>2 DEF StoreExcept
  <2>2. QED
    BY <2>1 DEF CtrlInv, HaveStatus, KnownAtAll, Started, StoppedIsStill,
                RemovedIsHeeded, SeenIsOfNow, FormatsAlone
<1>3. CASE Act
  <2>1. UNCHANGED <<except_type, seen>> /\ except_type = {} /\ pc = "act" /\ pc' = "slept"
    BY <1>3 DEF Act
  <2>2. HaveStatus' /\ KnownAtAll'
    BY <1>3, PlanKnown, AlarmKnown DEF Act
  <2>3. StoppedIsStill' /\ RemovedIsHeeded' /\ SeenIsOfNow' /\ FormatsAlone'
    BY <2>1 DEF CtrlInv, StoppedIsStill, RemovedIsHeeded, SeenIsOfNow, FormatsAlone
  <2>4. QED
    BY <2>2, <2>3 DEF CtrlInv
<1>4. CASE StopOnException
  <2>1. rec' = "none" /\ HaveStatus'
    BY <1>4, StopIfStartedEnds DEF StopOnException
  <2>2. UNCHANGED <<except_type, seen>> /\ pc = "act"
    BY <1>4 DEF StopOnException
  <2>3. QED
    BY <2>1, <2>2 DEF CtrlInv, KnownAtAll, StoppedIsStill, RemovedIsHeeded, SeenIsOfNow, FormatsAlone
<1>5. CASE report_exception
  <2>1. /\ UNCHANGED <<plan, alarm, rec, except_type>> /\ pc = "report" /\ pc' = "stored"
        /\ seen' = except_type \intersect Kept
    BY <1>5 DEF report_exception
  <2>2. QED
    BY <2>1 DEF CtrlInv, HaveStatus, KnownAtAll, Started, StoppedIsStill,
                RemovedIsHeeded, SeenIsOfNow, FormatsAlone, Kept
<1>6. CASE BeginFormat
  <2>1. UNCHANGED <<except_type, seen>> /\ pc = "slept" /\ pc' \in {"formatting", "update"}
    BY <1>6 DEF BeginFormat
  <2>2. CASE format_card
    <3>1. rec' = "none" /\ HaveStatus'
      BY <1>6, <2>2, StopIfStartedEnds DEF BeginFormat
    <3>2. QED
      BY <2>1, <3>1 DEF CtrlInv, KnownAtAll, StoppedIsStill, RemovedIsHeeded, SeenIsOfNow, FormatsAlone
  <2>3. CASE ~format_card
    <3>1. UNCHANGED <<rec, plan, alarm>> /\ pc' = "update"
      BY <1>6, <2>3 DEF BeginFormat
    <3>2. QED
      BY <2>1, <3>1 DEF CtrlInv, HaveStatus, KnownAtAll, Started, StoppedIsStill,
                        RemovedIsHeeded, SeenIsOfNow, FormatsAlone
  <2>4. QED
    BY <2>2, <2>3
<1>7. CASE EndFormat
  <2>1. /\ UNCHANGED <<plan, alarm, rec, seen>> /\ pc = "formatting" /\ pc' = "update"
        /\ except_type' \subseteq except_type \union {"umount"}
    BY <1>7 DEF EndFormat
  <2>2. QED
    BY <2>1 DEF CtrlInv, HaveStatus, KnownAtAll, Started, StoppedIsStill,
                RemovedIsHeeded, SeenIsOfNow, FormatsAlone
<1>8. CASE UpdatePlan
  <2>1. UNCHANGED <<except_type, seen>> /\ pc = "update" /\ pc' \in {"updating", "mode"}
    BY <1>8 DEF UpdatePlan
  <2>2. CASE StopRecord
    BY <2>1, <2>2, StopEnds DEF CtrlInv, KnownAtAll, StoppedIsStill, RemovedIsHeeded,
                                SeenIsOfNow, FormatsAlone
  <2>3. CASE UNCHANGED <<rec, plan, alarm>>
    BY <2>1, <2>3 DEF CtrlInv, HaveStatus, KnownAtAll, Started, StoppedIsStill,
                      RemovedIsHeeded, SeenIsOfNow, FormatsAlone
  <2>4. QED
    BY <1>8, <2>2, <2>3 DEF UpdatePlan
<1>9. CASE PlanUpdated
  <2>1. UNCHANGED <<plan, alarm, rec, except_type, seen>> /\ pc = "updating" /\ pc' = "mode"
    BY <1>9 DEF PlanUpdated
  <2>2. QED
    BY <2>1 DEF CtrlInv, HaveStatus, KnownAtAll, Started, StoppedIsStill,
                RemovedIsHeeded, SeenIsOfNow, FormatsAlone
<1>10. CASE change_mode
  <2>1. UNCHANGED <<except_type, seen>> /\ pc = "mode" /\ pc' \in {"check", "exited"}
    BY <1>10 DEF change_mode, NextRound
  <2>2. CASE StopIfStarted
    BY <2>1, <2>2, StopIfStartedEnds
    DEF CtrlInv, KnownAtAll, StoppedIsStill, RemovedIsHeeded, SeenIsOfNow, FormatsAlone
  <2>3. CASE UNCHANGED <<rec, plan, alarm>>
    BY <2>1, <2>3 DEF CtrlInv, HaveStatus, KnownAtAll, Started, StoppedIsStill,
                      RemovedIsHeeded, SeenIsOfNow, FormatsAlone
  <2>4. QED
    BY <1>10, <2>2, <2>3 DEF change_mode
<1>11. QED
  BY <1>1, <1>2, <1>3, <1>4, <1>5, <1>6, <1>7, <1>8, <1>9, <1>10 DEF record_ctrl_main

(* ... and of the recorder, the callers and the world.                     *)
LEMMA OthersKeep ==
  ASSUME CtrlInv, [Next]_vars, ~record_ctrl_main
  PROVE  CtrlInv'
<1> USE DEF flags, modes, times, cardVars, exitVars, counts, app, CallerVars
<1>1. CASE Exception
  <2>1. PICK e \in {"stopped", "syserr", "nospace"} : get_video_record_error(e)
    BY <1>1 DEF Exception
  <2>2. /\ UNCHANGED <<plan, alarm, seen, pc>> /\ rec # "none"
        /\ except_type' = except_type \union {e}
    BY <2>1 DEF get_video_record_error, Kind
  <2>3. CASE e = "stopped"
    <3>1. rec' = "none"
      BY <2>1, <2>3 DEF get_video_record_error, End
    <3>2. QED
      BY <2>2, <2>3, <3>1 DEF CtrlInv, HaveStatus, KnownAtAll, StoppedIsStill,
                              RemovedIsHeeded, SeenIsOfNow, FormatsAlone
  <2>4. CASE e # "stopped"
    BY <2>1, <2>2, <2>4 DEF CtrlInv, HaveStatus, KnownAtAll, Started, StoppedIsStill,
                            RemovedIsHeeded, SeenIsOfNow, FormatsAlone
  <2>5. QED
    BY <2>3, <2>4
<1>2. CASE record_ctrl_exit
  <2>1. UNCHANGED <<plan, alarm, except_type, seen, pc>> /\ (rec' = rec \/ rec' = "none")
    BY <1>2 DEF record_ctrl_exit, End
  <2>2. QED
    BY <2>1 DEF CtrlInv, HaveStatus, KnownAtAll, Started, StoppedIsStill,
                RemovedIsHeeded, SeenIsOfNow, FormatsAlone
<1>3. CASE UNCHANGED <<plan, alarm, rec, except_type, seen, pc>>
  BY <1>3 DEF CtrlInv, HaveStatus, KnownAtAll, Started, StoppedIsStill,
              RemovedIsHeeded, SeenIsOfNow, FormatsAlone
<1>4. CASE \/ SetConfig \/ record_ctrl_update_dvr_plan_time
           \/ record_ctrl_request_format_card
           \/ \E m \in Kind : record_ctrl_set_mode(m)
           \/ Motion \/ CardChange \/ Tick \/ SpaceTimePasses \/ UNCHANGED vars
  BY <1>3, <1>4 DEF SetConfig, record_ctrl_update_dvr_plan_time,
                    record_ctrl_request_format_card, record_ctrl_set_mode,
                    Motion, CardChange, Tick, SpaceTimePasses, vars
<1>5. QED
  BY <1>1, <1>2, <1>4 DEF Next

(* For every table, length of time and fault: what is recorded is known to *)
(* record control, and what it does not know of was never started.         *)
THEOREM CtrlInvAlways == Spec => []CtrlInv
<1>1. CtrlInv /\ [Next]_vars => CtrlInv'
  BY MainKeeps, OthersKeep
<1>2. QED
  BY <1>1, CtrlInit, PTL DEF Spec

(* For every table, length of time and fault: fuser -k, by which a card is *)
(* remounted and formatted (record_ctrl.c:612), meets no recording.        *)
THEOREM FuserFindsNobodyAlways == Spec => []FuserFindsNobody
<1>1. CtrlInv => FuserFindsNobody
  BY DEF CtrlInv, FormatsAlone, RemovedIsHeeded, FuserFindsNobody, Reinserted
<1>2. QED
  BY <1>1, CtrlInvAlways, PTL

(* A set of numbers that has a member has a least one: the plan that       *)
(* check_plan_record_start finds first.                                    *)
LEMMA LeastExists ==
  ASSUME NEW T \in SUBSET Nat, T # {}
  PROVE  \E x \in T : \A y \in T : x <= y
<1> DEFINE R == OpToRel(<, Nat)
<1>1. \A x, y \in Nat : y < x => <<y, x>> \in R
  BY DEF OpToRel
<1>2. IsWellFoundedOn(R, Nat)
  BY NatLessThanWellFounded
<1> HIDE DEF R
<1>3. PICK x \in T : \A y \in T : ~(<<y, x>> \in R)
  BY <1>2, WFMin
<1>4. \A y \in T : ~(y < x)
  BY <1>1, <1>3, Zenon
<1>5. \A y \in T : x <= y
  BY <1>4
<1> QED BY <1>5, Zenon

(* A time lies within its day (internal_time.c).                           *)
LEMMA DayFacts ==
  ASSUME NEW t \in Nat
  PROVE  /\ t \div DayLen \in Nat /\ DayStart(t) \in Nat
         /\ DayStart(t) <= t /\ t < DayStart(t) + DayLen
         /\ Wday(t) \in 0..DayPerWeek - 1
<1>1. t \div DayLen \in Nat
  BY DaysAssumption
<1>2. DayStart(t) \in Nat
  BY <1>1, DaysAssumption DEF DayStart
<1>3. DayStart(t) <= t /\ t < DayStart(t) + DayLen
  BY DaysAssumption DEF DayStart
<1>4. Wday(t) \in 0..DayPerWeek - 1
  BY <1>1, DaysAssumption DEF Wday
<1> QED BY <1>1, <1>2, <1>3, <1>4

(* A time between two midnights is of the day between them.                *)
LEMMA DayIs ==
  ASSUME NEW t \in Nat, NEW k \in Nat, k * DayLen <= t, t < k * DayLen + DayLen
  PROVE  t \div DayLen = k /\ DayStart(t) = k * DayLen /\ Wday(t) = k % DayPerWeek
<1>1. t \div DayLen = k
  BY DaysAssumption
<1> QED BY <1>1 DEF DayStart, Wday

(* What is left of a number that is some weeks and some days.              *)
LEMMA Rest ==
  ASSUME NEW a \in Nat, NEW q \in Nat, NEW r \in 0..DayPerWeek - 1, a = q * DayPerWeek + r
  PROVE  a % DayPerWeek = r
BY DaysAssumption

(* The weekday after that of day k is that of day k + 1.                   *)
LEMMA NextWday ==
  ASSUME NEW k \in Nat
  PROVE  ((k % DayPerWeek) + 1) % DayPerWeek = (k + 1) % DayPerWeek
<1> DEFINE q == k \div DayPerWeek
           r == k % DayPerWeek
<1>1. q \in Nat /\ r \in 0..DayPerWeek - 1 /\ k = q * DayPerWeek + r
  BY DaysAssumption
<1> HIDE DEF q, r
<1>2. CASE r = DayPerWeek - 1
  <2>1. k + 1 = (q + 1) * DayPerWeek + 0 /\ q + 1 \in Nat
    BY <1>1, <1>2, DaysAssumption
  <2>2. (k + 1) % DayPerWeek = 0
    <3> DEFINE p == q + 1
    <3>1. k + 1 \in Nat /\ p \in Nat /\ 0 \in 0..DayPerWeek - 1 /\ k + 1 = p * DayPerWeek + 0
      BY <2>1, DaysAssumption
    <3> HIDE DEF p
    <3> QED BY <3>1, Rest
  <2>3. (r + 1) % DayPerWeek = 0
    BY <1>2, DaysAssumption
  <2> QED BY <2>2, <2>3 DEF r
<1>3. CASE r # DayPerWeek - 1
  <2>1. k + 1 = q * DayPerWeek + (r + 1) /\ r + 1 \in 0..DayPerWeek - 1
    BY <1>1, <1>3, DaysAssumption
  <2>2. (k + 1) % DayPerWeek = r + 1
    BY <1>1, <2>1, DaysAssumption
  <2>3. (r + 1) % DayPerWeek = r + 1
    BY <2>1, DaysAssumption
  <2> QED BY <2>2, <2>3 DEF r
<1> QED BY <1>2, <1>3

(* When a time is planned there is a first plan that covers it.            *)
LEMMA FirstPlanCovers ==
  ASSUME NEW t, Planned(t), config \in Tables
  PROVE  FirstPlan(t) \in DOMAIN config /\ Covers(config[FirstPlan(t)], t)
<1> DEFINE P == {i \in DOMAIN config : Covers(config[i], t)}
<1>1. P \in SUBSET Nat /\ P # {}
  BY TablesAssumption DEF Planned
<1>2. PICK i \in P : \A j \in P : i <= j
  BY <1>1, LeastExists
<1>3. \E k \in DOMAIN config : /\ Covers(config[k], t)
                               /\ \A j \in DOMAIN config : Covers(config[j], t) => k <= j
  BY <1>2
<1> QED BY <1>3 DEF FirstPlan

-----------------------------------------------------------------------------
(* The fields of plan and alarm, and the table that is one of the tables.  *)
Shapes == /\ {"status", "index", "start_wday", "end_time"} = DOMAIN plan
          /\ {"status", "start_time", "end_time"} = DOMAIN alarm
          /\ config \in Tables

(* The part of both that the steps at a start or a stop change.            *)
RecordsFit == /\ rec \in Kind \union {"none", "broken"}
              /\ plan.status \in {"none", "start"}
              /\ plan.start_wday \in 0..DayPerWeek - 1
              /\ alarm.status \in {"none", "start", "end"}
              /\ {"status", "index", "start_wday", "end_time"} = DOMAIN plan
              /\ {"status", "start_time", "end_time"} = DOMAIN alarm

(* The types with the shapes: inductive, where TypeOK alone is not.        *)
TypeInv == TypeOK /\ Shapes

(* The types after stop_record,                                            *)
LEMMA StopTypes ==
  ASSUME TypeInv, StopRecord
  PROVE  RecordsFit'
BY DaysAssumption DEF RecordsFit, TypeInv, TypeOK, Shapes, StopRecord, End, NoPlan

(* ... after a look at the plan,                                           *)
LEMMA PlanTypes ==
  ASSUME TypeInv, check_record_plan
  PROVE  RecordsFit'
<1> USE DEF RecordsFit, TypeInv, TypeOK, Shapes
<1>1. CASE plan.status = "start"
  <2>1. CASE StopRecord
    BY <2>1, StopTypes
  <2>2. CASE UNCHANGED <<rec, plan, alarm>>
    BY <2>2
  <2>3. ASSUME NEW d \in NextDays, UNCHANGED <<rec, alarm>>,
               plan' = [plan EXCEPT
               !.end_time = DayLen * d + SecsToTotal(config[plan.index].end_time),
               !.start_wday = (plan.start_wday + d) % DayPerWeek]
        PROVE  /\ plan'.status \in {"none", "start"} /\ plan'.start_wday \in 0..DayPerWeek - 1
               /\ {"status", "index", "start_wday", "end_time"} = DOMAIN plan'
    <3>1. plan.start_wday + d \in Nat
      BY <2>3, DaysAssumption DEF NextDays
    <3>2. (plan.start_wday + d) % DayPerWeek \in 0..DayPerWeek - 1
      BY <3>1, DaysAssumption
    <3> QED BY <2>3, <3>2
  <2> QED BY <1>1, <2>1, <2>2, <2>3 DEF check_record_plan, check_plan_record_stop
<1>2. CASE plan.status # "start"
  <2>1. Wday(now) \in 0..DayPerWeek - 1
    BY DayFacts
  <2>2. rec' \in Kind \union {"none", "broken"} /\ UNCHANGED alarm
    BY <1>2 DEF check_record_plan, check_plan_record_start, StartRecorder, Begin, Kind
  <2>3. \/ UNCHANGED plan
        \/ \E i, e : plan' = [status |-> "start", index |-> i,
                                start_wday |-> Wday(now), end_time |-> e]
    BY <1>2 DEF check_record_plan, check_plan_record_start
  <2> QED BY <2>1, <2>2, <2>3
<1> QED BY <1>1, <1>2

(* ... and after a look at the alarms.                                     *)
LEMMA AlarmTypes ==
  ASSUME TypeInv, check_record_alarm
  PROVE  RecordsFit'
<1> USE DEF RecordsFit, TypeInv, TypeOK, Shapes
<1>1. CASE alarm.status = "start"
  BY <1>1, DaysAssumption DEF check_record_alarm, check_alarm_record_stop, End, NoPlan
<1>2. CASE alarm.status # "start"
  BY <1>2 DEF check_record_alarm, check_alarm_record_start, StartRecorder, Begin, Kind
<1> QED BY <1>1, <1>2

(* The flags stay flags.                                                   *)
LEMMA BoolsStay ==
  ASSUME /\ run_flag \in BOOLEAN /\ opened \in BOOLEAN
         /\ update_plan_time \in BOOLEAN /\ format_card \in BOOLEAN,
         [Next]_vars
  PROVE  /\ run_flag' \in BOOLEAN /\ opened' \in BOOLEAN
         /\ update_plan_time' \in BOOLEAN /\ format_card' \in BOOLEAN
BY ZenonT(60)
DEF Next, record_ctrl_main, check_record_exception, StoreExcept, Act, StopOnException,
   report_exception, BeginFormat, EndFormat, UpdatePlan, PlanUpdated, change_mode,
   Exception, get_video_record_error, record_ctrl_exit, SetConfig,
   record_ctrl_update_dvr_plan_time, record_ctrl_request_format_card,
   record_ctrl_set_mode, Motion, CardChange, Tick, SpaceTimePasses, CallerVars, vars,
   flags, exitVars

(* For every table, length of time and fault: every variable keeps its     *)
(* type.                                                                   *)
THEOREM TypeInvAlways == Spec => []TypeInv
<1>1. Init => TypeInv
  <2>1. Init => /\ run_flag \in BOOLEAN /\ opened \in BOOLEAN
                /\ update_plan_time \in BOOLEAN /\ format_card \in BOOLEAN
    BY Zenon DEF Init
  <2> QED
    BY <2>1, BoundsAssumption, DaysAssumption
    DEF Init, TypeInv, TypeOK, Shapes, NoPlan, Kind, Except
<1>2. TypeInv /\ [Next]_vars => TypeInv'
  <2> SUFFICES ASSUME TypeInv, [Next]_vars PROVE TypeInv'
    OBVIOUS
  <2> USE BoundsAssumption
      DEF RecordsFit, TypeInv, TypeOK, Shapes, flags, modes, times, cardVars, exitVars,
          counts, app, CallerVars, End, Kind, Except
  <2>b. /\ run_flag' \in BOOLEAN /\ opened' \in BOOLEAN
        /\ update_plan_time' \in BOOLEAN /\ format_card' \in BOOLEAN
    BY BoolsStay
  <2>i. StopIfStarted =>
         RecordsFit'
    BY StopTypes DEF StopIfStarted
  <2>1. CASE check_record_exception
    <3>1. card' \in {"out", "in", "mounted", "failing"} /\ seen' \subseteq Except
      BY <2>1 DEF check_record_exception, CheckSd
    <3>2. listed' \in 0..MaxCard
      BY <2>1 DEF check_record_exception
    <3>3. UNCHANGED <<flags, modes, times, exitVars, counts, app, rec, cards, except_type>>
      BY <2>1 DEF check_record_exception
    <3> QED BY <3>1, <3>2, <3>3
  <2>2. CASE StoreExcept             BY <2>2 DEF StoreExcept
  <2>3. CASE Act
    <3>1. UNCHANGED <<flags, modes, cardVars, exitVars, counts, app, listed, except_type, seen>>
      BY <2>3 DEF Act
    <3>2. check_record_plan \/ check_record_alarm
      BY <2>3 DEF Act
    <3> QED BY <3>1, <3>2, PlanTypes, AlarmTypes
  <2>4. CASE StopOnException
    <3>1. StopIfStarted /\ UNCHANGED <<flags, modes, cardVars, exitVars, counts, app, listed,
                                       except_type, seen>>
      BY <2>4 DEF StopOnException
    <3> QED BY <2>b, <2>i, <3>1
  <2>5. CASE report_exception        BY <2>5 DEF report_exception, Kept
  <2>6. CASE BeginFormat
    <3>1. /\ StopIfStarted \/ UNCHANGED <<rec, plan, alarm>>
          /\ UNCHANGED <<flags, modes, cardVars, exitVars, counts, app, listed, except_type,
                         seen>>
      BY <2>6 DEF BeginFormat
    <3> QED BY <2>b, <2>i, <3>1
  <2>7. CASE EndFormat
    <3>1. UNCHANGED <<update_plan_time, modes, times, exitVars, counts, app, rec, listed, seen>>
      BY <2>7 DEF EndFormat
    <3>2. card' \in {"out", "in", "mounted", "failing"} /\ except_type' \subseteq Except
      BY <2>7 DEF EndFormat
    <3>3. cards' \in 0..MaxCard
      BY <2>7 DEF EndFormat
    <3> QED BY <2>b, <3>1, <3>2, <3>3
  <2>8. CASE UpdatePlan              BY <2>8, StopTypes DEF UpdatePlan
  <2>9. CASE PlanUpdated             BY <2>b, <2>9 DEF PlanUpdated
  <2>10. CASE change_mode
    <3>1. /\ StopIfStarted \/ UNCHANGED <<rec, plan, alarm>>
          /\ record_mode' = switch_mode
          /\ UNCHANGED <<flags, switch_mode, cardVars, exitVars, counts, app, listed,
                         except_type, seen>>
      BY <2>10 DEF change_mode
    <3> QED BY <2>b, <2>i, <3>1
  <2>11. CASE Exception              BY <2>b, <2>11 DEF Exception, get_video_record_error, Break
  <2>12. CASE record_ctrl_exit       BY <2>b, <2>12 DEF record_ctrl_exit
  <2>13. CASE SetConfig              BY <2>13 DEF SetConfig
  <2>14. CASE CardChange             BY <2>14 DEF CardChange
  <2>15. CASE Tick                   BY <2>15 DEF Tick
  <2>16. CASE \/ record_ctrl_update_dvr_plan_time
              \/ record_ctrl_request_format_card
              \/ \E m \in Kind : record_ctrl_set_mode(m)
              \/ Motion \/ SpaceTimePasses \/ UNCHANGED vars
    BY <2>b, <2>16 DEF record_ctrl_update_dvr_plan_time, record_ctrl_request_format_card,
       record_ctrl_set_mode, Motion, SpaceTimePasses, vars
  <2> QED
    BY <2>1, <2>2, <2>3, <2>4, <2>5, <2>6, <2>7, <2>8, <2>9, <2>10, <2>11, <2>12, <2>13,
       <2>14, <2>15, <2>16 DEF Next, record_ctrl_main
<1> QED BY <1>1, <1>2, PTL DEF Spec

-----------------------------------------------------------------------------

(* A recording, and the plan or alarm started, is of the mode that is on;  *)
(* the plan is stopped while the table is read anew; and nothing records   *)
(* once ak_dvr_record_exit is done.                                        *)
KindInv ==
  /\ rec = "plan" => record_mode = "plan"
  /\ rec = "alarm" => record_mode = "alarm"
  /\ plan.status = "start" => record_mode = "plan"
  /\ alarm.status = "start" => record_mode = "alarm"
  /\ pc = "updating" => plan.status # "start"
  /\ exit_pc # "out" => rec = "none" /\ ~opened

(* Every step keeps it.                                                    *)
LEMMA KindInvKeeps ==
  ASSUME CtrlInv, KindInv, [Next]_vars PROVE KindInv'
<1> USE DEF CtrlInv, HaveStatus, KnownAtAll, StoppedIsStill, KindInv, flags, modes, times,
            cardVars, exitVars, counts, app, CallerVars, Started, NoPlan, End, Kind
<1>s. StopRecord => rec' = "none" /\ plan'.status = "none" /\ alarm'.status = "end"
  BY DEF StopRecord
<1>i. StopIfStarted => rec' = "none" /\ plan'.status # "start" /\ alarm'.status # "start"
  BY <1>s DEF StopIfStarted
<1>1. CASE check_record_exception  BY <1>1 DEF check_record_exception
<1>2. CASE StoreExcept             BY <1>2 DEF StoreExcept
<1>3. CASE Act
  <2>1. /\ UNCHANGED <<modes, exitVars>> /\ pc' = "slept"
        /\ check_record_plan \/ check_record_alarm
    BY <1>3 DEF Act
  <2>2. CASE check_record_plan
    <3>1. record_mode = "plan"
      BY <2>2 DEF check_record_plan
    <3>2. CASE plan.status = "start"
      <4>1. \/ UNCHANGED <<rec, alarm>>
            \/ StopRecord
        BY <2>2, <3>2 DEF check_record_plan, check_plan_record_stop
      <4> QED BY <2>1, <3>1, <4>1, <1>s
    <3>3. CASE plan.status # "start"
      <4>1. /\ UNCHANGED alarm
            /\ UNCHANGED rec \/ (opened /\ rec' = "plan")
        BY <2>2, <3>3 DEF check_record_plan, check_plan_record_start, StartRecorder, Begin
      <4> QED BY <2>1, <3>1, <4>1
    <3> QED BY <3>2, <3>3
  <2>3. CASE check_record_alarm
    <3>1. record_mode = "alarm"
      BY <2>3 DEF check_record_alarm
    <3>2. CASE alarm.status = "start"
      <4>1. \/ UNCHANGED <<rec, plan>>
            \/ rec' = "none" /\ plan' = NoPlan
        BY <2>3, <3>2 DEF check_record_alarm, check_alarm_record_stop
      <4> QED BY <2>1, <3>1, <4>1
    <3>3. CASE alarm.status # "start"
      <4>1. /\ UNCHANGED plan
            /\ UNCHANGED rec \/ (opened /\ rec' = "alarm")
        BY <2>3, <3>3 DEF check_record_alarm, check_alarm_record_start, StartRecorder, Begin
      <4> QED BY <2>1, <3>1, <4>1
    <3> QED BY <3>2, <3>3
  <2> QED BY <2>1, <2>2, <2>3
<1>4. CASE StopOnException         BY <1>4, <1>i DEF StopOnException
<1>5. CASE report_exception        BY <1>5 DEF report_exception
<1>6. CASE BeginFormat             BY <1>6, <1>i DEF BeginFormat
<1>7. CASE EndFormat               BY <1>7 DEF EndFormat
<1>8. CASE UpdatePlan              BY <1>8, <1>s DEF UpdatePlan
<1>9. CASE PlanUpdated             BY <1>9 DEF PlanUpdated
<1>10. CASE change_mode            BY <1>10, <1>i DEF change_mode, NextRound
<1>11. CASE Exception              BY <1>11 DEF Exception, get_video_record_error, Break
<1>12. CASE record_ctrl_exit       BY <1>12 DEF record_ctrl_exit
<1>13. CASE \/ SetConfig \/ record_ctrl_update_dvr_plan_time
            \/ record_ctrl_request_format_card
            \/ \E m \in Kind : record_ctrl_set_mode(m)
            \/ Motion \/ CardChange \/ Tick \/ SpaceTimePasses \/ UNCHANGED vars
  BY <1>13 DEF SetConfig, record_ctrl_update_dvr_plan_time, record_ctrl_request_format_card,
     record_ctrl_set_mode, Motion, CardChange, Tick, SpaceTimePasses, vars
<1> QED
  BY <1>1, <1>2, <1>3, <1>4, <1>5, <1>6, <1>7, <1>8, <1>9, <1>10, <1>11, <1>12, <1>13
  DEF Next, record_ctrl_main

-----------------------------------------------------------------------------
(* A card that is removed is not mounted either, and one whose files are   *)
(* not listed is reported as not mounted, in except_type or in the value   *)
(* that is about to replace it.                                            *)
ListInv ==
  /\ "removed" \in except_type => "umount" \in except_type
  /\ "removed" \in seen => "umount" \in seen
  /\ listed # cards => /\ pc # "store" => "umount" \in except_type
                       /\ pc \in {"store", "stored"} => "umount" \in seen

(* Every step keeps it.                                                    *)
LEMMA ListInvKeeps ==
  ASSUME TypeInv, CtrlInv, ListInv, [Next]_vars PROVE ListInv'
<1> USE DEF CtrlInv, SeenIsOfNow, ListInv, flags, modes, times, cardVars, exitVars,
            counts, app, CallerVars
<1>1. CASE check_record_exception
  <2> DEFINE e == IF SpaceChecked THEN except_type \ {"nospace"} ELSE except_type
  <2>1. /\ pc = "check" /\ pc' = "store" /\ UNCHANGED <<except_type, cards>>
        /\ seen' = CheckSd(e, card')
        /\ listed' = IF \/ SpaceChecked /\ Mounted
                        \/ card' \in {"mounted", "failing"} /\ "umount" \in except_type
                       THEN cards ELSE listed
    BY <1>1 DEF check_record_exception
  <2>2. /\ "umount" \in e <=> "umount" \in except_type
        /\ "removed" \in e <=> "removed" \in except_type
    OBVIOUS
  <2>3. "removed" \in seen' => "umount" \in seen'
    BY <2>1, <2>2 DEF CheckSd
  <2>c. card' \in {"out", "in", "mounted", "failing"}
    BY <1>1 DEF check_record_exception, TypeInv, TypeOK
  <2>4. "umount" \notin seen' => "umount" \notin except_type \/ card' \in {"mounted", "failing"}
    BY <2>1, <2>2, <2>c DEF CheckSd
  <2>5. listed' # cards' => "umount" \in seen'
    BY <2>1, <2>4
  <2> QED BY <2>1, <2>3, <2>5
<1>2. CASE StoreExcept             BY <1>2 DEF StoreExcept
<1>3. CASE Act                     BY <1>3 DEF Act
<1>4. CASE StopOnException         BY <1>4 DEF StopOnException
<1>5. CASE report_exception        BY <1>5 DEF report_exception, Kept
<1>6. CASE BeginFormat             BY <1>6 DEF BeginFormat
<1>7. CASE EndFormat               BY <1>7 DEF EndFormat
<1>8. CASE UpdatePlan              BY <1>8 DEF UpdatePlan
<1>9. CASE PlanUpdated             BY <1>9 DEF PlanUpdated
<1>10. CASE change_mode            BY <1>10 DEF change_mode, NextRound
<1>11. CASE Exception              BY <1>11 DEF Exception, get_video_record_error
<1>12. CASE record_ctrl_exit       BY <1>12 DEF record_ctrl_exit
<1>13. CASE \/ SetConfig \/ record_ctrl_update_dvr_plan_time
            \/ record_ctrl_request_format_card
            \/ \E m \in Kind : record_ctrl_set_mode(m)
            \/ Motion \/ CardChange \/ Tick \/ SpaceTimePasses \/ UNCHANGED vars
  BY <1>13 DEF SetConfig, record_ctrl_update_dvr_plan_time, record_ctrl_request_format_card,
     record_ctrl_set_mode, Motion, CardChange, Tick, SpaceTimePasses, vars
<1> QED
  BY <1>1, <1>2, <1>3, <1>4, <1>5, <1>6, <1>7, <1>8, <1>9, <1>10, <1>11, <1>12, <1>13
  DEF Next, record_ctrl_main

(* For every table, length of time and fault, both hold.                   *)
THEOREM KindInvAlways == Spec => [](KindInv /\ ListInv)
<1>1. Init => KindInv /\ ListInv
  BY DEF Init, KindInv, ListInv, NoPlan
<1> QED BY <1>1, CtrlInvAlways, TypeInvAlways, KindInvKeeps, ListInvKeeps, PTL DEF Spec

(* For every table, length of time and fault: no recording starts on a     *)
(* card whose files ak_dvr_file_create_list has not scanned since it was   *)
(* put in or formatted.                                                    *)
THEOREM StartsOnListedCardAlways == Spec => StartsOnListedCard
<1>1. ListInv /\ [Next]_vars =>
        [\A kind \in Kind : rec = "none" /\ rec' = kind => listed = cards]_vars
  <2> SUFFICES ASSUME ListInv, Next, NEW kind \in Kind, rec = "none", rec' = kind
               PROVE  listed = cards
    OBVIOUS
  <2>1. CASE Act
    BY <2>1 DEF Act, ListInv
  <2>2. CASE ~Act
    BY <2>2 DEF Next, record_ctrl_main, check_record_exception, StoreExcept, StopOnException,
       report_exception, BeginFormat, EndFormat, UpdatePlan, PlanUpdated, change_mode,
       Exception, get_video_record_error, Break, record_ctrl_exit, SetConfig,
       record_ctrl_update_dvr_plan_time, record_ctrl_request_format_card,
       record_ctrl_set_mode, Motion, CardChange, Tick, SpaceTimePasses, CallerVars,
       StopIfStarted, StopRecord, End, Kind
  <2> QED BY <2>1, <2>2
<1> QED BY <1>1, KindInvAlways, PTL DEF Spec, StartsOnListedCard

-----------------------------------------------------------------------------

(* An alarm's recording began, ends after it began and not later than      *)
(* StopTime from now, and is not longer than an alarm's time or the limit. *)
AlarmInv ==
  alarm.status = "start" =>
    /\ alarm.start_time \in Int /\ alarm.end_time \in Int
    /\ alarm.start_time <= now /\ alarm.start_time < alarm.end_time
    /\ alarm.end_time <= now + StopTime
    /\ \/ alarm.end_time <= alarm.start_time + PreTime + StopTime
       \/ alarm.end_time <= alarm.start_time + LimitTime

(* What check_alarm_record_stop makes of the end keeps these bounds, and   *)
(* never takes anything away.                                              *)
LEMMA ExtendedFacts ==
  ASSUME TypeInv, AlarmInv, alarm.status = "start"
  PROVE  /\ Extended \in Int /\ Extended >= alarm.end_time /\ Extended <= now + StopTime
         /\ \/ Extended <= alarm.start_time + PreTime + StopTime
            \/ Extended <= alarm.start_time + LimitTime
         /\ md_trigger_time # 0 => \/ Extended >= now + StopTime
                                   \/ Extended >= alarm.start_time + LimitTime
<1>1. now \in Int /\ PreTime \in Nat /\ StopTime \in Nat /\ LimitTime \in Nat
  BY AlarmTimesAssumption, BoundsAssumption DEF TypeInv, TypeOK
<1> QED BY <1>1 DEF AlarmInv, Extended

(* Every step keeps it.                                                    *)
LEMMA AlarmInvKeeps ==
  ASSUME TypeInv, AlarmInv, [Next]_vars PROVE AlarmInv'
<1> USE DEF flags, modes, times, cardVars, exitVars, counts, app, CallerVars
<1>0. now \in Int /\ PreTime \in Nat \ {0} /\ StopTime \in Nat \ {0} /\ LimitTime \in Nat \ {0}
  BY AlarmTimesAssumption, BoundsAssumption DEF TypeInv, TypeOK
<1>1. CASE alarm'.status # "start"
  BY <1>1 DEF AlarmInv
<1>2. CASE UNCHANGED alarm /\ (UNCHANGED now \/ now' = now + 1)
  BY <1>0, <1>2 DEF AlarmInv
<1>3. StopRecord => alarm'.status # "start"
  BY DEF StopRecord, TypeInv, Shapes
<1>4. StopIfStarted => UNCHANGED alarm \/ alarm'.status # "start"
  BY <1>3 DEF StopIfStarted
<1>5. CASE Act
  <2>1. UNCHANGED now /\ (check_record_plan \/ check_record_alarm)
    BY <1>5 DEF Act
  <2>2. CASE check_record_plan
    <3>1. UNCHANGED alarm \/ StopRecord
      BY <2>2 DEF check_record_plan, check_plan_record_stop
    <3> QED BY <2>1, <3>1, <1>1, <1>2, <1>3
  <2>3. CASE check_record_alarm /\ alarm.status = "start"
    <3>1. check_alarm_record_stop
      BY <2>3 DEF check_record_alarm
    <3>2. CASE now >= Extended
      BY <3>1, <3>2, <1>1 DEF check_alarm_record_stop
    <3>3. CASE ~(now >= Extended)
      <4>1. /\ alarm'.start_time = alarm.start_time /\ alarm'.end_time = Extended
        BY <3>1, <3>3 DEF check_alarm_record_stop, TypeInv, Shapes
      <4> QED BY <1>0, <2>1, <2>3, <4>1, ExtendedFacts DEF AlarmInv
    <3> QED BY <3>2, <3>3
  <2>4. CASE check_record_alarm /\ alarm.status # "start"
    <3>1. \/ UNCHANGED alarm
          \/ alarm' = [status |-> "start", start_time |-> now - PreTime,
                       end_time |-> now + StopTime]
      BY <2>4 DEF check_record_alarm, check_alarm_record_start
    <3> QED BY <1>0, <1>2, <2>1, <3>1 DEF AlarmInv
  <2> QED BY <2>1, <2>2, <2>3, <2>4
<1>6. CASE StopOnException \/ BeginFormat \/ UpdatePlan \/ change_mode
  BY <1>1, <1>2, <1>3, <1>4, <1>6 DEF StopOnException, BeginFormat, UpdatePlan, change_mode
<1>7. CASE ~(Act \/ StopOnException \/ BeginFormat \/ UpdatePlan \/ change_mode)
  BY <1>2, <1>7 DEF Next, record_ctrl_main, check_record_exception, StoreExcept,
       report_exception, EndFormat, PlanUpdated,
       Exception, get_video_record_error, record_ctrl_exit, SetConfig,
       record_ctrl_update_dvr_plan_time, record_ctrl_request_format_card,
       record_ctrl_set_mode, Motion, CardChange, Tick, SpaceTimePasses, vars
<1> QED BY <1>5, <1>6, <1>7

(* For every table, length of time and fault: the types, a recording known *)
(* to record control and of the mode that is on, an alarm's recording with *)
(* an end, and none after record_ctrl_exit.                                *)
THEOREM RecordingIsRightAlways == Spec => []RecordingIsRight
<1>1. Init => AlarmInv
  BY DEF Init, AlarmInv
<1>2. TypeInv /\ CtrlInv /\ KindInv /\ AlarmInv => RecordingIsRight
  BY DEF TypeInv, CtrlInv, KnownAtAll, KindInv, AlarmInv, RecordingIsRight, RecordingIsKnown,
         AlarmIsLimited, NothingAfterExit
<1> QED
  BY <1>1, <1>2, AlarmInvKeeps, TypeInvAlways, CtrlInvAlways, KindInvAlways, PTL DEF Spec

(* For every length of an alarm's times: a look at the alarms never brings *)
(* the end of a recording nearer, a new alarm moves it StopTime on or to   *)
(* the limit, and it ends no earlier.                                      *)
THEOREM AlarmNotCutShortAlways == Spec => AlarmNotCutShort
<1>1. Init => AlarmInv
  BY DEF Init, AlarmInv
<1>2. TypeInv /\ KindInv /\ AlarmInv /\ [Next]_vars =>
       [pc = "act" /\ pc' = "slept" /\ alarm.status = "start" =>
         /\ alarm'.end_time >= alarm.end_time
         /\ md_trigger_time # 0 => \/ alarm'.end_time >= now + StopTime
                                   \/ alarm'.end_time >= alarm.start_time + LimitTime
         /\ alarm'.status = "end" => now >= alarm'.end_time]_vars
  <2> SUFFICES ASSUME TypeInv, KindInv, AlarmInv, Next,
                      pc = "act", pc' = "slept", alarm.status = "start"
               PROVE  /\ alarm'.end_time >= alarm.end_time
                      /\ md_trigger_time # 0 => \/ alarm'.end_time >= now + StopTime
                                                \/ alarm'.end_time >= alarm.start_time + LimitTime
                      /\ alarm'.status = "end" => now >= alarm'.end_time
    OBVIOUS
  <2>1. Act
    BY DEF Next, record_ctrl_main, check_record_exception, StoreExcept, StopOnException,
       report_exception, BeginFormat, EndFormat, UpdatePlan, PlanUpdated, change_mode,
       Exception, get_video_record_error, record_ctrl_exit, SetConfig,
       record_ctrl_update_dvr_plan_time, record_ctrl_request_format_card,
       record_ctrl_set_mode, Motion, CardChange, Tick, SpaceTimePasses, CallerVars, counts
  <2>2. check_alarm_record_stop
    BY <2>1 DEF Act, check_record_plan, check_record_alarm, KindInv
  <2>3. alarm'.end_time = Extended /\ (alarm'.status = "end" => now >= Extended)
    BY <2>2 DEF check_alarm_record_stop, TypeInv, Shapes
  <2> QED BY <2>3, ExtendedFacts
<1>3. Spec => []AlarmInv
  BY <1>1, AlarmInvKeeps, TypeInvAlways, PTL DEF Spec
<1> QED BY <1>2, <1>3, TypeInvAlways, KindInvAlways, PTL DEF Spec, AlarmNotCutShort

-----------------------------------------------------------------------------

(* Facts about products, which the solver does not find by itself.         *)
LEMMA Product ==
  ASSUME NEW n \in Nat, NEW l \in Nat
  PROVE  n * l \in Nat /\ (n >= 1 => n * l >= l)
<1>1. n * l \in Nat
  OBVIOUS
<1>2. ASSUME n >= 1 PROVE n * l >= l
  <2> DEFINE m == n - 1
  <2>1. m \in Nat /\ n = m + 1
    BY <1>2
  <2> HIDE DEF m
  <2>2. n * l = m * l + l /\ m * l \in Nat
    BY <2>1
  <2> QED BY <2>2
<1> QED BY <1>1, <1>2

(* The arithmetic of check_plan_continuity, in days of l seconds: a plan   *)
(* of day k that ends with second e, looked at in time t of day q, goes on *)
(* d days later only if the plan is of the whole day, t is the last second *)
(* of its day, and d is 1.                                                 *)
LEMMA OneDayOn ==
  ASSUME NEW l \in Nat \ {0, 1}, NEW k \in Nat, NEW q \in Nat, NEW d \in Nat, d >= 1,
         NEW s \in Nat, NEW e \in Nat, NEW t \in Nat, s < e, e <= l,
         q * l <= t, t < q * l + l, t >= k * l + e,
         k * l + e + 1 >= l * d + q * l + s
  PROVE  q = k /\ d = 1 /\ s = 0 /\ e = l - 1 /\ t = k * l + e
<1>1. q >= k
  <2> SUFFICES ASSUME q < k PROVE FALSE
    OBVIOUS
  <2> DEFINE m == k - q
  <2>1. m \in Nat /\ m >= 1 /\ k = q + m
    OBVIOUS
  <2> HIDE DEF m
  <2>2. k * l = q * l + m * l
    BY <2>1
  <2>3. m * l >= l /\ m * l \in Nat /\ q * l \in Nat
    BY <2>1, Product
  <2> QED BY <2>2, <2>3
<1> DEFINE m == q - k
           n == d - 1
<1>2. m \in Nat /\ q = k + m /\ n \in Nat /\ d = n + 1
  BY <1>1
<1> HIDE DEF m, n
<1>3. q * l = k * l + m * l /\ l * d = n * l + l
  BY <1>2
<1>4. /\ m * l \in Nat /\ n * l \in Nat /\ k * l \in Nat /\ q * l \in Nat
      /\ (m >= 1 => m * l >= l) /\ (n >= 1 => n * l >= l)
  BY <1>2, Product
<1>5. n * l + m * l + s <= 1
  BY <1>3, <1>4
<1>6. n = 0 /\ m = 0
  BY <1>2, <1>4, <1>5
<1>7. q = k /\ d = 1
  BY <1>2, <1>6
<1>8. t < k * l + l
  BY <1>7
<1>9. e < l
  BY <1>4, <1>8
<1>10. e + 1 >= l + s
  BY <1>3, <1>4, <1>6
<1> QED BY <1>4, <1>7, <1>8, <1>9, <1>10

-----------------------------------------------------------------------------
(* The table in force is the one the plan was started from.                *)
Current == told /\ ~update_plan_time

(* A planned recording is of some day k: its weekday is that of k, its end *)
(* is that of the plan on k, and it has begun or begins in a second.       *)
PlanDay(p, wday, end, k, t) ==
  /\ wday = k % DayPerWeek
  /\ end = k * DayLen + p.end_time
  /\ p.start_time < p.end_time
  /\ k * DayLen + p.start_time <= t + 1

(* It is of a plan of the table that names the day's weekday.              *)
PlanOf(pl, i, t) ==
  /\ i \in DOMAIN config
  /\ config[i].active
  /\ pl.start_wday \in config[i].week
  /\ \E k \in Nat : PlanDay(config[i], pl.start_wday, pl.end_time, k, t)

(* What a started plan promises, while the table is the one it was started *)
(* from.                                                                   *)
PlanInv == plan.status = "start" /\ Current => PlanOf(plan, plan.index, now)

(* The types of a plan of the table.                                       *)
LEMMA PlanFacts ==
  ASSUME TypeInv, NEW i \in DOMAIN config
  PROVE  /\ config[i].active \in BOOLEAN
         /\ config[i].start_time \in Nat /\ config[i].end_time \in Nat
         /\ config[i].end_time <= DayLen
BY TablesAssumption, DaysAssumption DEF TypeInv, Shapes, PlanEntry

(* A time within the hours of a plan on a day it names is planned.         *)
LEMMA OfTheDay ==
  ASSUME TypeInv, NEW i \in DOMAIN config, NEW k \in Nat, NEW t \in Nat,
         config[i].active, k % DayPerWeek \in config[i].week,
         k * DayLen + config[i].start_time <= t, t < k * DayLen + config[i].end_time
  PROVE  Planned(t)
<1>1. k * DayLen \in Nat
  BY DaysAssumption
<1>2. k * DayLen <= t /\ t < k * DayLen + DayLen
  BY <1>1, PlanFacts, DaysAssumption
<1>3. DayStart(t) = k * DayLen /\ Wday(t) = k % DayPerWeek
  BY <1>2, DayIs
<1> QED BY <1>3 DEF Planned, Covers

(* Before the end of a started plan a recording is planned, now or in a    *)
(* second.                                                                 *)
LEMMA PlanOfIsPlanned ==
  ASSUME TypeInv, PlanOf(plan, plan.index, now), now < plan.end_time
  PROVE  Planned(now) \/ Planned(now + 1)
<1> DEFINE i == plan.index
<1>1. PICK k \in Nat : PlanDay(config[i], plan.start_wday, plan.end_time, k, now)
  BY DEF PlanOf
<1>2. now \in Nat /\ now + 1 \in Nat
  BY BoundsAssumption DEF TypeInv, TypeOK
<1>3. i \in DOMAIN config /\ config[i].active /\ k % DayPerWeek \in config[i].week
  BY <1>1 DEF PlanOf, PlanDay
<1>4. k * DayLen \in Nat /\ config[i].start_time \in Nat /\ config[i].end_time \in Nat
  BY <1>3, PlanFacts, DaysAssumption
<1>5. CASE k * DayLen + config[i].start_time <= now
  BY <1>1, <1>2, <1>3, <1>5, OfTheDay DEF PlanDay
<1>6. CASE ~(k * DayLen + config[i].start_time <= now)
  <2>1. /\ k * DayLen + config[i].start_time <= now + 1
        /\ now + 1 < k * DayLen + config[i].end_time
    BY <1>1, <1>2, <1>4, <1>6 DEF PlanDay
  <2> QED BY <1>2, <1>3, <2>1, OfTheDay
<1> QED BY <1>5, <1>6

(* A plan just started keeps its promise,                                  *)
LEMMA StartedIsPlanned ==
  ASSUME TypeInv, Planned(now),
         NEW i, i = FirstPlan(now),
         NEW pl, pl.start_wday = Wday(now), pl.end_time = SecsToTotal(config[i].end_time)
  PROVE  PlanOf(pl, i, now)
<1> DEFINE k == now \div DayLen
<1>1. i \in DOMAIN config /\ Covers(config[i], now)
  BY FirstPlanCovers DEF TypeInv, Shapes
<1>2. now \in Nat
  BY BoundsAssumption DEF TypeInv, TypeOK
<1>3. /\ k \in Nat /\ DayStart(now) = k * DayLen
      /\ Wday(now) = k % DayPerWeek /\ k * DayLen \in Nat
  BY <1>2, DaysAssumption DEF DayStart, Wday
<1> HIDE DEF k
<1>4. config[i].start_time \in Nat /\ config[i].end_time \in Nat
  BY <1>1, PlanFacts
<1>5. PlanDay(config[i], pl.start_wday, pl.end_time, k, now)
  BY <1>1, <1>2, <1>3, <1>4 DEF PlanDay, Covers, SecsToTotal
<1> QED BY <1>1, <1>3, <1>5 DEF PlanOf, Covers

(* ... and so does one that goes on, on the next day.                      *)
LEMMA ContinuedIsPlanned ==
  ASSUME TypeInv, PlanOf(plan, plan.index, now), now >= plan.end_time,
         NEW d \in NextDays, Continues(d),
         NEW pl, pl.start_wday = (plan.start_wday + d) % DayPerWeek,
         pl.end_time = DayLen * d + SecsToTotal(config[plan.index].end_time)
  PROVE  PlanOf(pl, plan.index, now) /\ Planned(now + 1)
<1> DEFINE i == plan.index
           p == config[i]
<1>1. PICK k \in Nat : PlanDay(p, plan.start_wday, plan.end_time, k, now)
  BY DEF PlanOf
<1>2. now \in Nat /\ now + 1 \in Nat
  BY BoundsAssumption DEF TypeInv, TypeOK
<1>3. i \in DOMAIN config /\ p.active
  BY DEF PlanOf
<1>4. p.start_time \in Nat /\ p.end_time \in Nat /\ p.end_time <= DayLen
  BY <1>3, PlanFacts
<1> DEFINE q == now \div DayLen
           s == p.start_time
           e == p.end_time
<1>5. /\ q \in Nat /\ DayStart(now) = q * DayLen
      /\ q * DayLen <= now /\ now < q * DayLen + DayLen
  BY <1>2, DayFacts, DaysAssumption DEF DayStart
<1>6. d \in Nat /\ d >= 1 /\ (plan.start_wday + d) % DayPerWeek \in p.week
  BY DaysAssumption DEF NextDays, TypeInv, TypeOK
<1>7. /\ plan.start_wday = k % DayPerWeek /\ plan.end_time = k * DayLen + e /\ s < e
  BY <1>1 DEF PlanDay
<1>8. k * DayLen + e + 1 >= DayLen * d + (q * DayLen + s)
  BY <1>5, <1>7 DEF Continues, SecsToTotal
<1>9. pl.end_time = DayLen * d + (q * DayLen + e)
  BY <1>5 DEF SecsToTotal
<1> HIDE DEF q, s, e, p
<1>10. q = k /\ d = 1 /\ s = 0 /\ e = DayLen - 1 /\ now = k * DayLen + e
  <2>1. /\ s \in Nat /\ e \in Nat /\ e <= DayLen /\ DayLen \in Nat \ {0, 1}
        /\ now >= k * DayLen + e
    BY <1>4, <1>7, DaysAssumption DEF s, e
  <2>2. k * DayLen + e + 1 >= DayLen * d + q * DayLen + s
    BY <1>5, <1>6, <1>8, <2>1
  <2> QED BY <1>2, <1>5, <1>6, <1>7, <2>1, <2>2, OneDayOn
<1> DEFINE j == k + 1
<1>11. j \in Nat /\ j * DayLen = k * DayLen + DayLen /\ k * DayLen \in Nat
  BY DaysAssumption
<1>12. j % DayPerWeek = (plan.start_wday + 1) % DayPerWeek
  BY <1>7, NextWday
<1> HIDE DEF j
<1>13. pl.start_wday = j % DayPerWeek /\ j % DayPerWeek \in p.week
  BY <1>6, <1>10, <1>12
<1>14. now + 1 = j * DayLen
  BY <1>2, <1>10, <1>11, DaysAssumption
<1>15. pl.end_time = j * DayLen + e
  BY <1>9, <1>10, <1>11, DaysAssumption
<1>16. PlanDay(p, pl.start_wday, pl.end_time, j, now)
  BY <1>2, <1>7, <1>10, <1>11, <1>13, <1>14, <1>15, DaysAssumption DEF PlanDay, s, e
<1>17. PlanOf(pl, i, now)
  BY <1>3, <1>11, <1>13, <1>16 DEF PlanOf, p
<1>18. j * DayLen + s <= now + 1 /\ now + 1 < j * DayLen + e
  BY <1>2, <1>10, <1>11, <1>14, DaysAssumption
<1>19. Planned(now + 1)
  BY <1>2, <1>3, <1>11, <1>13, <1>18, OfTheDay DEF p, s, e
<1> QED BY <1>17, <1>19

-----------------------------------------------------------------------------
(* A look at the plan keeps PlanInv, and decides as the table says.        *)
LEMMA ActKeepsPlan ==
  ASSUME TypeInv, PlanInv, Current, Act, UNCHANGED config
  PROVE  /\ plan'.status = "start" => PlanOf(plan', plan'.index, now)
         /\ record_mode = "plan" =>
              IF plan'.status = "start" THEN Planned(now) \/ Planned(now + 1)
                                        ELSE ~Planned(now) \/ plan.status = "start"
<1>1. CASE check_record_plan /\ plan.status = "start"
  <2>1. check_plan_record_stop /\ PlanOf(plan, plan.index, now)
    BY <1>1 DEF check_record_plan, PlanInv
  <2>2. CASE StopRecord
    BY <1>1, <2>2 DEF StopRecord, NoPlan
  <2>3. ASSUME now < plan.end_time, UNCHANGED plan
        PROVE  PlanOf(plan', plan'.index, now) /\ (Planned(now) \/ Planned(now + 1))
    <3>1. PlanOf(plan, plan.index, now) /\ (Planned(now) \/ Planned(now + 1))
      BY <2>1, <2>3, PlanOfIsPlanned
    <3> QED BY <2>3, <3>1, Zenon
  <2>4. ASSUME now >= plan.end_time, NEW d \in NextDays, Continues(d),
               plan' = [plan EXCEPT
               !.end_time = DayLen * d + SecsToTotal(config[plan.index].end_time),
               !.start_wday = (plan.start_wday + d) % DayPerWeek]
        PROVE  PlanOf(plan', plan'.index, now) /\ Planned(now + 1)
    <3>1. /\ plan'.start_wday = (plan.start_wday + d) % DayPerWeek
          /\ plan'.end_time = DayLen * d + SecsToTotal(config[plan.index].end_time)
          /\ plan'.index = plan.index
      BY <2>4 DEF TypeInv, Shapes
    <3> DEFINE pl == plan'
    <3>2. /\ pl.start_wday = (plan.start_wday + d) % DayPerWeek
          /\ pl.end_time = DayLen * d + SecsToTotal(config[plan.index].end_time)
      BY <3>1
    <3> HIDE DEF pl
    <3>3. PlanOf(pl, plan.index, now) /\ Planned(now + 1)
      BY <2>1, <2>4, <3>2, ContinuedIsPlanned
    <3> QED BY <3>1, <3>3 DEF pl
  <2> QED BY <1>1, <2>1, <2>2, <2>3, <2>4 DEF check_plan_record_stop
<1>2. CASE check_record_plan /\ plan.status # "start"
  <2>1. CASE ~Planned(now)
    BY <1>2, <2>1 DEF check_record_plan, check_plan_record_start
  <2>2. CASE Planned(now)
    <3> DEFINE i == FirstPlan(now)
               pl == [status |-> "start", index |-> i, start_wday |-> Wday(now),
                      end_time |-> SecsToTotal(config[i].end_time)]
    <3>1. plan' = pl
      BY <1>2, <2>2 DEF check_record_plan, check_plan_record_start
    <3>2. /\ pl.start_wday = Wday(now)
          /\ pl.end_time = SecsToTotal(config[i].end_time) /\ pl.index = i
          /\ pl.status = "start"
      OBVIOUS
    <3> HIDE DEF pl, i
    <3>3. PlanOf(pl, i, now)
      BY <2>2, <3>2, StartedIsPlanned DEF i
    <3>4. PlanOf(plan', plan'.index, now) /\ plan'.status = "start"
      BY <3>1, <3>2, <3>3, Zenon
    <3> QED BY <2>2, <3>4
  <2> QED BY <2>1, <2>2
<1>3. CASE check_record_alarm
  <2>1. plan' = plan \/ plan'.status # "start"
    BY <1>3 DEF check_record_alarm, check_alarm_record_stop, NoPlan
  <2>2. record_mode = "alarm"
    BY <1>3 DEF check_record_alarm
  <2> QED BY <2>1, <2>2 DEF PlanInv
<1> QED BY <1>1, <1>2, <1>3 DEF Act

(* Every step keeps PlanInv: the table changes only when told is reset,    *)
(* and is taken over only with no plan started.                            *)
LEMMA PlanInvKeeps ==
  ASSUME TypeInv, KindInv, PlanInv, [Next]_vars PROVE PlanInv'
<1> USE DEF flags, modes, times, cardVars, exitVars, counts, app, CallerVars
<1>0. now \in Int
  BY BoundsAssumption DEF TypeInv, TypeOK
<1> SUFFICES ASSUME plan'.status = "start", Current' PROVE PlanOf(plan, plan.index, now)'
  BY DEF PlanInv
<1>1. StopRecord => FALSE
  BY DEF StopRecord, NoPlan
<1>2. ASSUME UNCHANGED <<plan, config>>, Current, now' = now \/ now' = now + 1
      PROVE  PlanOf(plan, plan.index, now)'
  <2>1. PlanOf(plan, plan.index, now)
    BY <1>2 DEF PlanInv
  <2>2. PICK k \in Nat : PlanDay(config[plan.index], plan.start_wday, plan.end_time, k, now)
    BY <2>1 DEF PlanOf
  <2> DEFINE i == plan.index
             end == k * DayLen + config[i].start_time
  <2>3. end \in Nat
    BY <2>1, PlanFacts, DaysAssumption DEF PlanOf
  <2>4. end <= now + 1
    BY <2>2 DEF PlanDay
  <2>5. end <= now' + 1
    BY <1>0, <1>2, <2>3, <2>4
  <2>6. PlanDay(config[i], plan.start_wday, plan.end_time, k, now')
    BY <2>2, <2>5 DEF PlanDay
  <2> QED BY <1>2, <2>1, <2>6 DEF PlanOf, PlanDay
<1>3. CASE Act
  <2>1. UNCHANGED <<config, now>> /\ Current
    BY <1>3 DEF Act, Current
  <2>2. PlanOf(plan', plan'.index, now)
    BY <1>3, <2>1, ActKeepsPlan
  <2> QED BY <2>1, <2>2 DEF PlanOf, PlanDay
<1>4. CASE StopOnException \/ BeginFormat \/ UpdatePlan \/ change_mode
  <2>1. UNCHANGED plan
    BY <1>1, <1>4 DEF StopOnException, BeginFormat, UpdatePlan, change_mode, StopIfStarted
  <2>2. UNCHANGED <<config, now, told, update_plan_time>>
    BY <1>4 DEF StopOnException, BeginFormat, UpdatePlan, change_mode
  <2>3. Current
    BY <2>2 DEF Current
  <2> QED BY <1>2, <2>1, <2>2, <2>3
<1>5. CASE PlanUpdated
  BY <1>5 DEF PlanUpdated, KindInv
<1>6. CASE SetConfig
  BY <1>6 DEF SetConfig, Current
<1>7. CASE record_ctrl_update_dvr_plan_time
  BY <1>7 DEF record_ctrl_update_dvr_plan_time, Current
<1>8. CASE ~(Act \/ StopOnException \/ BeginFormat \/ UpdatePlan \/ change_mode
             \/ PlanUpdated \/ SetConfig \/ record_ctrl_update_dvr_plan_time)
  <2>1. /\ UNCHANGED <<plan, config>> /\ (now' = now \/ now' = now + 1)
        /\ UNCHANGED <<told, update_plan_time>>
    BY <1>8 DEF Next, record_ctrl_main, check_record_exception, StoreExcept,
       report_exception, EndFormat,
       Exception, get_video_record_error, record_ctrl_exit,
       record_ctrl_request_format_card,
       record_ctrl_set_mode, Motion, CardChange, Tick, SpaceTimePasses, vars
  <2>2. Current
    BY <2>1 DEF Current
  <2> QED BY <1>2, <2>1, <2>2
<1> QED BY <1>3, <1>4, <1>5, <1>6, <1>7, <1>8

(* For every table and length of a day and week: a look at the plan starts *)
(* or keeps a recording only where one is planned, now or in a second, and *)
(* leaves none only where none is planned or one has just ended.           *)
THEOREM PlanIsFollowedAlways == Spec => PlanIsFollowed
<1>1. Init => PlanInv
  BY DEF Init, PlanInv, NoPlan
<1>2. Spec => []PlanInv
  BY <1>1, PlanInvKeeps, TypeInvAlways, KindInvAlways, PTL DEF Spec
<1>3. TypeInv /\ PlanInv /\ [Next]_vars =>
       [pc = "act" /\ pc' = "slept" /\ record_mode = "plan" /\ told /\ ~update_plan_time =>
         IF plan'.status = "start" THEN Planned(now) \/ Planned(now + 1)
                                   ELSE ~Planned(now) \/ plan.status = "start"]_vars
  <2> SUFFICES ASSUME TypeInv, PlanInv, Next, pc = "act", pc' = "slept",
                      record_mode = "plan", told /\ ~update_plan_time
               PROVE  IF plan'.status = "start" THEN Planned(now) \/ Planned(now + 1)
                                                ELSE ~Planned(now) \/ plan.status = "start"
    OBVIOUS
  <2>1. Act
    BY DEF Next, record_ctrl_main, check_record_exception, StoreExcept, StopOnException,
       report_exception, BeginFormat, EndFormat, UpdatePlan, PlanUpdated, change_mode,
       Exception, get_video_record_error, record_ctrl_exit, SetConfig,
       record_ctrl_update_dvr_plan_time, record_ctrl_request_format_card,
       record_ctrl_set_mode, Motion, CardChange, Tick, SpaceTimePasses, CallerVars, counts
  <2>2. UNCHANGED config /\ Current
    BY <2>1 DEF Act, Current, app
  <2> QED BY <2>1, <2>2, ActKeepsPlan
<1> QED BY <1>2, <1>3, TypeInvAlways, PTL DEF Spec, PlanIsFollowed
=============================================================================
