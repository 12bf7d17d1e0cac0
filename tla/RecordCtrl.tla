----------------------------- MODULE RecordCtrl -----------------------------
(***************************************************************************)
(* Record control, apps/akipc/record/record_ctrl.c: the thread that looks  *)
(* at the card, at the plan or the alarms and at what was asked of it, and *)
(* starts and stops the recorder.  Around it: the recorder's callbacks,    *)
(* the commands of the application, the motion detection that leaves the   *)
(* time of an alarm, and the user's hands on the card.                     *)
(*                                                                         *)
(* pc is where record_ctrl_main is in its round:                           *)
(*   check -> store -> act -> (report -> store ->) slept -> format ->      *)
(*   (formatting ->) update -> (updating ->) mode -> check                 *)
(* In "store" a new value of except_type is computed and not yet written.  *)
(***************************************************************************)
EXTENDS Integers

CONSTANTS Tables,        \* the plan tables: sequences of plans
          DayLen,        \* seconds of a day
          DayPerWeek,
          PreTime, StopTime, LimitTime,   \* of an alarm's recording
          Faults,        \* what may go wrong: see below
          MaxTime,       \* bound: the clock
          MaxCard,       \* bound: times the card is put in or formatted
          MaxReport,     \* bound: exceptions the recorder reports
          MaxRequest     \* bound: commands

(* "torn":      an exception is reported while a new value of except_type  *)
(*              is being written                                           *)
(* "norequest": the encoder refuses the recorder its stream                *)
CtrlFault == {"torn", "norequest"}

(* A plan of a table: its hours are two times of a day.                    *)
PlanEntry == [active : BOOLEAN, week : SUBSET (0..DayPerWeek - 1),
              start_time : 0..DayLen, end_time : 0..DayLen]

ASSUME DaysAssumption == DayLen \in Nat \ {0, 1} /\ DayPerWeek \in Nat \ {0}
ASSUME AlarmTimesAssumption ==     \* ak_config.c puts a default for a 0
  PreTime \in Nat \ {0} /\ StopTime \in Nat \ {0} /\ LimitTime \in Nat \ {0}
ASSUME TablesAssumption ==
  \A table \in Tables : /\ DOMAIN table \subseteq Nat
                        /\ \A i \in DOMAIN table : table[i] \in PlanEntry
ASSUME BoundsAssumption == MaxTime \in Nat \ {0} /\ MaxCard \in Nat

VARIABLES
  rec,             \* what the recorder, ak_dvr_record.c, is at
  run_flag, except_type, seen, update_plan_time, format_card,
  record_mode, switch_mode,
  plan,            \* status, index, start_wday, end_time
  alarm,           \* status, start_time, end_time
  alarm_time_bak,  \* the static of check_alarm_record_start
  md_trigger_time, \* the last motion's time, or 0: kept by ak_alarm.c
  config,          \* the plan table in force
  told,            \* the table's change has been told to record control
  card,            \* "out", "in" (not mounted), "mounted", "failing"
  cards,           \* cards put in or formatted so far: names the card
  listed,          \* the card ak_dvr_file_create_list last scanned
  space_due,       \* CHECK_SD_SPACE_TIME has passed since space_time
  opened,          \* ak_dvr_record_init done, ak_dvr_record_exit not yet
  exit_pc,         \* where record_ctrl_exit is
  now, reports, requests,
  pc

flags == <<update_plan_time, format_card>>
modes == <<record_mode, switch_mode>>
times == <<plan, alarm, alarm_time_bak>>
cardVars == <<card, cards>>
exitVars == <<run_flag, opened, exit_pc>>
counts == <<now, reports, requests>>
app == <<config, told>>
vars == <<flags, modes, times, cardVars, exitVars, counts, app, rec, listed,
          except_type, seen, space_due, md_trigger_time, pc>>

(* The recorder, as far as its caller knows it: DvrRecord has the detail.  *)
Kind == {"plan", "alarm"}
Begin(kind) == rec = "none" /\ rec' = kind       \* ak_dvr_record_start
Break == rec \in Kind /\ rec' = "broken"        \* the muxer or the card fails
End == rec' = "none"                             \* ak_dvr_record_stop

Except == {"removed", "umount", "nospace", "write_error", "syserr", "stopped"}
MutForgetsUmount == {"removed", "nospace", "write_error"}
MutKeepsAll == Except
Kept == {"removed", "umount", "nospace", "write_error"}  \* by report_exception

-----------------------------------------------------------------------------
(* internal_time.c.  The clock starts on a day 0 at 00:00.                 *)

DayStart(t) == (t \div DayLen) * DayLen       \* day_start_seconds
Wday(t) == (t \div DayLen) % DayPerWeek
SecsToTotal(s) == DayStart(now) + s           \* day_secs_to_total

(* The plan's day and hours, as check_plan_record_start compares them.     *)
Covers(p, t) == /\ p.active
                /\ Wday(t) \in p.week
                /\ t >= DayStart(t) + p.start_time
                /\ t < DayStart(t) + p.end_time
Planned(t) == \E i \in DOMAIN config : Covers(config[i], t)
FirstPlan(t) == CHOOSE i \in DOMAIN config :
                  /\ Covers(config[i], t)
                  /\ \A j \in DOMAIN config : Covers(config[j], t) => i <= j

-----------------------------------------------------------------------------
NoPlan == [status |-> "none", index |-> 0, start_wday |-> 0, end_time |-> 0]

Init == /\ rec = "none"
        /\ run_flag = TRUE
        /\ opened = TRUE
        /\ exit_pc = "out"
        /\ except_type = {"removed", "umount"}
        /\ seen = {}
        /\ update_plan_time = FALSE
        /\ format_card = FALSE
        /\ record_mode \in Kind
        /\ switch_mode = record_mode
        /\ plan = NoPlan
        /\ alarm = [status |-> "none", start_time |-> 0, end_time |-> 0]
        /\ alarm_time_bak = 0
        /\ md_trigger_time = 0
        /\ config \in Tables
        /\ told = TRUE
        /\ card = "out"
        /\ cards = 0
        /\ listed = 0
        /\ space_due = FALSE
        /\ now = 1
        /\ reports = 0
        /\ requests = 0
        /\ pc = "check"

(* The other fields are read only while the status is "start", which sets  *)
(* them; so they are forgotten at the end.                                 *)
Started == plan.status = "start" \/ alarm.status = "start"
Inserted == card # "out"
Mounted == card \in {"mounted", "failing"}

(* ak_dvr_record_start, whose result nobody looks at.                      *)
StartRecorder(kind) == \/ opened /\ Begin(kind)
                       \/ /\ rec # "none" \/ ~opened \/ "norequest" \in Faults
                          /\ UNCHANGED rec

(* stop_record, for a plan that ends with status s.                        *)
StopRecord == /\ IF "stopped" \in except_type THEN UNCHANGED rec ELSE End
              /\ plan' = NoPlan
              /\ alarm' = [alarm EXCEPT !.status = "end", !.start_time = 0]
StopIfStarted == IF Started THEN StopRecord ELSE UNCHANGED <<rec, plan, alarm>>

-----------------------------------------------------------------------------
(* check_record_exception.                                                 *)

SpaceChecked == "nospace" \in except_type /\ space_due
Reinserted == Inserted /\ "removed" \in except_type     \* fuser_remount
CheckSd(e, c) ==
  IF c = "out" THEN e \union {"removed", "umount"}
  ELSE IF c = "in" THEN (e \ {"removed"}) \union {"umount"}
  ELSE IF c = "failing" THEN (e \ {"removed", "umount"}) \union {"write_error"}
  ELSE e \ {"removed", "umount", "write_error"}

check_record_exception ==
  /\ pc = "check"
  /\ card' \in IF Reinserted /\ card = "in" THEN {"in", "mounted"} ELSE {card}
  /\ seen' = CheckSd(IF SpaceChecked THEN except_type \ {"nospace"}
                                     ELSE except_type, card')
  /\ listed' = IF \/ SpaceChecked /\ Mounted
                  \/ card' \in {"mounted", "failing"} /\ "umount" \in except_type
                 THEN cards ELSE listed
  /\ space_due' = (space_due /\ ~SpaceChecked)
  /\ pc' = "store"
  /\ UNCHANGED <<flags, modes, times, exitVars, counts, app, rec, cards,
                 except_type, md_trigger_time>>

(* The end of an assignment to except_type.                                *)
StoreExcept ==
  /\ pc \in {"store", "stored"}
  /\ except_type' = seen
  /\ seen' = {}
  /\ pc' = IF pc = "store" THEN "act" ELSE "slept"
  /\ UNCHANGED <<flags, modes, times, cardVars, exitVars, counts, app, rec,
                 listed, space_due, md_trigger_time>>

-----------------------------------------------------------------------------
(* Plans.                                                                  *)

check_plan_record_start ==
  IF ~Planned(now) THEN UNCHANGED <<rec, plan>>
  ELSE LET i == FirstPlan(now)
       IN /\ plan' = [status |-> "start", index |-> i, start_wday |-> Wday(now),
                      end_time |-> SecsToTotal(config[i].end_time)]
          /\ StartRecorder("plan")

(* check_plan_continuity looks for the plan's next day, up to the first    *)
(* day of the next week.                                                   *)
NextDays == {d \in 1..(DayPerWeek - plan.start_wday) :
               (plan.start_wday + d) % DayPerWeek \in config[plan.index].week}
Continues(d) == /\ \A e \in NextDays : d <= e
                /\ plan.end_time + 1 >=
                     DayLen * d + SecsToTotal(config[plan.index].start_time)

MutEndsLate ==
  IF now > plan.end_time THEN StopRecord ELSE UNCHANGED <<rec, plan, alarm>>
check_plan_record_stop ==
  \/ /\ now < plan.end_time
     /\ UNCHANGED <<rec, plan, alarm>>
  \/ /\ now >= plan.end_time
     /\ config[plan.index].active
     /\ \E d \in NextDays :
          /\ Continues(d)
          /\ plan' = [plan EXCEPT
               !.end_time = DayLen * d + SecsToTotal(config[plan.index].end_time),
               !.start_wday = (plan.start_wday + d) % DayPerWeek]
     /\ UNCHANGED <<rec, alarm>>
  \/ /\ now >= plan.end_time
     /\ ~(config[plan.index].active /\ \E d \in NextDays : Continues(d))
     /\ StopRecord

check_record_plan ==
  /\ record_mode = "plan"
  /\ IF plan.status = "start"
       THEN check_plan_record_stop
       ELSE check_plan_record_start /\ UNCHANGED alarm
  /\ UNCHANGED <<alarm_time_bak, md_trigger_time>>

-----------------------------------------------------------------------------
(* Alarms.                                                                 *)

(* An alarm before the end of the last recording has been recorded.        *)
AlreadyRecorded(t) == t < alarm_time_bak
                      \/ (t < alarm.end_time /\ alarm_time_bak # t)

check_alarm_record_start ==
  LET t == md_trigger_time
  IN IF t = 0 \/ t = alarm_time_bak \/ AlreadyRecorded(t)
     THEN /\ alarm_time_bak' = IF t = 0 THEN alarm_time_bak ELSE t
          /\ UNCHANGED <<rec, alarm>>
     ELSE /\ alarm_time_bak' = t
          /\ alarm' = [status |-> "start", start_time |-> now - PreTime,
                       end_time |-> now + StopTime]
          /\ StartRecorder("alarm")

MutNeverExtends ==
  IF md_trigger_time # 0 /\ alarm.end_time - alarm.start_time > LimitTime
    THEN now + StopTime ELSE alarm.end_time
(* The end of the recording after an alarm that comes during it.           *)
Extended ==
  IF md_trigger_time # 0 /\ alarm.end_time - alarm.start_time < LimitTime
    THEN LET end == now + StopTime
         IN IF end - alarm.start_time > LimitTime
              THEN alarm.start_time + LimitTime ELSE end
    ELSE alarm.end_time

check_alarm_record_stop ==
  /\ IF now >= Extended
       THEN /\ IF "stopped" \in except_type THEN UNCHANGED rec ELSE End
            /\ plan' = NoPlan
            /\ alarm' = [status |-> "end", start_time |-> 0,
                         end_time |-> Extended]
       ELSE /\ alarm' = [alarm EXCEPT !.end_time = Extended]
            /\ UNCHANGED <<rec, plan>>
  /\ UNCHANGED alarm_time_bak

check_record_alarm ==
  /\ record_mode = "alarm"
  /\ IF alarm.status = "start"
       THEN check_alarm_record_stop
       ELSE check_alarm_record_start /\ UNCHANGED plan
  /\ md_trigger_time' = 0                \* ak_alarm_get_time

-----------------------------------------------------------------------------
(* The rest of the round of record_ctrl_main.                              *)

Act == /\ pc = "act"
       /\ except_type = {}
       /\ check_record_plan \/ check_record_alarm
       /\ pc' = "slept"
       /\ UNCHANGED <<flags, modes, cardVars, exitVars, counts, app, listed,
                      except_type, seen, space_due>>

StopOnException ==
  /\ pc = "act"
  /\ except_type # {}
  /\ StopIfStarted
  /\ pc' = "report"
  /\ UNCHANGED <<flags, modes, alarm_time_bak, cardVars, exitVars, counts, app,
                 listed, except_type, seen, space_due, md_trigger_time>>

report_exception ==
  /\ pc = "report"
  /\ seen' = except_type \intersect Kept
  /\ pc' = "stored"
  /\ UNCHANGED <<flags, modes, times, cardVars, exitVars, counts, app, rec,
                 listed, except_type, space_due, md_trigger_time>>

MutFormatsUnderRecorder ==
  /\ pc = "slept"
  /\ pc' = IF format_card THEN "formatting" ELSE "update"
  /\ UNCHANGED <<flags, modes, times, cardVars, exitVars, counts, app, rec,
                 listed, except_type, seen, space_due, md_trigger_time>>
(* format_card up to mkfs: it kills whoever has a file open on the card.   *)
BeginFormat ==
  /\ pc = "slept"
  /\ IF format_card
       THEN /\ StopIfStarted
            /\ pc' = "formatting"
       ELSE pc' = "update" /\ UNCHANGED <<rec, plan, alarm>>
  /\ UNCHANGED <<flags, modes, alarm_time_bak, cardVars, exitVars,
                 counts, app, listed, except_type, seen, space_due,
                 md_trigger_time>>

EndFormat ==
  /\ pc = "formatting"
  /\ \/ /\ Inserted /\ cards < MaxCard       \* formatted and mounted
        /\ card' = "mounted"
        /\ cards' = cards + 1
        /\ except_type' = except_type \union {"umount"}
     \/ /\ card' \in IF Inserted THEN {card, "in"} ELSE {card}
        /\ UNCHANGED <<cards, except_type>>
  /\ format_card' = FALSE
  /\ pc' = "update"
  /\ UNCHANGED <<update_plan_time, modes, times, exitVars, counts, app, rec,
                 listed, seen, space_due, md_trigger_time>>

(* What is asked while the recorder stops, in "updating", is cleared, too. *)
UpdatePlan ==
  /\ pc = "update"
  /\ IF update_plan_time
       THEN /\ IF record_mode = "plan" /\ plan.status = "start"
                 THEN StopRecord ELSE UNCHANGED <<rec, plan, alarm>>
            /\ pc' = "updating"
       ELSE pc' = "mode" /\ UNCHANGED <<rec, plan, alarm>>
  /\ UNCHANGED <<flags, modes, alarm_time_bak, cardVars, exitVars, counts, app,
                 listed, except_type, seen, space_due, md_trigger_time>>

PlanUpdated ==
  /\ pc = "updating"
  /\ update_plan_time' = FALSE
  /\ pc' = "mode"
  /\ UNCHANGED <<format_card, modes, times, cardVars, exitVars,
                 counts, app, rec, listed, except_type, seen, space_due,
                 md_trigger_time>>

MutLeavesRecording ==
  /\ pc = "mode"
  /\ record_mode' = switch_mode
  /\ pc' = IF run_flag THEN "check" ELSE "exited"
  /\ UNCHANGED <<flags, switch_mode, times, cardVars, exitVars, counts, app,
                 rec, listed, except_type, seen, space_due, md_trigger_time>>
NextRound == IF run_flag THEN "check" ELSE "exited"
change_mode ==
  /\ pc = "mode"
  /\ IF record_mode # switch_mode
       THEN StopIfStarted ELSE UNCHANGED <<rec, plan, alarm>>
  /\ record_mode' = switch_mode
  /\ pc' = NextRound
  /\ UNCHANGED <<flags, switch_mode, alarm_time_bak, cardVars, exitVars, counts,
                 app, listed, except_type, seen, space_due, md_trigger_time>>

-----------------------------------------------------------------------------
(* The recorder's threads.                                                 *)

(* get_video_record_error, called back with e.  The recorder gives up when *)
(* its queue is over size, and breaks on the other exceptions or goes on   *)
(* (a file already open when the next one finds no space).                 *)
get_video_record_error(e) ==
  /\ rec \in Kind
  /\ reports < MaxReport
  /\ pc \notin {"store", "stored"} \/ "torn" \in Faults
  /\ CASE e = "stopped" -> End
       [] e = "syserr"  -> Break
       [] e = "nospace" -> Break \/ UNCHANGED rec
  /\ except_type' = except_type \union {e}
  /\ space_due' = (space_due /\ e # "nospace")
  /\ reports' = reports + 1
  /\ UNCHANGED <<flags, modes, times, cardVars, exitVars, now, requests, app,
                 listed, seen, md_trigger_time, pc>>
Exception == \E e \in {"stopped", "syserr", "nospace"} : get_video_record_error(e)

-----------------------------------------------------------------------------
(* The application's commands, and what happens around the camera.         *)
(* They are taken to happen while record_ctrl_main sleeps, which is most   *)
(* of the time, or is at one of the commands: between its other steps      *)
(* nothing they change is read.                                            *)

Heeding == pc \in {"slept", "formatting", "updating", "exited"}

CallerVars == <<modes, times, cardVars, exitVars, rec, listed, except_type, seen,
                space_due, pc>>

(* dana_cmd_s_rec_plan sets the table, then calls                          *)
(* record_ctrl_update_dvr_plan_time.                                       *)
SetConfig == /\ requests < MaxRequest /\ told /\ Heeding
             /\ config' \in Tables \ {config}
             /\ told' = FALSE
             /\ requests' = requests + 1
             /\ UNCHANGED <<CallerVars, flags, now, reports, md_trigger_time>>
record_ctrl_update_dvr_plan_time ==
  /\ ~told /\ Heeding
  /\ told' = TRUE
  /\ update_plan_time' = TRUE
  /\ UNCHANGED <<CallerVars, format_card, counts, config,
                 md_trigger_time>>

record_ctrl_request_format_card ==
  /\ requests < MaxRequest /\ run_flag /\ Heeding
  /\ format_card' = TRUE
  /\ requests' = requests + 1
  /\ UNCHANGED <<CallerVars, update_plan_time, now, reports, app,
                 md_trigger_time>>

record_ctrl_set_mode(m) ==
  /\ requests < MaxRequest /\ Heeding
  /\ m # record_mode
  /\ switch_mode' = m
  /\ requests' = requests + 1
  /\ UNCHANGED <<flags, record_mode, times, cardVars, exitVars, rec, listed,
                 except_type, seen, space_due, pc, now, reports, app,
                 md_trigger_time>>

(* record_ctrl_exit: ak_dvr_record_exit, here one step, stops the recorder *)
(* and closes what it records from; the thread is told, and joined.        *)
record_ctrl_exit ==
  /\ \/ /\ exit_pc = "out" /\ requests = MaxRequest
        /\ exit_pc' = "closed"
        /\ opened' = FALSE
        /\ End
        /\ UNCHANGED run_flag
     \/ /\ exit_pc = "closed"
        /\ exit_pc' = "join"
        /\ run_flag' = FALSE
        /\ UNCHANGED <<opened, rec>>
     \/ /\ exit_pc = "join" /\ pc = "exited"
        /\ exit_pc' = "done"
        /\ UNCHANGED <<opened, run_flag, rec>>
  /\ UNCHANGED <<flags, modes, times, cardVars, counts, app, listed, except_type,
                 seen, space_due, md_trigger_time, pc>>

(* md_alarm_thread leaves the time of a motion.                            *)
Motion == /\ pc = "slept"
          /\ md_trigger_time' = now
          /\ md_trigger_time # now
          /\ UNCHANGED <<CallerVars, flags, counts, app>>

(* A card is not changed for another within one round of 300 ms.           *)
CardChange ==
  /\ pc = "slept"
  /\ \/ /\ card = "out" /\ "removed" \in except_type
        /\ cards < MaxCard
        /\ card' \in {"in", "mounted"}
        /\ cards' = cards + 1
     \/ /\ card \in {"mounted", "failing"}
        /\ card' \in {"out", "failing", "mounted"} \ {card}
        /\ UNCHANGED cards
     \/ /\ card = "in"
        /\ card' = "out"
        /\ UNCHANGED cards
  /\ UNCHANGED <<flags, modes, times, exitVars, counts, app, rec, listed,
                 except_type, seen, space_due, md_trigger_time, pc>>

(* Time passes in ak_sleep_ms: a round is short to a second.               *)
Tick == /\ pc = "slept" /\ now < MaxTime
        /\ now' = now + 1
        /\ UNCHANGED <<CallerVars, flags, reports, requests, app,
                       md_trigger_time>>

(* CHECK_SD_SPACE_TIME is many rounds: the exception has been acted on.    *)
SpaceTimePasses ==
  /\ ~space_due /\ "nospace" \in except_type /\ ~Started
  /\ space_due' = TRUE
  /\ UNCHANGED <<flags, modes, times, cardVars, exitVars, counts, app, rec,
                 listed, except_type, seen, md_trigger_time, pc>>

-----------------------------------------------------------------------------
record_ctrl_main == \/ check_record_exception \/ StoreExcept
                    \/ Act \/ StopOnException \/ report_exception
                    \/ BeginFormat \/ EndFormat
                    \/ UpdatePlan \/ PlanUpdated \/ change_mode

Next == \/ record_ctrl_main
        \/ Exception
        \/ SetConfig \/ record_ctrl_update_dvr_plan_time
        \/ record_ctrl_request_format_card
        \/ \E m \in Kind : record_ctrl_set_mode(m)
        \/ record_ctrl_exit
        \/ Motion \/ CardChange \/ Tick \/ SpaceTimePasses

Spec == Init /\ [][Next]_vars
Fairness == /\ WF_vars(record_ctrl_main)
            /\ WF_vars(SpaceTimePasses)
            /\ WF_vars(exit_pc # "out" /\ record_ctrl_exit)
FairSpec == Spec /\ Fairness

-----------------------------------------------------------------------------
TypeOK == /\ rec \in Kind \union {"none", "broken"}
          /\ run_flag \in BOOLEAN /\ opened \in BOOLEAN
          /\ except_type \subseteq Except /\ seen \subseteq Except
          /\ update_plan_time \in BOOLEAN /\ format_card \in BOOLEAN
          /\ record_mode \in Kind /\ switch_mode \in Kind
          /\ plan.status \in {"none", "start"}
          /\ plan.start_wday \in 0..DayPerWeek - 1
          /\ alarm.status \in {"none", "start", "end"}
          /\ card \in {"out", "in", "mounted", "failing"}
          /\ cards \in 0..MaxCard /\ listed \in 0..MaxCard
          /\ exit_pc \in {"out", "closed", "join", "done"}
          /\ now \in 1..MaxTime

(* What the recorder is at, record control knows of: the kind recorded is  *)
(* the kind started, in the mode that is on.  Without it the stop of a     *)
(* mode, a plan or a format would leave a recording behind.                *)
RecordingIsKnown == /\ rec # "none" => Started
                    /\ rec = "plan" => record_mode = "plan"
                    /\ rec = "alarm" => record_mode = "alarm"

(* fuser -k, with which a card is remounted and formatted, kills whoever   *)
(* has files open on it: the recorder in this process must have none.      *)
FuserFindsNobody ==
  /\ pc = "formatting" => rec = "none"
  /\ pc = "check" /\ Reinserted => rec = "none"

(* A recording starts only on a card whose files have been listed since it *)
(* was put in or formatted: the list tells what to delete for room.        *)
StartsOnListedCard ==
  [][\A kind \in Kind : rec = "none" /\ rec' = kind => listed = cards]_vars

(* Plan records follow the table in force: after a look at the plan there  *)
(* is a recording only where one is planned (or the next day's follows at  *)
(* once), and none only where none is planned (or the last one just ended).*)
PlanIsFollowed ==
  [][pc = "act" /\ pc' = "slept" /\ record_mode = "plan"
       /\ told /\ ~update_plan_time =>
     IF plan'.status = "start" THEN Planned(now) \/ Planned(now + 1)
                               ELSE ~Planned(now) \/ plan.status = "start"]_vars

(* A recording is not cut short: an alarm taken up during it makes it go   *)
(* on for StopTime more, up to LimitTime in all, and nothing else moves    *)
(* the end or ends it before.                                              *)
AlarmNotCutShort ==
  [][pc = "act" /\ pc' = "slept" /\ alarm.status = "start" =>
     /\ alarm'.end_time >= alarm.end_time
     /\ md_trigger_time # 0 => \/ alarm'.end_time >= now + StopTime
                               \/ alarm'.end_time >= alarm.start_time + LimitTime
     /\ alarm'.status = "end" => now >= alarm'.end_time]_vars
(* And it comes to its end.                                                *)
AlarmIsLimited ==
  alarm.status = "start" =>
    /\ alarm.end_time <= alarm.start_time + PreTime + StopTime
       \/ alarm.end_time <= alarm.start_time + LimitTime
    /\ pc = "slept" /\ except_type = {} => alarm.end_time > alarm.start_time

(* After record_ctrl_exit nothing records.                                 *)
NothingAfterExit == exit_pc \in {"closed", "join", "done"} => rec = "none"

(* What is recorded is known, an alarm's recording has an end, and there   *)
(* is none after the exit.                                                 *)
RecordingIsRight ==
  TypeOK /\ RecordingIsKnown /\ AlarmIsLimited /\ NothingAfterExit

(* What keeps a planned recording from going on passes: once the card and  *)
(* the table stay as they are, within a plan's hours, it records.          *)
Quiet == /\ card = "mounted" /\ Planned(now)
         /\ record_mode = "plan" /\ switch_mode = "plan"
         /\ ~format_card /\ pc # "formatting"
         /\ exit_pc = "out"
PlanResumes == <>[]Quiet => <>[](rec = "plan")
=============================================================================
