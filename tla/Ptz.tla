-------------------------------- MODULE Ptz --------------------------------
(***************************************************************************)
(* The pan and tilt driver, libplat/src/drv/ak_drv_ptz.c: the self check   *)
(* of the two motors, a thread per motor (motor_turn_thread) that carries  *)
(* out the command left in cmd_data, and the calls that leave one.  The    *)
(* callers, Dana's two threads (dana/dana_others.c), hold ptz_ctrl.lock    *)
(* from a command until both motors are idle again, so they are one here.  *)
(*                                                                         *)
(* caller is where the caller is:                                          *)
(*   closed -> opened -> check -> idle                                     *)
(*   idle -> turn -> poll -> idle, idle -> pos -> poll -> idle             *)
(*   idle -> close -> join -> ... -> closed                                *)
(* mpc is where a motor's thread is:                                       *)
(*   wait -> taken -> busy -> run -> wait; none: there is none             *)
(*   check: the self check waits for the motor                             *)
(* The kernel's motor moves by steps and reports its end as an event.      *)
(***************************************************************************)
EXTENDS Integers, Sequences

CONSTANTS Degree,      \* degrees of a circle, 360 in the code
          Cycle,       \* cycle_step
          Full,        \* fulldst_step, the same for both motors here
          TurnBy,      \* bound: the degrees a caller turns by, a circle at most
          Late,        \* a motor's thread may need longer than the callers
                       \* sleep before they look whether it is idle
          MaxCommand   \* bound: commands in a run

ASSUME DegreeAssumption == Degree \in Nat \ {0}
ASSUME StepsAssumption == Cycle \in Nat \ {0} /\ Full \in Nat \ {0}
ASSUME LateAssumption == Late \in BOOLEAN
ASSUME TurnAssumption == TurnBy \subseteq 0..Degree /\ MaxCommand \in Nat

VARIABLES caller, pin_type, calibrated, run_flag_ptz, mt_status, ctrl_sem,
          clkwise, dg,   \* cmd_data
          mpc,
          script,        \* of the self check: the turns that are left
          pos,           \* the driver's count of steps
          left,          \* steps it has still to turn, signed
          event,         \* what the driver has to report, or ""
          aim,           \* where the accepted command should take the motor
          commands

callVars == <<caller, calibrated, run_flag_ptz, pin_type, commands>>
threadVars == <<mt_status, mpc, script>>
cmdVars == <<ctrl_sem, clkwise, dg, aim>>
driveVars == <<pos, left, event>>
ptzVars == <<callVars, threadVars, cmdVars, driveVars>>

Motor == {"H", "V"}
(* Where a caller has yet to post to the motor, or to join its thread.     *)
AtTurn(m) == IF m = "H" THEN "turnH" ELSE "turnV"
AtPos(m) == IF m = "H" THEN "posH" ELSE "posV"
AtJoin(m) == IF m = "H" THEN "joinH" ELSE "joinV"
NoAim == -1
NoSelfCheck == <<>>
Far == Full

degree2step(d) == (Cycle * d) \div Degree
step2degree(s) == (s * Degree) \div Cycle
Clamp(s) == IF s < 0 THEN 0 ELSE IF s < Full THEN s ELSE Full - 1
Away(s) == IF s < 0 THEN -s ELSE s

-----------------------------------------------------------------------------
PtzInit == /\ caller = "closed"
           /\ calibrated = FALSE
           /\ run_flag_ptz = [m \in Motor |-> FALSE]
           /\ pin_type = FALSE
           /\ mt_status = [m \in Motor |-> "wait_init"]
           /\ ctrl_sem = [m \in Motor |-> 0]
           /\ clkwise = [m \in Motor |-> FALSE]
           /\ dg = [m \in Motor |-> 0]
           /\ mpc = [m \in Motor |-> "none"]
           /\ script = [m \in Motor |-> NoSelfCheck]
           /\ pos = [m \in Motor |-> 0]
           /\ left = [m \in Motor |-> 0]
           /\ event = [m \in Motor |-> ""]
           /\ aim = [m \in Motor |-> NoAim]
           /\ commands = 0

(* The driver.  A turn of no steps ends where it began.                    *)
Drive(m, steps) == /\ left' = [left EXCEPT ![m] = steps]
                   /\ event' = [event EXCEPT ![m] = IF steps = 0 THEN "stop" ELSE ""]

DriverMoves(m) ==
  LET to == IF left[m] > 0 THEN pos[m] + 1 ELSE pos[m] - 1
      rest == IF left[m] > 0 THEN left[m] - 1 ELSE left[m] + 1
  IN /\ left[m] # 0
     /\ IF to = Clamp(to)
          THEN /\ pos' = [pos EXCEPT ![m] = to]
               /\ left' = [left EXCEPT ![m] = rest]
               /\ event' = [event EXCEPT ![m] = IF rest = 0 THEN "stop" ELSE ""]
          ELSE /\ left' = [left EXCEPT ![m] = 0]
               /\ event' = [event EXCEPT ![m] = "hit"]
               /\ UNCHANGED pos
     /\ UNCHANGED <<callVars, threadVars, cmdVars>>

-----------------------------------------------------------------------------
(* ak_drv_ptz_open, and ak_drv_ptz_setup_step_param with the default       *)
(* position: the driver is told that the motor is in the middle.           *)
ak_drv_ptz_open == /\ caller = "closed"
                   /\ ~calibrated
                   /\ caller' = "opened"
                   /\ pos' = [m \in Motor |-> Full \div 2]
                   /\ UNCHANGED <<calibrated, run_flag_ptz, pin_type, commands,
                                  threadVars, cmdVars, left, event>>

(* The turns of get_motor_param: to the one end where there is a pin, to   *)
(* the other, back to reset_step.                                          *)
SelfCheck(pin) == (IF pin THEN <<Far>> ELSE <<>>)
                    \o <<-Far, degree2step(step2degree(Full \div 2))>>

NeedsCheck(m) == mt_status[m] = "wait_init"

(* A motor that was checked before it was closed is not checked again.     *)
ak_drv_ptz_check_self(pin) ==
  /\ caller = "opened"
  /\ caller' = "check"
  /\ pin_type' = pin
  /\ run_flag_ptz' = [m \in Motor |-> TRUE]
  /\ ctrl_sem' = [m \in Motor |-> 0]
  /\ script' = [m \in Motor |-> IF NeedsCheck(m) THEN SelfCheck(pin) ELSE NoSelfCheck]
  /\ UNCHANGED <<calibrated, commands, mt_status, mpc, clkwise, dg, aim, driveVars>>

(* get_motor_param is called for one motor after the other.  A turn that   *)
(* the driver refuses is passed over.                                      *)
CheckTurns(m) == /\ caller = "check"
                 /\ mpc[m] = "none"
                 /\ script[m] # <<>>
                 /\ m = "V" => script["H"] = <<>>
                 /\ mt_status' = [mt_status EXCEPT ![m] = "sys_wait"]
                 /\ mpc' = [mpc EXCEPT ![m] = "check"]
                 /\ \/ Drive(m, Head(script[m]))
                    \/ event' = [event EXCEPT ![m] = "refused"] /\ UNCHANGED left
                 /\ UNCHANGED <<callVars, script, cmdVars, pos>>

CheckWaits(m) == /\ mpc[m] = "check"
                 /\ event[m] # ""
                 /\ event' = [event EXCEPT ![m] = ""]
                 /\ script' = [script EXCEPT ![m] = Tail(@)]
                 /\ mpc' = [mpc EXCEPT ![m] = "none"]
                 /\ mt_status' = IF script'[m] = <<>>
                                   THEN [mt_status EXCEPT ![m] = "init_ok"]
                                   ELSE mt_status
                 /\ UNCHANGED <<callVars, cmdVars, pos, left>>

(* start_motor creates the threads when both motors are checked.           *)
CheckEnds == /\ caller = "check"
             /\ \A m \in Motor : script[m] = <<>> /\ mpc[m] = "none"
             /\ mpc' = [m \in Motor |-> IF mt_status[m] = "init_ok" THEN "wait" ELSE "none"]
             /\ calibrated' = TRUE
             /\ caller' = "idle"
             /\ UNCHANGED <<run_flag_ptz, pin_type, commands, mt_status, script,
                            cmdVars, driveVars>>

-----------------------------------------------------------------------------
(* ak_drv_ptz_turn writes the direction first, looks at the motor then.    *)

TurnDirects(m, cw) ==
  /\ caller = "idle"
  /\ commands < MaxCommand
  /\ commands' = commands + 1
  /\ clkwise' = [clkwise EXCEPT ![m] = cw]
  /\ caller' = IF mt_status[m] = "init_ok" THEN AtTurn(m) ELSE "poll"
  /\ UNCHANGED <<calibrated, run_flag_ptz, pin_type, threadVars, ctrl_sem, dg,
                 aim, driveVars>>

Pending(m) == ctrl_sem[m] > 0 \/ mpc[m] \in {"taken", "busy", "run"}

TurnPosts(m, d) ==
  /\ caller = AtTurn(m)
  /\ dg' = [dg EXCEPT ![m] = d]
  /\ ctrl_sem' = [ctrl_sem EXCEPT ![m] = @ + 1]
  /\ aim' = [aim EXCEPT ![m] = Clamp(pos[m] + (IF clkwise[m] THEN 1 ELSE -1) * degree2step(d))]
  /\ caller' = "poll"
  /\ UNCHANGED <<calibrated, run_flag_ptz, pin_type, commands, clkwise, threadVars,
                 driveVars>>

(* ak_drv_ptz_turn_to_pos: neither motor may be busy, and each is asked    *)
(* for the way from where the driver says it is.                           *)
PosLooks == /\ caller = "idle"
            /\ commands < MaxCommand
            /\ commands' = commands + 1
            /\ caller' = IF \A m \in Motor : mt_status[m] = "init_ok" THEN "posH" ELSE "poll"
            /\ UNCHANGED <<calibrated, run_flag_ptz, pin_type, threadVars, cmdVars,
                           driveVars>>

SetStep(d) == Clamp(degree2step(d))

(* check_dg, and the post when there is somewhere to go.                   *)
check_dg(m, d) ==
  LET step == SetStep(d) - pos[m]
  IN IF step = 0
       THEN UNCHANGED cmdVars
       ELSE /\ clkwise' = [clkwise EXCEPT ![m] = step > 0 /\ step2degree(step) > 0]
            /\ dg' = [dg EXCEPT ![m] = step2degree(Away(step))]
            /\ ctrl_sem' = [ctrl_sem EXCEPT ![m] = @ + 1]
            /\ aim' = [aim EXCEPT ![m] = SetStep(d)]

PosPosts(m, d) == /\ caller = AtPos(m)
                  /\ check_dg(m, d)
                  /\ caller' = IF m = "H" THEN "posV" ELSE "poll"
                  /\ UNCHANGED <<calibrated, run_flag_ptz, pin_type, commands,
                                 threadVars, driveVars>>

(* The callers sleep 5 ms and look until both motors are idle.             *)
Polled == /\ caller = "poll"
          /\ \A m \in Motor : mt_status[m] = "init_ok"
          /\ Late \/ \A m \in Motor : ~Pending(m)
          /\ caller' = "idle"
          /\ UNCHANGED <<calibrated, run_flag_ptz, pin_type, commands, threadVars,
                         cmdVars, driveVars>>

(* ak_drv_ptz_turn_stop: the driver stops where it is.                     *)
ak_drv_ptz_turn_stop(m) ==
  /\ calibrated
  /\ left[m] # 0
  /\ left' = [left EXCEPT ![m] = 0]
  /\ event' = [event EXCEPT ![m] = "stop"]
  /\ aim' = [aim EXCEPT ![m] = NoAim]
  /\ UNCHANGED <<callVars, threadVars, ctrl_sem, clkwise, dg, pos>>

-----------------------------------------------------------------------------
(* motor_turn_thread.                                                      *)

ThreadTakes(m) == /\ mpc[m] = "wait"
                  /\ ctrl_sem[m] > 0
                  /\ ctrl_sem' = [ctrl_sem EXCEPT ![m] = @ - 1]
                  /\ mpc' = [mpc EXCEPT ![m] = IF run_flag_ptz[m] THEN "taken" ELSE "none"]
                  /\ UNCHANGED <<callVars, mt_status, script, clkwise, dg, aim, driveVars>>

SaysBusy(m) == mt_status' = [mt_status EXCEPT ![m] = "sys_wait"]

ThreadBusy(m) == /\ mpc[m] = "taken"
                 /\ SaysBusy(m)
                 /\ mpc' = [mpc EXCEPT ![m] = "busy"]
                 /\ UNCHANGED <<callVars, script, cmdVars, driveVars>>

SaysIdle(m) == mt_status' = [mt_status EXCEPT ![m] = "init_ok"]
BackToWait(m) == mpc' = [mpc EXCEPT ![m] = IF run_flag_ptz[m] THEN "wait" ELSE "none"]

MutWrongWay(m) == IF clkwise[m] THEN -degree2step(dg[m]) ELSE degree2step(dg[m])
Way(m) == IF clkwise[m] THEN degree2step(dg[m]) ELSE -degree2step(dg[m])

ThreadTurns(m) == /\ mpc[m] = "busy"
                  /\ Drive(m, Way(m))
                  /\ mpc' = [mpc EXCEPT ![m] = "run"]
                  /\ UNCHANGED <<callVars, mt_status, script, cmdVars, pos>>

(* The ioctl fails: there is nothing to wait for.                          *)
ThreadTurnFails(m) == /\ mpc[m] = "busy"
                      /\ SaysIdle(m)
                      /\ BackToWait(m)
                      /\ aim' = [aim EXCEPT ![m] = NoAim]
                      /\ UNCHANGED <<callVars, script, ctrl_sem, clkwise, dg, driveVars>>

ThreadWaits(m) == /\ mpc[m] = "run"
                  /\ event[m] # ""
                  /\ event' = [event EXCEPT ![m] = ""]
                  /\ SaysIdle(m)
                  /\ BackToWait(m)
                  /\ UNCHANGED <<callVars, script, cmdVars, pos, left>>

-----------------------------------------------------------------------------
(* ak_drv_ptz_close: a post for each thread and a join, H before V.        *)

WakesThread(m) == ctrl_sem' = [ctrl_sem EXCEPT ![m] = @ + 1]

CloseStops(m) == /\ caller = IF m = "H" THEN "idle" ELSE "closeV"
                 /\ run_flag_ptz' = [run_flag_ptz EXCEPT ![m] = FALSE]
                 /\ WakesThread(m)
                 /\ caller' = AtJoin(m)
                 /\ UNCHANGED <<calibrated, pin_type, commands, threadVars, clkwise,
                                dg, aim, driveVars>>

CloseJoins(m) == /\ caller = AtJoin(m)
                 /\ mpc[m] = "none"
                 /\ caller' = IF m = "H" THEN "closeV" ELSE "closed"
                 /\ calibrated' = (m = "H")
                 /\ aim' = [aim EXCEPT ![m] = NoAim]
                 /\ UNCHANGED <<run_flag_ptz, pin_type, commands, threadVars, ctrl_sem,
                                clkwise, dg, driveVars>>

ThreadStep(m) == \/ ThreadTakes(m)
                 \/ ThreadBusy(m)
                 \/ ThreadTurns(m)
                 \/ ThreadTurnFails(m)
                 \/ ThreadWaits(m)

CheckStep == CheckEnds \/ \E m \in Motor : CheckTurns(m) \/ CheckWaits(m)

CallStep == \/ Polled
            \/ \E m \in Motor : \/ \E d \in TurnBy : TurnPosts(m, d) \/ PosPosts(m, d)
                                \/ CloseJoins(m)
            \/ CloseStops("V")

PtzNext == \/ ak_drv_ptz_open
           \/ \E pin \in BOOLEAN : ak_drv_ptz_check_self(pin)
           \/ CheckStep
           \/ CallStep
           \/ PosLooks
           \/ \E m \in Motor : \/ \E cw \in BOOLEAN : TurnDirects(m, cw)
                               \/ ak_drv_ptz_turn_stop(m)
                               \/ ThreadStep(m)
                               \/ DriverMoves(m)
           \/ CloseStops("H")

-----------------------------------------------------------------------------
(* No more posts than commands and the one of the close; the driver's      *)
(* count and every aim lie within fulldst_step (lines 717-719).            *)
PtzTypeOK == /\ mt_status \in [Motor -> {"wait_init", "init_ok", "sys_wait"}]
             /\ ctrl_sem \in [Motor -> 0..MaxCommand + 1]
             /\ mpc \in [Motor -> {"none", "check", "wait", "taken", "busy", "run"}]
             /\ pos \in [Motor -> 0..Full - 1]
             /\ left \in [Motor -> -(Full + Cycle)..Full + Cycle]
             /\ event \in [Motor -> {"", "hit", "stop", "refused"}]
             /\ aim \in [Motor -> {NoAim} \cup 0..Full - 1]

(* An accepted command takes the motor where it says: a relative turn      *)
(* exactly or to the end of the range, an absolute one to within a degree, *)
(* for the way to it is cut down to whole degrees (lines 710-740).         *)
Resting(m) == mpc[m] = "wait" /\ ctrl_sem[m] = 0 /\ calibrated
CommandIsObeyed ==
  \A m \in Motor : Resting(m) /\ aim[m] # NoAim
                     => (Away(aim[m] - pos[m]) - 1) * Degree < Cycle

(* Nothing is left in a motor that says it is idle: neither steps to turn  *)
(* nor an event, which the next command's wait would take for its own.     *)
IdleIsStill == \A m \in Motor : mt_status[m] = "init_ok"
                                  => left[m] = 0 /\ event[m] = ""

(* Whoever waits for the motors, or for their threads, comes back: every   *)
(* way through the thread ends in PTZ_INIT_OK (lines 575-603, 1090-1120).  *)
CallerComesBack == caller \notin {"idle", "closed", "opened"}
                     ~> caller \in {"idle", "closed"}
=============================================================================
