------------------------------- MODULE Daemon -------------------------------
(***************************************************************************)
(* The watchdog daemon, apps/daemon/daemon.c, and the application's thread *)
(* that sends it a heartbeat, apps/akipc/monitor/monitor.c.  The two share *)
(* a fifo: the daemon learns that the application is gone when the fifo    *)
(* has no writer, the application that the daemon is gone when it has no   *)
(* reader.  The daemon also feeds the hardware watchdog, and update.sh     *)
(* stops both before it writes the flash.                                  *)
(*                                                                         *)
(* app is the application: off -> starting -> up -> off, where "up" has    *)
(* the fifo open; exiting: it has got SIGTERM and still has the fifo open; *)
(* hung: it neither writes nor exits.                                      *)
(* mon is the daemon's monitor_thread: open -> read -> (restart ->) sleep  *)
(* -> read, and closed when it has ended.                                  *)
(***************************************************************************)
EXTENDS Integers

CONSTANTS DaemonFaults,  \* what may go wrong: see below
          MaxBeat,       \* bound: heartbeats waiting in the fifo
          MaxCrash       \* bound: times the application or the daemon dies

(* "hang": the application hangs, with the fifo open                       *)
(* "slow": the application takes longer than INTERVAL to open the fifo     *)
(* "early": the application may die before it first opens the fifo         *)
(* "late": the feeding thread takes longer than update.sh sleeps           *)
DaemonFault == {"hang", "slow", "early", "late"}
ASSUME DaemonFaultsAssumption == DaemonFaults \subseteq DaemonFault
ASSUME BeatAssumption == MaxBeat \in Nat

VARIABLES app, mon, fifo,
          daemon,        \* the process: "up" or "dead"
          watchdog_en,
          wdt,           \* the watchdog: "fed" by the daemon's thread, "run"
                         \* with nobody feeding it, "off"
          update,        \* update.sh: "no", "told", "killed", "write"
          crashes

daemonVars == <<app, mon, fifo, daemon, watchdog_en, wdt, update, crashes>>

Writer == app \in {"up", "exiting", "hung"}
Reader == daemon = "up" /\ mon \in {"read", "restart", "sleep"}

DaemonInit == /\ app = "off"
              /\ mon = "open"
              /\ fifo = 0
              /\ daemon = "up"
              /\ watchdog_en = TRUE
              /\ wdt = "fed"
              /\ update = "no"
              /\ crashes = 0

-----------------------------------------------------------------------------
(* The application: start_monitor_th opens the fifo, which waits for a     *)
(* reader as the daemon's open waits for a writer.                         *)

AppBoots == /\ app = "off" /\ update = "no" /\ daemon = "up" /\ mon = "open"
            /\ app' = "starting"      \* service.sh, at boot
            /\ UNCHANGED <<mon, fifo, daemon, watchdog_en, wdt, update, crashes>>

FifoOpens == /\ app = "starting"
             /\ daemon = "up" /\ mon # "closed"
             /\ app' = "up"
             /\ mon' = IF mon = "open" THEN "read" ELSE mon
             /\ UNCHANGED <<fifo, daemon, watchdog_en, wdt, update, crashes>>

(* A write to a fifo nobody reads fails, and the process exits.            *)
ExitsUnread == app' = "off"

AppBeats == /\ app \in {"up", "exiting"}
            /\ IF Reader THEN fifo < MaxBeat /\ fifo' = fifo + 1 /\ UNCHANGED app
                         ELSE ExitsUnread /\ UNCHANGED fifo
            /\ UNCHANGED <<mon, daemon, watchdog_en, wdt, update, crashes>>

AppExits == /\ app = "exiting"
            /\ app' = "off"
            /\ UNCHANGED <<mon, fifo, daemon, watchdog_en, wdt, update, crashes>>

AppCrashes == /\ app = "up" \/ ("early" \in DaemonFaults /\ app = "starting")
              /\ crashes < MaxCrash
              /\ crashes' = crashes + 1
              /\ app' \in {"off", "exiting"} \cup
                            (IF "hang" \in DaemonFaults THEN {"hung"} ELSE {})
              /\ UNCHANGED <<mon, fifo, daemon, watchdog_en, wdt, update>>

-----------------------------------------------------------------------------
(* monitor_thread reads what there is of the heartbeats, whatever it says; *)
(* no more than that there is a writer matters.                            *)
MonitorReads == /\ daemon = "up" /\ mon = "read"
                /\ fifo > 0 \/ ~Writer
                /\ mon' = IF fifo > 0 THEN "sleep" ELSE "restart"
                /\ fifo' = 0
                /\ UNCHANGED <<app, daemon, watchdog_en, wdt, update, crashes>>

MutStartsNone == UNCHANGED app
(* anyka_ipc.sh restart: SIGTERM to the one there is, then a start unless  *)
(* there still is one.                                                     *)
Restart == CASE app = "off" -> app' = "starting"
             [] app = "starting" -> app' \in {"starting", "off"}
             [] app = "up" -> app' = "exiting"
             [] OTHER -> UNCHANGED app

MonitorRestarts == /\ daemon = "up" /\ mon = "restart"
                   /\ Restart
                   /\ mon' = "sleep"
                   /\ UNCHANGED <<fifo, daemon, watchdog_en, wdt, update, crashes>>

WakesOrEnds == IF watchdog_en THEN mon' = "read" ELSE mon' = "closed"

MonitorWakes == /\ daemon = "up" /\ mon = "sleep"
                /\ app = "starting" => "slow" \in DaemonFaults
                /\ WakesOrEnds
                /\ fifo' = IF mon' = "closed" THEN 0 ELSE fifo
                /\ UNCHANGED <<app, daemon, watchdog_en, wdt, update, crashes>>

MutClosesArmed == wdt' = "run"
TurnsOff == wdt' = "off"

(* feed_watchdog: sees watchdog_en within two seconds, sets the timeout to *)
(* -1 and closes the device.                                               *)
FeedEnds == /\ daemon = "up" /\ wdt = "fed" /\ ~watchdog_en
            /\ TurnsOff
            /\ UNCHANGED <<app, mon, fifo, daemon, watchdog_en, update, crashes>>

-----------------------------------------------------------------------------
(* The daemon dies; a watchdog nobody feeds starts everything anew.        *)
DaemonDies == /\ daemon = "up" /\ update = "no"
              /\ crashes < MaxCrash
              /\ crashes' = crashes + 1
              /\ daemon' = "dead"
              /\ wdt' = IF wdt = "fed" THEN "run" ELSE wdt
              /\ fifo' = 0
              /\ UNCHANGED <<app, mon, watchdog_en, update>>

Reboot == /\ wdt = "run"
          /\ app' = "off"
          /\ mon' = "open"
          /\ fifo' = 0
          /\ daemon' = "up"
          /\ watchdog_en' = TRUE
          /\ wdt' = "fed"
          /\ update' = "no"
          /\ UNCHANGED crashes

(* update.sh: SIGUSR2 (close_watch_dog), five seconds, kill -9 for daemon  *)
(* and application, and the images are written.                            *)
close_watch_dog == /\ daemon = "up" /\ update = "no"
                   /\ update' = "told"
                   /\ watchdog_en' = FALSE
                   /\ UNCHANGED <<app, mon, fifo, daemon, wdt, crashes>>

UpdateKills == /\ update = "told"
               /\ wdt = "fed" => "late" \in DaemonFaults
               /\ update' = "killed"
               /\ daemon' = "dead"
               /\ wdt' = IF wdt = "fed" THEN "run" ELSE wdt
               /\ fifo' = 0
               /\ UNCHANGED <<app, mon, watchdog_en, crashes>>

UpdateWrites == /\ update = "killed"
                /\ update' = "write"
                /\ app' = "off"
                /\ UNCHANGED <<mon, fifo, daemon, watchdog_en, wdt, crashes>>

MonitorStep == MonitorReads \/ MonitorRestarts \/ MonitorWakes
AppStep == FifoOpens \/ AppBeats \/ AppExits

DaemonNext == \/ MonitorStep \/ AppStep
              \/ AppBoots \/ AppCrashes \/ FeedEnds
              \/ DaemonDies \/ Reboot
              \/ close_watch_dog \/ UpdateKills \/ UpdateWrites

-----------------------------------------------------------------------------
(* What is in the fifo is lost with its reader, and so the daemon never    *)
(* takes an old heartbeat for a living application; monitor_thread and the *)
(* feeding thread end for an update only (daemon.c:218-250, 400-416).      *)
DaemonTypeOK == /\ app \in {"off", "starting", "up", "exiting", "hung"}
                /\ mon \in {"open", "read", "restart", "sleep", "closed"}
                /\ fifo \in 0..MaxBeat
                /\ ~Reader => fifo = 0
                /\ mon = "closed" \/ wdt = "off" => ~watchdog_en

(* While the flash is written no watchdog runs that could restart the      *)
(* machine in the middle of it (daemon.c:218-250, update.sh).              *)
NoRebootInUpdate == update \in {"killed", "write"} => wdt = "off"

(* The application comes back after any crash, its own or the daemon's, as *)
(* long as nobody updates: through the empty fifo, or through the reboot   *)
(* (daemon.c:401-414).                                                     *)
AppComesBack == [](update = "no") => (app = "off" ~> app = "up")

(* Neither outlives the other for long: an application whose daemon is     *)
(* gone exits or is rebooted, so it never runs unwatched (monitor.c:56-64).*)
NeverUnwatched == app = "up" /\ daemon = "dead" ~> daemon = "up" \/ app = "off"
=============================================================================
