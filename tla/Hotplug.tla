------------------------------ MODULE Hotplug ------------------------------
(***************************************************************************)
(* The daemon's thread that mounts and unmounts the card, apps/daemon/     *)
(* daemon.c (daemon_pth_func, check_sd_card): the kernel's devices of the  *)
(* card, the queue of its events, and what is mounted at /mnt.             *)
(*                                                                         *)
(* A card has the device k0 (/dev/mmcblk0) and, when it is partitioned, p1 *)
(* (/dev/mmcblk0p1).  hot is where the thread is:                          *)
(*   boot -> look -> mount -> recv -> (mount ->) recv                      *)
(***************************************************************************)
EXTENDS Integers, Sequences

CONSTANTS HotFaults,    \* a subset of {"lost", "swift"}: the kernel may drop an
                        \* event when the socket's 2048 bytes are full; a card
                        \* may be put in before the thread has handled the
                        \* events of the one before
          MaxInsert     \* bound: cards put in

ASSUME HotFaultsAssumption == HotFaults \subseteq {"lost", "swift"}

VARIABLES slot,         \* the card's number, 0 when there is none
          partitioned,  \* the card has a partition
          leaving,      \* it is being taken out: the partition has gone
          dev,          \* its devices
          uevents,      \* [action, name], oldest first
          hot,
          to_mount,     \* the device the thread is about to mount
          mnt,          \* the cards mounted at /mnt, one over the other
          inserts

cardInVars == <<slot, partitioned, leaving, inserts>>
hotVars == <<cardInVars, dev, uevents, hot, to_mount, mnt>>

HotInit == /\ slot = 0
           /\ partitioned = FALSE
           /\ leaving = FALSE
           /\ dev = {}
           /\ uevents = <<>>
           /\ hot = "boot"
           /\ to_mount = ""
           /\ mnt = <<>>
           /\ inserts = 0

(* Events are queued once the socket is bound.                             *)
Sends(e) == \/ uevents' = IF hot = "boot" THEN uevents ELSE Append(uevents, e)
            \/ "lost" \in HotFaults /\ UNCHANGED uevents

-----------------------------------------------------------------------------
(* The card, by hand; the partition appears a moment after the disk.       *)
CardIn(part) == /\ slot = 0 /\ inserts < MaxInsert
                /\ uevents = <<>> \/ "swift" \in HotFaults
                /\ inserts' = inserts + 1
                /\ slot' = inserts + 1
                /\ partitioned' = part
                /\ dev' = {"k0"}
                /\ Sends([action |-> "add", name |-> "k0"])
                /\ UNCHANGED <<leaving, hot, to_mount, mnt>>

PartitionIn == /\ slot # 0 /\ partitioned /\ ~leaving /\ "p1" \notin dev
               /\ dev' = dev \cup {"p1"}
               /\ Sends([action |-> "add", name |-> "p1"])
               /\ UNCHANGED <<cardInVars, hot, to_mount, mnt>>

PartitionOut == /\ slot # 0 /\ "p1" \in dev
                /\ dev' = dev \ {"p1"}
                /\ leaving' = TRUE
                /\ Sends([action |-> "remove", name |-> "p1"])
                /\ UNCHANGED <<slot, partitioned, inserts, hot, to_mount, mnt>>

CardOut == /\ slot # 0 /\ "p1" \notin dev   \* pulled out before p1 appeared, too
           /\ slot' = 0
           /\ dev' = {}
           /\ partitioned' = FALSE
           /\ leaving' = FALSE
           /\ Sends([action |-> "remove", name |-> "k0"])
           /\ UNCHANGED <<hot, to_mount, mnt, inserts>>

-----------------------------------------------------------------------------
(* The socket, a second's sleep, and what is there already.                *)
Binds == /\ hot = "boot"
         /\ hot' = "look"
         /\ UNCHANGED <<cardInVars, dev, uevents, to_mount, mnt>>

Looks == /\ hot = "look"
         /\ to_mount' = IF "p1" \in dev THEN "p1" ELSE IF "k0" \in dev THEN "k0" ELSE ""
         /\ hot' = IF to_mount' = "" THEN "recv" ELSE "mount"
         /\ UNCHANGED <<cardInVars, dev, uevents, mnt>>

MutKeepsWhole(e) == e.name = "p1"
Umounts(e) == TRUE     \* p1_removed is a local variable, 0 in every call

(* check_sd_card.  The disk is left alone when it has a partition.         *)
check_sd_card ==
  /\ hot = "recv"
  /\ uevents # <<>>
  /\ LET e == Head(uevents)
         mounts == e.action = "add" /\ (e.name = "k0" => "p1" \notin dev)
     IN /\ to_mount' = IF mounts THEN e.name ELSE ""
        /\ hot' = IF mounts THEN "mount" ELSE "recv"
        /\ mnt' = IF e.action = "remove" /\ Umounts(e) /\ mnt # <<>> THEN Tail(mnt) ELSE mnt
  /\ uevents' = Tail(uevents)
  /\ UNCHANGED <<cardInVars, dev>>

(* The kernel refuses a device that is mounted there already, and a disk   *)
(* whose file system is in a partition.                                    *)
CanMount == mnt = <<>> \/ Head(mnt) # slot

daemon_mount_sd == /\ hot = "mount"
                   /\ mnt' = IF /\ to_mount \in dev
                                /\ to_mount = "k0" => ~partitioned
                                /\ CanMount
                               THEN <<slot>> \o mnt ELSE mnt
                   /\ hot' = "recv"
                   /\ to_mount' = ""
                   /\ UNCHANGED <<cardInVars, dev, uevents>>

HotStep == Binds \/ Looks \/ check_sd_card \/ daemon_mount_sd

HotNext == \/ \E part \in BOOLEAN : CardIn(part)
           \/ PartitionIn \/ PartitionOut \/ CardOut
           \/ HotStep

-----------------------------------------------------------------------------
(* Once the events are dealt with, the card that is in the slot is at /mnt *)
(* and nothing else is: the first look at start-up may meet the events of  *)
(* the same card, p1 may come or go while the disk's event is handled, and *)
(* both of a card's remove events unmount.  A lost event breaks it, and so *)
(* does a card swapped under the first look (lines 506-577).               *)
Settled == /\ hot = "recv"
           /\ uevents = <<>>
           /\ partitioned => "p1" \in dev
SettledIsMounted == Settled => mnt = IF slot = 0 THEN <<>> ELSE <<slot>>
=============================================================================
