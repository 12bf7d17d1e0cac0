------------------------------ MODULE DvrFile ------------------------------
(***************************************************************************)
(* How a recorded segment reaches its file: the two temporary files of     *)
(* libapp/src/dvr/ak_dvr_file.c that the recorder fills alternately, the   *)
(* flush thread that saves the one just finished under its date, the info  *)
(* file that lets a segment survive a crash, and the calls the recorder    *)
(* (ak_dvr_record.c) makes.                                                *)
(*                                                                         *)
(* A segment is a number, in the order of opening; the number stands for   *)
(* its contents and for its date.  The recorder's thread and the caller of *)
(* ak_dvr_record_stop take turns (stop_mutex, stop_sem), so they are one   *)
(* process here: who may interrupt whom there is not this module's matter. *)
(***************************************************************************)
EXTENDS Integers, FiniteSets

CONSTANTS MaxSegment,   \* bound: how many segments are opened
          MaxCrash,     \* bound: how many times the process dies
          Faults        \* the mishaps of the environment that may occur

(* "late":      the flush thread may need more than the 10 ms for which    *)
(*              switch_record_file sleeps to take fp_mutex                 *)
(* "full":      no room can be made on the card for a segment              *)
(* "unmounted": the card may be in its slot but not mounted at a stop      *)
(* "muxopen":   ak_mux_open may fail                                       *)
Fault == {"late", "full", "unmounted", "muxopen"}

ASSUME MaxSegmentAssumption == MaxSegment \in Nat \ {0}
ASSUME MaxCrashAssumption == MaxCrash \in Nat
ASSUME FaultsAssumption == Faults \subseteq Fault

Slot == 0..1                  \* RECORD_NODE_NUM
Segment == 1..MaxSegment
NoSegment == 0                \* NULL, no file, an empty line
Absent == -1                  \* rec_info_file does not exist
Detached == -1                \* name_tmp is open on a card that is gone

VARIABLES
  tmp,           \* card: the segment in each slot's temporary file
  info,          \* card: the date in rec_info_file
  saved,         \* card: the files of rec_path, [seg, name]
  big,           \* the segments that reached 100 KB
  fp,            \* fp[i].record: the segment the stream writes, or NULL
  name_tmp,      \* the date first written to the open info stream, or NULL
  file_name,     \* the name decided for each slot
  save_date,     \* date of the segment opened last
  save_index,    \* the slot handed over last
  manage_sem,    \* tokens for the flush thread
  fp_mutex,      \* its owner
  flush_pc,      \* where record_file_main is
  index,         \* its local variable
  use_index,     \* recorder: the slot in use
  cur,           \* recorder: the segment cur_mux_handle fills, or NULL
  flush_finish,  \* recorder: its flag
  rec_pc,        \* where the recorder is
  last,          \* the number of segments opened so far
  synced,        \* segments whose duration record_file_update_duration noted
  handed,        \* segments for which record_file_wakeup was called
  crashes        \* how often the process died

card == <<tmp, info, saved, big>>
streams == <<fp, name_tmp>>
naming == <<file_name, save_date>>
flusher == <<flush_pc, index>>
recorder == <<use_index, cur, flush_finish, rec_pc>>
history == <<last, synced, handed, crashes>>
vars == <<card, streams, naming, save_index, manage_sem, fp_mutex, flusher,
          recorder, history>>

-----------------------------------------------------------------------------
EmptySlots == [i \in Slot |-> NoSegment]

Init == /\ fp = EmptySlots
        /\ name_tmp = NoSegment
        /\ file_name = EmptySlots
        /\ save_date = NoSegment
        /\ save_index = 0
        /\ manage_sem = 0
        /\ fp_mutex = "free"
        /\ index = 0
        /\ use_index = 0
        /\ cur = NoSegment
        /\ flush_finish = FALSE
        /\ tmp = EmptySlots
        /\ info = Absent
        /\ saved = {}
        /\ big = {}
        /\ flush_pc = "off"
        /\ rec_pc = "boot"
        /\ last = 0
        /\ synced = {}
        /\ handed = {}
        /\ crashes = 0

-----------------------------------------------------------------------------
(* The recorder.                                                           *)

(* ak_sleep_ms(10) after a switch: unless it may be late, the flush thread *)
(* has taken fp_mutex before the recorder asks for it.                     *)
FlushHadItsTurn == \/ "late" \in Faults
                   \/ manage_sem = 0 /\ flush_pc # "locking"

LockForOpen == /\ rec_pc \in {"idle", "switched"}
               /\ last < MaxSegment
               /\ FlushHadItsTurn
               /\ fp_mutex = "free"

MutFlushCbDeaf(finish) == flush_finish' = flush_finish
MutFlushCbAlwaysTrue(finish) == flush_finish' = TRUE

flush_cb(finish) == flush_finish' = finish

(* record_file_open up to flush_cb(AK_FALSE); fopen(..., "wb+") truncates. *)
record_file_open ==
  /\ LockForOpen
  /\ last' = last + 1
  /\ tmp' = [tmp EXCEPT ![use_index] = last']
  /\ fp' = [fp EXCEPT ![use_index] = last']
  /\ flush_cb(FALSE)
  /\ save_date' = last'
  /\ fp_mutex' = "recorder"
  /\ rec_pc' = "naming"
  /\ UNCHANGED <<info, saved, big, name_tmp, file_name, save_index, manage_sem,
                 flusher, use_index, cur, synced, handed, crashes>>

(* file_open_end: the record file cannot be opened, or a later one cannot  *)
(* and the truncated record file is removed again.                         *)
record_file_open_fails ==
  /\ LockForOpen
  /\ fp' = [fp EXCEPT ![use_index] = NoSegment]
  /\ rec_pc' = "idle"
  /\ \/ UNCHANGED <<tmp, flush_finish, save_date>>
     \/ /\ tmp' = [tmp EXCEPT ![use_index] = NoSegment]
        /\ UNCHANGED <<flush_finish, save_date>>
     \/ /\ name_tmp = NoSegment
        /\ tmp' = [tmp EXCEPT ![use_index] = NoSegment]
        /\ flush_cb(FALSE)
        /\ save_date' = last + 1
  /\ UNCHANGED <<info, saved, big, name_tmp, file_name, save_index, manage_sem,
                 fp_mutex, flusher, use_index, cur, history>>

(* The date goes to the stream; a stream still open is not started again.  *)
(* stdio keeps the line until the first fseek: the file itself is blank.   *)
create_name_tmp_file ==
  IF name_tmp = NoSegment THEN name_tmp' = save_date /\ info' = NoSegment
                          ELSE UNCHANGED <<name_tmp, info>>

record_file_opened ==
  /\ rec_pc = "naming"
  /\ create_name_tmp_file
  /\ fp_mutex' = "free"
  /\ rec_pc' = "muxing"
  /\ UNCHANGED <<tmp, saved, big, fp, naming, save_index, manage_sem, flusher,
                 use_index, cur, flush_finish, history>>

open_mux_handle == /\ rec_pc = "muxing"
                   /\ cur' = save_date
                   /\ rec_pc' = "recording"
                   /\ UNCHANGED <<card, streams, naming, save_index, manage_sem,
                                  fp_mutex, flusher, use_index, flush_finish,
                                  history>>

record_file_delete ==
  /\ rec_pc = "muxing"
  /\ "muxopen" \in Faults
  /\ fp_mutex = "free"
  /\ IF fp[use_index] # NoSegment
       THEN tmp' = [tmp EXCEPT ![use_index] = NoSegment]
       ELSE UNCHANGED tmp
  /\ fp' = [fp EXCEPT ![use_index] = NoSegment]
  /\ rec_pc' = "idle"
  /\ UNCHANGED <<info, saved, big, name_tmp, naming, save_index, manage_sem,
                 fp_mutex, flusher, use_index, cur, flush_finish, history>>

add_video_to_mux == /\ rec_pc = "recording"
                    /\ big' = big \union {cur}
                    /\ UNCHANGED <<tmp, info, saved, streams, naming, save_index,
                                   manage_sem, fp_mutex, flusher, recorder,
                                   history>>

record_file_update_duration ==
  /\ rec_pc = "recording"
  /\ fp_mutex = "free"
  /\ synced' = synced \union {cur}
  /\ IF name_tmp \in Segment THEN info' = name_tmp ELSE UNCHANGED info
  /\ UNCHANGED <<tmp, saved, big, streams, naming, save_index, manage_sem,
                 fp_mutex, flusher, recorder, last, handed, crashes>>

MutGenerateNameOtherSlot(slot) ==
  file_name' = [file_name EXCEPT ![1 - slot] = save_date]

record_file_generate_name(slot) ==
  file_name' = [file_name EXCEPT ![slot] = save_date]

MutPostsNoToken(slot) == save_index' = slot /\ handed' = handed \union {cur} /\ manage_sem' = manage_sem

record_file_wakeup(slot) == /\ save_index' = slot
                            /\ manage_sem' = manage_sem + 1
                            /\ handed' = handed \union {cur}

OtherSlot(slot) == IF slot = 0 THEN 1 ELSE 0

(* The segment's time is up: hand its slot over and go on in the other.    *)
switch_record_file ==
  /\ rec_pc = "recording"
  /\ use_index' = OtherSlot(use_index)
  /\ cur' = NoSegment
  /\ record_file_generate_name(use_index)
  /\ record_file_wakeup(use_index)
  /\ rec_pc' = "switched"
  /\ UNCHANGED <<card, streams, save_date, fp_mutex, flusher, flush_finish,
                 last, synced, crashes>>

(* generate_record_fragment, the three answers of the card.                *)
stop_mounted ==
  /\ rec_pc = "recording"
  /\ cur' = NoSegment
  /\ record_file_generate_name(use_index)
  /\ record_file_wakeup(use_index)
  /\ rec_pc' = "waiting"
  /\ UNCHANGED <<card, streams, save_date, fp_mutex, flusher, use_index,
                 flush_finish, last, synced, crashes>>

stop_flushed == /\ rec_pc = "waiting"
                /\ flush_finish
                /\ flush_finish' = FALSE
                /\ rec_pc' = "idle"
                /\ UNCHANGED <<card, streams, naming, save_index, manage_sem,
                               fp_mutex, flusher, use_index, cur, history>>

stop_not_mounted ==
  /\ rec_pc = "recording"
  /\ "unmounted" \in Faults
  /\ cur' = NoSegment
  /\ name_tmp' = IF name_tmp = NoSegment THEN NoSegment ELSE Detached
  /\ rec_pc' = "idle"
  /\ UNCHANGED <<card, fp, naming, save_index, manage_sem, fp_mutex, flusher,
                 use_index, flush_finish, history>>

stop_unplugged == /\ rec_pc = "recording"
                  /\ cur' = NoSegment
                  /\ save_index' = use_index
                  /\ rec_pc' = "closing"
                  /\ UNCHANGED <<card, streams, naming, manage_sem, fp_mutex,
                                 flusher, use_index, flush_finish, history>>

record_file_close ==
  /\ rec_pc = "closing"
  /\ fp_mutex = "free"
  /\ fp' = [fp EXCEPT ![use_index] = NoSegment]
  /\ name_tmp' = NoSegment
  /\ rec_pc' = "idle"
  /\ UNCHANGED <<card, naming, save_index, manage_sem, fp_mutex, flusher,
                 use_index, cur, flush_finish, history>>

Recorder == \/ record_file_open
            \/ record_file_open_fails
            \/ record_file_opened
            \/ open_mux_handle
            \/ record_file_delete
            \/ add_video_to_mux
            \/ record_file_update_duration
            \/ switch_record_file
            \/ stop_mounted
            \/ stop_flushed
            \/ stop_not_mounted
            \/ stop_unplugged
            \/ record_file_close

-----------------------------------------------------------------------------
(* The flush thread.  flush_record_file reads save_index before it has the *)
(* lock; the helpers it calls read save_index again.                       *)

record_file_main == /\ flush_pc = "waiting"
                    /\ manage_sem > 0
                    /\ manage_sem' = manage_sem - 1
                    /\ index' = save_index
                    /\ flush_pc' = "locking"
                    /\ UNCHANGED <<card, streams, naming, save_index, fp_mutex,
                                   recorder, history>>

flush_record_file ==
  /\ flush_pc = "locking"
  /\ fp_mutex = "free"
  /\ fp_mutex' = "flusher"
  /\ flush_pc' = IF fp[index] # NoSegment THEN "sync" ELSE "end"
  /\ UNCHANGED <<card, streams, naming, save_index, manage_sem, index, recorder,
                 history>>

(* fsync takes long: save_index may change before stat_record_file.  A     *)
(* save_index whose stream is NULL kills the process, in fileno().         *)
sync_record_file ==
  /\ flush_pc = "sync"
  /\ fp[save_index] # NoSegment
  /\ fp' = [fp EXCEPT ![save_index] = NoSegment]
  /\ flush_pc' = "stat"
  /\ UNCHANGED <<card, name_tmp, naming, save_index, manage_sem, fp_mutex, index,
                 recorder, history>>

MutTooSmallReversed(seg) == seg \in big

TooSmall(seg) == seg \notin big          \* less than 100 KB

MutGenerateCopies(slot) ==
  /\ saved' = saved \union {[seg |-> tmp[slot], name |-> file_name[slot]]}
  /\ tmp' = tmp

(* update_used_size and add_file_to_list are DvrSpace's matter.            *)
generate_record_file(slot) ==
  /\ saved' = saved \union {[seg |-> tmp[slot], name |-> file_name[slot]]}
  /\ tmp' = [tmp EXCEPT ![slot] = NoSegment]

stat_record_file ==
  /\ flush_pc = "stat"
  /\ flush_pc' = "end"
  /\ LET seg == tmp[save_index] IN
       \/ /\ seg = NoSegment      \* stat fails, remove and rename find nothing
          /\ UNCHANGED <<tmp, saved>>
       \/ /\ seg # NoSegment
          /\ TooSmall(seg)
          /\ tmp' = [tmp EXCEPT ![save_index] = NoSegment]
          /\ UNCHANGED saved
       \/ /\ seg # NoSegment
          /\ ~TooSmall(seg)
          /\ generate_record_file(save_index)
       \/ /\ seg # NoSegment
          /\ ~TooSmall(seg)
          /\ "full" \in Faults
          /\ UNCHANGED <<tmp, saved>>
  /\ UNCHANGED <<info, big, streams, naming, save_index, manage_sem, fp_mutex,
                 index, recorder, history>>

MutNameTmpKeptOpen == UNCHANGED <<info, name_tmp>>

RemoveInfoFile == /\ IF name_tmp # NoSegment THEN info' = Absent ELSE UNCHANGED info
                  /\ name_tmp' = NoSegment

(* Close the info file, tell the recorder, unlock.                         *)
flush_record_file_end ==
  /\ flush_pc = "end"
  /\ RemoveInfoFile
  /\ fp' = [fp EXCEPT ![index] = NoSegment]
  /\ flush_cb(TRUE)
  /\ fp_mutex' = "free"
  /\ flush_pc' = "waiting"
  /\ UNCHANGED <<tmp, saved, big, naming, save_index, manage_sem, index,
                 use_index, cur, rec_pc, history>>

Flusher == \/ record_file_main
           \/ flush_record_file
           \/ sync_record_file
           \/ stat_record_file
           \/ flush_record_file_end

-----------------------------------------------------------------------------
(* Death and restart.                                                      *)

(* The static structures are as at the start, the card as it was.          *)
Restart == /\ fp' = EmptySlots
           /\ name_tmp' = NoSegment
           /\ file_name' = EmptySlots
           /\ save_date' = NoSegment
           /\ save_index' = 0
           /\ manage_sem' = 0
           /\ fp_mutex' = "free"
           /\ index' = 0
           /\ use_index' = 0
           /\ cur' = NoSegment
           /\ flush_finish' = FALSE
           /\ flush_pc' = "off"
           /\ rec_pc' = "boot"
           /\ UNCHANGED <<card, last, synced, handed>>

Die == /\ rec_pc # "boot"
       /\ crashes < MaxCrash
       /\ crashes' = crashes + 1
       /\ Restart

(* sync_record_file on a NULL stream.                                      *)
Segfault == /\ flush_pc = "sync"
            /\ fp[save_index] = NoSegment
            /\ crashes' = crashes
            /\ Restart

(* ak_dvr_file_exit follows ak_dvr_record_exit.  run_flag is checked after *)
(* the wait: a token that is still there is thrown away.                   *)
ak_dvr_file_exit == /\ rec_pc = "idle"
                    /\ flush_pc = "waiting"
                    /\ Restart
                    /\ UNCHANGED crashes

PoweroffSlot == CHOOSE i \in Slot : /\ tmp[i] # NoSegment
                                    /\ \A j \in Slot : tmp[j] # NoSegment => i <= j

(* The first slot with a temporary file is saved under the info file's     *)
(* date, removed if small, or left alone where ak_mux_fix_file cannot      *)
(* repair it: here, only when it is small.  The info file stays, and       *)
(* record_file is put back as it was.                                      *)
check_poweroff_file ==
  IF \/ tmp = EmptySlots
     \/ info = Absent
  THEN UNCHANGED <<tmp, saved>>
  ELSE LET i == PoweroffSlot IN
       \/ /\ TooSmall(tmp[i])
          /\ \/ tmp' = [tmp EXCEPT ![i] = NoSegment]
             \/ UNCHANGED tmp
          /\ UNCHANGED saved
       \/ /\ ~TooSmall(tmp[i])
          /\ saved' = saved \union {[seg |-> tmp[i], name |-> info]}
          /\ tmp' = [tmp EXCEPT ![i] = NoSegment]

ak_dvr_file_init == /\ rec_pc = "boot"
                    /\ check_poweroff_file
                    /\ rec_pc' = "idle"
                    /\ flush_pc' = "waiting"
                    /\ UNCHANGED <<info, big, streams, naming, save_index,
                                   manage_sem, fp_mutex, index, use_index, cur,
                                   flush_finish, history>>

Next == \/ Recorder
        \/ Flusher
        \/ Die
        \/ Segfault
        \/ ak_dvr_file_exit
        \/ ak_dvr_file_init

(* The flush thread and a stop that waits for it are scheduled.            *)
Fairness == WF_vars(Flusher) /\ WF_vars(stop_flushed)

Spec == Init /\ [][Next]_vars
FairSpec == Spec /\ Fairness

-----------------------------------------------------------------------------
TypeOK ==
  /\ tmp \in [Slot -> Segment \union {NoSegment}]
  /\ info \in Segment \union {NoSegment, Absent}
  /\ saved \subseteq [seg : Segment, name : Segment \union {NoSegment}]
  /\ big \subseteq Segment
  /\ fp \in [Slot -> Segment \union {NoSegment}]
  /\ name_tmp \in Segment \union {NoSegment, Detached}
  /\ file_name \in [Slot -> Segment \union {NoSegment}]
  /\ save_date \in 0..MaxSegment
  /\ save_index \in Slot
  /\ manage_sem \in Nat
  /\ fp_mutex \in {"free", "recorder", "flusher"}
  /\ flush_pc \in {"off", "waiting", "locking", "sync", "stat", "end"}
  /\ index \in Slot
  /\ use_index \in Slot
  /\ cur \in Segment \union {NoSegment}
  /\ flush_finish \in BOOLEAN
  /\ rec_pc \in {"boot", "idle", "naming", "muxing", "recording", "switched",
                 "waiting", "closing"}
  /\ last \in 0..MaxSegment
  /\ synced \subseteq Segment
  /\ handed \subseteq Segment
  /\ crashes \in 0..MaxCrash

SavedSegments == {r.seg : r \in saved}

(* A segment of which record_file_wakeup was told is saved, or still in    *)
(* its temporary file: neither the next open of the slot, nor the other    *)
(* slot's flush, nor a crash and the recovery after it make away with it.  *)
HandedOverSurvives ==
  \A s \in handed \intersect big :
    s \in SavedSegments \/ \E i \in Slot : tmp[i] = s

(* A file of rec_path bears the date of the segment in it, whether the     *)
(* flush thread saved it or check_poweroff_file did; only a segment that   *)
(* died in its first second may come back without a date.                  *)
SavedUnderItsDate ==
  \A r \in saved : \/ r.name = r.seg
                   \/ r.name = NoSegment /\ r.seg \notin synced

(* Should the process die now, check_poweroff_file would save the segment  *)
(* being recorded, under its own date.                                     *)
Recoverable ==
  rec_pc = "recording" /\ cur \in big \intersect synced =>
    /\ tmp[PoweroffSlot] = cur
    /\ info = cur

(* Nothing is lost or misnamed, neither what was handed over nor what is   *)
(* being recorded, and the state stays one the code can be in.             *)
NothingIsLost == TypeOK /\ HandedOverSurvives /\ SavedUnderItsDate /\ Recoverable

(* When ak_dvr_record_stop goes on, its segment has been flushed: the next *)
(* start opens the same slot again.                                        *)
StopWaitsForFlush ==
  [][rec_pc = "waiting" /\ rec_pc' = "idle" =>
       fp[use_index] = NoSegment /\ manage_sem = 0 /\ flush_pc = "waiting"]_vars

(* Whatever goes wrong, no segment is saved a second time.                 *)
SavedOnce == [][\A r \in saved' \ saved : r.seg \notin SavedSegments]_vars

(* A stop comes back, unless the process dies first.                       *)
StopReturns == rec_pc = "waiting" ~> rec_pc \in {"idle", "boot"}

-----------------------------------------------------------------------------
(* How far a segment has come, seen from outside.                          *)
BeingRecorded(s) == s = last /\ rec_pc \in {"naming", "muxing", "recording"}
ToBeSaved(s) == \/ s \in handed
                \/ /\ rec_pc = "boot"
                   /\ s \in big \intersect synced
                   /\ \E i \in Slot : tmp[i] = s
StageOf(s) == IF s > last THEN "none"
              ELSE IF s \in SavedSegments THEN "saved"
              ELSE IF BeingRecorded(s) THEN "recording"
              ELSE IF ToBeSaved(s) THEN "finished"
              ELSE "left"

Store == INSTANCE SegmentStore WITH up <- rec_pc # "boot",
                                    stage <- [s \in Segment |-> StageOf(s)],
                                    long <- big, noted <- synced

(* Slots, streams, flush thread and recovery together do what the recorder *)
(* relies on: what was finished gets saved while the process lives, by the *)
(* flush thread, and what a death interrupted by the next start, whatever  *)
(* the threads and the death met each other with.                          *)
ImplementsStore == Store!Spec
=============================================================================
