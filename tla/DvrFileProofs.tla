--------------------------- MODULE DvrFileProofs ---------------------------
(***************************************************************************)
(* What holds of DvrFile however many segments and deaths there are.       *)
(* With every mishap: the temporary files and the saved files never share  *)
(* a segment, so no segment is saved twice, and the state keeps its type.  *)
(* When the flush thread is not late for its lock: recorder and flush      *)
(* thread take turns, so a stop waits for its flush, whatever becomes of   *)
(* the card.  Without any mishap: nothing handed over is lost, and the     *)
(* files are the store of SegmentStore.                                    *)
(***************************************************************************)
EXTENDS DvrFile, TLAPS

(* The part of the type invariant the argument needs.                      *)
CardTypeOK == /\ tmp \in [Slot -> Nat]
              /\ last \in Nat
              /\ save_index \in Slot
              /\ use_index \in Slot
              /\ \A r \in saved : r.seg \in Nat

(* A temporary file was opened by some open so far ...                     *)
TmpIsOld == \A i \in Slot : tmp[i] <= last

(* ... the two are never of one segment ...                                *)
TmpsDiffer == tmp[0] = tmp[1] => tmp[0] = NoSegment

(* ... and what was saved is in neither, nor yet to come.                  *)
SavedIsGone ==
  \A r \in saved : /\ r.seg # NoSegment
                   /\ r.seg <= last
                   /\ \A i \in Slot : tmp[i] # r.seg

CardInv == CardTypeOK /\ TmpIsOld /\ TmpsDiffer /\ SavedIsGone

(* What a step may do to the card: save a slot's segment, remove it, start *)
(* a new one in it, or nothing.                                            *)
Saves(i) == /\ tmp[i] # NoSegment
            /\ \E name : saved' = saved \union {[seg |-> tmp[i], name |-> name]}
            /\ tmp' = [tmp EXCEPT ![i] = NoSegment]
Removes(i) == /\ saved' = saved
              /\ tmp' = [tmp EXCEPT ![i] = NoSegment]
Opens(i) == /\ saved' = saved
            /\ last' = last + 1
            /\ tmp' = [tmp EXCEPT ![i] = last + 1]

CardStep == \/ UNCHANGED <<tmp, saved, last>>
            \/ \E i \in Slot : Saves(i) /\ last' = last
            \/ \E i \in Slot : Removes(i) /\ last' = last
            \/ \E i \in Slot : Opens(i)

(* The slot check_poweroff_file picks is one with a temporary file.        *)
LEMMA PoweroffSlotIsSlot ==
  ASSUME tmp \in [Slot -> Nat], tmp # EmptySlots
  PROVE  PoweroffSlot \in Slot /\ tmp[PoweroffSlot] # NoSegment
<1>1. \E i \in Slot : tmp[i] # NoSegment
  BY DEF EmptySlots
<1>2. \E i \in Slot : tmp[i] # NoSegment /\ \A j \in Slot : tmp[j] # NoSegment => i <= j
  BY <1>1 DEF Slot
<1> QED BY <1>2 DEF PoweroffSlot

(* Every step of the recorder is one of the card's steps.                  *)
LEMMA RecorderStep ==
  ASSUME CardInv, Recorder
  PROVE  CardStep /\ save_index' \in Slot /\ use_index' \in Slot
<1> USE DEF CardInv, CardTypeOK
<1>1. CASE record_file_open
  BY <1>1 DEF record_file_open, CardStep, Opens
<1>2. CASE record_file_open_fails
  BY <1>2 DEF record_file_open_fails, CardStep, Removes, history
<1>3. CASE record_file_opened
  BY <1>3 DEF record_file_opened, CardStep, history
<1>4. CASE open_mux_handle
  BY <1>4 DEF open_mux_handle, CardStep, card, history
<1>5. CASE record_file_delete
  BY <1>5 DEF record_file_delete, CardStep, Removes, history
<1>6. CASE add_video_to_mux
  BY <1>6 DEF add_video_to_mux, CardStep, recorder, history
<1>7. CASE record_file_update_duration
  BY <1>7 DEF record_file_update_duration, CardStep, recorder
<1>8. CASE switch_record_file
  BY <1>8 DEF switch_record_file, record_file_wakeup, OtherSlot, Slot, CardStep, card
<1>9. CASE stop_mounted
  BY <1>9 DEF stop_mounted, record_file_wakeup, CardStep, card
<1>10. CASE stop_flushed
  BY <1>10 DEF stop_flushed, CardStep, card, history
<1>11. CASE stop_not_mounted
  BY <1>11 DEF stop_not_mounted, CardStep, card, history
<1>12. CASE stop_unplugged
  BY <1>12 DEF stop_unplugged, CardStep, card, history
<1>13. CASE record_file_close
  BY <1>13 DEF record_file_close, CardStep, card, history
<1> QED
  BY <1>1, <1>2, <1>3, <1>4, <1>5, <1>6, <1>7, <1>8, <1>9, <1>10, <1>11, <1>12,
     <1>13 DEF Recorder

(* Every step of the flush thread is one of the card's steps.              *)
LEMMA FlusherStep ==
  ASSUME CardInv, Flusher
  PROVE  CardStep /\ save_index' \in Slot /\ use_index' \in Slot
<1> USE DEF CardInv, CardTypeOK
<1>1. CASE record_file_main
  BY <1>1 DEF record_file_main, CardStep, card, recorder, history
<1>2. CASE flush_record_file
  BY <1>2 DEF flush_record_file, CardStep, card, recorder, history
<1>3. CASE sync_record_file
  BY <1>3 DEF sync_record_file, CardStep, card, recorder, history
<1>4. CASE stat_record_file
  <2>1. save_index' = save_index /\ use_index' = use_index /\ last' = last
    BY <1>4 DEF stat_record_file, recorder, history
  <2>2. \/ UNCHANGED <<tmp, saved>>
        \/ Removes(save_index)
        \/ tmp[save_index] # NoSegment /\ generate_record_file(save_index)
    BY <1>4 DEF stat_record_file, Removes
  <2>3. CASE tmp[save_index] # NoSegment /\ generate_record_file(save_index)
    <3>1. Saves(save_index)
      BY <2>3 DEF generate_record_file, Saves
    <3> QED BY <2>1, <3>1 DEF CardStep
  <2> QED BY <2>1, <2>2, <2>3 DEF CardStep
<1>5. CASE flush_record_file_end
  BY <1>5 DEF flush_record_file_end, CardStep, history
<1> QED BY <1>1, <1>2, <1>3, <1>4, <1>5 DEF Flusher

(* The recovery of ak_dvr_file_init is one of the card's steps.            *)
LEMMA InitStep ==
  ASSUME CardInv, ak_dvr_file_init
  PROVE  CardStep /\ save_index' \in Slot /\ use_index' \in Slot
<1>1. save_index' = save_index /\ use_index' = use_index /\ last' = last
  BY DEF ak_dvr_file_init, history
<1>2. CASE tmp = EmptySlots \/ info = Absent
  BY <1>1, <1>2 DEF ak_dvr_file_init, check_poweroff_file, CardStep, CardInv, CardTypeOK
<1>3. CASE ~(tmp = EmptySlots \/ info = Absent)
  <2> DEFINE i == PoweroffSlot
  <2>1. i \in Slot /\ tmp[i] # NoSegment
    BY <1>3, PoweroffSlotIsSlot DEF CardInv, CardTypeOK
  <2>2. check_poweroff_file
    BY DEF ak_dvr_file_init
  <2>3. \/ UNCHANGED <<tmp, saved>>
        \/ Removes(i)
        \/ Saves(i)
    BY <1>3, <2>1, <2>2 DEF check_poweroff_file, Removes, Saves
  <2> HIDE DEF i
  <2> QED BY <1>1, <2>1, <2>3 DEF CardStep, CardInv, CardTypeOK
<1> QED BY <1>2, <1>3

(* Every step of the system is one of the card's steps.                    *)
LEMMA StepsOfTheCard ==
  ASSUME CardInv, [Next]_vars
  PROVE  CardStep /\ save_index' \in Slot /\ use_index' \in Slot
<1>1. CASE Restart /\ UNCHANGED <<card, last>>
  BY <1>1 DEF Restart, card, CardStep, Slot
<1>2. CASE Die
  BY <1>1, <1>2 DEF Die, Restart
<1>3. CASE Segfault
  BY <1>1, <1>3 DEF Segfault, Restart
<1>4. CASE ak_dvr_file_exit
  BY <1>1, <1>4 DEF ak_dvr_file_exit, Restart
<1>5. CASE UNCHANGED vars
  BY <1>5 DEF vars, card, recorder, history, CardStep, CardInv, CardTypeOK
<1> QED
  BY <1>2, <1>3, <1>4, <1>5, RecorderStep, FlusherStep, InitStep DEF Next

(* A step of the card keeps the card's invariant.                          *)
LEMMA CardStepKeeps ==
  ASSUME CardInv, CardStep, save_index' \in Slot, use_index' \in Slot
  PROVE  CardInv'
<1> USE DEF CardInv, CardTypeOK, TmpIsOld, TmpsDiffer, SavedIsGone, NoSegment
<1>1. CASE UNCHANGED <<tmp, saved, last>>
  BY <1>1
<1>2. CASE \E i \in Slot : Saves(i) /\ last' = last
  <2>1. PICK i \in Slot : Saves(i) /\ last' = last
    BY <1>2
  <2>2. PICK name : saved' = saved \union {[seg |-> tmp[i], name |-> name]}
    BY <2>1 DEF Saves
  <2>3. tmp[i] # 0 /\ tmp' = [tmp EXCEPT ![i] = 0]
    BY <2>1 DEF Saves
  <2>4. CardTypeOK' /\ TmpIsOld' /\ TmpsDiffer'
    BY <2>1, <2>2, <2>3 DEF Slot
  <2>5. SavedIsGone'
    <3> SUFFICES ASSUME NEW r \in saved'
                 PROVE  /\ r.seg # 0
                        /\ r.seg <= last'
                        /\ \A j \in Slot : tmp'[j] # r.seg
      OBVIOUS
    <3>1. CASE r \in saved
      BY <2>1, <2>3, <3>1
    <3>2. CASE r.seg = tmp[i]
      BY <2>1, <2>3, <3>2 DEF Slot
    <3> QED BY <2>2, <3>1, <3>2
  <2> QED BY <2>4, <2>5
<1>3. CASE \E i \in Slot : Removes(i) /\ last' = last
  BY <1>3 DEF Removes, Slot
<1>4. CASE \E i \in Slot : Opens(i)
  <2>1. PICK i \in Slot : Opens(i)
    BY <1>4
  <2>2. CardTypeOK' /\ TmpIsOld' /\ TmpsDiffer'
    BY <2>1 DEF Opens, Slot
  <2>3. SavedIsGone'
    BY <2>1 DEF Opens
  <2> QED BY <2>2, <2>3
<1> QED BY <1>1, <1>2, <1>3, <1>4 DEF CardStep

(* A step of the card saves only what was not saved before.                *)
LEMMA CardStepSavesOnce ==
  ASSUME CardInv, CardStep, NEW r \in saved' \ saved
  PROVE  r.seg \notin SavedSegments
<1>1. PICK i \in Slot : Saves(i)
  BY DEF CardStep, Removes, Opens
<1>2. r.seg = tmp[i]
  BY <1>1 DEF Saves
<1> QED BY <1>2 DEF SavedSegments, CardInv, SavedIsGone

LEMMA CardInvInit == Init => CardInv
BY DEF Init, CardInv, CardTypeOK, TmpIsOld, TmpsDiffer, SavedIsGone, EmptySlots, Slot, NoSegment

(* The card's invariant: the temporary files and the saved files never     *)
(* share a segment, through any interleaving of recorder and flush thread, *)
(* any number of deaths and every mishap.                                  *)
THEOREM CardInvAlways == Spec => []CardInv
<1>1. Init => CardInv
  BY CardInvInit
<1>2. CardInv /\ [Next]_vars => CardInv'
  BY StepsOfTheCard, CardStepKeeps
<1> QED BY <1>1, <1>2, PTL DEF Spec

(* Whatever goes wrong, generate_record_file and check_poweroff_file save  *)
(* no segment a second time.                                               *)
THEOREM SavedOnceAlways == Spec => SavedOnce
<1>1. CardInv /\ [Next]_vars =>
        [\A r \in saved' \ saved : r.seg \notin SavedSegments]_vars
  BY StepsOfTheCard, CardStepSavesOnce
<1> QED BY <1>1, CardInvAlways, PTL DEF Spec, SavedOnce

-----------------------------------------------------------------------------
(* The type of the state, with every mishap.                               *)

(* The recorder names and fills a segment only after it has begun one.     *)
TypeInv == /\ TypeOK
           /\ rec_pc \in {"naming", "muxing"} => save_date # NoSegment
           /\ rec_pc = "recording" => cur # NoSegment

LEMMA RecorderKeepsType == ASSUME TypeInv, Recorder PROVE TypeInv'
<1> USE MaxSegmentAssumption DEF TypeInv, TypeOK, Slot, Segment, NoSegment, Absent, Detached
<1>1. CASE record_file_open
  <2>1. last' = last + 1 /\ last' \in 1..MaxSegment
    BY <1>1 DEF record_file_open, LockForOpen
  <2>2. tmp' = [tmp EXCEPT ![use_index] = last'] /\ fp' = [fp EXCEPT ![use_index] = last']
    BY <1>1 DEF record_file_open
  <2>3. tmp' \in [Slot -> Segment \union {NoSegment}] /\ fp' \in [Slot -> Segment \union {NoSegment}]
    BY <2>1, <2>2
  <2>4. flush_finish' \in BOOLEAN /\ fp_mutex' = "recorder" /\ rec_pc' = "naming" /\ save_date' = last'
    BY <1>1 DEF record_file_open, flush_cb
  <2> QED BY <1>1, <2>1, <2>3, <2>4 DEF record_file_open, flusher
<1>2. CASE record_file_open_fails
  <2>1. tmp' = tmp \/ tmp' = [tmp EXCEPT ![use_index] = NoSegment]
    BY <1>2 DEF record_file_open_fails
  <2>2. save_date' = save_date \/ (save_date' = last + 1 /\ last < MaxSegment)
    BY <1>2 DEF record_file_open_fails, LockForOpen
  <2>3. flush_finish' \in BOOLEAN
    BY <1>2 DEF record_file_open_fails, flush_cb
  <2> QED BY <1>2, <2>1, <2>2, <2>3 DEF record_file_open_fails, flusher, history
<1>3. CASE record_file_opened
  BY <1>3 DEF record_file_opened, create_name_tmp_file, naming, flusher, history
<1>4. CASE open_mux_handle
  BY <1>4 DEF open_mux_handle, card, streams, naming, flusher, history
<1>5. CASE record_file_delete
  BY <1>5 DEF record_file_delete, naming, flusher, history
<1>6. CASE add_video_to_mux
  BY <1>6 DEF add_video_to_mux, streams, naming, flusher, recorder, history
<1>7. CASE record_file_update_duration
  BY <1>7 DEF record_file_update_duration, streams, naming, flusher, recorder
<1>8. CASE switch_record_file
  BY <1>8 DEF switch_record_file, record_file_generate_name, record_file_wakeup, OtherSlot,
              card, streams, flusher
<1>9. CASE stop_mounted
  BY <1>9 DEF stop_mounted, record_file_generate_name, record_file_wakeup, card, streams, flusher
<1>10. CASE stop_flushed
  BY <1>10 DEF stop_flushed, card, streams, naming, flusher, history
<1>11. CASE stop_not_mounted
  BY <1>11 DEF stop_not_mounted, card, naming, flusher, history
<1>12. CASE stop_unplugged
  BY <1>12 DEF stop_unplugged, card, streams, naming, flusher, history
<1>13. CASE record_file_close
  BY <1>13 DEF record_file_close, card, naming, flusher, history
<1> QED
  BY <1>1, <1>2, <1>3, <1>4, <1>5, <1>6, <1>7, <1>8, <1>9, <1>10, <1>11, <1>12,
     <1>13 DEF Recorder

LEMMA FlusherKeepsType == ASSUME TypeInv, Flusher PROVE TypeInv'
<1> USE MaxSegmentAssumption DEF TypeInv, TypeOK, Slot, Segment, NoSegment, Absent, Detached
<1>1. CASE record_file_main
  BY <1>1 DEF record_file_main, card, streams, naming, recorder, history
<1>2. CASE flush_record_file
  BY <1>2 DEF flush_record_file, card, streams, naming, recorder, history
<1>3. CASE sync_record_file
  BY <1>3 DEF sync_record_file, card, naming, recorder, history
<1>4. CASE stat_record_file
  BY <1>4 DEF stat_record_file, generate_record_file, streams, naming, recorder, history
<1>5. CASE flush_record_file_end
  BY <1>5 DEF flush_record_file_end, RemoveInfoFile, flush_cb, naming, history
<1> QED BY <1>1, <1>2, <1>3, <1>4, <1>5 DEF Flusher

LEMMA RestartKeepsType ==
  ASSUME TypeInv, Restart, crashes' \in 0..MaxCrash
  PROVE  TypeInv'
<1>1. flush_finish' \in BOOLEAN
  BY DEF Restart
<1>2. EmptySlots \in [Slot -> Segment \union {NoSegment}]
  BY DEF EmptySlots
<1>3. UNCHANGED <<tmp, info, saved, big, last, synced, handed>>
  BY DEF Restart, card
<1> QED BY <1>1, <1>2, <1>3, MaxSegmentAssumption DEF TypeInv, TypeOK, Restart, Slot, NoSegment

LEMMA InitKeepsType == ASSUME TypeInv, ak_dvr_file_init PROVE TypeInv'
<1> DEFINE i == PoweroffSlot
<1>1. /\ UNCHANGED <<info, big, fp, name_tmp, file_name, save_date, save_index, manage_sem,
                     fp_mutex, index, use_index, cur, flush_finish, last, synced, handed, crashes>>
      /\ rec_pc' = "idle" /\ flush_pc' = "waiting"
  BY DEF ak_dvr_file_init, streams, naming, history
<1>0. tmp \in [Slot -> Nat]
  BY DEF TypeInv, TypeOK, Segment, NoSegment
<1>2. \/ UNCHANGED <<tmp, saved>>
      \/ /\ i \in Slot /\ tmp[i] # NoSegment /\ info # Absent
         /\ tmp' = [tmp EXCEPT ![i] = NoSegment]
         /\ saved' = saved \/ saved' = saved \union {[seg |-> tmp[i], name |-> info]}
  BY <1>0, PoweroffSlotIsSlot DEF ak_dvr_file_init, check_poweroff_file
<1> HIDE DEF i
<1>3. tmp' \in [Slot -> Segment \union {NoSegment}] /\ saved' \subseteq [seg : Segment, name : Segment \union {NoSegment}]
  BY <1>2 DEF TypeInv, TypeOK, NoSegment, Absent
<1> QED BY <1>1, <1>3 DEF TypeInv, TypeOK

LEMMA TypeInvInit == Init => TypeInv
<1> SUFFICES ASSUME Init PROVE TypeInv
  OBVIOUS
<1>1. flush_finish \in BOOLEAN
  BY DEF Init
<1>2. EmptySlots \in [Slot -> Segment \union {NoSegment}]
  BY DEF EmptySlots
<1> QED BY <1>1, <1>2, MaxSegmentAssumption, MaxCrashAssumption
        DEF Init, TypeInv, TypeOK, Slot, NoSegment, Absent

LEMMA TypeInvStep == ASSUME TypeInv, [Next]_vars PROVE TypeInv'
<1>1. CASE Die
  BY <1>1, RestartKeepsType, MaxCrashAssumption DEF Die, TypeInv, TypeOK
<1>2. CASE Segfault
  BY <1>2, RestartKeepsType DEF Segfault, TypeInv, TypeOK
<1>3. CASE ak_dvr_file_exit
  BY <1>3, RestartKeepsType DEF ak_dvr_file_exit, TypeInv, TypeOK
<1>4. CASE UNCHANGED vars
  BY <1>4 DEF vars, card, streams, naming, flusher, recorder, history, TypeInv, TypeOK
<1> QED BY <1>1, <1>2, <1>3, <1>4, RecorderKeepsType, FlusherKeepsType, InitKeepsType DEF Next

(* The state keeps its type through any interleaving, any number of deaths *)
(* and every mishap.                                                       *)
THEOREM TypeOKAlways == Spec => []TypeOK
<1>1. TypeInv => TypeOK
  BY DEF TypeInv
<1> QED BY <1>1, TypeInvInit, TypeInvStep, PTL DEF Spec

-----------------------------------------------------------------------------
(* Without mishaps recorder and flush thread take turns.                   *)

AtWork == rec_pc \in {"naming", "muxing", "recording", "closing"}
HandedOver == rec_pc \in {"switched", "waiting"}
Flushed == HandedOver /\ flush_finish
Flushing == HandedOver /\ ~flush_finish
HasLast == AtWork \/ (Flushing /\ flush_pc # "end")

(* The slot of the segment begun last.                                     *)
WorkSlot == IF HandedOver THEN save_index ELSE use_index

(* The flush thread runs between a handover and its flush_cb(AK_TRUE), and *)
(* flushes the slot it was told of.                                        *)
Turns ==
  /\ rec_pc = "boot" => flush_pc = "off" /\ manage_sem = 0 /\ use_index = 0
  /\ rec_pc = "idle" \/ AtWork \/ Flushed => manage_sem = 0 /\ flush_pc = "waiting"
  /\ Flushing => \/ manage_sem = 1 /\ flush_pc = "waiting"
                 \/ /\ manage_sem = 0 /\ index = save_index
                    /\ flush_pc \in {"locking", "sync", "stat", "end"}
  /\ AtWork => ~flush_finish
  /\ fp_mutex = IF rec_pc = "naming" THEN "recorder"
                ELSE IF flush_pc \in {"sync", "stat", "end"} THEN "flusher" ELSE "free"
  /\ rec_pc = "switched" => save_index = OtherSlot(use_index)
  /\ rec_pc = "waiting" => save_index = use_index

(* One stream is open at a time, that of the last segment, and the info    *)
(* file bears its date.                                                    *)
Writes(i) == /\ AtWork \/ (Flushing /\ flush_pc \in {"waiting", "locking", "sync"})
             /\ i = WorkSlot
OneStream ==
  /\ \A i \in Slot : fp[i] = IF Writes(i) THEN last ELSE NoSegment
  /\ name_tmp = IF Flushing \/ (AtWork /\ rec_pc # "naming") THEN last ELSE NoSegment
  /\ AtWork => save_date = last
  /\ Flushing => file_name[save_index] = last
  /\ cur = IF rec_pc = "recording" THEN last ELSE NoSegment

(* Nothing is noted of a segment before it is begun.                       *)
Begun ==
  /\ AtWork \/ HandedOver => last # NoSegment
  /\ \A s \in big \union synced \union handed : s <= last
  /\ AtWork => last \notin handed
  /\ HandedOver => last \in handed
  /\ rec_pc \in {"naming", "muxing"} => last \notin big \union synced

(* A temporary file worth saving is the last segment's, the first that     *)
(* check_poweroff_file finds, and the date is in rec_info_file.            *)
DateOf(s) == IF s \in synced THEN s ELSE NoSegment
WorthSaving(i) == /\ info = DateOf(tmp[i])
                  /\ rec_pc # "boot" => i = WorkSlot /\ tmp[i] = last
                  /\ rec_pc = "idle" => tmp[i] \notin handed
                  /\ i = 1 => tmp[0] = NoSegment
OneToSave ==
  /\ (AtWork /\ rec_pc # "naming") \/ Flushing => info = DateOf(last)
  /\ HasLast => tmp[WorkSlot] = last
  /\ HandedOver /\ ~HasLast => tmp[WorkSlot] = NoSegment
  /\ \A i \in Slot : tmp[i] \in big => WorthSaving(i)
  /\ WorkSlot = 1 => tmp[0] = NoSegment

TurnInv == Turns /\ OneStream /\ Begun /\ OneToSave
FileInv == TypeInv /\ CardInv /\ TurnInv

(* Each step of the recorder keeps the turns.                              *)
LEMMA RecorderTakesTurns == ASSUME Faults = {}, FileInv, Recorder PROVE TurnInv'
<1> USE DEF FileInv, TurnInv, TypeInv, TypeOK, CardInv, TmpsDiffer, AtWork, HandedOver, Flushed,
            Flushing, HasLast, WorkSlot, Slot, Segment, NoSegment, OtherSlot, Turns, OneStream,
            Writes, Begun, OneToSave, WorthSaving, DateOf
<1>1. CASE record_file_open
  BY <1>1 DEF record_file_open, LockForOpen, FlushHadItsTurn, flush_cb, flusher
<1>2. CASE record_file_open_fails
  BY <1>2 DEF record_file_open_fails, LockForOpen, FlushHadItsTurn, flush_cb, flusher, history
<1>3. CASE record_file_opened
  BY <1>3 DEF record_file_opened, create_name_tmp_file, naming, flusher, history
<1>4. CASE open_mux_handle
  BY <1>4 DEF open_mux_handle, card, streams, naming, flusher, history
<1>5. CASE add_video_to_mux
  BY <1>5 DEF add_video_to_mux, streams, naming, flusher, recorder, history
<1>6. CASE record_file_update_duration
  BY <1>6 DEF record_file_update_duration, streams, naming, flusher, recorder
<1>7. CASE switch_record_file
  BY <1>7 DEF switch_record_file, record_file_generate_name, record_file_wakeup, card, streams, flusher
<1>8. CASE stop_mounted
  BY <1>8 DEF stop_mounted, record_file_generate_name, record_file_wakeup, card, streams, flusher
<1>9. CASE stop_flushed
  BY <1>9 DEF stop_flushed, card, streams, naming, flusher, history
<1>10. CASE stop_unplugged
  BY <1>10 DEF stop_unplugged, card, streams, naming, flusher, history
<1>11. CASE record_file_close
  BY <1>11 DEF record_file_close, card, naming, flusher, history
<1>12. CASE record_file_delete
  BY <1>12 DEF record_file_delete, Fault
<1>13. CASE stop_not_mounted
  BY <1>13 DEF stop_not_mounted, Fault
<1> QED
  BY <1>1, <1>2, <1>3, <1>4, <1>5, <1>6, <1>7, <1>8, <1>9, <1>10, <1>11, <1>12, <1>13 DEF Recorder

(* Each step of the flush thread keeps the turns.                          *)
LEMMA FlusherTakesTurns == ASSUME Faults = {}, FileInv, Flusher PROVE TurnInv'
<1> USE DEF FileInv, TurnInv, TypeInv, TypeOK, CardInv, TmpsDiffer, AtWork, HandedOver, Flushed,
            Flushing, HasLast, WorkSlot, Slot, Segment, NoSegment, OtherSlot, Turns, OneStream,
            Writes, Begun, OneToSave, WorthSaving, DateOf
<1>1. CASE record_file_main
  BY <1>1 DEF record_file_main, card, streams, naming, recorder, history
<1>2. CASE flush_record_file
  BY <1>2 DEF flush_record_file, card, streams, naming, recorder, history
<1>3. CASE sync_record_file
  BY <1>3 DEF sync_record_file, card, naming, recorder, history
<1>4. CASE stat_record_file
  BY <1>4 DEF stat_record_file, generate_record_file, TooSmall, streams, naming, recorder, history
<1>5. CASE flush_record_file_end
  BY <1>5 DEF flush_record_file_end, RemoveInfoFile, flush_cb, naming, history
<1> QED
  BY <1>1, <1>2, <1>3, <1>4, <1>5 DEF Flusher

LEMMA RestartTakesTurns ==
  ASSUME Faults = {}, FileInv, Restart, rec_pc # "boot"
  PROVE  TurnInv'
BY DEF FileInv, TurnInv, TypeInv, TypeOK, CardInv, TmpsDiffer, AtWork, HandedOver, Flushed,
       Flushing, HasLast, WorkSlot, Slot, Segment, NoSegment, OtherSlot, Turns, OneStream,
       Writes, Begun, OneToSave, WorthSaving, DateOf, Restart, card, EmptySlots

(* After check_poweroff_file no temporary file is left that is worth       *)
(* saving.                                                                 *)
LEMMA NoneLeftToSave ==
  ASSUME FileInv, ak_dvr_file_init
  PROVE  \A i \in Slot : tmp'[i] \notin big
<1> DEFINE p == PoweroffSlot
<1> SUFFICES ASSUME NEW i \in Slot, tmp[i] \in big
             PROVE  tmp'[i] = NoSegment
  BY DEF ak_dvr_file_init, check_poweroff_file, FileInv, TypeInv, TypeOK, Segment, NoSegment
<1>1. tmp[i] # NoSegment /\ tmp # EmptySlots
  BY DEF FileInv, TypeInv, TypeOK, Segment, NoSegment, EmptySlots
<1>2. info # Absent /\ (i = 1 => tmp[0] = NoSegment)
  BY <1>1 DEF FileInv, TurnInv, OneToSave, WorthSaving, DateOf, TypeInv, TypeOK, Segment, NoSegment, Absent
<1>3. \A k \in Slot :
        tmp[k] # NoSegment /\ (\A j \in Slot : tmp[j] # NoSegment => k <= j) => k = i
  BY <1>1, <1>2 DEF Slot
<1>4. p \in Slot /\ tmp[p] # NoSegment /\ \A j \in Slot : tmp[j] # NoSegment => p <= j
  <2>1. \E k \in Slot : tmp[k] # NoSegment /\ \A j \in Slot : tmp[j] # NoSegment => k <= j
    BY <1>1, <1>2 DEF Slot
  <2> QED BY <2>1 DEF PoweroffSlot
<1>5. p = i
  BY <1>3, <1>4
<1>6. tmp' = [tmp EXCEPT ![p] = NoSegment]
  BY <1>1, <1>2, <1>5 DEF ak_dvr_file_init, check_poweroff_file, TooSmall
<1> QED BY <1>5, <1>6 DEF FileInv, TypeInv, TypeOK

LEMMA InitTakesTurns == ASSUME Faults = {}, FileInv, ak_dvr_file_init PROVE TurnInv'
<1>1. /\ UNCHANGED <<info, big, fp, name_tmp, file_name, save_date, save_index, manage_sem,
                     fp_mutex, index, use_index, cur, flush_finish, last, synced, handed>>
      /\ rec_pc = "boot" /\ rec_pc' = "idle" /\ flush_pc' = "waiting"
  BY DEF ak_dvr_file_init, streams, naming, history
<1>2. use_index = 0
  BY <1>1 DEF FileInv, TurnInv, Turns
<1> QED
  BY <1>1, <1>2, NoneLeftToSave
     DEF FileInv, TurnInv, TypeInv, TypeOK, AtWork, HandedOver, Flushed, Flushing, HasLast,
         WorkSlot, Slot, Turns, OneStream, Writes, Begun, OneToSave

(* The invariant of the recorder's turns and the flush thread's.           *)
THEOREM FileInvAlways == Faults = {} => (Spec => []FileInv)
<1> SUFFICES ASSUME Faults = {} PROVE Spec => []FileInv
  OBVIOUS
<1>1. Init => FileInv
  BY CardInvInit, TypeInvInit
     DEF Init, FileInv, TurnInv, AtWork, HandedOver, Flushed, Flushing, HasLast, WorkSlot,
         Slot, NoSegment, Turns, OneStream, Writes, Begun, OneToSave, EmptySlots
<1>2. FileInv /\ [Next]_vars => FileInv'
  <2> SUFFICES ASSUME FileInv, [Next]_vars PROVE FileInv'
    OBVIOUS
  <2>1. TypeInv' /\ CardInv'
    BY TypeInvStep, StepsOfTheCard, CardStepKeeps DEF FileInv
  <2>2. TurnInv'
    <3>1. CASE Die
      BY <3>1, RestartTakesTurns DEF Die
    <3>2. CASE Segfault
      BY <3>2, RestartTakesTurns DEF Segfault, FileInv, TurnInv, Turns
    <3>3. CASE ak_dvr_file_exit
      BY <3>3, RestartTakesTurns DEF ak_dvr_file_exit
    <3>4. CASE UNCHANGED vars
      BY <3>4 DEF vars, card, streams, naming, flusher, recorder, history, FileInv, TurnInv,
                  AtWork, HandedOver, Flushed, Flushing, HasLast, WorkSlot, Turns, OneStream,
                  Writes, Begun, OneToSave, WorthSaving, DateOf
    <3> QED
      BY <3>1, <3>2, <3>3, <3>4, RecorderTakesTurns, FlusherTakesTurns, InitTakesTurns DEF Next
  <2> QED BY <2>1, <2>2 DEF FileInv
<1> QED BY <1>1, <1>2, PTL DEF Spec

-----------------------------------------------------------------------------
(* What was handed over is safe.                                           *)

KeptInv == HandedOverSurvives /\ SavedUnderItsDate

LEMMA RecorderLosesNothing == ASSUME Faults = {}, FileInv, KeptInv, Recorder PROVE KeptInv'
<1> USE DEF FileInv, TurnInv, TypeInv, TypeOK, CardInv, SavedIsGone, AtWork, HandedOver, Flushed,
            Flushing, HasLast, WorkSlot, Slot, Segment, NoSegment, OtherSlot, Turns, OneStream,
            Writes, Begun, OneToSave, WorthSaving, DateOf,
            KeptInv, HandedOverSurvives, SavedUnderItsDate, SavedSegments
<1>1. CASE record_file_open
  BY <1>1 DEF record_file_open, LockForOpen, FlushHadItsTurn, flush_cb, flusher
<1>2. CASE record_file_open_fails
  BY <1>2 DEF record_file_open_fails, LockForOpen, FlushHadItsTurn, flush_cb, flusher, history
<1>3. CASE record_file_opened \/ open_mux_handle
  BY <1>3 DEF record_file_opened, open_mux_handle, create_name_tmp_file, card, history
<1>4. CASE add_video_to_mux
  BY <1>4 DEF add_video_to_mux, recorder, history
<1>5. CASE record_file_update_duration
  BY <1>5 DEF record_file_update_duration, recorder
<1>6. CASE switch_record_file \/ stop_mounted
  BY <1>6 DEF switch_record_file, stop_mounted, record_file_wakeup, card
<1>7. CASE stop_flushed \/ stop_unplugged \/ record_file_close
  BY <1>7 DEF stop_flushed, stop_unplugged, record_file_close, card, history
<1>8. CASE record_file_delete \/ stop_not_mounted
  BY <1>8 DEF record_file_delete, stop_not_mounted
<1> QED BY <1>1, <1>2, <1>3, <1>4, <1>5, <1>6, <1>7, <1>8 DEF Recorder

LEMMA SavedIsKnown ==
  ASSUME NEW seg, NEW name, [seg |-> seg, name |-> name] \in saved'
  PROVE  seg \in SavedSegments'
BY DEF SavedSegments

LEMMA FlusherLosesNothing == ASSUME Faults = {}, FileInv, KeptInv, Flusher PROVE KeptInv'
<1> USE DEF FileInv, TurnInv, TypeInv, TypeOK, HandedOver, Flushing, HasLast, WorkSlot, Slot,
            Segment, NoSegment, Turns, OneStream, OneToSave,
            KeptInv, HandedOverSurvives, SavedUnderItsDate, SavedSegments
<1>1. CASE record_file_main \/ flush_record_file \/ sync_record_file \/ flush_record_file_end
  BY <1>1 DEF record_file_main, flush_record_file, sync_record_file, flush_record_file_end, card, history
<1>2. CASE stat_record_file
  <2>1. /\ tmp[save_index] = last /\ file_name[save_index] = last
        /\ flush_pc = "stat" /\ save_index \in Slot /\ last # NoSegment
    <3>1. flush_pc = "stat"
      BY <1>2 DEF stat_record_file
    <3>2. Flushing /\ HasLast /\ HandedOver
      BY <3>1 DEF AtWork, Flushed
    <3> QED BY <3>1, <3>2 DEF Begun
  <2>2. \/ UNCHANGED <<tmp, saved>>
        \/ last \notin big /\ tmp' = [tmp EXCEPT ![save_index] = NoSegment] /\ saved' = saved
        \/ /\ saved' = saved \union {[seg |-> last, name |-> last]}
           /\ tmp' = [tmp EXCEPT ![save_index] = NoSegment]
    BY <1>2, <2>1 DEF stat_record_file, generate_record_file, TooSmall
  <2>3. UNCHANGED <<big, synced, handed>>
    BY <1>2 DEF stat_record_file, history
  <2>4. HandedOverSurvives'
    <3> SUFFICES ASSUME NEW s \in handed, s \in big
                 PROVE  s \in SavedSegments' \/ \E i \in Slot : tmp'[i] = s
      BY <2>3
    <3>1. CASE s \in SavedSegments
      BY <2>2, <3>1
    <3>2. CASE s \notin SavedSegments
      <4>1. PICK i \in Slot : tmp[i] = s
        BY <3>2
      <4>2. CASE i = save_index
        <5>1. s = last
          BY <2>1, <4>1, <4>2
        <5> QED BY <2>2, <4>1, <5>1, SavedIsKnown
      <4>3. CASE i # save_index
        BY <2>1, <2>2, <4>1, <4>3
      <4> QED BY <4>2, <4>3
    <3> QED BY <3>1, <3>2
  <2> QED BY <2>2, <2>3, <2>4
<1> QED BY <1>1, <1>2 DEF Flusher

(* What check_poweroff_file does: save the one segment worth it.           *)
LEMMA InitSaves ==
  ASSUME FileInv, ak_dvr_file_init
  PROVE  /\ \A i \in Slot : tmp[i] \in big => tmp[i] \in SavedSegments'
         /\ \A r \in saved' : r \in saved \/ (r.seg \in big /\ r.name = DateOf(r.seg))
         /\ \A r \in saved : r \in saved'
<1> DEFINE p == PoweroffSlot
<1> USE DEF FileInv, TypeInv, TypeOK
<1>1. CASE UNCHANGED <<tmp, saved>>
  BY <1>1, NoneLeftToSave
<1>2. CASE ~UNCHANGED <<tmp, saved>>
  <2>1. tmp # EmptySlots /\ info # Absent
    BY <1>2 DEF ak_dvr_file_init, check_poweroff_file
  <2>2. p \in Slot /\ tmp[p] # NoSegment
    BY <2>1, PoweroffSlotIsSlot DEF CardInv, CardTypeOK
  <2>3. /\ tmp' = [tmp EXCEPT ![p] = NoSegment]
        /\ \/ tmp[p] \notin big /\ saved' = saved
           \/ tmp[p] \in big /\ saved' = saved \union {[seg |-> tmp[p], name |-> info]}
    BY <1>2, <2>1 DEF ak_dvr_file_init, check_poweroff_file, TooSmall
  <2> HIDE DEF p
  <2>4. \A i \in Slot : tmp[i] \in big => i = p /\ info = DateOf(tmp[i])
    BY <2>2, <2>3, NoneLeftToSave DEF TurnInv, OneToSave, WorthSaving
  <2>5. \A r \in saved' : r \in saved \/ (r.seg \in big /\ r.name = DateOf(r.seg))
    BY <2>2, <2>3, <2>4
  <2>6. \A i \in Slot : tmp[i] \in big => tmp[i] \in SavedSegments'
    BY <2>3, <2>4, SavedIsKnown
  <2>7. \A r \in saved : r \in saved'
    BY <2>3
  <2> QED BY <2>5, <2>6, <2>7
<1> QED BY <1>1, <1>2

LEMMA InitLosesNothing == ASSUME FileInv, KeptInv, ak_dvr_file_init PROVE KeptInv'
<1>1. UNCHANGED <<big, synced, handed>>
  BY DEF ak_dvr_file_init, history
<1>2. HandedOverSurvives'
  BY <1>1, InitSaves DEF KeptInv, HandedOverSurvives, SavedSegments
<1>3. SavedUnderItsDate'
  BY <1>1, InitSaves DEF KeptInv, SavedUnderItsDate, DateOf
<1> QED BY <1>2, <1>3 DEF KeptInv

LEMMA StepLosesNothing == ASSUME Faults = {}, FileInv, KeptInv, [Next]_vars PROVE KeptInv'
<1>1. CASE Die \/ Segfault \/ ak_dvr_file_exit \/ UNCHANGED vars
  <2>1. UNCHANGED <<tmp, saved, big, synced, handed>>
    BY <1>1 DEF Die, Segfault, ak_dvr_file_exit, Restart, vars, card, history
  <2> QED BY <2>1 DEF KeptInv, HandedOverSurvives, SavedUnderItsDate, SavedSegments
<1> QED BY <1>1, RecorderLosesNothing, FlusherLosesNothing, InitLosesNothing DEF Next

(* Were the process to die while it records, check_poweroff_file would     *)
(* find the segment first.                                                 *)
LEMMA RecordedIsRecoverable == ASSUME FileInv PROVE Recoverable
<1> SUFFICES ASSUME rec_pc = "recording", cur \in big, cur \in synced
             PROVE  tmp[PoweroffSlot] = cur /\ info = cur
  BY DEF Recoverable
<1> USE DEF FileInv, TurnInv, TypeInv, TypeOK
<1>1. /\ cur = last /\ tmp[use_index] = last /\ last # NoSegment
      /\ info = cur /\ (use_index = 1 => tmp[0] = NoSegment)
  BY DEF OneStream, OneToSave, Begun, AtWork, HandedOver, Flushing, HasLast, WorkSlot, DateOf
<1>2. \A i \in Slot :
        tmp[i] # NoSegment /\ (\A j \in Slot : tmp[j] # NoSegment => i <= j) <=> i = use_index
  BY <1>1 DEF Slot
<1>3. PoweroffSlot = use_index
  BY <1>2 DEF PoweroffSlot
<1> QED BY <1>1, <1>3

LEMMA KeptInvAlways == Faults = {} => (Spec => []KeptInv)
<1> SUFFICES ASSUME Faults = {} PROVE Spec => []KeptInv
  OBVIOUS
<1>1. Init => KeptInv
  BY DEF Init, KeptInv, HandedOverSurvives, SavedUnderItsDate
<1>2. FileInv /\ KeptInv /\ [Next]_vars => KeptInv'
  BY StepLosesNothing
<1>3. Spec => []FileInv
  BY FileInvAlways
<1> QED BY <1>1, <1>2, <1>3, PTL DEF Spec

(* Without mishaps nothing handed over is lost or saved under another      *)
(* date, and what is being recorded could be recovered, whenever the       *)
(* process dies and however often.                                         *)
THEOREM NothingIsLostAlways == Faults = {} => (Spec => []NothingIsLost)
<1> SUFFICES ASSUME Faults = {} PROVE Spec => []NothingIsLost
  OBVIOUS
<1>1. FileInv /\ KeptInv => NothingIsLost
  BY RecordedIsRecoverable DEF NothingIsLost, KeptInv, FileInv, TypeInv
<1>2. Spec => []FileInv /\ []KeptInv
  BY FileInvAlways, KeptInvAlways
<1> QED BY <1>1, <1>2, PTL

-----------------------------------------------------------------------------
(* A stop waits for its flush.  For this the threads must take turns: the  *)
(* card may go, fill up or fail, but the flush thread is not late for its  *)
(* lock.                                                                   *)

NotLate == "late" \notin Faults

(* What the flush thread has flushed is closed.                            *)
WaitInv == TypeInv /\ Turns /\ (Flushed => fp[save_index] = NoSegment)

LEMMA RecorderWaits == ASSUME NotLate, WaitInv, Recorder PROVE WaitInv'
<1>1. TypeInv'
  BY TypeInvStep DEF Next, WaitInv
<1>2. Turns' /\ (Flushed => fp[save_index] = NoSegment)'
  <2> USE DEF WaitInv, TypeInv, TypeOK, AtWork, HandedOver, Flushed, Flushing, Slot, NoSegment,
              OtherSlot, Turns
  <2>1. CASE record_file_open
    BY <2>1 DEF record_file_open, LockForOpen, FlushHadItsTurn, NotLate, flush_cb, flusher
  <2>2. CASE record_file_open_fails
    BY <2>2 DEF record_file_open_fails, LockForOpen, FlushHadItsTurn, NotLate, flush_cb, flusher
  <2>3. CASE record_file_opened
    BY <2>3 DEF record_file_opened, flusher
  <2>4. CASE open_mux_handle
    BY <2>4 DEF open_mux_handle, streams, flusher
  <2>5. CASE add_video_to_mux
    BY <2>5 DEF add_video_to_mux, streams, flusher, recorder
  <2>6. CASE record_file_update_duration
    BY <2>6 DEF record_file_update_duration, streams, flusher, recorder
  <2>7. CASE switch_record_file
    BY <2>7 DEF switch_record_file, record_file_wakeup, streams, flusher
  <2>8. CASE stop_mounted
    BY <2>8 DEF stop_mounted, record_file_wakeup, streams, flusher
  <2>9. CASE stop_flushed
    BY <2>9 DEF stop_flushed, streams, flusher
  <2>10. CASE stop_unplugged
    BY <2>10 DEF stop_unplugged, streams, flusher
  <2>11. CASE record_file_close
    BY <2>11 DEF record_file_close, flusher
  <2>12. CASE record_file_delete
    BY <2>12 DEF record_file_delete, flusher
  <2>13. CASE stop_not_mounted
    BY <2>13 DEF stop_not_mounted, flusher
  <2> QED
    BY <2>1, <2>2, <2>3, <2>4, <2>5, <2>6, <2>7, <2>8, <2>9, <2>10, <2>11, <2>12, <2>13
       DEF Recorder
<1> QED BY <1>1, <1>2 DEF WaitInv

LEMMA FlusherWaits == ASSUME WaitInv, Flusher PROVE WaitInv'
<1>1. TypeInv'
  BY TypeInvStep DEF Next, WaitInv
<1>2. Turns' /\ (Flushed => fp[save_index] = NoSegment)'
  <2> USE DEF WaitInv, TypeInv, TypeOK, AtWork, HandedOver, Flushed, Flushing, Slot, NoSegment,
              Turns, recorder
  <2>1. CASE record_file_main
    BY <2>1 DEF record_file_main, streams
  <2>2. CASE flush_record_file
    BY <2>2 DEF flush_record_file, streams
  <2>3. CASE sync_record_file
    BY <2>3 DEF sync_record_file
  <2>4. CASE stat_record_file
    BY <2>4 DEF stat_record_file, streams
  <2>5. CASE flush_record_file_end
    BY <2>5 DEF flush_record_file_end, flush_cb
  <2> QED BY <2>1, <2>2, <2>3, <2>4, <2>5 DEF Flusher
<1> QED BY <1>1, <1>2 DEF WaitInv

LEMMA WaitInvAlways == NotLate => (Spec => []WaitInv)
<1> SUFFICES ASSUME NotLate PROVE Spec => []WaitInv
  OBVIOUS
<1>1. Init => WaitInv
  BY TypeInvInit DEF Init, WaitInv, AtWork, HandedOver, Flushed, Flushing, Turns
<1>2. WaitInv /\ [Next]_vars => WaitInv'
  <2> SUFFICES ASSUME WaitInv, [Next]_vars PROVE WaitInv'
    OBVIOUS
  <2>1. TypeInv'
    BY TypeInvStep DEF WaitInv
  <2> USE DEF WaitInv, AtWork, HandedOver, Flushed, Flushing, Turns
  <2>2. ASSUME Restart PROVE WaitInv'
    BY <2>1, <2>2 DEF Restart
  <2>3. CASE ak_dvr_file_init
    BY <2>1, <2>3 DEF ak_dvr_file_init, streams, naming
  <2>4. CASE UNCHANGED vars
    BY <2>1, <2>4 DEF vars, streams, flusher, recorder
  <2> QED
    BY <2>2, <2>3, <2>4, RecorderWaits, FlusherWaits DEF Next, Die, Segfault, ak_dvr_file_exit
<1> QED BY <1>1, <1>2, PTL DEF Spec

(* Unless the flush thread is late for its lock, a stop goes on only when  *)
(* its segment has been flushed and the flush thread has nothing left to   *)
(* do, whatever the card does meanwhile.                                   *)
THEOREM StopWaitsForFlushAlways == NotLate => (Spec => StopWaitsForFlush)
<1> SUFFICES ASSUME NotLate PROVE Spec => StopWaitsForFlush
  OBVIOUS
<1>1. WaitInv /\ [Next]_vars =>
        [rec_pc = "waiting" /\ rec_pc' = "idle" =>
           fp[use_index] = NoSegment /\ manage_sem = 0 /\ flush_pc = "waiting"]_vars
  <2> SUFFICES ASSUME WaitInv, Next, rec_pc = "waiting", rec_pc' = "idle"
               PROVE  fp[use_index] = NoSegment /\ manage_sem = 0 /\ flush_pc = "waiting"
    OBVIOUS
  <2>1. ~Flusher
    BY DEF Flusher, record_file_main, flush_record_file, sync_record_file, stat_record_file,
           flush_record_file_end, recorder
  <2>2. flush_finish
    BY <2>1 DEF Next, Recorder, record_file_open, record_file_open_fails, record_file_opened,
                LockForOpen, open_mux_handle, record_file_delete, add_video_to_mux,
                record_file_update_duration, switch_record_file, stop_mounted, stop_flushed,
                stop_not_mounted, stop_unplugged, record_file_close, Die, Segfault,
                ak_dvr_file_exit, ak_dvr_file_init, Restart
  <2> QED
    BY <2>2 DEF WaitInv, Turns, HandedOver, Flushed
<1>2. Spec => []WaitInv
  BY WaitInvAlways
<1> QED BY <1>1, <1>2, PTL DEF Spec, StopWaitsForFlush

-----------------------------------------------------------------------------
(* Without mishaps the files are the store of SegmentStore, step by step.  *)

Up == rec_pc # "boot"
StoreInv == FileInv /\ KeptInv

(* A step of the files that moves no segment is a stutter of the store's.  *)
LEMMA Stutters ==
  ASSUME Up <=> Up', UNCHANGED <<big, synced>>, \A s \in Segment : StageOf(s)' = StageOf(s)
  PROVE  UNCHANGED Store!storeVars
BY DEF Store!storeVars, Up

(* A step that moves one segment is a step At.                             *)
LEMMA MovesOne ==
  ASSUME Up, Up', UNCHANGED <<big, synced>>, NEW k \in Segment, NEW from, NEW to,
         StageOf(k) = from,
         \A s \in Segment : StageOf(s)' = IF s = k THEN to ELSE StageOf(s)
  PROVE  Store!At(k, from, to)
BY DEF Store!At, Up

(* No temporary file is of a saved segment, and what goes on is not saved. *)
LEMMA LastIsNotSaved ==
  ASSUME FileInv, AtWork \/ (Flushing /\ flush_pc \in {"sync", "stat"})
  PROVE  last \in Segment /\ last \notin SavedSegments
<1>1. HasLast /\ WorkSlot \in Slot
  BY DEF HasLast, WorkSlot, FileInv, TypeInv, TypeOK
<1>2. last \in Segment /\ tmp[WorkSlot] = last
  BY <1>1 DEF FileInv, TypeInv, TypeOK, TurnInv, Begun, OneToSave, HandedOver, Flushing,
              Segment, NoSegment
<1> QED BY <1>1, <1>2 DEF SavedSegments, FileInv, CardInv, SavedIsGone

LEMMA SavedAreOld == ASSUME FileInv, NEW s \in SavedSegments PROVE s <= last
BY DEF SavedSegments, FileInv, CardInv, SavedIsGone

LEMMA RecorderRefines ==
  ASSUME Faults = {}, StoreInv, Recorder
  PROVE  [Store!Next]_(Store!storeVars)
<1> USE DEF StoreInv, Segment
<1>t. last \in Nat /\ last <= MaxSegment /\ MaxSegment \in Nat
  BY MaxSegmentAssumption DEF FileInv, TypeInv, TypeOK
<1>1. CASE record_file_open
  <2>1. /\ Up /\ Up' /\ ~AtWork /\ last' = last + 1 /\ last < MaxSegment
        /\ rec_pc \in {"idle", "switched"} /\ rec_pc' = "naming"
        /\ UNCHANGED <<saved, big, synced, handed>>
    BY <1>1 DEF record_file_open, LockForOpen, Up, AtWork
  <2>2. \A s \in Segment : s \in SavedSegments \union handed => s <= last
    BY SavedAreOld DEF FileInv, TurnInv, Begun
  <2>3. SavedSegments' = SavedSegments
    BY <2>1 DEF SavedSegments
  <2>4. \A s \in Segment : StageOf(s)' = IF s = last' THEN "recording" ELSE StageOf(s)
    BY <1>t, <2>1, <2>2, <2>3 DEF StageOf, BeingRecorded, ToBeSaved, Up
  <2>5. /\ StageOf(last') = "none"
        /\ \A r \in Segment : (r < last' => StageOf(r) # "none") /\ StageOf(r) # "recording"
    BY <1>t, <2>1 DEF StageOf, BeingRecorded
  <2>6. last' \in Segment
    BY <1>t, <2>1
  <2>7. Store!At(last', "none", "recording")
    BY <2>1, <2>4, <2>5, <2>6, MovesOne
  <2>8. Store!Begin(last')
    BY <2>5, <2>7 DEF Store!Begin, Store!Segment
  <2> QED BY <2>6, <2>8 DEF Store!Next, Store!Segment
<1>2. CASE \/ record_file_open_fails \/ record_file_opened \/ open_mux_handle
           \/ stop_flushed \/ record_file_close
  <2>1. /\ Up /\ Up' /\ UNCHANGED <<saved, big, synced, handed, last>>
        /\ rec_pc' \in {"naming", "muxing", "recording"} <=> rec_pc \in {"naming", "muxing", "recording"}
    <3>1. CASE record_file_open_fails
      BY <3>1 DEF record_file_open_fails, LockForOpen, history, Up
    <3>2. CASE record_file_opened \/ open_mux_handle
      BY <3>2 DEF record_file_opened, open_mux_handle, card, history, Up
    <3>3. CASE stop_flushed \/ record_file_close
      BY <3>3 DEF stop_flushed, record_file_close, card, history, Up
    <3> QED BY <1>2, <3>1, <3>2, <3>3
  <2>2. SavedSegments' = SavedSegments
    BY <2>1 DEF SavedSegments
  <2>3. \A s \in Segment : StageOf(s)' = StageOf(s)
    BY <2>1, <2>2 DEF StageOf, BeingRecorded, ToBeSaved, Up
  <2>4. UNCHANGED Store!storeVars
    BY <2>1, <2>3, Stutters
  <2> QED BY <2>4
<1>3. CASE add_video_to_mux \/ record_file_update_duration
  <2>1. /\ Up /\ Up' /\ rec_pc = "recording" /\ rec_pc' = "recording"
        /\ UNCHANGED <<saved, handed, last>>
        /\ \/ big' = big \union {cur} /\ synced' = synced
           \/ synced' = synced \union {cur} /\ big' = big
    BY <1>3 DEF add_video_to_mux, record_file_update_duration, recorder, history, Up
  <2>2. cur = last /\ last \in Segment /\ last \notin SavedSegments
    BY <2>1, LastIsNotSaved DEF FileInv, TurnInv, OneStream, AtWork
  <2>3. SavedSegments' = SavedSegments
    BY <2>1 DEF SavedSegments
  <2>4. StageOf(last) = "recording"
    BY <1>t, <2>1, <2>2 DEF StageOf, BeingRecorded
  <2>5. \A s \in Segment : StageOf(s)' = StageOf(s)
    BY <2>1, <2>3 DEF StageOf, BeingRecorded, ToBeSaved, Up
  <2>6. Store!Grow(last) \/ Store!Note(last)
    BY <2>1, <2>2, <2>4, <2>5 DEF Store!Grow, Store!Note, Up
  <2> QED BY <2>2, <2>6 DEF Store!Next, Store!Segment
<1>4. CASE switch_record_file \/ stop_mounted \/ stop_unplugged
  <2>1. /\ Up /\ Up' /\ rec_pc = "recording" /\ rec_pc' \in {"switched", "waiting", "closing"}
        /\ UNCHANGED <<saved, big, synced, last>>
        /\ \/ handed' = handed \union {cur} \/ handed' = handed
    BY <1>4 DEF switch_record_file, stop_mounted, stop_unplugged, record_file_wakeup, card, history, Up
  <2>2. cur = last /\ last \in Segment /\ last \notin SavedSegments /\ last \notin handed
    BY <2>1, LastIsNotSaved DEF FileInv, TurnInv, OneStream, AtWork, Begun
  <2>3. SavedSegments' = SavedSegments
    BY <2>1 DEF SavedSegments
  <2>4. StageOf(last) = "recording"
    BY <1>t, <2>1, <2>2 DEF StageOf, BeingRecorded
  <2>5. \E to \in {"finished", "left"} :
           \A s \in Segment : StageOf(s)' = IF s = last THEN to ELSE StageOf(s)
    <3>1. CASE last \in handed'
      BY <1>t, <2>1, <2>2, <2>3, <3>1 DEF StageOf, BeingRecorded, ToBeSaved, Up
    <3>2. CASE last \notin handed'
      BY <1>t, <2>1, <2>2, <2>3, <3>2 DEF StageOf, BeingRecorded, ToBeSaved, Up
    <3> QED BY <3>1, <3>2
  <2>6. Store!Finish(last) \/ Store!GiveUp(last)
    BY <2>1, <2>2, <2>4, <2>5, MovesOne DEF Store!Finish, Store!GiveUp
  <2> QED BY <2>2, <2>6 DEF Store!Next, Store!Segment
<1>5. CASE record_file_delete \/ stop_not_mounted
  BY <1>5 DEF record_file_delete, stop_not_mounted
<1> QED BY <1>1, <1>2, <1>3, <1>4, <1>5 DEF Recorder

LEMMA FlusherRefines ==
  ASSUME Faults = {}, StoreInv, Flusher
  PROVE  [Store!Next]_(Store!storeVars)
<1> USE DEF StoreInv
<1>1. CASE UNCHANGED saved
  <2>1. UNCHANGED <<rec_pc, big, synced, handed, last>>
    BY DEF Flusher, record_file_main, flush_record_file, sync_record_file, stat_record_file,
           flush_record_file_end, card, recorder, history
  <2>2. rec_pc # "boot"
    BY DEF Flusher, record_file_main, flush_record_file, sync_record_file, stat_record_file,
           flush_record_file_end, FileInv, TurnInv, Turns
  <2>3. SavedSegments' = SavedSegments
    BY <1>1 DEF SavedSegments
  <2>4. \A s \in Segment : StageOf(s)' = StageOf(s)
    BY <2>1, <2>2, <2>3 DEF StageOf, BeingRecorded, ToBeSaved
  <2>5. UNCHANGED Store!storeVars
    BY <2>1, <2>4, Stutters DEF Up
  <2> QED BY <2>5
<1>2. CASE ~UNCHANGED saved
  <2>1. stat_record_file /\ flush_pc = "stat"
    BY <1>2 DEF Flusher, record_file_main, flush_record_file, sync_record_file, stat_record_file,
                flush_record_file_end, card
  <2>2. /\ tmp[save_index] \in big
        /\ saved' = saved \union {[seg |-> tmp[save_index], name |-> file_name[save_index]]}
        /\ UNCHANGED <<rec_pc, big, synced, handed, last>>
    BY <1>2, <2>1 DEF stat_record_file, generate_record_file, TooSmall, recorder, history
  <2>3. Flushing /\ HandedOver
    BY <2>1 DEF FileInv, TurnInv, Turns, TypeInv, TypeOK, AtWork, HandedOver, Flushed, Flushing
  <2>4. last \in Segment /\ last \notin SavedSegments
    BY <2>1, <2>3, LastIsNotSaved
  <2>5. tmp[save_index] = last /\ last \in handed
    BY <2>1, <2>3 DEF FileInv, TurnInv, OneToSave, Begun, HasLast, WorkSlot
  <2>6. \A s : s \in SavedSegments' <=> s \in SavedSegments \/ s = last
    <3>1. last \in SavedSegments' /\ SavedSegments \subseteq SavedSegments'
      BY <2>2, <2>5, SavedIsKnown DEF SavedSegments
    <3>2. ASSUME NEW r \in saved' PROVE r.seg \in SavedSegments \/ r.seg = last
      BY <2>2, <2>5 DEF SavedSegments
    <3> QED BY <3>1, <3>2 DEF SavedSegments
  <2>7. last \in Nat
    BY DEF FileInv, TypeInv, TypeOK
  <2>8. StageOf(last) = "finished" /\ Up /\ Up'
    BY <2>2, <2>3, <2>4, <2>5, <2>7 DEF StageOf, BeingRecorded, ToBeSaved, HandedOver, Up
  <2>9. \A s \in Segment : StageOf(s)' = IF s = last THEN "saved" ELSE StageOf(s)
    BY <2>2, <2>3, <2>6, <2>7 DEF StageOf, BeingRecorded, ToBeSaved, HandedOver
  <2>10. Store!At(last, "finished", "saved")
    BY <2>2, <2>4, <2>8, <2>9, MovesOne
  <2>11. Store!Save(last)
    BY <2>2, <2>5, <2>10 DEF Store!Save
  <2> QED BY <2>4, <2>11 DEF Store!Next, Store!Segment, Segment
<1> QED BY <1>1, <1>2

(* A death or an end is the store's Down: what was being recorded is found *)
(* again if it is long and noted.                                          *)
LEMMA RestartRefines ==
  ASSUME StoreInv, Restart, Up
  PROVE  Store!Down
<1> DEFINE stage == [s \in Segment |-> StageOf(s)]
<1>1. /\ ~Up' /\ rec_pc' = "boot"
      /\ UNCHANGED <<tmp, saved, big, synced, handed, last>>
  BY DEF Restart, Up, card
<1>2. SavedSegments' = SavedSegments
  BY <1>1 DEF SavedSegments
<1>3. ASSUME NEW s \in Segment
      PROVE  /\ StageOf(s) = "recording" =>
                  StageOf(s)' = IF s \in big \intersect synced THEN "finished" ELSE "left"
             /\ StageOf(s) = "left" =>
                  \/ StageOf(s)' = "left"
                  \/ StageOf(s)' = "finished" /\ s \in big \intersect synced
             /\ StageOf(s) \notin {"recording", "left"} => StageOf(s)' = StageOf(s)
             /\ StageOf(s)' \in {"none", "recording", "finished", "saved", "left"}
  <2>1. CASE BeingRecorded(s) /\ s \notin SavedSegments
    <3>1. HasLast /\ AtWork /\ last \in Nat /\ s = last
      BY <2>1 DEF BeingRecorded, HasLast, AtWork, StoreInv, FileInv, TypeInv, TypeOK
    <3>2. s \notin handed /\ WorkSlot \in Slot /\ tmp[WorkSlot] = s
      BY <3>1 DEF StoreInv, FileInv, TurnInv, Begun, OneToSave, WorkSlot, TypeInv, TypeOK
    <3> QED BY <1>1, <1>2, <2>1, <3>1, <3>2 DEF StageOf, BeingRecorded, ToBeSaved, Up
  <2>2. CASE ~BeingRecorded(s) \/ s \in SavedSegments
    BY <1>1, <1>2, <2>2 DEF StageOf, BeingRecorded, ToBeSaved, Up
  <2> QED BY <2>1, <2>2
<1> QED BY <1>1, <1>3 DEF Store!Down, Store!Segment, Store!Stage, Segment, Up

(* check_poweroff_file is the store's Up: what was finished is saved.      *)
LEMMA InitRefines ==
  ASSUME StoreInv, ak_dvr_file_init
  PROVE  Store!Up
<1>1. /\ ~Up /\ Up' /\ rec_pc = "boot" /\ rec_pc' = "idle"
      /\ UNCHANGED <<big, synced, handed, last>>
  BY DEF ak_dvr_file_init, Up, history
<1>2. /\ SavedSegments \subseteq SavedSegments'
      /\ SavedSegments' \subseteq SavedSegments \union big
  BY InitSaves DEF StoreInv, SavedSegments
<1>3. ASSUME NEW s \in Segment
      PROVE  /\ StageOf(s) = "finished" /\ s \in big => StageOf(s)' = "saved"
             /\ StageOf(s) = "left" /\ s \in big => StageOf(s)' \in {"left", "saved"}
             /\ ~(StageOf(s) \in {"finished", "left"} /\ s \in big) => StageOf(s)' = StageOf(s)
             /\ StageOf(s)' \in {"none", "recording", "finished", "saved", "left"}
  <2>1. ToBeSaved(s) /\ s \in big => s \in SavedSegments'
    BY <1>2, InitSaves DEF ToBeSaved, StoreInv, KeptInv, HandedOverSurvives
  <2> QED BY <1>1, <1>2, <2>1 DEF StageOf, BeingRecorded, ToBeSaved
<1> QED BY <1>1, <1>3 DEF Store!Up, Store!Segment, Store!Stage, Segment, Up

LEMMA StepRefines ==
  ASSUME Faults = {}, StoreInv, [Next]_vars
  PROVE  [Store!Next]_(Store!storeVars)
<1>1. CASE Die \/ Segfault \/ ak_dvr_file_exit
  BY <1>1, RestartRefines DEF Die, Segfault, ak_dvr_file_exit, Up, Store!Next, StoreInv, FileInv, TurnInv, Turns
<1>2. CASE ak_dvr_file_init
  BY <1>2, InitRefines DEF Store!Next
<1>3. CASE UNCHANGED vars
  <2>1. UNCHANGED <<tmp, saved, big, rec_pc, synced, handed, last>>
    BY <1>3 DEF vars, card, recorder, history
  <2>2. SavedSegments' = SavedSegments
    BY <2>1 DEF SavedSegments
  <2>3. \A s \in Segment : StageOf(s)' = StageOf(s)
    BY <2>1, <2>2 DEF StageOf, BeingRecorded, ToBeSaved
  <2>4. UNCHANGED Store!storeVars
    BY <2>1, <2>3, Stutters DEF Up
  <2> QED BY <2>4
<1> QED BY <1>1, <1>2, <1>3, RecorderRefines, FlusherRefines DEF Next

(* Slots, streams, flush thread and recovery, without mishaps, implement   *)
(* the store of SegmentStore: every step of theirs is a step or a stutter  *)
(* of the store's, for any number of segments and deaths.                  *)
THEOREM FilesRefineStore == Faults = {} => (Spec => Store!Safety)
<1> SUFFICES ASSUME Faults = {} PROVE Spec => Store!Safety
  OBVIOUS
<1>1. Init => Store!Init
  BY DEF Init, Store!Init, Store!Segment, Segment, StageOf, SavedSegments
<1>2. StoreInv /\ [Next]_vars => [Store!Next]_(Store!storeVars)
  BY StepRefines
<1>3. Spec => []StoreInv
  BY FileInvAlways, KeptInvAlways, PTL DEF StoreInv
<1> QED BY <1>1, <1>2, <1>3, PTL DEF Spec, Store!Safety
=============================================================================
