----------------------------- MODULE DvrRecord -----------------------------
(***************************************************************************)
(* The recorder of libapp/src/dvr/ak_dvr_record.c as three threads:        *)
(*   "video"  video_stream_thread: takes frames from the encoder, queues   *)
(*            them, marks the frame a segment ends at, and stops the       *)
(*            recording when the queue is over size                        *)
(*   "main"   video_record_main: thins the queue out before an alarm, or   *)
(*            muxes it into segments                                       *)
(*   "ctl"    record_ctrl_main (apps/akipc/record): starts, stops and      *)
(*            changes between plan and alarm recording                     *)
(* The fields of the one struct ak_dvr_record are shared; most are read    *)
(* and written with no lock, so the accesses that may race are steps of    *)
(* their own.                                                              *)
(*                                                                         *)
(* A frame is its number, which is also its time.  The audio thread, which *)
(* is the video thread without marks, and ak_dvr_record_exit are left out. *)
(* Saving a file is DvrFile's matter: here its segment is just closed.     *)
(***************************************************************************)
EXTENDS Integers, FiniteSets, SequencesExt

CONSTANTS MaxFrame,       \* bound: the last frame the encoder delivers
          MaxStart,       \* bound: the calls of start and turn_on_trigger
          Gop,            \* frames from one I frame to the next
          Duration,       \* param.duration, in frames
          TriggerIframe,  \* trigger_iframe while alarms are armed
          MaxQueue,       \* STREAM_DATA_MAX_SIZE, in frames
          Faults          \* what may go wrong around the recorder

(* "late":     video is preempted between queueing a frame and marking it  *)
(* "lag":      main falls behind by a whole group of pictures              *)
(* "oversize": the queue may reach STREAM_DATA_MAX_SIZE                    *)
(* "syserr":   ak_mux_open or ak_mux_add_video may fail                    *)
(* "skip":     ak_mux_add_video may refuse a frame and go on               *)
(* "hasty":    a stop may follow before main has taken up the recording    *)
(* "disarm":   the mode may change from alarm to plan                      *)
(* "reuse":    a frame's memory may be reused before the filter, which has *)
(*             just freed it, reads its type                               *)
Fault == {"late", "lag", "oversize", "syserr", "skip", "hasty", "disarm",
          "reuse"}

ASSUME BoundsAssumption == MaxFrame \in Nat /\ MaxStart \in Nat
ASSUME GopAssumption == Gop \in Nat \ {0}
ASSUME DurationAssumption == Duration \in Nat \ {0}
ASSUME TriggerAssumption == TriggerIframe \in Nat \ {0}
ASSUME MaxQueueAssumption == MaxQueue \in Nat \ {0}
ASSUME FaultsAssumption == Faults \subseteq Fault

Frame == 1..MaxFrame
IsI(f) == f % Gop = 1 % Gop
NoFrame == 0

Thread == {"main", "video", "ctl"}
Stopper == {"video", "ctl"}      \* the callers of ak_dvr_record_stop
Free == "free"

VARIABLES
  status,          \* enum record_status
  trigger_type,    \* why it records, or "reserved"
  trigger_iframe,  \* I frames kept before an alarm; 0: no pre-record
  record_flag,     \* started and not yet stopped
  mux_over_size,   \* the queue was over size
  req_handle,      \* the encoder's stream is requested
  mux_head,        \* the queue of frames
  start_time,      \* of the segment
  end_time,        \* of the segment; 0: not synchronised yet
  seq_num_end,     \* the frame the segment ends at
  unixts_end,      \* the time that frame was got, or 0
  slipped,         \* history: video was late, or main a group behind
  date,            \* of the segment
  cur_mux_handle,  \* a mux handle is open
  segment,         \* the frames in it
  gotidr,          \* of the handle: it was given an I frame
  work_sem, stop_sem, video_sem,
  record_mutex, stop_mutex,
  pc,              \* where each thread is
  held,            \* main: the entry it has a pointer to
  left,            \* main: the filter's local iframe_num
  next,            \* the encoder's next frame
  mode,            \* record_ctrl.record_mode
  started,         \* record_ctrl: plan.status or alarm.status is START
  rec_stopped,     \* record_ctrl: DVR_EXCEPT_REC_STOPPED is set
  starts           \* calls of start and turn_on_trigger so far

triggers == <<trigger_type, trigger_iframe, record_flag, mux_over_size>>
control == <<status, triggers>>
times == <<start_time, end_time, date>>
mark == <<seq_num_end, unixts_end, slipped>>
file == <<cur_mux_handle, segment, gotidr>>
sems == <<work_sem, stop_sem, video_sem>>
locks == <<record_mutex, stop_mutex>>
local == <<held, left>>
app == <<mode, started, rec_stopped, starts>>
stream == <<req_handle, mux_head, times, mark, file>>
others == <<sems, locks, local, next, app>>
vars == <<control, stream, others, pc>>

Init == /\ status = "idle"
        /\ trigger_type = "reserved"
        /\ trigger_iframe = 0
        /\ record_flag = FALSE
        /\ mux_over_size = FALSE
        /\ req_handle = FALSE
        /\ mux_head = <<>>
        /\ start_time = 0
        /\ end_time = 0
        /\ seq_num_end = NoFrame
        /\ unixts_end = 0
        /\ slipped = FALSE
        /\ date = 0
        /\ cur_mux_handle = FALSE
        /\ segment = <<>>
        /\ gotidr = FALSE
        /\ work_sem = 0
        /\ stop_sem = 0
        /\ video_sem = 0
        /\ record_mutex = Free
        /\ stop_mutex = Free
        /\ pc = [main |-> "sleep", video |-> "sleep", ctl |-> "ready"]
        /\ held = NoFrame
        /\ left = 0
        /\ next = 1
        /\ mode = "plan"
        /\ started = FALSE
        /\ rec_stopped = FALSE
        /\ starts = 0

Goto(t, label) == pc' = [pc EXCEPT ![t] = label]
At(t, label) == pc[t] = label
InQueue(f) == \E i \in 1..Len(mux_head) : mux_head[i] = f
Position(f) == CHOOSE i \in 1..Len(mux_head) : mux_head[i] = f
Unlinked(f) == IF InQueue(f) THEN RemoveAt(mux_head, Position(f)) ELSE mux_head
IframeNum == Cardinality({i \in 1..Len(mux_head) : IsI(mux_head[i])})

-----------------------------------------------------------------------------
(* video_stream_thread.                                                    *)

VideoWakes == /\ At("video", "sleep")
              /\ video_sem > 0
              /\ video_sem' = video_sem - 1
              /\ Goto("video", "loop")
              /\ UNCHANGED <<control, stream, work_sem, stop_sem, locks, local,
                             next, app>>

(* cancel_mutex is held in "got", "mark" and "stamp".                      *)
VideoLoops == /\ At("video", "loop")
              /\ IF status \in {"work", "filter", "sleep"}
                   THEN Goto("video", IF req_handle THEN "got" ELSE "over")
                   ELSE Goto("video", "sleep")
              /\ UNCHANGED <<control, stream, others>>

(* Unless it lags, main has muxed a group before the next one begins.      *)
MainKeepsUp == \/ trigger_type # "plan"
               \/ ~IsI(next)
               \/ IframeNum = 0

QueueStaysSmall == "oversize" \in Faults \/ Len(mux_head) < MaxQueue

OverSize == Len(mux_head) >= MaxQueue

EndsSegment(f) == trigger_type = "plan" /\ IsI(f) /\ f >= end_time

(* get_video_stream and add_video_mux_list.                                *)
get_video_stream ==
  /\ At("video", "got")
  /\ next \in Frame
  /\ MainKeepsUp \/ "lag" \in Faults
  /\ QueueStaysSmall
  /\ next' = next + 1
  /\ \/ /\ status = "sleep"                        \* dropped
        /\ Goto("video", "over")
        /\ UNCHANGED <<mux_over_size, mux_head, seq_num_end, unixts_end>>
     \/ /\ status # "sleep"
        /\ OverSize
        /\ mux_over_size' = TRUE
        /\ Goto("video", "over")
        /\ UNCHANGED <<mux_head, seq_num_end, unixts_end>>
     \/ /\ status # "sleep"
        /\ ~OverSize
        /\ mux_head' = Append(mux_head, next)
        /\ UNCHANGED mux_over_size
        /\ \/ /\ Goto("video", "over")
              /\ IF EndsSegment(next)
                   THEN seq_num_end' = next /\ unixts_end' = next
                   ELSE UNCHANGED <<seq_num_end, unixts_end>>
           \/ /\ "late" \in Faults
              /\ Goto("video", "mark")
              /\ UNCHANGED <<seq_num_end, unixts_end>>
  /\ slipped' = (slipped \/ ~MainKeepsUp \/ pc'["video"] = "mark")
  /\ UNCHANGED <<status, trigger_type, trigger_iframe, record_flag, req_handle,
                 times, file, sems, locks, local, app>>

GetFails == /\ At("video", "got")                  \* no frame there yet
            /\ Goto("video", "over")
            /\ UNCHANGED <<control, stream, others>>

mark_seq_num_end ==
  /\ At("video", "mark")
  /\ IF EndsSegment(next - 1)
       THEN seq_num_end' = next - 1 /\ Goto("video", "stamp")
       ELSE Goto("video", "over") /\ UNCHANGED seq_num_end
  /\ UNCHANGED <<control, req_handle, mux_head, times, unixts_end, slipped,
                 file, others>>

stamp_unixts_end ==
  /\ At("video", "stamp")
  /\ unixts_end' = next - 1
  /\ Goto("video", "over")
  /\ UNCHANGED <<control, req_handle, mux_head, times, seq_num_end, slipped,
                 file, others>>

VideoChecksSize == /\ At("video", "over")
                   /\ Goto("video", IF mux_over_size THEN "stop" ELSE "loop")
                   /\ UNCHANGED <<control, stream, others>>

Video == \/ VideoWakes
         \/ VideoLoops
         \/ get_video_stream
         \/ GetFails
         \/ mark_seq_num_end
         \/ stamp_unixts_end
         \/ VideoChecksSize

-----------------------------------------------------------------------------
(* video_record_main.                                                      *)

MainWakes == /\ At("main", "sleep")
             /\ work_sem > 0
             /\ work_sem' = work_sem - 1
             /\ Goto("main", "switch")
             /\ UNCHANGED <<control, stream, stop_sem, video_sem, locks, local,
                            next, app>>

MainSwitches ==
  /\ At("main", "switch")
  /\ Goto("main", CASE status = "work" -> "enter"
                    [] status = "filter" -> "filter"
                    [] OTHER -> "sleep")
  /\ UNCHANGED <<control, stream, others>>

(* video_record_working sets the status it was called for once more.       *)
MainEnters == /\ At("main", "enter")
              /\ status' = "work"
              /\ Goto("main", "sync")
              /\ UNCHANGED <<triggers, stream, others>>

(* The conditions of its two loops: until it is synchronised, and then.    *)
MainSyncs ==
  /\ At("main", "sync")
  /\ Goto("main", IF status = "work" /\ end_time = 0 THEN "syncing" ELSE "loop")
  /\ UNCHANGED <<control, stream, others>>

MainLoops ==
  /\ At("main", "loop")
  /\ Goto("main", IF status = "work" /\ end_time > 0 THEN "mux" ELSE "leave")
  /\ UNCHANGED <<control, stream, others>>

MutMayBegin(f) == TRUE
MayBegin(f) == IsI(f)

(* sync_video_data: drop frames, one by one, up to the first I frame.      *)
sync_video_data ==
  /\ At("main", "syncing")
  /\ \/ /\ mux_head = <<>>
        /\ Goto("main", "sync")
        /\ UNCHANGED <<times, held>>
     \/ /\ mux_head # <<>>
        /\ MayBegin(Head(mux_head))
        /\ start_time' = Head(mux_head)
        /\ end_time' = Head(mux_head) + Duration
        /\ date' = Head(mux_head)
        /\ Goto("main", "sync")
        /\ UNCHANGED held
     \/ /\ mux_head # <<>>
        /\ ~MayBegin(Head(mux_head))
        /\ held' = Head(mux_head)
        /\ Goto("main", "drop")
        /\ UNCHANGED times
  /\ UNCHANGED <<control, req_handle, mux_head, mark, file, sems, locks, left,
                 next, app>>

FreeHeld == mux_head' = Unlinked(held) /\ held' = NoFrame

sync_drops == /\ At("main", "drop")
              /\ FreeHeld
              /\ Goto("main", "syncing")
              /\ UNCHANGED <<control, req_handle, times, mark, file, sems,
                             locks, left, next, app>>

(* switch_record_file.  With no handle open only the times move.  Video    *)
(* marks no other frame meanwhile: the new end_time, which is set first,   *)
(* is further off than the queue is long.                                  *)

NewDateFromMark == /\ date' = unixts_end
                   /\ seq_num_end' = NoFrame
                   /\ unixts_end' = 0

switch_record_file(f) ==
  IF IsI(f) /\ f = seq_num_end
  THEN /\ start_time' = f
       /\ end_time' = f + Duration
       /\ IF cur_mux_handle THEN NewDateFromMark
                            ELSE UNCHANGED <<date, seq_num_end, unixts_end>>
  ELSE UNCHANGED <<times, seq_num_end, unixts_end>>

MustOpen(f) == ~cur_mux_handle \/ (IsI(f) /\ f = seq_num_end)

(* mux_video_data up to add_video_to_mux: one frame, under stop_mutex.     *)
mux_video_data ==
  /\ At("main", "mux")
  /\ stop_mutex = Free
  /\ \/ /\ mux_head = <<>>
        /\ Goto("main", "loop")
        /\ UNCHANGED <<status, times, seq_num_end, unixts_end, file,
                       stop_mutex, held>>
     \/ /\ mux_head # <<>>
        /\ LET f == Head(mux_head) IN
             /\ held' = f
             /\ switch_record_file(f)
             /\ IF MustOpen(f)
                  THEN /\ segment' = <<>>          \* prepare_new_record
                       /\ gotidr' = FALSE
                       /\ \/ /\ cur_mux_handle' = TRUE
                             /\ UNCHANGED status
                          \/ /\ "syserr" \in Faults
                             /\ cur_mux_handle' = FALSE
                             /\ status' = "except"
                  ELSE UNCHANGED <<file, status>>
        /\ stop_mutex' = "main"
        /\ Goto("main", "add")
  /\ UNCHANGED <<triggers, req_handle, mux_head, slipped, sems, record_mutex,
                 left, next, app>>

MainAdds == /\ At("main", "add")
            /\ Goto("main", IF status = "work" /\ cur_mux_handle THEN "muxing"
                                                               ELSE "muxed")
            /\ UNCHANGED <<control, stream, others>>

(* In "muxing" main is inside ak_mux_add_video, with the handle, which     *)
(* takes no frame before its first I frame.                                *)
add_video_to_mux ==
  /\ At("main", "muxing")
  /\ Goto("main", "muxed")
  /\ gotidr' = (gotidr \/ IsI(held))
  /\ \/ /\ gotidr'
        /\ segment' = Append(segment, held)
        /\ UNCHANGED status
     \/ /\ ~gotidr' \/ "skip" \in Faults
        /\ UNCHANGED <<segment, status>>
     \/ /\ "syserr" \in Faults
        /\ status' = "except"
        /\ UNCHANGED segment
  /\ UNCHANGED <<triggers, req_handle, mux_head, times, mark, cur_mux_handle,
                 others>>

MainFreesMuxed == /\ At("main", "muxed")
                  /\ FreeHeld
                  /\ stop_mutex' = Free
                  /\ Goto("main", "loop")
                  /\ UNCHANGED <<control, req_handle, times, mark, file, sems,
                                 record_mutex, left, next, app>>

MutPostForgotten == UNCHANGED stop_sem
PostStop == stop_sem' = stop_sem + 1

MainLeaves == /\ At("main", "leave")
              /\ end_time' = 0
              /\ PostStop
              /\ Goto("main", "sleep")
              /\ UNCHANGED <<control, req_handle, mux_head, start_time, date,
                             mark, file, work_sem, video_sem, locks, local,
                             next, app>>

(* filter_record_stream: with more than trigger_iframe I frames queued,    *)
(* free entries up to the I frame that is one too many, then the P frames  *)
(* after it.  No lock is held from picking an entry to freeing it.         *)
video_record_filter ==
  /\ At("main", "filter")
  /\ IF status # "filter"
       THEN Goto("main", "sleep") /\ UNCHANGED local
       ELSE IF IframeNum > trigger_iframe /\ mux_head # <<>>
              THEN /\ left' = IframeNum
                   /\ held' = Head(mux_head)
                   /\ Goto("main", "thin")
              ELSE UNCHANGED <<pc, local>>
  /\ UNCHANGED <<control, stream, sems, locks, next, app>>

Behind(f) == {i \in 1..Len(mux_head) : mux_head[i] > f}
Successor(f) == IF Behind(f) = {} THEN NoFrame ELSE mux_head[Min(Behind(f))]

(* The type is read after the entry is freed.                              *)
filter_video_data ==
  /\ At("main", "thin")
  /\ mux_head' = Unlinked(held)
  /\ \E isI \in IF "reuse" \in Faults THEN BOOLEAN ELSE {IsI(held)} :
       LET enough == isI /\ left - 1 = trigger_iframe
       IN /\ left' = IF isI THEN left - 1 ELSE left
          /\ IF enough THEN held' = NoFrame /\ Goto("main", "trim")
             ELSE /\ held' = Successor(held)
                  /\ Goto("main", IF Successor(held) = NoFrame THEN "filter"
                                                               ELSE "thin")
  /\ UNCHANGED <<control, req_handle, times, mark, file, sems, locks, next,
                 app>>

drop_extra_frames ==
  /\ At("main", "trim")
  /\ IF mux_head # <<>> /\ ~IsI(Head(mux_head))
       THEN held' = Head(mux_head) /\ Goto("main", "trimming")
       ELSE Goto("main", "filter") /\ UNCHANGED held
  /\ UNCHANGED <<control, stream, sems, locks, left, next, app>>

FilterFrees == /\ At("main", "trimming")
               /\ FreeHeld
               /\ Goto("main", "trim")
               /\ UNCHANGED <<control, req_handle, times, mark, file, sems,
                              locks, left, next, app>>

Main == \/ MainWakes
        \/ MainSwitches
        \/ MainEnters
        \/ MainSyncs
        \/ MainLoops
        \/ sync_video_data
        \/ sync_drops
        \/ mux_video_data
        \/ MainAdds
        \/ add_video_to_mux
        \/ MainFreesMuxed
        \/ MainLeaves
        \/ video_record_filter
        \/ filter_video_data
        \/ drop_extra_frames
        \/ FilterFrees

-----------------------------------------------------------------------------
(* ak_dvr_record_stop, called by t.                                        *)

Returned(t) == IF t = "ctl" THEN "ready" ELSE "loop"

StopLocks(t) == /\ At(t, "stop")
                /\ record_mutex = Free
                /\ record_mutex' = t
                /\ Goto(t, "stop_check")
                /\ UNCHANGED <<control, stream, sems, stop_mutex, local, next,
                               app>>

(* The second return forgets the lock.                                     *)
StopChecks(t) ==
  /\ At(t, "stop_check")
  /\ \/ /\ ~record_flag
        /\ record_mutex' = Free
        /\ Goto(t, Returned(t))
     \/ /\ record_flag
        /\ trigger_type = "reserved"
        /\ Goto(t, Returned(t))
        /\ UNCHANGED record_mutex
     \/ /\ record_flag
        /\ trigger_type # "reserved"
        /\ Goto(t, IF trigger_iframe = 0 THEN "stop_cancel" ELSE "stop_status")
        /\ UNCHANGED record_mutex
  /\ UNCHANGED <<control, stream, sems, stop_mutex, local, next, app>>

CancelMutexFree == pc["video"] \notin {"got", "mark", "stamp"}

MutHandleKept == UNCHANGED req_handle
ForgetHandle == req_handle' = FALSE

StopCancels(t) == /\ At(t, "stop_cancel")      \* cancel_record_stream
                  /\ CancelMutexFree
                  /\ ForgetHandle
                  /\ Goto(t, "stop_status")
                  /\ UNCHANGED <<control, mux_head, times, mark, file, others>>

StopReadsStatus(t) ==
  /\ At(t, "stop_status")
  /\ Goto(t, IF status = "work" THEN "stop_pause" ELSE "stop_over")
  /\ UNCHANGED <<control, stream, others>>

StopPauses(t) ==
  /\ At(t, "stop_pause")
  /\ status' = IF trigger_iframe = 0 THEN "sleep" ELSE "filter"
  /\ Goto(t, "stop_wait")
  /\ UNCHANGED <<triggers, stream, others>>

MutStopWaitSkipped == UNCHANGED stop_sem
TakeStopToken == stop_sem > 0 /\ stop_sem' = stop_sem - 1

StopWaits(t) ==
  /\ At(t, "stop_wait")
  /\ TakeStopToken
  /\ Goto(t, "stop_over")
  /\ UNCHANGED <<control, stream, work_sem, video_sem, locks, local, next,
                 app>>

StopIsOver(t) ==
  /\ At(t, "stop_over")
  /\ status' = IF trigger_iframe = 0 THEN "stop" ELSE status
  /\ Goto(t, "stop_file")
  /\ UNCHANGED <<triggers, stream, others>>

(* generate_record_fragment closes the handle.                             *)
StopGenerates(t) ==
  /\ At(t, "stop_file")
  /\ cur_mux_handle' = FALSE
  /\ segment' = <<>>
  /\ UNCHANGED gotidr
  /\ Goto(t, IF trigger_iframe = 0 THEN "stop_release" ELSE "stop_rearm")
  /\ UNCHANGED <<control, req_handle, mux_head, times, mark, others>>

(* release_media_stream, under stop_mutex.                                 *)
StopReleases(t) ==
  /\ At(t, "stop_release")
  /\ stop_mutex = Free
  /\ mux_head' = <<>>
  /\ Goto(t, "stop_idle")
  /\ UNCHANGED <<control, req_handle, times, mark, file, others>>

StopIdles(t) ==
  /\ At(t, "stop_idle")
  /\ status' = "idle"
  /\ Goto(t, "stop_end")
  /\ UNCHANGED <<triggers, stream, others>>

StopRearms(t) ==
  /\ At(t, "stop_rearm")
  /\ status' = IF status = "except" THEN "filter" ELSE status
  /\ work_sem' = work_sem + 1
  /\ video_sem' = video_sem + 1
  /\ Goto(t, "stop_end")
  /\ UNCHANGED <<triggers, stream, stop_sem, locks, local, next, app>>

StopEnds(t) ==
  /\ At(t, "stop_end")
  /\ trigger_type' = "reserved"
  /\ Goto(t, "stop_flag")
  /\ UNCHANGED <<status, trigger_iframe, record_flag, mux_over_size, stream,
                 others>>

MutFlagKept == UNCHANGED record_flag
ClearFlag == record_flag' = FALSE

StopUnlocks(t) ==
  /\ At(t, "stop_flag")
  /\ mux_over_size' = FALSE
  /\ rec_stopped' = (rec_stopped \/ mux_over_size)
  /\ ClearFlag
  /\ record_mutex' = Free
  /\ Goto(t, Returned(t))
  /\ UNCHANGED <<status, trigger_type, trigger_iframe, stream, sems,
                 stop_mutex, local, next, mode, started, starts>>

ak_dvr_record_stop(t) == \/ StopLocks(t)
                         \/ StopChecks(t)
                         \/ StopCancels(t)
                         \/ StopReadsStatus(t)
                         \/ StopPauses(t)
                         \/ StopWaits(t)
                         \/ StopIsOver(t)
                         \/ StopGenerates(t)
                         \/ StopReleases(t)
                         \/ StopIdles(t)
                         \/ StopRearms(t)
                         \/ StopEnds(t)
                         \/ StopUnlocks(t)

-----------------------------------------------------------------------------
(* record_ctrl_main and the calls it makes.                                *)

MayRequest == starts < MaxStart

(* ak_dvr_record_start, called for the mode: record_ctrl notes the start   *)
(* whatever it returns.  A status that is none of the listed ones changes  *)
(* nothing but the trigger type and, in the end, record_flag.              *)
StartBegins ==
  /\ At("ctl", "ready")
  /\ ~started /\ ~rec_stopped
  /\ MayRequest
  /\ starts' = starts + 1
  /\ started' = TRUE
  /\ IF trigger_type # "reserved"
       THEN UNCHANGED <<trigger_type, pc>>
       ELSE trigger_type' = mode /\ Goto("ctl", "start")
  /\ UNCHANGED <<status, trigger_iframe, record_flag, mux_over_size, stream,
                 sems, locks, local, next, mode, rec_stopped>>

StartChecks ==
  /\ At("ctl", "start")
  /\ IF status \in {"idle", "sleep", "filter"}
       THEN /\ start_time' = 0
            /\ end_time' = 0
            /\ req_handle' = (req_handle \/ status = "idle")
            /\ Goto("ctl", "start_work")
       ELSE /\ Goto("ctl", "start_flag")
            /\ UNCHANGED <<start_time, end_time, req_handle>>
  /\ UNCHANGED <<control, mux_head, date, mark, file, others>>

StartWorks ==
  /\ At("ctl", "start_work")
  /\ status' = "work"
  /\ video_sem' = video_sem + 1
  /\ work_sem' = work_sem + 1
  /\ Goto("ctl", "start_flag")
  /\ UNCHANGED <<triggers, stream, stop_sem, locks, local, next, app>>

StartFlags ==
  /\ At("ctl", "start_flag")
  /\ record_mutex = Free
  /\ record_flag' = TRUE
  /\ Goto("ctl", "ready")
  /\ UNCHANGED <<status, trigger_type, trigger_iframe, mux_over_size, stream,
                 others>>

(* A stop comes at least one 300 ms round of record_ctrl_main after the    *)
(* start: unless it is hasty, main has left the filter and taken the token.*)
MainTookUp == \/ "hasty" \in Faults
              \/ status # "work"
              \/ /\ pc["main"] \notin {"sleep", "switch", "enter", "filter",
                                       "thin", "trim", "trimming"}
                 /\ work_sem = 0

(* stop_record; when the recorder has stopped itself, without the stop.    *)
CtlStops ==
  /\ At("ctl", "ready")
  /\ started
  /\ MainTookUp
  /\ started' = FALSE
  /\ IF rec_stopped THEN rec_stopped' = FALSE /\ UNCHANGED pc
                    ELSE Goto("ctl", "stop") /\ UNCHANGED rec_stopped
  /\ UNCHANGED <<control, stream, sems, locks, local, next, mode, starts>>

CtlForgets ==                        \* report_exception with nothing started
  /\ At("ctl", "ready")
  /\ ~started /\ rec_stopped
  /\ rec_stopped' = FALSE
  /\ UNCHANGED <<control, stream, sems, locks, pc, local, next, mode, started,
                 starts>>

(* change_mode to alarm: ak_dvr_record_turn_on_trigger.                    *)
TurnOn ==
  /\ At("ctl", "ready")
  /\ mode = "plan" /\ ~started
  /\ MayRequest
  /\ starts' = starts + 1
  /\ mode' = "alarm"
  /\ trigger_iframe' = TriggerIframe
  /\ IF status = "idle"
       THEN /\ req_handle' = TRUE
            /\ status' = "filter"
            /\ work_sem' = work_sem + 1
            /\ video_sem' = video_sem + 1
       ELSE UNCHANGED <<req_handle, status, work_sem, video_sem>>
  /\ UNCHANGED <<trigger_type, record_flag, mux_over_size, mux_head, times,
                 mark, file, stop_sem, locks, pc, local, next, started,
                 rec_stopped>>

(* change_mode to plan: ak_dvr_record_turn_off_trigger.                    *)
TurnOff ==
  /\ At("ctl", "ready")
  /\ "disarm" \in Faults
  /\ mode = "alarm" /\ ~started
  /\ mode' = "plan"
  /\ Goto("ctl", IF status = "filter" THEN "off_cancel" ELSE "off_end")
  /\ UNCHANGED <<control, stream, sems, locks, local, next, started,
                 rec_stopped, starts>>

OffCancels == /\ At("ctl", "off_cancel")
              /\ CancelMutexFree
              /\ ForgetHandle
              /\ status' = "stop"
              /\ Goto("ctl", "off_release")
              /\ UNCHANGED <<triggers, mux_head, times, mark, file, others>>

OffReleases == /\ At("ctl", "off_release")
               /\ stop_mutex = Free
               /\ mux_head' = <<>>
               /\ status' = "idle"
               /\ Goto("ctl", "off_end")
               /\ UNCHANGED <<triggers, req_handle, times, mark, file, others>>

OffEnds == /\ At("ctl", "off_end")
           /\ trigger_iframe' = 0
           /\ Goto("ctl", "ready")
           /\ UNCHANGED <<status, trigger_type, record_flag, mux_over_size,
                          stream, others>>

Ctl == \/ StartBegins
       \/ StartChecks
       \/ StartWorks
       \/ StartFlags
       \/ CtlStops
       \/ CtlForgets
       \/ TurnOn
       \/ TurnOff
       \/ OffCancels
       \/ OffReleases
       \/ OffEnds

(* The frames that pass while nobody listens.                              *)
EncoderRunsOn == /\ ~req_handle
                 /\ next \in Frame
                 /\ next' = next + 1
                 /\ UNCHANGED <<control, stream, sems, locks, pc, local, app>>

Next == \/ Video
        \/ Main
        \/ \E t \in Stopper : ak_dvr_record_stop(t)
        \/ Ctl
        \/ EncoderRunsOn

(* Every thread is scheduled, and the locks are fair to who waits.         *)
Fairness == /\ WF_vars(Main)
            /\ WF_vars(Video)
            /\ \A t \in Stopper : SF_vars(ak_dvr_record_stop(t))

Spec == Init /\ [][Next]_vars
FairSpec == Spec /\ Fairness

-----------------------------------------------------------------------------
StopLabel == {"stop", "stop_check", "stop_cancel", "stop_status", "stop_pause",
              "stop_wait", "stop_over", "stop_file", "stop_release", "stop_idle",
              "stop_rearm", "stop_end", "stop_flag"}
MainLabel == {"sleep", "switch", "enter", "sync", "syncing", "drop", "loop", "mux",
              "add", "muxing", "muxed", "leave", "filter", "thin", "trim", "trimming"}
VideoLabel == {"sleep", "loop", "got", "mark", "stamp", "over"} \union StopLabel
CtlLabel == {"ready", "start", "start_work", "start_flag", "off_cancel",
             "off_release", "off_end"} \union StopLabel

TypeOK ==
  /\ status \in {"idle", "work", "sleep", "filter", "except", "stop"}
  /\ trigger_type \in {"reserved", "plan", "alarm"}
  /\ trigger_iframe \in {0, TriggerIframe}
  /\ record_flag \in BOOLEAN
  /\ mux_over_size \in BOOLEAN
  /\ req_handle \in BOOLEAN
  /\ mux_head \in Seq(Frame)
  /\ start_time \in Nat
  /\ end_time \in Nat
  /\ date \in Nat
  /\ seq_num_end \in Nat
  /\ unixts_end \in Nat
  /\ cur_mux_handle \in BOOLEAN
  /\ segment \in Seq(Frame)
  /\ gotidr \in BOOLEAN /\ slipped \in BOOLEAN
  /\ work_sem \in Nat /\ stop_sem \in Nat /\ video_sem \in Nat
  /\ record_mutex \in Stopper \union {Free}
  /\ stop_mutex \in {"main", Free}
  /\ pc \in [Thread -> MainLabel \union VideoLabel \union CtlLabel]
  /\ pc["main"] \in MainLabel
  /\ pc["video"] \in VideoLabel
  /\ pc["ctl"] \in CtlLabel
  /\ held \in 0..MaxFrame
  /\ left \in Int
  /\ next \in 1..MaxFrame + 1
  /\ mode \in {"plan", "alarm"}
  /\ started \in BOOLEAN
  /\ rec_stopped \in BOOLEAN
  /\ starts \in 0..MaxStart

(* record_mutex is held only by a thread that is still inside              *)
(* ak_dvr_record_stop, so the return in StopChecks that keeps it is never  *)
(* taken: a recording that is flagged has its trigger type set.            *)
RecordMutexNotLeaked ==
  record_mutex # Free => pc[record_mutex] \in StopLabel \ {"stop"}

(* Nobody closes the mux handle while main is inside ak_mux_add_video.     *)
NoCloseWhileMuxing == At("main", "muxing") => cur_mux_handle

(* An entry main is about to free is still in the queue.                   *)
NoDoubleFree == held # NoFrame => InQueue(held)

(* The queue and the mux handle have one user at a time, though three      *)
(* threads use them and most of their flags have no lock.                  *)
OneUserAtATime == TypeOK /\ NoCloseWhileMuxing /\ NoDoubleFree

(* A file begins with an I frame and has every frame after it.             *)
SegmentIsPlayable ==
  segment # <<>> => /\ IsI(segment[1])
                    /\ \A i \in 1..Len(segment) : segment[i] = segment[1] + i - 1

(* A planned segment ends at the first I frame that is due.                *)
SplitOnTime ==
  trigger_type = "plan" =>
    \A i \in 2..Len(segment) : IsI(segment[i]) => segment[i] < segment[1] + Duration

(* A file carries the time of its first frame.                             *)
DateIsOfFirstFrame == segment # <<>> => date = segment[1]

(* The frames that main has still to look at, and those of them that video *)
(* has decided about.                                                      *)
Ahead == ToSet(mux_head) \ {held}
Done == Ahead \ (IF At("video", "mark") THEN {next - 1} ELSE {})

(* When a frame is due that main has still to look at, the mark is at it   *)
(* or behind it: main will come to the mark.                               *)
CutIsAhead ==
  trigger_type = "plan" /\ status = "work" =>
    \A f \in Done : IsI(f) /\ f >= end_time =>
                      seq_num_end \in Ahead /\ seq_num_end >= f

(* Every file can be played from its first frame to its last, and a        *)
(* planned one is cut when it is due, however the video thread's mark of   *)
(* the frame to cut at (lines 643-653) meets the main thread's search for  *)
(* it (line 1355): main may miss a mark that is set late or overwritten,   *)
(* but then there is a later one ahead of it.  Until that has happened the *)
(* cut is at the first I frame due, and the file is dated right.           *)
SegmentIsRight ==
  /\ SegmentIsPlayable
  /\ CutIsAhead
  /\ ~slipped => SplitOnTime /\ DateIsOfFirstFrame

(* The encoder's stream is requested exactly while frames are wanted.      *)
NoStreamLeftOpen ==
  status = "idle" /\ At("ctl", "ready") /\ At("video", "sleep") => ~req_handle

(* A stop comes back to its caller.                                        *)
StopReturns ==
  \A t \in Stopper : []<>(pc[t] \notin StopLabel)
=============================================================================
