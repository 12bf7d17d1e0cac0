------------------------------- MODULE Replay -------------------------------
(***************************************************************************)
(* Replay of recorded files, libapp/src/dvr/ak_dvr_replay.c: a thread      *)
(* (replay_main) that plays a list of files to a callback with file_mutex  *)
(* held from the first file to the last, and the calls of its users.  One  *)
(* thread makes the calls, the cloud library's (dana_cmd.c).  A frame is   *)
(* a second of a file; a file is a record of its first second and its      *)
(* length.                                                                 *)
(*                                                                         *)
(* call, the caller: out -> free -> out (stop)                             *)
(*                  out -> refill -> fill -> post -> out (start)           *)
(*                  out -> join -> ended (exit)                            *)
(* rpc, the thread: wait -> lock -> pick -> frame -> send -> frame -> ...  *)
(*                  -> pick -> ... -> wait; frame -> paused -> frame       *)
(***************************************************************************)
EXTENDS Integers, Sequences, FiniteSets, Picks

CONSTANTS Viewer,       \* connections, the callback's user_data
          Recorded,     \* the files on the card, in their order
          Wanted,       \* the spans asked for
          ReplayFaults, \* "badfile", "paused", "earlystop"
          MaxPlay,      \* bound: starts in a run
          MaxPause      \* bound: pauses in a run

ASSUME ReplayAssumption == /\ MaxPlay \in Nat /\ MaxPause \in Nat
                           /\ ReplayFaults \subseteq {"badfile", "paused", "earlystop"}
                           /\ Wanted \subseteq [from : Nat, to : Nat]
                           /\ \A w \in Wanted : w.from < w.to
                           /\ Recorded \in Seq([from : Nat, len : Nat \ {0}])

VARIABLES replay_run, status, request, replay_list, file_mutex, work_sem, replay_sem,
          rpc, entry_nr, second,   \* the thread, its file and second
          call, viewer, span,      \* the caller, for whom and with what request
          sent,                    \* the seconds sent for the request in force
          quiet,                   \* viewers whose stop came back
          plays, pauses

replaySync == <<replay_run, file_mutex, work_sem, replay_sem>>
playVars == <<rpc, entry_nr, second, sent>>
viewerVars == <<call, viewer, span, quiet, plays, pauses>>
replayVars == <<replaySync, status, request, replay_list, playVars, viewerVars>>

Nobody == "nobody"
NoSpan == [from |-> 0, to |-> 0]

ReplayInit == /\ replay_run = TRUE /\ status = "init"
              /\ request = [user |-> Nobody, span |-> NoSpan]
              /\ replay_list = <<>>
              /\ file_mutex = FALSE
              /\ work_sem = 0 /\ replay_sem = 0
              /\ rpc = "wait" /\ entry_nr = 1 /\ second = 0
              /\ call = "out" /\ viewer = Nobody /\ span = NoSpan
              /\ sent = {} /\ quiet = {}
              /\ plays = 0 /\ pauses = 0

RecordEnd(f) == f.from + f.len
InEntry == entry_nr \in DOMAIN replay_list /\ second < RecordEnd(replay_list[entry_nr])

-----------------------------------------------------------------------------
(* Whether an entry is of the request, and its play_start_pos.             *)
MutSkipsLonger(f, w) == \/ f.from <= w.from /\ RecordEnd(f) > w.from
                        \/ f.from >= w.from /\ RecordEnd(f) <= w.to
check_entry_time(f, w) == \/ f.from <= w.from /\ RecordEnd(f) > w.from
                          \/ f.from >= w.from /\ RecordEnd(f) <= w.to
                          \/ f.from < w.to /\ RecordEnd(f) > w.to
PlayStart(f, w) == IF f.from <= w.from /\ RecordEnd(f) > w.from THEN w.from ELSE f.from

ThreadGoes(to) == rpc' = to /\ UNCHANGED <<request, replay_list, viewerVars>>

ReplayWakes == /\ rpc = "wait" /\ work_sem > 0
               /\ work_sem' = work_sem - 1
               /\ ThreadGoes(IF replay_run THEN "lock" ELSE "none")
               /\ UNCHANGED <<replay_run, status, file_mutex, replay_sem, entry_nr, second, sent>>

ReplayLocks == /\ rpc = "lock" /\ ~file_mutex
               /\ file_mutex' = TRUE
               /\ entry_nr' = 1
               /\ ThreadGoes("pick")
               /\ UNCHANGED <<replay_run, status, work_sem, replay_sem, second, sent>>

EndsWalk == /\ file_mutex' = FALSE
            /\ ThreadGoes(IF replay_run THEN "wait" ELSE "none")
            /\ UNCHANGED <<replay_run, work_sem, replay_sem, entry_nr, second, sent>>

(* After an entry, played or not: the next, unless the replay was stopped. *)
NextEntry == IF ~replay_run \/ status = "stop"
               THEN EndsWalk /\ UNCHANGED status
               ELSE /\ entry_nr' = entry_nr + 1
                    /\ ThreadGoes("pick")
                    /\ UNCHANGED <<replaySync, status, second, sent>>

WalkIsOver == /\ rpc = "pick" /\ entry_nr > Len(replay_list)
              /\ EndsWalk /\ UNCHANGED status

EntrySkipped == /\ rpc = "pick" /\ entry_nr <= Len(replay_list)
                /\ ~check_entry_time(replay_list[entry_nr], request.span)
                /\ NextEntry

EntryOpens == /\ rpc = "pick" /\ entry_nr <= Len(replay_list)
              /\ check_entry_time(replay_list[entry_nr], request.span)
              /\ second' = PlayStart(replay_list[entry_nr], request.span)
              /\ ThreadGoes("frame")
              /\ UNCHANGED <<replaySync, status, entry_nr, sent>>

(* One file that cannot be opened ends the replay of all that follow.      *)
EntryFails == /\ "badfile" \in ReplayFaults
              /\ rpc = "pick" /\ entry_nr <= Len(replay_list)
              /\ check_entry_time(replay_list[entry_nr], request.span)
              /\ status' = "stop"
              /\ EndsWalk

EntryIsOver == /\ rpc = "frame" /\ ~InEntry
               /\ NextEntry

ReplayPauses == /\ rpc = "frame" /\ InEntry
                /\ replay_run /\ status = "pause"
                /\ ThreadGoes("paused")
                /\ UNCHANGED <<replaySync, status, entry_nr, second, sent>>

(* A frame is not checked again for what came while it was paused.         *)
FrameChecked(from) == /\ rpc = from
                      /\ IF status = "stop" \/ ~replay_run
                           THEN /\ EndsWalk
                                /\ status' = "stop"
                           ELSE /\ ThreadGoes("send")
                                /\ UNCHANGED <<replay_run, file_mutex, work_sem, status,
                                               entry_nr, second, sent>>

FrameIsDue == /\ InEntry
              /\ ~(replay_run /\ status = "pause")
              /\ FrameChecked("frame")
              /\ UNCHANGED replay_sem

ReplayResumes == /\ replay_sem > 0
                 /\ rpc = "paused"
                 /\ replay_sem' = replay_sem - 1
                 /\ rpc' = "resumed"
                 /\ UNCHANGED <<request, replay_list, viewerVars, replay_run, file_mutex,
                                work_sem, status, entry_nr, second, sent>>
FrameAfterPause == FrameChecked("resumed") /\ UNCHANGED replay_sem

(* The wait for the frame's time lies between the checks and the callback. *)
send_data == /\ rpc = "send"
             /\ sent' = sent \cup {second}
             /\ second' = second + 1
             /\ ThreadGoes("frame")
             /\ UNCHANGED <<replaySync, status, entry_nr>>

-----------------------------------------------------------------------------
Caller(to) == call' = to /\ UNCHANGED <<playVars, request>>

WakesPaused == status = "pause"

(* ak_dvr_replay_stop: only the viewer whose request is in force ends it,  *)
(* but everybody's stop waits for file_mutex and frees the list; without   *)
(* "earlystop" none comes before the thread has the list.                  *)
ak_dvr_replay_stop(v) ==
  /\ call = "out"
  /\ "earlystop" \in ReplayFaults \/ request.user = v \/ (work_sem = 0 /\ rpc # "lock")
  /\ Caller("free")
  /\ viewer' = v
  /\ IF request.user = v /\ replay_run
       THEN /\ status' = "stop"
            /\ replay_sem' = IF WakesPaused THEN replay_sem + 1 ELSE replay_sem
       ELSE UNCHANGED <<status, replay_sem>>
  /\ UNCHANGED <<replay_run, file_mutex, work_sem, replay_list, span, quiet, plays, pauses>>

MutFreesUnlocked == TRUE
ListIsFree == ~file_mutex
free_replay_list(from, to) ==
  /\ call = from /\ ListIsFree
  /\ Caller(to)
  /\ replay_list' = <<>>
  /\ UNCHANGED <<replaySync, status, viewer, span, plays, pauses>>

StopFrees == free_replay_list("free", "out") /\ quiet' = quiet \cup {viewer}

(* ak_dvr_replay_start; dana_cmd_record_play calls ak_dvr_replay_stop      *)
(* before, other callers do not.  A start while paused would find the lock *)
(* kept by the paused thread ("paused").                                   *)
StartChecks(v) == /\ call = "out" /\ plays < MaxPlay
                  /\ replay_run /\ status # "working"
                  /\ "paused" \in ReplayFaults \/ status # "pause"
                  /\ plays' = plays + 1
                  /\ viewer' = v
                  /\ \E w \in Wanted : span' = w
                  /\ Caller("refill")
                  /\ UNCHANGED <<replaySync, status, replay_list, quiet, pauses>>

StartFrees == free_replay_list("refill", "fill") /\ UNCHANGED quiet

(* record_file_get_list (DvrSpace) finds more than what was asked for.     *)
Overlaps(f, w) == f.from < w.to /\ RecordEnd(f) > w.from

add_to_replay_tail ==
  /\ call = "fill"
  /\ \E keep \in SUBSET DOMAIN Recorded :
       /\ {i \in DOMAIN Recorded : Overlaps(Recorded[i], span)} \subseteq keep
       /\ replay_list' = Picked(Recorded, keep)
  /\ replay_list' # <<>>
  /\ Caller("post")
  /\ UNCHANGED <<replaySync, status, viewer, span, quiet, plays, pauses>>

StartPosts == /\ call = "post"
              /\ call' = "out"
              /\ request' = [user |-> viewer, span |-> span]
              /\ sent' = {}
              /\ quiet' = quiet \ {viewer}
              /\ status' = "working"
              /\ work_sem' = work_sem + 1
              /\ UNCHANGED <<replay_run, file_mutex, replay_sem, replay_list, rpc, entry_nr,
                             second, viewer, span, plays, pauses>>

ak_dvr_replay_pause == /\ call = "out" /\ status = "working"
                       /\ pauses < MaxPause
                       /\ pauses' = pauses + 1
                       /\ status' = "pause"
                       /\ Caller("out")
                       /\ UNCHANGED <<replaySync, replay_list, viewer, span, quiet, plays>>

ak_dvr_replay_resume == /\ call = "out" /\ status = "pause"
                        /\ status' = "working"
                        /\ replay_sem' = replay_sem + 1
                        /\ Caller("out")
                        /\ UNCHANGED <<replay_run, file_mutex, work_sem, replay_list, viewer,
                                       span, quiet, plays, pauses>>

(* ak_dvr_replay_exit posts work_sem only: a paused thread is not woken.   *)
MutExitPost == UNCHANGED work_sem
ExitPost == work_sem' = work_sem + 1
ExitPosts == /\ call = "out" /\ replay_run
             /\ "paused" \in ReplayFaults \/ status # "pause"
             /\ replay_run' = FALSE
             /\ status' = "stop"
             /\ ExitPost
             /\ Caller("join")
             /\ UNCHANGED <<file_mutex, replay_sem, replay_list, viewer, span, quiet, plays,
                            pauses>>

ExitJoins == /\ call = "join" /\ rpc = "none"
             /\ replay_list' = <<>>
             /\ Caller("ended")
             /\ UNCHANGED <<replaySync, status, viewer, span, quiet, plays, pauses>>

-----------------------------------------------------------------------------
ReplayStep == \/ ReplayWakes \/ ReplayLocks \/ WalkIsOver \/ EntrySkipped \/ EntryOpens
              \/ EntryFails \/ EntryIsOver \/ ReplayPauses \/ FrameIsDue \/ ReplayResumes
              \/ FrameAfterPause \/ send_data
CallerStep == StopFrees \/ StartFrees \/ add_to_replay_tail \/ StartPosts \/ ExitJoins

ReplayNext == \/ ReplayStep \/ CallerStep
              \/ \E v \in Viewer : ak_dvr_replay_stop(v) \/ StartChecks(v)
              \/ ak_dvr_replay_pause \/ ak_dvr_replay_resume \/ ExitPosts

ReplaySpec == /\ ReplayInit /\ [][ReplayNext]_replayVars
              /\ WF_replayVars(ReplayStep) /\ WF_replayVars(CallerStep)

-----------------------------------------------------------------------------
ReplayTypeOK == /\ status \in {"init", "working", "pause", "stop"}
                /\ work_sem \in Nat /\ replay_sem \in Nat
                /\ call \in {"out", "free", "refill", "fill", "post", "join", "ended"}
                /\ rpc \in {"wait", "lock", "pick", "frame", "paused", "resumed", "send", "none"}
                /\ file_mutex <=> rpc \in {"pick", "frame", "paused", "resumed", "send"}

(* Nothing is sent for a viewer whose stop has come back (lines 617-632):  *)
(* its connection is given to another then (ak_dana.c 202-204).            *)
SilentAfterStop == [][sent' # sent /\ sent' # {} => request.user \notin quiet]_replayVars

(* A replay that has run its course without a stop or a bad file has sent  *)
(* all that is recorded of the span asked for, whatever tokens and lists   *)
(* earlier calls have left behind (lines 345-387, 642-682).                *)
Idle == rpc = "wait" /\ work_sem = 0 /\ call = "out"
PlayedWhole ==
  Idle /\ status = "working" =>
    \A i \in DOMAIN Recorded : LET f == Recorded[i] IN
      \A t \in f.from..RecordEnd(f) - 1 :
        t \in request.span.from..request.span.to - 1 => t \in sent

(* The stop of the viewer who watches comes back, and so does the exit of  *)
(* the program (lines 549-584, 617-632).                                   *)
ReplayEnds == /\ []<>~(call = "free" /\ viewer = request.user)
              /\ []<>(call # "join")
=============================================================================
