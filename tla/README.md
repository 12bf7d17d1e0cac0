# Verification of the qiwen IP-camera platform

This directory holds TLA+ models of the code under `src/platform/`: the
software of an Anyka AK39EV3xx camera. The models are checked with TLC on small
instances, and what matters most about them is proved with TLAPS for every
value of their constants. `PROJECT.json` has the components, the runs, the
lines each definition models (`map`), the hazards, the findings and the
theorems.

    tlc -workers 2 -config MCVencStream.cfg MCVencStream.tla
    tlapm VencStreamProofs.tla

## 1. The system

The platform is C with POSIX threads, in three libraries and the applications
on top of them.

    camera ─ vi ─┐
                 ├─ venc ─ queues of encoded frames ─┬─ recorder ─ files ─ SD card
                 │                                   ├─ rtsp / dvs
    mic ─── ai ──┴─ aenc ─ lists of audio frames ────┴─ Dana cloud ─ talk buffer ─ ao ─ speaker
    record_ctrl ── start, stop, plan, alarm ──▶ recorder
    ccli ── pipe ──▶ cmd_serverd / ipc_srv ──▶ any module
    daemon ◀── heartbeats ── akipc

| part | state it keeps | operations | hard because |
|---|---|---|---|
| ring buffer, `libplat/src/common/ak_ring_buffer.c` | array, two offsets, byte count | read, write, reset, length | wrap and overwrite arithmetic |
| video encoder streams, `libmpi/src/venc/ak_venc.c` | per group: users' bit map and count, queue of entries with a bit per user; captured frames | request, get, cancel; capture and encode thread | four locks, ids used again, last user tears down what the threads use |
| recorder, `libapp/src/dvr/ak_dvr_record.c` | status, trigger, queue of frames, times of the segment, mark of its end, mux handle | start, stop, turn pre-record on and off; video, audio and main thread | most fields are shared with no lock; stop meets main through one semaphore |
| recorded files, `libapp/src/dvr/ak_dvr_file.c` | two temporary files, info file, dated files, flush thread | open, name, wake up, close, init, exit, scan, delete for room | crash at any step; flush thread reads shared indexes unlocked |
| record control, `apps/akipc/record/record_ctrl.c` | mode, plan, alarm, exceptions, request flags | its thread, callbacks of the recorder, commands | flags set and cleared by several threads |
| files on the card, `record_fs.c`, `ak_dvr_disk.c` | list of recorded files, free space | scan, delete, accounting | the scan and the flush account for the same files |
| replay, `ak_dvr_replay.c` | list of requested files, demux handles | start, stop, its threads | its list is filled by the file module |
| muxer, `libmpi/src/muxer/` | write cache | write, seek, its thread | cache shared by two threads |
| audio encoder, `libmpi/src/aenc/` | list of users, each with its frames | request, get, cancel, its threads | as the video encoder |
| audio decoder, `libmpi/src/adec/` | whose stream it is, the codec's flags and buffer, the stream's status | request, send, end, cancel; the thread that feeds the speaker | two callers for one stream; flags written by both sides with no lock; a cancel that waits for them |
| audio in and out, `ai`, `ao`, `vqe` | capture buffers, play queue | read, play, volume | blocking reads, switch of the speaker |
| video input, `vi`, `vpss` | driver buffers, requested frames | open, capture, release | mostly driver calls |
| command server, `libplat/src/ipc_srv/` | registered servers, a thread per command | register, serve, unregister | unregister while a command runs |
| pan and tilt, `libplat/src/drv/ak_drv_ptz.c` | motor state, position | turn, stop, self check | the wait for a step's end |
| watchdog, `apps/daemon/`, `akipc/monitor/` | heartbeat counters | restart, reboot | late heartbeat against restart |
| updater, `apps/updater/` | partitions | check, erase, write | power loss |
| configuration, `config/`, `ini/` | list of titles and items | get, set, save | save shared by threads |
| alarm, `alarm`, `md`, `aed` | event filter | start, stop, report | start and stop against the report thread |
| cloud and streaming, `dana`, `rtsp`, `onvif`, `net` | sessions | connect, send, leave | glue to prebuilt libraries, protocol text |
| on-screen display, test servers, small drivers, Wi-Fi tools, helpers | little | | I/O, drawing, numeric code |

How they interact: the recorder, RTSP and the cloud are *users* of the
encoder's streams (calls under `cancel_lock` and the group's `lock`). Record
control calls the recorder and is called back with exceptions. The recorder
calls the file module, which calls back when a flush has ended. The scan, the
flush thread and the recorder share the card.

The behaviours that are hard: interleavings of threads over unlocked fields
(recorder, file module), one token of a semaphore standing for several events
(recorder's stop), death at any step (files), ids and flags that outlive their
meaning (encoder streams, file module), and joins under a lock (encoder
streams). `hazards` in `PROJECT.json` lists them one by one, at the line where
each bites, with the property that would catch it.

What makes each part correct:

- ring buffer: a reader sees the newest bytes, in order, whatever wraps;
- encoder streams: each user gets each frame queued since its request, once; a
  count frees an entry neither early nor late; an overflow leaves decodable
  video; a cancel returns;
- recorder: a file begins with an I frame and misses nothing after it, is split
  on time and dated by its first frame; no handle is closed and no entry freed
  while another thread uses it; a stop returns and leaves nothing requested;
- files: a finished segment is on the card under its own date, once, after any
  crash;
- files on the card: list and account tell what the card has, whatever scan,
  flush and deletion meet; what makes room is of the oldest day;
- record control: recordings follow the plan and the alarms, nothing records on
  a card that is being formatted, and a planned recording resumes;
- replay: the request in force is played whole, and its viewer hears nothing
  after its stop;
- audio streams: sound comes in order, once, without a gap; a voice tip is heard
  to its end, and whoever uses the speaker gets it back;
- services: a command takes the motor where it says; whoever asks the command
  server is answered; the application comes back after any crash, and no
  watchdog runs while the flash is written; the card in the slot is the one
  mounted.

## 2. What is modelled

| module | extends | models |
|---|---|---|
| `ByteWindow` | | what the ring buffer promises: a queue of the newest bytes |
| `RingBuffer` | | `ak_ring_buffer.c`; refines `ByteWindow` |
| `SegmentStore` | | what the file module promises: a finished segment gets saved, an interrupted one is recovered |
| `DvrFile` | | `ak_dvr_file.c` and the calls of `ak_dvr_record.c` that save a segment; refines `SegmentStore` |
| `DvrRecord` | | `ak_dvr_record.c` as three threads, and the calls of `record_ctrl.c` |
| `VencStream` | | request, get, cancel and the two threads of `ak_venc.c` |
| `DvrSpace` | | the list of recorded files, the scan, the account of room, deletion |
| `NodePool` | | the preallocated nodes of that list |
| `RecordCtrl` | | `record_ctrl.c`: plan, alarms, card, exceptions, commands |
| `Replay` | | `ak_dvr_replay.c` |
| `Aenc`, `AencRing` | | the streams of `ak_aenc.c`, and the arithmetic of its ring |
| `AudioDec` | | the stream of `ak_adec.c` with the voice tips and the talk as its callers |
| `Ptz` | | `ak_drv_ptz.c`, pan and tilt |
| `IpcServer` | | `ipc_srv.c`, the command server |
| `Picks` | | a list of which some entries stay, as a set of places |
| `Daemon`, `Hotplug` | | `daemon.c` with `monitor.c`: watchdog and heartbeats; the mounting of the card |
| `MCServices` | nine of the above | small parts that share no state, in one run |
| `MCCancel` | `VencStream`, `AudioDec` | the two streams whose cancel waits for threads with a mutex held |
| other `MC...` | the module of that name | the small instances TLC checks |
| `RingBufferProofs`, `DvrFileProofs`, `DvrRecordProofs`, `RecordCtrlProofs`, `VencStreamProofs`, `DvrSpaceProofs` | the module of that name | its theorems |
| `AudioProofs` | `Aenc`, `AencRing`, `AudioDec` | the theorems of the audio streams |
| `ServicesProofs` | `MCServices`, `RingBufferProofs`, `AudioProofs` | the theorems of the other small parts, and of all the parts together |

In every module a step is a section of code nobody can interrupt: a section
under a lock, or one access to a field that is shared without one. Definitions
have the names of the C functions where they stand for a whole function, and
`map` names the lines of every one. Operators named `Mut...` are plausible
wrong versions of the definition that follows them; no model uses them. Each
property is shown to fail when its definition is exchanged for such a version,
so it says something about the code.

### RingBuffer and ByteWindow

State: `data`, `read`, `write`, `remain` are the fields of the struct;
`out`, `ret`, `given`, `asked` are the caller's side of the last call. The
buffer has no lock of its own (its callers have one), so a call is a step. Both
offsets may rest at `total_len`, one past the array: the code wraps them on the
next call only. `ImplementsWindow` is the refinement: the bytes from `read` on,
`remain` of them, wrapped, are `ByteWindow`'s queue. `ak_rb_init` that fails and
`ak_rb_release` are left out.

### DvrFile and SegmentStore

State on the card: `tmp` (the two temporary files), `info` (`rec_info_file`),
`saved` (the dated files). State in memory: the streams `fp` and `name_tmp`,
`file_name`, `save_date`, `save_index`, `manage_sem`, `fp_mutex`, where the
flush thread is, and the recorder's `use_index`, `cur_mux_handle`,
`flush_finish`. A segment is its number in the order of opening; the same number
is its date.

The recorder's thread and the caller of `ak_dvr_record_stop` take turns, which
`DvrRecord` checks, so they are one process. The flush thread is cut where it
reads `save_index`: before the lock, in `sync_record_file`, in
`stat_record_file`. `Die` is a crash or a power cut at any step;
`ak_dvr_file_init` runs `check_poweroff_file` on what the card has kept, with
stdio's buffering taken into account: the date reaches `rec_info_file` only with
the first `record_file_update_duration`.

`SegmentStore` knows neither slots nor threads: a segment is recorded, finished,
saved, or left (`Safety`); what is finished and long enough is saved while the process
lives, and what a death interrupted is saved by the next start if its duration
was noted (the fairness that `Spec` adds to `Safety`). `ImplementsStore` is the refinement, its liveness included: `StageOf`
says how far a segment of `DvrFile` has come. It holds without faults; each of
the faults below but `muxopen` and `unmounted` is a way to break it.

`Faults` says which mishaps a run allows. Without any, the model assumes what
the code assumes:

- `late` absent: the 10 ms sleep at `ak_dvr_record.c:1163` is long enough for
  the flush thread to take `fp_mutex`;
- `full` absent: room can be made for a segment;
- `unmounted` absent: a card in its slot is mounted when a recording stops;
- `muxopen` absent: `ak_mux_open` does not fail.

Left out: the accounting of the card's space, the scan and the list of recorded
files, which are `DvrSpace`, and a card taken out or formatted while a segment
is open.

### DvrRecord

Three threads, each with a program counter: `video` (`video_stream_thread`),
`main` (`video_record_main`) and `ctl` (record control's thread, which starts,
stops and changes the mode). `status`, `trigger_type`, `record_flag`,
`mux_over_size`, the times and the mark of the segment's end are shared with no
lock, so reads and writes that may race are steps of their own. A frame is its
number, which is its time; every `Gop`-th is an I frame.

`Faults` again names what a run allows:

- `late`: the video thread is preempted between queueing a frame and marking it;
- `lag`: main falls behind by a group of pictures or more;
- `oversize`: the queue reaches `STREAM_DATA_MAX_SIZE`;
- `syserr`: `ak_mux_open` or `ak_mux_add_video` fails with `MUX_STATUS_SYSERR`;
- `skip`: `ak_mux_add_video` refuses a frame and the recording goes on without it;
- `hasty`: a stop follows a start before main has taken the recording up
  (record control's round takes 300 ms);
- `disarm`: alarm mode may be left while pre-recording;
- `reuse`: the memory of an entry freed by the filter is reused before the
  filter reads its type.

Without any, the mux still refuses what comes before the first I frame of a file
(`gotidr`, `ak_mux.c:540-550`). `slipped` is history: video was late with a mark,
or main a group behind.

Left out: the audio thread (the video thread without marks), `ak_dvr_record_exit`,
the limit of 400 KB on a frame, a request of the encoder's stream that fails.

### VencStream

State per group: `req_ref`, `user_map`, `is_stream_mode`, `stream_list`,
`streams_count`. Global: `venc_list`, `inited_enc_grp_num`, the captured frames,
the two threads' run flags and places, `cancel_lock`, `cancel_mutex`. Per user:
where it is and its stream handle. `made`, `lost`, `since` and `got` are history
variables: the frames queued, dropped by an overflow, queued before a user's
request, and given to it. They guard nothing.

A section under `handle->lock` is one step. `ak_venc_cancel_stream` and the
`encode_thread_group_exit` in it are eight steps, for between them the capture
and the encode thread go on. The encode thread checks `req_ref`, encodes, and
saves in steps of their own: that is where the second divergence below comes
from.

Left out: opening and closing a group (and `close_mutex`, which only they share
with the encode thread), frame rate control and time stamps (a frame left out
for a group looks like a failure of the encoder), the YUV frame that may be
fetched, rate and parameter settings, lack of memory.

### DvrSpace and NodePool

State: what the card has (`card`, `folders`, `tmp`), what the file module
believes (`dirs`, `listed`, `free_size`, `used_size`, `cyc_flag`), and three
threads: `ctl` in `ak_dvr_file_create_list`, `scan` in `get_pre_saved_record`,
`flush` in `stat_record_file`. A file is its time; it lies in the directory of
its hour, of which the code keeps the day only. The scan goes through the card
hour by hour and then drops what is listed and gone; between any two of its
steps the flush thread may save, delete for room, or be refused.
`record_file_get_list` is the request for replay.

A file of the list and a directory of it are nodes of pools that refuse one each
time their cursor wraps, though others are free. Here any request may be refused
(`find_dir_list`, `add_file_to_list`, `FlushIsRefused`); `refused` is history: the
files that were, when the scan or the flush thread last came to them. A file
without a node is charged but not listed. If it is the first of its hour the flush
thread has not made its directory either, and its rename fails; a directory without
a node has been made on the card by then (`ak_dvr_file.c:550`), so its file is saved
and not listed.

`Faults`: `race` lets two threads meet between an unlocked look and its use
(without it the model assumes that such a window, of a few instructions or one
system call, is not hit); `quickscan` lets a scan end between two instructions
of its caller. Sizes are below `Word`, so a difference may wrap as `unsigned
long` does; every size and the card's are below it. A total of sizes is a fold and
the directories of a list are a recursive function, which the proofs can speak of.

`NodePool` is `malloc_record_file_entry` and its inverse: a cursor that runs to
the end of the array and starts over only at the next call. The pool of
directories is the same code again.

Left out: the names of files, `ak_record_exist`, the repair of a read-only card
by two shell commands, the links of the list.

### RecordCtrl

The control thread's round, in its order: look at the card and the exceptions
(`check`, `store`), act on plan or alarm (`act`), sleep, format, change of table,
change of mode. The rest of the world meets it between any two of these: the
recorder reports exceptions, commands set the flags, motion leaves the time of an
alarm, the user takes out, puts in or breaks the card, and the program exits. `rec` is what the
recorder is at: `DvrRecord` has shown that its start and stop are done when they
return. Time is a clock of short days and weeks, which advances between rounds.

`Faults`: `torn` (an exception is reported while a new value of `except_type` is
being written), `norequest` (the encoder refuses the recorder its stream).

The times of an alarm are at least 1, for `ak_config.c:821-833` puts a default in
the place of a 0.

Left out: the queries `record_ctrl_get_*`, the script that formats and remounts
(its result is a free choice), the time zone.

### Replay

`rpc` is the thread (`replay_main`), which plays the list from the first file to
the last with `file_mutex` held; `call` is the one thread that starts, stops and
exits (the cloud library's). A frame is a second of a file. `sent` and `quiet`
record what was sent for the request in force, and whose stop came back.

`ReplayFaults`: `badfile` (a file cannot be opened or ends early; on in the run),
`paused` (`ak_dvr_replay_pause`, which nothing calls at present), `earlystop` (a
viewer who does not watch may stop).

Left out: the list handed to the caller, a card that is taken out, the pace.

### Aenc and AencRing

`Aenc` has the users, each inside request, get or cancel, the capture thread and
the encode thread with their places, the locks, and per group the queue of
entries with a count and the users' numbers. The first request builds the ring
and the threads; the last cancel joins the threads one after the other and frees
the ring, in steps of its own. `got` is what a user was given. Requests and cancels
of different users overlap as they like: the recorder (`ak_dvr_record.c:960`,
`:1429`) and the cloud (`dana_av.c:795`, `:822`) call in threads of their own with
no common lock. Where a cancel that leaves its group, or all groups, without users
crosses a request, the program works on a freed ring or buffer or a destroyed mutex
(`RequestCrosses`, `LeaveCrosses`: lines 1597, 1611, 1829, 1856; and the encode
thread, which looks at the count at 999 and locks at 1002, copies to a buffer that
is gone). C says nothing of the program from there on: `undefined` is set and the
model stops.

`AencRing` is the ring alone, sample by sample: offsets that may rest at its end,
readers that take frames of their own length, no count of what is unread, and a
writer that looks at one reader. It is free to write at any time; `Aenc` has of it
what a reader sees, a whole ring lost where the writer runs into it.

Left out: opening and closing an encoder, the encoders, time stamps, the
writer's way out after 500 retries (`ak_aenc.c:1053` sets its offset to 0, so that
old sound could be read once more).

### AudioDec

`wpc` is `write_pcm_thread`, cut at every look at a flag the callers write;
`acall` is where each caller is: the voice tips, which open a codec per file, and
the talk from the cloud, which keeps one. One has the stream at a time; a tip that
is refused is dropped, as in the code. A codec's buffer is counted in frames, and
whether a part of one is behind them: what is sent need not end with a frame. The
speaker's driver plays what it has; it does not run dry while the thread has more
for it, which is decoded in far less time than it takes to play. A tip's sends
are two sleeps of 10 ms apart, in which the thread has come to rest or is at a
frame (`WriterWaits`, `TipNaps`). That is an assumption about time, 20 ms being
enough for a thread to have its turn; without it, from three sends on, a send
could come between the thread's last look and its flag (the fault `gap`).

`AdecFaults`: `gap` (something is sent between the thread's last look at the
buffer and its clearing of `decode_flag`), `silent` (a stream ends with nothing
sent).

Left out: opening and closing, errors of the decoder's library, a thread that
cannot be created (`req_handle` then stays set, and nobody gets the stream again),
the cancel without waiting, volume.

### Ptz

Two motors, each with a thread, a semaphore and a command in `cmd_data`; the
kernel's driver, which turns step by step and reports the end as an event; the
caller, with the self check. `Late` says that a thread may need longer to wake
than the callers sleep (5 ms). A place is in steps, a command in degrees, and the
conversions round down, as in the code; callers turn by at most a circle
(`dana_others.c:281-296`). Left out: speed, the timeout of select, a second
self check without a close.

### IpcServer

`handle_thread`, a thread per connection, the list of commands, and askers who
wait without a timeout. `was_in` and `was_out` are history: whether the command
was, or was not, registered at some moment since it was asked. `SrvFaults`:
`live` (unregistering while a thread that looked up the command is at work),
`nothread` (a thread cannot be created). Left out: the text of commands.

### Daemon and Hotplug

`Daemon`: the application and the daemon share a fifo; each learns from it that
the other is gone. With them the thread that feeds the hardware watchdog, and
`update.sh`, which stops all three. Application and daemon may die at any step.
`DaemonFaults`: `hang`, `slow`, `early`, `late`, as commented in the module. An
application told to exit (`AppExits`: the handler of SIGTERM clears a flag, and
`main` then calls `exit_ipc_app`) is assumed to get to its end, although that call
joins threads and may block; it is `hang` if it does.
`Hotplug`: the kernel's events, the devices of now, and what is mounted over
what. `HotFaults`: `lost` events, a `swift` change of cards. Left out: keys, the
factory test over TCP, the broadcast.

## 3. The runs

| run | instance | states | shows |
|---|---|---|---|
| `dvr_file` | 3 segments, 2 deaths, no faults | 66 692 | no finished segment is lost or misnamed, each is saved at last, the one in progress could be and is recovered, a stop waits for its flush |
| `dvr_file_faults` | 3 segments, 1 death, every fault | 417 729 | nothing is saved twice, a stop returns |
| `dvr_space` | 5 files on three days, room for 3 or 4, two scans, any one file refused a node | 660 822 | list, account and card agree; no segment is lost but the first of an hour that is refused a node; the oldest day makes room; a request finds what is listed; the caller of a scan comes back |
| `dvr_record` | 8 frames, 2 starts, groups of 2, queue of 5, `late`, `lag`, `reuse` | 496 983 | files are playable, cut when due, dated right; handle and queue have one user; a stop returns |
| `dvr_record_faults` | 5 frames, 2 starts, queue of 3, every fault | 1 642 991 | `record_mutex` is not leaked, no stream stays requested |
| `record_ctrl` | days of 2 seconds, weeks of 2 days, 2 tables, 2 cards, 1 exception, 1 command | 1 470 250 | recordings follow plan and alarms; no recorder on a card being formatted; recording resumes |
| `venc_stream` | 2 users, 2 groups, queue of 2, 3 frames | 2 410 090 | counts are right, no frame is missed, overflow keeps video decodable |
| `venc_cancel` | encoder: 2 users, 2 groups, queue of 2, 2 frames; decoder: 3 streams and 3 sends of each caller, buffers of 2 frames | 349 168 | every request and cancel returns, and a voice tip is heard to its end |
| `venc_stale` | 3 users, 1 group, 3 frames | violation | see below |
| `venc_leftover` | 2 users, 2 groups, 2 frames | violation | see below |
| `services` | nine small parts, one of them moving | 988 520 | see the properties |
| `aenc_cancel` | 1 user, 2 frames | violation | see below |

The properties, module by module. Some are conjunctions of named parts, given in
brackets: one counterexample names the part.

- `RingBuffer`: `ImplementsWindow`; `OffsetsAgree` (offsets and count describe one
  region; in `PartsAreSound`).
- `DvrFile`: `NothingIsLost` (`TypeOK`; `HandedOverSurvives`: a segment handed to
  the flush thread is saved or still in its temporary file; `SavedUnderItsDate`;
  `Recoverable`: should the process die now, the recovery would save the segment
  in progress under its own date); `ImplementsStore`; `StopWaitsForFlush` (a stop does not go on
  because of another segment's flush); `SavedOnce`; `StopReturns`.
- `DvrSpace`: `CardIsAsKept` (`TypeOK`; `ListIsCard`; `AccountIsBacked`: what the
  account promises is on the card; `ReplayIsFound`: a request finds what is there);
  `NoSegmentLost`; `OldestDayGoes`; `CreateReturns`.
- `NodePool`: `NodeGivenOnce`; `RefusedTwiceIsFull` (in `PartsAreSound`).
- `DvrRecord`: `OneUserAtATime` (`TypeOK`; `NoCloseWhileMuxing`; `NoDoubleFree`);
  `SegmentIsRight` (`SegmentIsPlayable`; `CutIsAhead`: a frame that is due and not
  yet looked at has a mark at it or behind it; and until a mark is late or main a
  group behind, `SplitOnTime` and `DateIsOfFirstFrame`);
  `RecordMutexNotLeaked`; `NoStreamLeftOpen`; `StopReturns`.
- `RecordCtrl`: `RecordingIsRight` (`TypeOK`; `RecordingIsKnown`: what is recorded
  is what the flags say; `AlarmIsLimited`; `NothingAfterExit`);
  `FuserFindsNobody`; `StartsOnListedCard`; `PlanIsFollowed`;
  `AlarmNotCutShort`; `PlanResumes`.
- `VencStream`: `QueueIsSound` (`TypeOK`; `KeyFrameOutlivesItsGroup`);
  `RefIsUsers`; `NoFrameMissed`; `CancelReturns`; and the two the code breaks,
  `FreshOnly` and `EmptyWhenIdle`.
- `Replay`: `PlayedWhole`; `SilentAfterStop`; `ReplayEnds`.
- `Aenc`: `SessionIsWhole` (what the threads work on is there while they live);
  `SoundInOrder`; and the one the code breaks, `AencCancelReturns`.
  `AencRing`: `SoundKept`.
- `AudioDec`: `TipIsHeard` (when the cancel that waited for a tip clears the
  buffer, no frame of it is left there); `SpeakerComesBack` (every call returns).
- `Ptz`: `CommandIsObeyed`; `IdleIsStill` (in `PartsAreSound`).
- `IpcServer`: `AskerComesBack`; `AnswerFits` (in `PartsAreSound`).
- `Daemon`: `NoRebootInUpdate`; `AppReturns`. `Hotplug`: `SettledIsMounted`.

Stated in a module and listed by no run: `CallerComesBack` (`Ptz`) and
`NeverUnwatched` (`Daemon`), which hold and follow the same argument as
`CommandIsObeyed` and `AppReturns`; `EarliestGoes` (`DvrSpace`), see section 4.

**Why the bounds are enough.** A ring of 3 bytes and chunks of up to 4 have every
case of the arithmetic: fits, wraps, fills exactly, overwrites, is refused. With
two slots, three segments are the least at which a slot is used again while the
other's flush may be pending; a second death covers a death after a recovery.
Eight frames in groups of two, with segments of two, are four segments, or an
alarm with its pre-record between two plans. Two users and two groups make one
group's last cancel meet the other group's traffic; with a queue of two, three
frames overflow it; a third user is needed only where an id is passed on while
another user keeps the group alive. On the card,
directories of two files and days of two directories are the least at which a day
is left half deleted; five files make room twice. One refusal at a time is a wrap of
the pool's cursor; the next is the length of the pool away. A day of two seconds with a
plan for each and a week of two days has every neighbour: the next plan today,
tomorrow, over the end of the week, and none. Three clock ticks are a recording,
its end and one after. Two motors share nothing but their caller, so a circle of
four degrees and a range of six steps of ten keep the rounding; two commands are
one and its overtaking. Two askers and two commands meet a register and an
unregister. Two crashes are the application's and the daemon's, in both orders;
two cards are one and its successor. Two users of the audio encoder with three requests make
one's last cancel cross the other's request, and two frames in flight follow one
another through ring, entry and queue. Two viewers with two starts replace one
another; three files with a gap have a span that begins and ends inside. The ring
of the audio encoder is four writes long, its readers take lengths that do and do
not divide it, and three times its length is written, so that a reader that takes
nothing is overrun. The
decoder's callers use the stream three times each, so that each follows itself and the
other, with what an earlier stream has left in a codec that stays open; of three
sends one is neither the first nor the last. `CHECK_DEADLOCK` is off because the bounded
counters (segments, frames, starts) run out, after which the system may rest.

**Fairness.** The recorder's, the encoder's and the flush thread are POSIX threads
with nothing above them: weak fairness. A call that a user or record control is
inside goes on: weak fairness of the steps of `ak_venc_cancel_stream`, and strong
fairness of those that take a lock other threads keep taking, which every step of
`ak_dvr_record_stop` may be, for the code assumes a mutex that does not starve. Record control's
thread, the scan, the replay thread, the audio encoder's two, the audio decoder's, the motors', the
command server's and the daemon's are threads too: weak fairness of each step;
the kernel's motor turns, a process that was told to exit does, and the machine
reboots when the watchdog fires. Record control's clock advances
(`PlanResumes` asks what happens once the card and the table stay as they are,
and in `Daemon` a heartbeat is sent by a thread); the speaker plays, and a tip's
sleep ends whatever the decoder's thread does meanwhile (strong fairness of
`TipNaps`). Nobody
is assumed to start, stop, request, get or cancel, and the camera need deliver
nothing.

## 4. Where the code differs from what it says

Three runs end in a counterexample; each is a disagreement of the code with a
comment of its own (quoted under `findings`).

- `venc_stale`, `FreshOnly`: a cancel leaves the user's bit in the queued
  entries; the next request takes the lowest free id and is given its
  predecessor's frames.
- `venc_leftover`, `EmptyWhenIdle`: a frame whose encode began before the cancel
  is saved after `release_group_streams`; the next request sets
  `streams_count` to 0 with that frame in the list.

- `aenc_cancel`, `AencCancelReturns`: the last cancel joins the encode thread
  with `using_mutex` held; the thread has seen the group's users before the
  cancel and waits for that mutex.

Two more are of a comment and would be runs of their own if they had more to
show than the lines do:

- `ak_dvr_replay.h:61` has the caller get media `just in [start_time,
  end_time]`; `ak_dvr_replay.c:147` computes `play_duration` for it and nothing
  reads it, so the last file is played to its end. `PlayedWhole` asks only that
  nothing of the span is missing.
- `remove_earliest_file` (`ak_dvr_file.c:731`) deletes the earliest file only if
  directories entered the list in order; `add_dir_to_list` (line 517) compares
  days, so the hours of a day stay in the order the scan met them.
  `EarliestGoes` fails, `OldestDayGoes` holds.

More show up when a run's `Faults` are changed; no run is kept for them:

- `DvrFile` with `{"full"}`: with no room on the card a finished segment stays in
  its temporary file, and after a crash `check_poweroff_file` takes the first
  slot that has a file, the old one (`Recoverable` fails).
- `DvrRecord` with `{"syserr"}`: after a failing mux, main posts `stop_sem` for
  nobody; the next stop takes that token and closes the file under the main
  thread (`NoCloseWhileMuxing` fails).
- `DvrRecord` with `{"disarm"}`: turning pre-record off frees the queue while
  main, in its filter, holds an entry of it (`NoDoubleFree` fails).
- `DvrSpace`: the first file of an hour that is refused a node is charged to the
  account and lost at its rename (line 1090), for its directory is made only with
  its place in the list; one that is refused later is on the card, and is neither
  replayed nor deleted for room until the next scan (the exceptions in
  `NoSegmentLost` and `CardIsAsKept`).
- `DvrSpace` with `{"race"}`: the scan removes an hour's empty directory between
  the flush thread's `mkdir` and its `rename`; the segment is lost
  (`NoSegmentLost` fails).
- `RecordCtrl` with `{"torn"}`: the exception is overwritten, the recorder is
  broken and the plan believes that it records; with `{"norequest"}` the same
  until the plan's end (`PlanResumes` fails).
- `Ptz` with `Late`: a second command is accepted before the thread has woken,
  overwrites the first and is carried out twice (`CommandIsObeyed` fails).
- `IpcServer` with `{"nothread"}`: nobody posts, and the server accepts no more
  (`AskerComesBack` fails).
- `Daemon` with `{"hang"}`: a hung application keeps the fifo open, and nothing
  restarts it; with `{"slow"}`, one slower than `INTERVAL` is killed for ever.
- `Hotplug` with `{"lost"}` or `{"swift"}`: a card is never mounted, or stays
  under its successor (`SettledIsMounted` fails).
- `Aenc` where a request and a cancel cross (section 2): freed memory and destroyed
  mutexes are used; the model stops there.
- `AencRing`: a reader with a whole ring unread has the writer's offset and is taken
  for one that has read all; where the writer starts over it runs into that reader,
  whose ring of sound is lost (the second case of `SoundKept`).
- `AudioDec` with `{"silent"}`: the comment at `ak_adec.c:440` says that the
  status won't be READY in the cancel; after a stream with nothing sent it is, and
  the cancel waits for ever with `req_mutex` held (`SpeakerComesBack` fails). A
  talk that sends nothing and an empty file of a tip get there.
- `AudioDec` with `{"gap"}`: what is sent in the gap wakes nobody; a tip's last
  piece is not heard (`TipIsHeard` fails).
- `AudioDec`, of the talk: `ak_adec.h:107` promises that the cancel `would wait
  until stream finished`. One that follows the last send at once sees the status
  DECODE_FINISHED of what came before; the thread then ends with `decode_flag`
  set, and as no one else clears it, no later send of this codec wakes the
  thread: the talk is mute from then on. `TipIsHeard` speaks of the tips, whose
  codec is new each time and whose sends are apart.
- `Replay` with `{"paused"}`: exit, a start and another viewer's stop wait for a
  thread that nobody wakes (`ReplayEnds` fails); with `{"earlystop"}`, any
  viewer's stop frees the list of another's request (`PlayedWhole` fails).
- `DvrFile` with `{"unmounted"}`: a stop while the card is in its slot but not
  mounted leaves `name_tmp` open, and the next segment has no info file
  (`Recoverable` fails).
- `DvrFile` with `{"late"}`: if the 10 ms are not enough, a segment may be saved
  under the other's name (`SavedUnderItsDate` fails) and the flush thread may
  meet a `NULL` stream (`Segfault`).
- `DvrRecord` with `{"lag"}` or `{"late"}`, as in the run: the one mark of a
  segment's end is overwritten, or read before its time is set. The segment is then
  cut at a later group, or dated by the mark before (`SplitOnTime` and
  `DateIsOfFirstFrame` hold only until then; `CutIsAhead` holds throughout).
- `DvrRecord` with `{"skip"}`: the frames that refer to one the mux has refused are
  kept (`SegmentIsPlayable` fails).
- `DvrRecord` with `{"oversize"}`: the video thread stops the recording before
  main has taken it up; status is still FILTER, and nobody posts `stop_sem`
  (`StopReturns` fails).

## 5. What is proved

Every theorem holds for all values of the constants that the modules' `ASSUME`s
allow; those are what the code's own constants satisfy (sizes at least 1, a
queue of at least 2, distinct model values, a turn of at most a circle). Every
invariant and every action property that a passing run checks is a theorem.
A fault that a hypothesis excludes is one with which TLC finds the property
violated, but for two theorems that exclude more than they must: TLC finds
`SegmentIsRight` to hold with `hasty` and `disarm` too, and the refinement with
`muxopen` and `unmounted`.

| theorems | hypothesis | because |
|---|---|---|
| ring buffer, `NodePool`, encoder streams of video and audio, `SoundKept`, record control, `SavedOnce`, `RecordMutexNotLeaked`, `NoStreamLeftOpen`, `SilentAfterStop`, `AnswerFits`, `IdleIsStill` | none | |
| `NothingIsLost`, refinement of `SegmentStore` | no fault of `DvrFile` | a card that is lost or full, or fails, loses what was on its way to it |
| `StopWaitsForFlush` | no `late` | the flush thread is waiting for its lock when the recorder gives it |
| `OneUserAtATime` | neither `syserr` nor `disarm` | the mux library's calls succeed, and nobody changes the mode under a recording before an alarm |
| `SegmentIsRight` | none of `syserr`, `disarm`, `skip`, `oversize`, `hasty` | the mux takes what it is given, the queue does not fill up, and record control's round takes longer than main needs to wake |
| `CardIsAsKept`, `NoSegmentLost`, `OldestDayGoes` | no `race` | the look and the use are a few instructions apart |
| `SettledIsMounted` | no fault of `Hotplug` | a card is changed by hand, and an event is not lost |
| `TipIsHeard` | no `gap` | the same |
| `PlayedWhole` | neither `paused` nor `earlystop` | nothing calls `ak_dvr_replay_pause`; the viewer who stops is the one who watches |
| `CommandIsObeyed` | `~Late` | a caller sleeps 5 ms before it looks at the motor |
| `NoRebootInUpdate` | `late` is no fault | `update.sh` sleeps five seconds, the feeding thread two |
| `IpcTypeOK`, and so `PartsAreSound` | `live` is no fault | programs unregister when they end |

An invariant that a run checks is seldom inductive. What each needed, and why:

**RingBufferProofs.** `TypeOK /\ OffsetsAgree` is inductive: `read + remain` is
`write`, or `write` a whole buffer later (`OffsetsAgreeAlways`). Under it every
call, case by case of its wraps, appends to or takes from the abstract queue
(`RingBufferRefinesWindow`).

**DvrFileProofs.** With every fault: `SavedOnce` needs that the
two temporary files never hold one segment (`TmpsDiffer`), that each was opened
in the past (`TmpIsOld`), and that what was saved is in neither (`SavedIsGone`);
all steps reduce to four things that can happen to the card. Unless the flush
thread is late, recorder and flush thread take turns and what is flushed is
closed (`WaitInv`), so a stop waits for its flush. Without faults `TurnInv` says
more of the turns (which thread may write, which stream is open, which slot has
something to save), and with that, what was handed over stays in its slot until
it is saved under its date (`KeptInv`): `NothingIsLostAlways`. `FilesRefineStore` maps each
segment by `StageOf`: a step moves one segment from one stage to the next
(`MovesOne`), a death moves several, every other step stutters.

**DvrRecordProofs.** With every fault: `ak_dvr_record_stop` has an early return that keeps
`record_mutex`. That it is never taken follows from the order in which start and
stop write two unlocked fields: who stops has both flag and trigger
(`StopperHasBoth`), who starts has the trigger before the flag
(`StarterHasTrigger`), and a flag with no trigger is about to come down
(`FlagHasTrigger`). `StreamInv` adds who has given the stream back, and when.
`OneUserAtATime` must hold although two threads stop, at any moment: a stop may
come before main has begun, and main, woken late, may set the status back to work
while the stop waits for it. `TakingInv` says how far a stop has come by the
status it has set (`StatusInv`), and that main works only while the recorder runs
or a stop waits for it (`PlaceInv`); under it the queue stays in order, main's
entry is its head and its handle is open (`UseInv`).
For `SegmentIsRight` the mux takes what it is given, the queue does not fill up and
no stop is hasty (`Calm`), but video may be late and main behind; then, in layers
that each use the ones before: `HandInv` (one token of `stop_sem` from the end of
main's work to the stop that waits for it), `QueueInv` (the queue is a run of frames
up to the encoder's next; main frees nothing but its head), `HandleInv` (the mux
handle is open where main uses it), `SegmentInv` (a segment is a run from an I frame
on), `CutIsAhead` (video marks the newest frame that is due, so one that main has
still to look at has a mark at it or behind it) and `MarkInv` (until a mark is late
or main a group behind, the mark is the frame that is due, and its time is the
file's), for groups and durations of every length.

**RecordCtrlProofs.** A card is remounted only after `check_sd_card` has stopped
what recorded, and that stop asks `plan_record_flag` and the alarm's flag, not the
recorder; so `CtrlInv`
says that each recording is known by one of them (`KnownAtAll`), that what was
stopped is at rest (`StoppedIsStill`), that a card taken out stops it
(`RemovedIsHeeded`), and that what the round saw is of this round (`SeenIsOfNow`).
`KindInv` and `ListInv` tie the recording to the mode and the card to its list;
`PlanInv` says what a started plan promises as long as its table is the current
one, whichever day the week is at; `AlarmNotCutShort` is arithmetic on an alarm's times.

**VencStreamProofs.** A frame is not missed because an entry is built from the
user map of the moment, an id belongs to one user (`OwnId`), a group is emptied
only when its count says that it has no users (`EmptiedHasNoUser`) and the count
is right (`ReqRefCounts`), and the victim of an overflow exists (`CountIsLow`:
`streams_count` may be too low, because of the frame of `venc_leftover`, but
never too high). `ListInv` says which groups the threads walk and that the two
threads come and go together; `OrderInv` that the entries ascend and that an I
frame is dropped only when a later one is there, so a lagging user meets a key
frame before the frames that need it (`QueueIsSound`). Each step is one lemma;
what a step does to a queue (removing an entry, clearing a bit, appending) is
stated once, apart from the accounts.

**DvrSpaceProofs.** `Shape` (which files there are, what the semaphores promise),
`ListInv` (list, directories and card at each step of a flush, refused or not),
`ScanInv` (what the list lacks was refused a node or is still to be visited, and was
recorded before whatever else is) and `AccountInv` (what the account has left is on
the card) are inductive together; `CardIsAsKept`, `NoSegmentLost` and
`OldestDayGoes` follow. They rest on facts about a total of sizes and about the
list's directories, which are folded and recursive definitions.

**AudioProofs.** `SessInv`: who is inside a request or a cancel, several at a time,
what of the session each has built or taken down, and what the threads hold
meanwhile, until one crosses another (`undefined`); from it `SessionIsWhole`. Sound stays in order through three stores, so the order is
carried over them: from the ring to the entry that is being encoded (`StreamOrder`), into the
queue (`QueueOrder`) and to what a user has (`GotOrder`). `RbInv` says what each
cell of the ring holds, the one before the writer and the one after it, and a
write adds a frame to what every reader has unread (`WriteAdds`), though it looks
at one of them, or takes a ring's length from a reader it runs into. `AdecInv`: whose stream it is
(`HandleIs`), that `data_sem` counts what was posted (`PostedOnce`), that what
the tip sends is posted (`TipPosts`: no thread sleeps over it or stops after its
last look) and that a tip that has slept has the thread at the driver while
frames are left (`TipFeeds`).

**ServicesProofs**, part by part, and then together.

- `NodePool`: the marks are those of the nodes handed out (`UsedIsHeld`), and a
  refusal sends the next walk to the first node (`RefusedStartsOver`), so two
  refusals are a full pool.
- `Daemon`: the watchdog runs unfed only after the daemon's death, and a daemon
  that was told of the update is killed by it alone (`WatchdogInv`).
- `Hotplug`: at each moment the mount is right, or the daemon is about to look,
  or the event that will tell it is the last that waits (`Told`, `CardIsIn`,
  `CardIsGone`).
- `Replay`: the
  thread may be at an entry of a list that a start is filling, for a token may be
  left. Nothing is sent all the same: who holds `file_mutex` is in the walk
  (`MutexIsWalk`) and a stop's status is kept
  until the start has ended (`StopIsKept`, `QuietIsStopped`). And the walk that
  follows the last token sends all that is wanted (`LastWalk`), for what is
  recorded of the span is in the list (`ListIsWhole`).
- `Ptz`: `StandInv`, with calls late or not: a motor turns or has an event
  only for a thread that waits for it, and nobody posts without a command. With
  no call late, a command finds its motor done with the last (`OneAtATime`), and
  a motor with an aim comes to it (`OnItsWay`): the place where the steps that
  are left will end, clamped to the range, is less than a degree from the aim.
  That rounding twice loses less than a degree is `StepsBack`.
- `IpcServer`: `AskInv`, with every fault: who is in the backlog waits and is
  there once, and what an asker's thread has found is a command that was
  registered since the asker asked. `OnePost`: the semaphore is a token for the
  one thread that has not begun.
- All together: a step of one part is a step, or none, of every other
  (`StepOfParts`), so `PartsAreSoundAlways` is a theorem of `MCSpec`, the
  specification that the run `services` checks.

Facts about folded and recursive definitions (a total of sizes, the directories
of a list, the number of I frames) are proved by a least counterexample: a set of
numbers that has a member has a least one (`LeastNat`, `LeastOf`), which needs no
induction theorem with an operator for a parameter.

**Only model-checked:** the liveness properties, which rest on fairness and
ENABLED, and no prover here has these: `StopReturns` of both modules,
the liveness part of `ImplementsStore`, `CancelReturns`, `CreateReturns`, `PlanResumes`,
`AskerComesBack`, `AppReturns`, `ReplayEnds`, `SpeakerComesBack`.

## 6. Further hazards

`hazards` lists the forty that matter most. Also met while reading, with no
property of their own:

- `record_fs.c:334`: a day's directory returns the sum so far and its caller adds
  it once more, so `used_size` grows too fast (modelled as `DayAdded`; it serves
  only to decide whether a deletion is tried).
- `ak_dvr_file.c:872`: the scan's last pass drops entries whose file does not exist,
  while the flush thread lists a file before it renames it there (modelled; the
  window itself is the fault `race`).
- `ak_dvr_file.c:1505`: a request walks the list with no lock; an entry deleted
  for room under it points to itself, and the walk does not end. The list would
  have to be modelled link by link for this alone.
- `ak_dvr_file.c:2180`: `full_flag` is never cleared, so `finish_sem` gathers
  tokens and a later `create_list` does not wait (modelled).
- `ak_dvr_record.c:617`: a frame over 400 KB is dropped, and those that refer to
  it are kept. `ak_dvr_record.c:1058`: the filter reads an entry it freed
  (fault `reuse`).
- `record_ctrl.c:200`, `:563`: the faults `torn` and `norequest`. `:1076`: a mode
  asked for twice is compared with the one in force. `dana_cmd.c:257`: a table
  built on the stack keeps what was there for the days not named.
- `ak_venc.c:2835`: a failing start leaves an id set. `ak_venc.c:591`: a lock is
  destroyed before its last use.
- `ak_drv_ptz.c:823`: a second self check starts a second thread per motor.
- `ipc_srv.c:379`, `:437`: the faults `live` and `nothread`.
- `daemon.c:402`, `:412`, `:489`, `:564`: the faults `hang`, `slow`, `lost`, `swift`.
- `ak_aenc.c:1611`: a request that crosses the last cancel (section 4).
- `ak_adec.c:441`, `:374`: the faults `silent` and `gap`. `ak_adec.c:912`: a
  thread that cannot be created leaves `req_handle` set.
- `ak_venc.c:728`: the capture thread walks the groups with no lock while one is
  opened or closed, which `VencStream` leaves out.
- `ak_dvr_replay.c:631`: the fault `earlystop`; a paused replay, which nothing makes
  at present, is `paused`.

## 7. Plan

Done: the modules of section 2, model-checked, and theorems for every invariant
and every action property of the passing runs.

Left, in this order:

1. an abstract specification of a stream with many users, which `VencStream` and
   `Aenc` implement, with its refinement as a theorem;
2. `SegmentIsRight` with `hasty` and `disarm`, on `TakingInv` in place of
   `HandInv`, and the refinement with `muxopen` and `unmounted`;
3. `RecordCtrl` composed with `DvrRecord`, whose `ctl` thread it replaces;
4. open and close of a group of `VencStream`, against the capture thread's walk;
5. the capture thread and the play queue of audio input and output, the alarm
   filter, the updater's order of checks, configuration, the muxer's cache: each
   a small module of its own.

## 8. Not modelled

Drawing on the picture, the picture processor's register tables,
ONVIF text, tone coding of Wi-Fi set-up, and the prebuilt encoder, muxer and
cloud libraries, which have no source here. `components` gives the reason for
each.
