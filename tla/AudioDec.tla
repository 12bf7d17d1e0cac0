------------------------------ MODULE AudioDec ------------------------------
(***************************************************************************)
(* The stream of the audio decoder, libmpi/src/adec/ak_adec.c, with its    *)
(* two callers: the voice tips (akipc/misc/ak_voice_tips.c), which open a  *)
(* codec for each file, and the talk from the cloud (akipc/dana/dana_av.c),*)
(* which keeps one codec for good.  One of them has the stream at a time;  *)
(* its write_pcm_thread takes what was sent from the codec's buffer to the *)
(* speaker, and the cancel waits for that before it joins the thread.      *)
(*                                                                         *)
(* wpc is where the thread is:                                             *)
(*   loop -> sleep -> top -> get -> check -> (doze ->) judge -> top        *)
(*                              judge -> get2 -> check2 -> clear -> loop   *)
(* acall is where a caller is:                                             *)
(*   out -> req -> stream -> flag (-> nap) -> stream -> cancel             *)
(*       -> wait -> play -> pause -> reset -> join -> out                  *)
(***************************************************************************)
EXTENDS Integers

CONSTANTS AdecFaults, \* a subset of {"gap", "silent"}: data may arrive between
                      \* the thread's last look at the buffer and its clearing
                      \* of decode_flag; a stream may end with nothing sent
          BufLen,     \* frames a codec's buffer takes
          DacLen,     \* frames the speaker's driver takes before a write blocks
          NoDataTime, \* ADEC_NO_DATA_TIME
          MaxSend,    \* bound: sends to a stream
          MaxTalk     \* bound: streams that are requested

ASSUME AdecAssumption == /\ AdecFaults \subseteq {"gap", "silent"}
                         /\ BufLen \in Nat \ {0} /\ DacLen \in Nat \ {0, 1}
                         /\ NoDataTime \in Nat \ {0}

AdecCaller == {"tip", "talk"}
NoCaller == "nobody"

VARIABLES dec_run, req_handle, req_mutex, data_sem,   \* dec_ctrl, its run_flag first
          codec,      \* each caller's: its flags, the frames in its buffer and
                      \* whether part of a frame is behind them
          dec_status, \* of the stream, user->status
          wpc,
          acall, sends, streams,
          ao_status,  \* the speaker's, user->status of ak_ao.c
          dac         \* frames its driver has still to play

decVars == <<dec_run, req_handle, req_mutex, data_sem>>
sendVars == <<acall, sends, streams>>
aoVars == <<ao_status, dac>>
adecVars == <<decVars, codec, dec_status, wpc, sendVars, aoVars>>

NewCodec == [decode_flag |-> FALSE, wait_flag |-> TRUE, end_flag |-> FALSE,
             no_frame |-> 0, buf |-> 0, part |-> FALSE]

AdecInit == /\ dec_run = FALSE /\ req_handle = NoCaller /\ req_mutex = NoCaller
            /\ data_sem = 0
            /\ codec = [c \in AdecCaller |-> NewCodec]
            /\ dec_status = "RESERVED"
            /\ wpc = "none"
            /\ acall = [c \in AdecCaller |-> "out"]
            /\ sends = [c \in AdecCaller |-> 0]
            /\ streams = 0
            /\ ao_status = "READY"
            /\ dac = 0

CallGoes(c, to) == acall' = [acall EXCEPT ![c] = to]

-----------------------------------------------------------------------------
(* The speaker.  Its driver is playing as long as it has frames; a writer  *)
(* that has more for it is woken before it runs dry.                       *)
ak_ao_get_play_status(queued) ==
  IF queued > 0 THEN "PLAYING"
  ELSE CASE ao_status = "READY" -> "DATA_NOT_ENOUGH"
         [] ao_status = "PLAYING" -> "FINISHED"
         [] OTHER -> ao_status

Feeding == wpc \in {"get", "get2"} /\ codec[req_handle].buf > 0

DacPlays == /\ dac > (IF Feeding THEN 1 ELSE 0)
            /\ dac' = dac - 1
            /\ UNCHANGED <<decVars, codec, dec_status, wpc, sendVars, ao_status>>

-----------------------------------------------------------------------------
(* write_pcm_thread, for the codec the stream is of.                       *)
WriterGoes(from, to) == wpc = from /\ wpc' = to
Remain(c) == codec[c].buf + (IF codec[c].part THEN 1 ELSE 0)

WriterLoops == /\ WriterGoes("loop", IF dec_run THEN "sleep" ELSE "exit")
               /\ UNCHANGED <<decVars, codec, dec_status, sendVars, aoVars>>

WriterWakes == /\ data_sem > 0
               /\ WriterGoes("sleep", "top")
               /\ data_sem' = data_sem - 1
               /\ UNCHANGED <<dec_run, req_handle, req_mutex, codec, dec_status, sendVars, aoVars>>

WriterStarts == /\ wpc = "top"
                /\ IF dec_run /\ codec[req_handle].decode_flag
                     THEN WriterGoes("top", "get") /\ dec_status' = "DECODING"
                     ELSE WriterGoes("top", "loop") /\ UNCHANGED dec_status
                /\ UNCHANGED <<decVars, codec, sendVars, aoVars>>

(* The buffer of a codec without a frame, or without the rest.             *)
Drained(d, rest) == [d EXCEPT !.buf = IF rest THEN @ ELSE @ - 1,
                              !.part = @ /\ ~rest,
                              !.no_frame = 0]

(* One turn of the loop of get_frame_and_play.  The decoder's library may  *)
(* or may not make a frame of the rest once it was told of the end.        *)
GetsFrame(rest) ==
  LET c == req_handle IN
  /\ dac < DacLen
  /\ rest => codec[c].buf = 0 /\ codec[c].part /\ codec[c].end_flag
  /\ ~rest => codec[c].buf > 0
  /\ codec' = [codec EXCEPT ![c] = Drained(@, rest)]
  /\ dec_status' = "SENT_TO_AO"
  /\ dac' = dac + 1
  /\ ao_status' = ak_ao_get_play_status(dac')

GetsNothing ==
  /\ codec[req_handle].buf = 0
  /\ codec' = [codec EXCEPT ![req_handle].no_frame = IF @ = NoDataTime THEN @ ELSE @ + 1]
  /\ UNCHANGED <<dec_status, aoVars>>

get_frame_and_play(get, check) ==
  /\ wpc = get
  /\ \/ /\ \E rest \in BOOLEAN : GetsFrame(rest)
        /\ WriterGoes(get, IF codec[req_handle].wait_flag THEN get ELSE check)
     \/ GetsNothing /\ WriterGoes(get, check)
  /\ UNCHANGED <<decVars, sendVars>>

MutOnlyWhenEmpty(c) == Remain(c) = 0
Finished(c) == \/ Remain(c) = 0
               \/ codec[c].end_flag /\ codec[c].no_frame >= NoDataTime

check_decode_finished(check, next) ==
  /\ WriterGoes(check, next)
  /\ dec_status' = IF Finished(req_handle) THEN "DECODE_FINISHED" ELSE dec_status
  /\ UNCHANGED <<decVars, codec, sendVars, aoVars>>

(* Ten milliseconds when the loop ended with nothing.                      *)
WriterDozes == /\ WriterGoes("doze", "judge")
               /\ UNCHANGED <<decVars, codec, dec_status, sendVars, aoVars>>

MutClearsAtOnce(finished) == IF finished THEN "clear" ELSE "top"
AfterPass(finished) == IF finished THEN "get2" ELSE "top"

WriterJudges == /\ WriterGoes("judge", AfterPass(dec_status \in {"DECODE_FINISHED", "PLAY_FINISHED"}))
                /\ UNCHANGED <<decVars, codec, dec_status, sendVars, aoVars>>

WriterClears == /\ WriterGoes("clear", "loop")
                /\ dec_status' = IF dec_status = "SENT_TO_AO" THEN "DECODE_FINISHED" ELSE dec_status
                /\ codec' = [codec EXCEPT ![req_handle].decode_flag = FALSE]
                /\ UNCHANGED <<decVars, sendVars, aoVars>>

WriterStep == \/ WriterLoops \/ WriterWakes \/ WriterStarts
              \/ get_frame_and_play("get", "check")
              \/ check_decode_finished("check", "doze")
              \/ WriterDozes \/ WriterJudges
              \/ get_frame_and_play("get2", "check2")
              \/ check_decode_finished("check2", "clear")
              \/ WriterClears

-----------------------------------------------------------------------------
(* A caller asks for the stream: a file of a tip comes with a new codec.   *)
Asks(c) == /\ acall[c] = "out" /\ streams < MaxTalk
           /\ streams' = streams + 1
           /\ CallGoes(c, "req")
           /\ codec' = IF c = "tip" THEN [codec EXCEPT !["tip"] = NewCodec] ELSE codec
           /\ UNCHANGED <<decVars, dec_status, wpc, sends, aoVars>>

(* Refused while the other caller has the stream: the tip is dropped, the  *)
(* talk asks again.                                                        *)
ak_adec_request_stream(c) ==
  /\ acall[c] = "req" /\ req_mutex = NoCaller
  /\ IF req_handle # NoCaller
       THEN CallGoes(c, "out") /\ UNCHANGED <<decVars, dec_status, wpc, sends>>
       ELSE /\ req_handle' = c
            /\ sends' = [sends EXCEPT ![c] = 0]
            /\ CallGoes(c, "stream")
            /\ dec_run' = TRUE
            /\ data_sem' = 0
            /\ dec_status' = "READY"
            /\ wpc' = "loop"
            /\ UNCHANGED req_mutex
  /\ UNCHANGED <<codec, streams, aoVars>>

(* The buffer with what is sent, which ends in a frame's middle or not.    *)
Filled(d, ragged) == [d EXCEPT !.buf = IF ragged /\ ~d.part THEN @ ELSE @ + 1,
                               !.part = IF ragged THEN ~@ ELSE @]

(* The talk drops what does not fit, a tip tries again.                    *)
write_decode_buffer(c, ragged) ==
  /\ acall[c] = "stream" /\ sends[c] < MaxSend
  /\ "gap" \in AdecFaults \/ wpc \notin {"check2", "clear"}
  /\ IF codec[c].buf < BufLen
       THEN /\ codec' = [codec EXCEPT ![c] = Filled(@, ragged)]
            /\ CallGoes(c, "flag")
       ELSE /\ c = "talk"
            /\ UNCHANGED <<codec, acall>>
  /\ sends' = [sends EXCEPT ![c] = @ + 1]
  /\ UNCHANGED <<decVars, dec_status, wpc, streams, aoVars>>

(* The thread is woken when it is not at work.  A tip sleeps twice ten     *)
(* milliseconds after each send (ak_voice_tips.c:101 and 135).             *)
WakesWriter(c) ==
  /\ acall[c] = "flag"
  /\ IF codec[c].decode_flag
       THEN UNCHANGED <<codec, data_sem>>
       ELSE /\ codec' = [codec EXCEPT ![c].decode_flag = TRUE, ![c].wait_flag = TRUE]
            /\ data_sem' = data_sem + 1
  /\ CallGoes(c, IF c = "tip" THEN "nap" ELSE "stream")
  /\ UNCHANGED <<dec_run, req_handle, req_mutex, dec_status, wpc, sends, streams, aoVars>>

(* In that time the thread has come to a place where it waits, for data or *)
(* for the speaker's driver, or has taken a frame there.                   *)
WriterWaits == \/ wpc = "sleep" /\ data_sem = 0
               \/ /\ wpc \in {"get", "get2"}
                  /\ codec["tip"].buf = 0 \/ dac = DacLen \/ dec_status = "SENT_TO_AO"
TipNaps == /\ acall["tip"] = "nap"
           /\ WriterWaits
           /\ CallGoes("tip", "stream")
           /\ UNCHANGED <<decVars, codec, dec_status, wpc, sends, streams, aoVars>>

ak_adec_notice_stream_end(c) ==
  /\ acall[c] = "stream"
  /\ sends[c] > 0 \/ "silent" \in AdecFaults
  /\ codec' = [codec EXCEPT ![c].end_flag = TRUE]
  /\ CallGoes(c, "cancel")
  /\ UNCHANGED <<decVars, dec_status, wpc, sends, streams, aoVars>>

-----------------------------------------------------------------------------
(* ak_adec_cancel_stream holds req_mutex all the time.                     *)
CancelLocks(c) == /\ acall[c] = "cancel" /\ req_mutex = NoCaller
              /\ req_mutex' = c
              /\ CallGoes(c, IF codec[c].wait_flag THEN "wait" ELSE "reset")
              /\ UNCHANGED <<dec_run, req_handle, data_sem, codec, dec_status, wpc, sends, streams, aoVars>>

WaitsDecoded(c) == /\ acall[c] = "wait" /\ dec_status = "DECODE_FINISHED"
                   /\ CallGoes(c, "play")
                   /\ UNCHANGED <<decVars, codec, dec_status, wpc, sends, streams, aoVars>>

WaitsPlayed(c) == /\ acall[c] = "play"
                  /\ ao_status' = ak_ao_get_play_status(dac)
                  /\ IF ao_status' \in {"FINISHED", "DATA_NOT_ENOUGH"}
                       THEN dec_status' = "PLAY_FINISHED" /\ CallGoes(c, "pause")
                       ELSE UNCHANGED <<dec_status, acall>>
                  /\ UNCHANGED <<decVars, codec, wpc, sends, streams, dac>>

EndsWait(c) == /\ acall[c] = "pause"
               /\ codec' = [codec EXCEPT ![c].wait_flag = FALSE]
               /\ CallGoes(c, "reset")
               /\ UNCHANGED <<decVars, dec_status, wpc, sends, streams, aoVars>>

StopsWriter(c) == /\ acall[c] = "reset"
                  /\ ao_status' = "READY"
                  /\ dec_run' = FALSE
                  /\ codec' = [codec EXCEPT ![c].end_flag = FALSE]
                  /\ data_sem' = data_sem + 1
                  /\ CallGoes(c, "join")
                  /\ UNCHANGED <<req_handle, req_mutex, dec_status, wpc, sends, streams, dac>>

JoinsWriter(c) == /\ acall[c] = "join" /\ wpc = "exit"
                  /\ wpc' = "none"
                  /\ codec' = [codec EXCEPT ![c].buf = 0, ![c].part = FALSE]
                  /\ req_handle' = NoCaller
                  /\ req_mutex' = NoCaller
                  /\ CallGoes(c, "out")
                  /\ UNCHANGED <<dec_run, data_sem, dec_status, sends, streams, aoVars>>

CancelGoes(c) == \/ WaitsDecoded(c) \/ WaitsPlayed(c) \/ EndsWait(c)
                 \/ StopsWriter(c) \/ JoinsWriter(c)

(* What a caller inside a call does next.                                  *)
AdecCallStep(c) == WakesWriter(c) \/ ak_adec_request_stream(c) \/ CancelLocks(c) \/ CancelGoes(c)

AdecNext == \/ WriterStep \/ DacPlays \/ TipNaps
            \/ \E c \in AdecCaller : \/ Asks(c) \/ AdecCallStep(c)
                                     \/ \E ragged \in BOOLEAN : write_decode_buffer(c, ragged)
                                     \/ ak_adec_notice_stream_end(c)

(* The threads and the driver run, calls go on, and a sleep ends, whatever *)
(* the thread does meanwhile.  Nobody need ask, send or end.               *)
AdecFair == /\ WF_adecVars(WriterStep) /\ WF_adecVars(DacPlays) /\ SF_adecVars(TipNaps)
            /\ \A c \in AdecCaller : WF_adecVars(AdecCallStep(c))

AdecSpec == AdecInit /\ [][AdecNext]_adecVars /\ AdecFair

-----------------------------------------------------------------------------
(* The shape of the decoder's state: the thread is there exactly while the *)
(* stream has a handle, and data_sem and the buffers keep their bounds.    *)
AdecTypeOK ==
  /\ req_handle \in AdecCaller \cup {NoCaller} /\ req_mutex \in AdecCaller \cup {NoCaller}
  /\ data_sem \in 0..3
  /\ dac \in 0..DacLen
  /\ \A c \in AdecCaller : codec[c].buf \in 0..BufLen
  /\ (wpc = "none" <=> req_handle = NoCaller)

(* A voice tip is heard to its end: when the cancel that waited for it     *)
(* clears the buffer (line 1003), no frame is left there, though the file  *)
(* comes in pieces, the thread goes to sleep whenever it has caught up and *)
(* `finished' is said of the stream each time it does.  The first conjunct *)
(* is the shape of the state.                                              *)
TipIsHeard == /\ AdecTypeOK
              /\ acall["tip"] = "join" /\ wpc = "exit" => codec["tip"].buf = 0

(* Whoever requests the stream, sends to it or cancels it gets back from   *)
(* the call, though a cancel waits for thread and speaker with the mutex   *)
(* held, without a timeout (lines 441 and 455).                            *)
InAdec(c) == acall[c] \notin {"out", "stream"}
SpeakerComesBack == \A c \in AdecCaller : []<>~InAdec(c)
=============================================================================
