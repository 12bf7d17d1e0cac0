------------------------------ MODULE MCCancel ------------------------------
(***************************************************************************)
(* The two streams whose cancel waits for threads with a mutex held: of    *)
(* the video encoder and of the audio decoder.  They share nothing: `part' *)
(* says which of them moves, the other stands still.                       *)
(***************************************************************************)
EXTENDS VencStream, AudioDec

VARIABLE part

both == <<part, vars, adecVars>>

MCInit == part \in {"venc", "adec"} /\ Init /\ AdecInit

MCNext == /\ UNCHANGED part
          /\ \/ part = "venc" /\ Next /\ UNCHANGED adecVars
             \/ part = "adec" /\ AdecNext /\ UNCHANGED vars

VencIsFair == /\ WF_vars(part = "venc" /\ Capture)
              /\ WF_vars(part = "venc" /\ Encode)
              /\ \A u \in User : /\ WF_vars(part = "venc" /\ start_service_work(u))
                                 /\ WF_vars(part = "venc" /\ ak_venc_cancel_stream(u))
                                 /\ SF_vars(part = "venc" /\ CancelUnlists(u))

AdecIsFair == /\ WF_adecVars(part = "adec" /\ WriterStep)
              /\ WF_adecVars(part = "adec" /\ DacPlays)
              /\ SF_adecVars(part = "adec" /\ TipNaps)
              /\ \A c \in AdecCaller : WF_adecVars(part = "adec" /\ AdecCallStep(c))

MCSpec == MCInit /\ [][MCNext]_both /\ VencIsFair /\ AdecIsFair
=============================================================================
