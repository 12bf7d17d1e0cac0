---------------------------- MODULE SegmentStore ----------------------------
(***************************************************************************)
(* What the file module promises the recorder, with no slot, no temporary  *)
(* file and no flush thread: a segment that was finished is saved, and one *)
(* that a death interrupted is saved by the next start, if its duration    *)
(* was noted; of any other nothing is promised.  Segments are numbered as  *)
(* they begin, and one is recorded at a time.                              *)
(* This is an abstract specification: DvrFile without faults implements it.*)
(***************************************************************************)
EXTENDS Integers

CONSTANT MaxSegment       \* bound: how many segments are begun

VARIABLES up,             \* the process lives
          stage,          \* how far each segment has come
          long,           \* those worth a file
          noted           \* those whose duration is known

storeVars == <<up, stage, long, noted>>

Segment == 1..MaxSegment
Stage == {"none", "recording", "finished", "saved", "left"}

Init == /\ up = FALSE
        /\ stage = [s \in Segment |-> "none"]
        /\ long = {} /\ noted = {}

At(s, from, to) == /\ up /\ stage[s] = from
                   /\ stage' = [stage EXCEPT ![s] = to]
                   /\ UNCHANGED <<up, long, noted>>

Begin(s) == /\ \A r \in Segment : /\ r < s => stage[r] # "none"
                                  /\ stage[r] # "recording"
            /\ At(s, "none", "recording")

Grow(s) == stage[s] = "recording" /\ long' = long \union {s} /\ UNCHANGED <<up, stage, noted>>
Note(s) == stage[s] = "recording" /\ noted' = noted \union {s} /\ UNCHANGED <<up, stage, long>>

Finish(s) == At(s, "recording", "finished")
GiveUp(s) == At(s, "recording", "left")            \* the card is gone
Save(s) == s \in long /\ At(s, "finished", "saved")

(* A death, or the program's end.  A segment that had been given up may be *)
(* found again.                                                            *)
Down == /\ up /\ up' = FALSE
        /\ stage' \in [Segment -> Stage]
        /\ \A s \in Segment :
             CASE stage[s] = "recording" ->
                    stage'[s] = IF s \in long \intersect noted THEN "finished" ELSE "left"
               [] stage[s] = "left" ->
                    stage'[s] = "left" \/ (stage'[s] = "finished" /\ s \in long \intersect noted)
               [] OTHER -> stage'[s] = stage[s]
        /\ UNCHANGED <<long, noted>>

(* The next start saves what is due, and perhaps some that nobody promised.*)
Up == /\ ~up /\ up'
      /\ stage' \in [Segment -> Stage]
      /\ \A s \in Segment :
           CASE stage[s] = "finished" /\ s \in long -> stage'[s] = "saved"
             [] stage[s] = "left" /\ s \in long -> stage'[s] \in {"left", "saved"}
             [] OTHER -> stage'[s] = stage[s]
      /\ UNCHANGED <<long, noted>>

Next == \/ Down \/ Up
        \/ \E s \in Segment : \/ Begin(s) \/ Grow(s) \/ Note(s)
                              \/ Finish(s) \/ GiveUp(s) \/ Save(s)

(* While the process lives, what is due does not stay due.                 *)
Due(s) == up /\ stage[s] = "finished" /\ s \in long
SavesWhatIsDue == \A s \in Segment : []<>~Due(s)

Safety == Init /\ [][Next]_storeVars
Spec == Safety /\ SavesWhatIsDue
=============================================================================
