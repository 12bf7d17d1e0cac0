------------------------------ MODULE AencRing ------------------------------
(***************************************************************************)
(* The audio encoder's ring, libmpi/src/aenc/ak_aenc.c (the functions      *)
(* aenc_rb_): one writer of frames of PcmLen samples, a reader per type of *)
(* encoding that takes frames of a length of its own, and no count of what *)
(* is unread: an offset equal to the writer's means there is nothing.      *)
(* A sample is the number of its place in the sound.                       *)
(***************************************************************************)
EXTENDS Integers, Sequences

CONSTANTS RLen,       \* rb_size, ten times PcmLen (lines 1611-1612)
          PcmLen,     \* samples the writer gets at once
          ReadLen,    \* pcm_frame_len of each reader
          MaxSample   \* bound: samples in a run

RGroup == DOMAIN ReadLen

ASSUME RingAssumption == /\ RLen \in Nat \ {0}
                         /\ PcmLen \in 1..RLen
                         /\ RLen % PcmLen = 0
                         /\ \A g \in RGroup : ReadLen[g] \in 1..RLen - 1

VARIABLES rb,         \* the samples
          rb_write,   \* between 0 and RLen: both may rest at the end
          offset,
          readers,    \* read_map
          samples,    \* written so far
          chunk       \* what the latest read of a group returned

rbVars == <<rb, rb_write, offset, readers, samples, chunk>>

RbInit == /\ rb = [i \in 0..RLen - 1 |-> 0]
          /\ rb_write = 0
          /\ offset = [g \in RGroup |-> 0]
          /\ readers = {}
          /\ samples = 0
          /\ chunk = [g \in RGroup |-> <<>>]

Lowest(S) == CHOOSE x \in S : \A y \in S : x <= y

(* The reader the writer meets first: the nearest ahead of it, or else the *)
(* one furthest back.                                                      *)
aenc_rb_get_read_pointer ==
  LET ahead == {offset[g] : g \in {h \in readers : offset[h] > rb_write}}
  IN IF ahead # {} THEN Lowest(ahead) ELSE Lowest({offset[g] : g \in readers})

(* Where the writer starts: at the beginning when it has reached the end   *)
(* and the reader is at the beginning.                                     *)
WriteFrom(read) == IF read = 0 /\ rb_write = RLen THEN 0 ELSE rb_write

MutSpaceUpToReader(read, from) == CASE read < from -> RLen - from + read
                                    [] read > from -> read - from
                                    [] OTHER -> PcmLen
Space(read, from) == CASE read < from -> RLen - from + read
                       [] read > from -> IF read - from = PcmLen THEN 0 ELSE read - from
                       [] OTHER -> PcmLen

(* Both offsets stop at the end, not at the beginning.                     *)
Step(from, n) == IF RLen - from >= n THEN from + n ELSE n - (RLen - from)
Cell(from, i) == (from + i - 1) % RLen

ReadSpace(g) == CASE offset[g] < rb_write -> rb_write - offset[g]
                  [] offset[g] > rb_write -> rb_write + RLen - offset[g]
                  [] OTHER -> 0

(* Returns the space, and writes nothing, when the frame does not fit.     *)
aenc_rb_write ==
  LET read == aenc_rb_get_read_pointer
      from == WriteFrom(read)
  IN /\ readers # {}
     /\ samples + PcmLen <= MaxSample
     /\ IF Space(read, from) < PcmLen
          THEN rb_write' = from /\ UNCHANGED <<rb, samples>>
          ELSE /\ rb' = [c \in 0..RLen - 1 |->
                           IF \E i \in 1..PcmLen : Cell(from, i) = c
                             THEN samples + CHOOSE i \in 1..PcmLen : Cell(from, i) = c
                             ELSE rb[c]]
               /\ rb_write' = Step(from, PcmLen)
               /\ samples' = samples + PcmLen
     /\ UNCHANGED <<offset, readers, chunk>>

(* The encoder reads as long as a whole frame is there.                    *)
aenc_rb_read(g) ==
  /\ g \in readers
  /\ ReadSpace(g) >= ReadLen[g]
  /\ chunk' = [chunk EXCEPT ![g] = [i \in 1..ReadLen[g] |-> rb[Cell(offset[g], i)]]]
  /\ offset' = [offset EXCEPT ![g] = Step(@, ReadLen[g])]
  /\ UNCHANGED <<rb, rb_write, readers, samples>>

(* A group joins where it left, or at the beginning of the ring.           *)
aenc_rb_update_read_map(g, req_enable) ==
  /\ readers' = IF req_enable THEN readers \cup {g} ELSE readers \ {g}
  /\ readers' # {} /\ readers' # readers
  /\ UNCHANGED <<rb, rb_write, offset, samples, chunk>>

RbNext == \/ aenc_rb_write
          \/ \E g \in RGroup : \/ aenc_rb_read(g)
                               \/ \E on \in BOOLEAN : aenc_rb_update_read_map(g, on)
RbSpec == RbInit /\ [][RbNext]_rbVars

-----------------------------------------------------------------------------
RbTypeOK == /\ rb_write \in 0..RLen
            /\ \A g \in RGroup : offset[g] \in 0..RLen

(* A reader is given the sound in its order and without a gap, however the *)
(* frames of the readers divide the ring and though the writer looks at    *)
(* one reader only: a write (lines 316-350) takes nothing it has not read, *)
(* and a read moves it on by what it was given.  Only where the writer     *)
(* starts the ring over does it run into a reader that has the whole ring  *)
(* unread, and that reader loses the whole ring, no more and no less.      *)
SoundKept ==
  [][\A g \in readers \cap readers' :
       LET taken == IF offset'[g] = offset[g] THEN 0 ELSE ReadLen[g]
           due == ReadSpace(g) + (samples' - samples) - taken
       IN /\ \/ ReadSpace(g)' = due
             \/ rb_write = RLen /\ due >= RLen /\ ReadSpace(g)' = due - RLen
          /\ \A i \in 1..taken : chunk'[g][i] = samples - ReadSpace(g) + i]_rbVars
=============================================================================
