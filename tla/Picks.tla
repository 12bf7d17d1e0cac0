-------------------------------- MODULE Picks --------------------------------
(***************************************************************************)
(* A list of which some entries stay, in the order they had.  What stays   *)
(* is a set of places, so that a proof can speak of each.                  *)
(***************************************************************************)
EXTENDS Integers, Sequences, FiniteSets

(* The k-th of the places of keep.                                         *)
Kth(keep, k) == CHOOSE i \in keep : Cardinality({j \in keep : j <= i}) = k

(* What is at these places.                                                *)
Picked(q, keep) == [k \in 1..Cardinality(keep) |-> q[Kth(keep, k)]]
=============================================================================
