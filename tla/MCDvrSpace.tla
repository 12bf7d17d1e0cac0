----------------------------- MODULE MCDvrSpace -----------------------------
(* Small instances of DvrSpace: days of two hours, at most a file to each.      *)
EXTENDS DvrSpace
MCFiles == {1, 5, 9, 11, 13}
MCSaved == {{1}, {1, 5, 9}}
MCSize(f) == IF f \in {5, 11} THEN 2 ELSE 1
=============================================================================
