------------------------------- MODULE MCAenc -------------------------------
(* Small instances of Aenc by itself.                                      *)
EXTENDS Aenc
=============================================================================
