----------------------------- MODULE MCDvrFile -----------------------------
(* Small instances of DvrFile: a few segments over the two slots, a crash. *)
EXTENDS DvrFile
=============================================================================
