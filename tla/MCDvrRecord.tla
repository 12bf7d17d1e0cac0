---------------------------- MODULE MCDvrRecord ----------------------------
(* Small instances of DvrRecord: a few frames, groups of two, two starts.  *)
EXTENDS DvrRecord
=============================================================================
