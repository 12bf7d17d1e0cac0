---------------------------- MODULE MCVencStream ----------------------------
(* Small instances of VencStream: two groups, two or three users.          *)
EXTENDS VencStream
=============================================================================
