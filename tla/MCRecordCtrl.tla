---------------------------- MODULE MCRecordCtrl ----------------------------
(* Small instances of RecordCtrl: days of two seconds, weeks of two days.  *)
EXTENDS RecordCtrl
(* Every day's first second: one day's end is the second before the next   *)
(* day's start.                                                            *)
Daily == <<[active |-> TRUE, week |-> {0, 1}, start_time |-> 0, end_time |-> 1],
           [active |-> FALSE, week |-> {0}, start_time |-> 0, end_time |-> 2]>>
(* The last second of the first day, planned twice.                        *)
Twice == <<[active |-> TRUE, week |-> {0}, start_time |-> 1, end_time |-> 2],
           [active |-> TRUE, week |-> {0}, start_time |-> 1, end_time |-> 2]>>
TwoTables == {Daily, Twice}
=============================================================================
