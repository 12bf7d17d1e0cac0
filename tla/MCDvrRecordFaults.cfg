SPECIFICATION FairSpec
CONSTANTS
  MaxFrame = 5
  MaxStart = 2
  Gop = 2
  Duration = 2
  TriggerIframe = 2
  MaxQueue = 3
  Faults = {"late", "lag", "oversize", "syserr", "skip", "hasty", "disarm", "reuse"}
INVARIANTS
  RecordMutexNotLeaked
  NoStreamLeftOpen
CHECK_DEADLOCK FALSE
