SPECIFICATION FairSpec
CONSTANTS
  MaxSegment = 3
  MaxCrash = 1
  Faults = {"late", "full", "unmounted", "muxopen"}
PROPERTIES
  SavedOnce
  StopReturns
CHECK_DEADLOCK FALSE
