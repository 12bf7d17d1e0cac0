SPECIFICATION FairSpec
CONSTANTS
  MaxSegment = 3
  MaxCrash = 2
  Faults = {}
INVARIANTS
  NothingIsLost
PROPERTIES
  StopWaitsForFlush
  ImplementsStore
CHECK_DEADLOCK FALSE
