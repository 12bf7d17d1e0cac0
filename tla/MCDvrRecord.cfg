SPECIFICATION FairSpec
CONSTANTS
  MaxFrame = 8
  MaxStart = 2
  Gop = 2
  Duration = 2
  TriggerIframe = 2
  MaxQueue = 5
  Faults = {"late", "lag", "reuse"}
INVARIANTS
  OneUserAtATime
  SegmentIsRight
PROPERTIES
  StopReturns
CHECK_DEADLOCK FALSE
