SPECIFICATION MCSpec
CONSTANTS
  User = {u1, u2}
  Group = {main, sub}
  MaxUser = 2
  MaxStream = 2
  MaxFrame = 2
  KeyFrame = {1}
  NoGroup = NoGroup
  Free = Free
  AdecFaults = {}
  BufLen = 2
  DacLen = 2
  NoDataTime = 1
  MaxSend = 3
  MaxTalk = 3
INVARIANTS
  TipIsHeard
PROPERTIES
  CancelReturns
  SpeakerComesBack
CHECK_DEADLOCK FALSE
