SPECIFICATION FairSpec
CONSTANTS
  User = {u1, u2}
  Group = {main, sub}
  MaxUser = 2
  MaxStream = 2
  MaxFrame = 2
  KeyFrame = {1}
  NoGroup = NoGroup
  Free = Free
INVARIANTS
  EmptyWhenIdle
CHECK_DEADLOCK FALSE
