SPECIFICATION FairSpec
CONSTANTS
  User = {u1, u2, u3}
  Group = {main}
  MaxUser = 3
  MaxStream = 2
  MaxFrame = 3
  KeyFrame = {1, 3}
  NoGroup = NoGroup
  Free = Free
INVARIANTS
  FreshOnly
CHECK_DEADLOCK FALSE
