SPECIFICATION Spec
CONSTANTS
  User = {u1, u2}
  Group = {main, sub}
  MaxUser = 2
  MaxStream = 2
  MaxFrame = 3
  KeyFrame = {1, 3}
  NoGroup = NoGroup
  Free = Free
INVARIANTS
  RefIsUsers
  NoFrameMissed
  QueueIsSound
CHECK_DEADLOCK FALSE
