SPECIFICATION FairSpec
CONSTANTS
  Files <- MCFiles
  Saved <- MCSaved
  Size <- MCSize
  Hour = 2
  Day = 4
  Lasting = 2
  Capacity = 6
  Reserved = 2
  Word = 32
  Faults = {}
  MaxLists = 2
  MaxRefused = 1
INVARIANTS
  CardIsAsKept
PROPERTIES
  NoSegmentLost
  OldestDayGoes
  CreateReturns
CHECK_DEADLOCK FALSE
