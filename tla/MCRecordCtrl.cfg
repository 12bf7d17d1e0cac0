SPECIFICATION FairSpec
CONSTANTS
  Tables <- TwoTables
  DayLen = 2
  DayPerWeek = 2
  PreTime = 1
  StopTime = 1
  LimitTime = 3
  Faults = {}
  MaxTime = 3
  MaxCard = 2
  MaxReport = 1
  MaxRequest = 1
INVARIANTS
  RecordingIsRight
  FuserFindsNobody
PROPERTIES
  StartsOnListedCard
  PlanIsFollowed
  AlarmNotCutShort
  PlanResumes
CHECK_DEADLOCK FALSE
