SPECIFICATION FairSpec
CHECK_DEADLOCK FALSE
CONSTANTS
  FailMax = 2
  MaxLate = 1
  Reselects = TRUE
  MayDie = TRUE
  MaxScans = 2
  MaxClicks = 1
INVARIANTS
  CheckboxAgrees
PROPERTIES
  QueueDrains
  CallsEnd
  GoneIsNoticed
