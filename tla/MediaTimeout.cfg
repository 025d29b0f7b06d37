CONSTANTS
  MaxTime = 8
  Durations = {0, 1, 3}
  defaultInitial = 5
  defaultGeneral = 2
  MaxSets = 3
SPECIFICATION TimeoutSpec
CHECK_DEADLOCK FALSE
INVARIANT
  NoEarlyTimeout
PROPERTY
  TimeoutInTime
