SPECIFICATION MCSpec
CONSTANTS
  t1 = t1
  t2 = t2
  Transfers <- MCTransfers
  LargeResSize = 9
  BlockSize = 2
  Overlap = FALSE
  AllocBound = 5
  Patterns <- MCPatterns
  Restarts <- MCRestarts
  StartsOverlap = TRUE
  MallocFails = TRUE
  TimersFail = TRUE
  StartBound = 3
INVARIANTS
  BufferIsOwned
  BlocksStayInside
  StepsFollowPattern
PROPERTIES
  RestartGoesOn
  PatternEnds
CHECK_DEADLOCK FALSE
