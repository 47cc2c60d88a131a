SPECIFICATION Spec
CONSTANTS
  RetryCount = 5
  LossBound = 2
  EventBound = 3
INVARIANT HandedOutIsGlobalUp
CHECK_DEADLOCK FALSE
