SPECIFICATION Spec
CONSTANTS
  MaxErrorCount = 5
  MaxConnectErrors = 9
  Builds = {FALSE, TRUE}
  CountWrap = 2
  ErrorBound = 14
INVARIANTS
  AwakeClientHasInterface
  SleeperIsWakeable
  ResumeBudget
  ExitedClientIsDone
PROPERTIES
  NotifyOnlyWhenAwake
  SleeperWakes
  ImplementsLifecycle
CHECK_DEADLOCK FALSE
