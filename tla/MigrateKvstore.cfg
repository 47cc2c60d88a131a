SPECIFICATION FairSpec
CONSTANTS
  InitialValues <- MCInitialValues
  NewUriLen = 57
  ErrorBound = 2
  BootBound = 3
INVARIANT MigratedIsComplete
PROPERTIES FlagAfterWipe NewCredentialsKept MigrationCompletes ImplementsServerMove
CHECK_DEADLOCK FALSE
