SPECIFICATION Spec
CONSTANTS
  MaxErrorCount = 5
  MaxConnectErrors = 9
  Builds = {FALSE}
  CountWrap = 2
  ErrorBound = 14
PROPERTY
  ErrorsBeyondThresholdReboot
CHECK_DEADLOCK FALSE
