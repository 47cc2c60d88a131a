SPECIFICATION PortSpec
CONSTANTS
  RetryCount = 5
  LossBound = 2
  EventBound = 3
  Ports = {"ra6m3", "rx65n", "keil_wifi", "keil_bsd", "nxp", "linux", "zephyr"}
  MaxErrors = 2
  MaxCardReads = 1
  MaxAttempts = 2
  RingSize = 2
  MaxNotified = 2
INVARIANTS
  GetIsUp
  ClosedStaysClosed
  DispatchIsArmed
  ConnectMeansNetwork
  RxNeverStalls
PROPERTIES
  ConnectReturns
  StartEnds
CHECK_DEADLOCK FALSE
