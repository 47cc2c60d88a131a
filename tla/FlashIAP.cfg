SPECIFICATION Spec
CONSTANTS
  N = 6
  AreaEnd = 5
  CallBound = 2
  FailureBound = 1
  SectorStart <- MCSectorStart
  SectorSize <- MCSectorSize
INVARIANTS EraseSucceeds OnlyRange ProgramWritesBuffer NoSilentFailure
PROPERTIES ImplementsFlashDevice
CHECK_DEADLOCK FALSE
