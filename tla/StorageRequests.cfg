SPECIFICATION Spec
CONSTANTS
  Boards = {"flexspi", "spifi", "mt25q", "stm32", "sdcard"}
  N = 2
INVARIANTS
  ReadsAreFresh
  SuccessIsPerformed
PROPERTIES
  ImplementsFlashDevice
