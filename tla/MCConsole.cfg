SPECIFICATION Spec
CONSTANTS
  MaxInput = 4
  QuitAt = 4
  MaxOutput = 3
INVARIANT NoLostInterrupt
PROPERTIES TypedIsReceived QueuedIsSent UartSpec
CHECK_DEADLOCK FALSE
