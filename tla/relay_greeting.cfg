SPECIFICATION Spec
CONSTANTS
  Timeout = 1
  BufferSize = 2
  Window = 1
  MaxBytes <- OneEach
  Hazards = {"idle"}
  PanicAborts = TRUE
INVARIANT ServiceReached
CHECK_DEADLOCK FALSE
