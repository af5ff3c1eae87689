SPECIFICATION FairSpec
CONSTANTS
  Timeout = 1
  BufferSize = 2
  Window = 1
  MaxBytes <- AppTwo
  Hazards = {"stop"}
  PanicAborts = TRUE
PROPERTIES StopEnds Delivery
CHECK_DEADLOCK FALSE
