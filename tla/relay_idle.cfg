SPECIFICATION FairSpec
CONSTANTS
  Timeout = 1
  BufferSize = 2
  Window = 1
  MaxBytes <- AppOne
  Hazards = {"idle", "loss", "vanish", "refuse"}
  PanicAborts = FALSE
INVARIANTS EofIsComplete PanicHasCause
PROPERTIES ImplementsPipes Reaped
CHECK_DEADLOCK FALSE
