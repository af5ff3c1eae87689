SPECIFICATION Spec
CONSTANTS
  Timeout = 1
  BufferSize = 2
  Window = 1
  MaxBytes <- TwoOne
  Hazards = {"idle", "vanish"}
  PanicAborts = TRUE
INVARIANTS TypeOK InOrder EofIsComplete NoOversleep PanicHasCause
PROPERTY ImplementsPipes
CHECK_DEADLOCK FALSE
