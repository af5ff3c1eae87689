SPECIFICATION Spec
CONSTANTS
  a1 = a1
  a2 = a2
  App = {a1, a2}
  Timeout = 1
  BufferSize = 1
  Window = 1
  Sizes = {2}
  Room = 2
  MaxSends <- TwoOne
  MaxReplies = 2
  MaxSessions = 2
  Hazards = {"idle", "service_down"}
INVARIANTS RightAddress PanicHasCause
PROPERTY ImplementsPost
CHECK_DEADLOCK FALSE
