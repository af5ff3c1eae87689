SPECIFICATION FairSpec
CONSTANTS
  a1 = a1
  a2 = a2
  App = {a1, a2}
  Timeout = 1
  BufferSize = 1
  Window = 1
  Sizes = {0, 1}
  Room = 1
  MaxSends <- OneEach
  MaxReplies = 0
  MaxSessions = 1
  Hazards = {"idle", "disconnect", "loss"}
INVARIANTS TypeOK NoOversleep PanicHasCause
PROPERTIES Reaped DisconnectEnds
CHECK_DEADLOCK FALSE
