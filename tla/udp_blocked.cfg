SPECIFICATION FairSpec
CONSTANTS
  a1 = a1
  a2 = a2
  App = {a1, a2}
  Timeout = 1
  BufferSize = 1
  Window = 1
  Sizes = {1}
  Room = 2
  MaxSends <- OneEach
  MaxReplies = 0
  MaxSessions = 2
  Hazards = {"idle"}
PROPERTY OthersRead
CHECK_DEADLOCK FALSE
