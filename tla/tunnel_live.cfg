SPECIFICATION FairSpec
CONSTANTS
  c1 = c1
  a1 = a1
  a2 = a2
  Client = {c1}
  App = {a1, a2}
  HomeOf <- OneHome
  MaxStarts = 1
  MaxDials = 2
  Hazards = {"stop", "disconnect"}
INVARIANT PairedRequest
PROPERTIES StopDisconnects DisconnectEnds Connects AppServed
CHECK_DEADLOCK FALSE
