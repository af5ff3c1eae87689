SPECIFICATION Spec
CONSTANTS
  c1 = c1
  a1 = a1
  a2 = a2
  Client = {c1}
  App = {a1}
  HomeOf <- OneHome
  MaxStarts = 1
  MaxDials = 1
  Hazards = {"stop", "disconnect"}
INVARIANT NoDisconnectPanic
CHECK_DEADLOCK FALSE
