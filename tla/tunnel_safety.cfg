SPECIFICATION Spec
CONSTANTS
  c1 = c1
  a1 = a1
  a2 = a2
  Client = {c1}
  App = {a1, a2}
  HomeOf <- OneHome
  MaxStarts = 2
  MaxDials = 2
  Hazards = {"stop", "refuse", "accept_error", "loss", "host_crash", "client_crash", "impatient"}
INVARIANTS TypeOK PairedRequest OneHandler AttachedToCurrent
PROPERTY ServesInOrder
SYMMETRY AppSymmetry
CHECK_DEADLOCK FALSE
