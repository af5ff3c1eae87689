SPECIFICATION Spec
CONSTANTS
  Task = {reader, writer}
  Timeout = 4
  Second = 2
  MaxTime = 9
  MaxJump = 2
SYMMETRY Symmetry
INVARIANT WakesInTime
PROPERTY EndsOnlyIdle
CHECK_DEADLOCK FALSE
