SPECIFICATION FairSpec
CONSTANTS
  x = x
  y = y
  k = k
  NoFile = NoFile
  Blank = Blank
  None = None
  Process = {p1, p2, p3}
  Name = {1, 2}
  Place = {x, y}
  Key = {k}
  Command <- SomeCommands
  Earlier <- SomeFiles
INVARIANTS TypeOK Readable NoneDropped
PROPERTIES ImplementsBook AllOrNothing
CHECK_DEADLOCK FALSE
