SPECIFICATION Spec
CONSTANTS
  Ends <- MCEnds
  Rogue = {"right"}
  Capacity = 1
  Window = 1
  MaxFrames = 3
  MaxTime = 1
  MaxId = 1
  Impatient = {"left"}
  Closers = {"left"}
INVARIANTS AcceptedIsLegal
CHECK_DEADLOCK FALSE
