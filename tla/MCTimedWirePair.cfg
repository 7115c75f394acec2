SPECIFICATION FairSpec
CONSTANTS
  Ends <- MCEnds
  Rogue = {}
  Capacity = 1
  Window = 1
  MaxFrames = 3
  MaxTime = 0
  MaxId = 1
  Impatient = {}
  Closers = {}
INVARIANTS NoFalseAccusation ViewsConverge
PROPERTIES ImplementsFifo EverythingArrives
CHECK_DEADLOCK FALSE
