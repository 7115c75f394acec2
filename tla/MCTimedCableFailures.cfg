SPECIFICATION FairSpec
CONSTANTS
  Sides <- MCSides
  Writes <- Undecided
  QuantumCycles = 1
  RearmBudget = 1
  MaxEdgeLateness = 1
  InstructionCap = 2
  Capacity = 2
  Need = 1
  EdgePeriod = 1
  ByteBits = 1
  MaxTime = 1
  MaxFences <- NoFences
  Impatient = {"peer"}
  Cancellable = {"clock"}
INVARIANT
  PermitsSettled
PROPERTY
  EndIsFinal
  FailurePropagates
  
CHECK_DEADLOCK FALSE
