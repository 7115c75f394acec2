SPECIFICATION Spec
CONSTANTS
  Sides <- MCSides
  Writes <- Withdrawing
  QuantumCycles = 1
  RearmBudget = 1
  MaxEdgeLateness = 2
  InstructionCap = 2
  Capacity = 4
  Need = 1
  EdgePeriod = 2
  ByteBits = 2
  MaxTime = 6
  MaxFences <- NoFences
  Impatient = {}
  Cancellable = {}
INVARIANT
  BoundedSkew
  NoViolation
  
PROPERTY
  ImplementsCable
CHECK_DEADLOCK FALSE
