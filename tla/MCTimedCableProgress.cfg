SPECIFICATION FairSpec
CONSTANTS
  Sides <- MCSides
  Writes <- OneClock
  QuantumCycles = 4
  RearmBudget = 1
  MaxEdgeLateness = 1
  InstructionCap = 2
  Capacity = 5
  Need = 1
  EdgePeriod = 1
  ByteBits = 1
  MaxTime = 1
  MaxFences <- PeerFence
  Impatient = {}
  Cancellable = {}
PROPERTY
  
  FencesAnswered
CHECK_DEADLOCK FALSE
