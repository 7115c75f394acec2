SPECIFICATION Spec
CONSTANTS
  QuantumCycles = 1
  RearmBudget = 1
  MaxEdgeLateness = 1
  MaxPendingEdges = 2
  MaxClock = 3
  MaxHalf = 2
  MaxSequence = 2
  MaxRequests = 2
  MaxInstructions = 1
CHECK_DEADLOCK FALSE
INVARIANTS
  TypeOK
  PermitBounded
  BoundedLead
  NoLatenessFailure
  OrderedDelivery
  RearmBelongsToBatch
PROPERTIES
  EpisodeNeverReplenished
  ClosedIsFinal
