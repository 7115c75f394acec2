SPECIFICATION Spec
CONSTANTS
  QueueCapacity = 1
  MaxRequests = 1
  MaxGeneration = 1
  Closable = TRUE
CHECK_DEADLOCK FALSE
INVARIANT ContractKept
