SPECIFICATION FairSpec
CONSTANTS
  QueueCapacity = 1
  MaxRequests = 2
  MaxGeneration = 2
  Closable = TRUE
CHECK_DEADLOCK FALSE
INVARIANTS CallsStayInTheirEpoch OneEpoch
PROPERTIES  EverythingEnds
