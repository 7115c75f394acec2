CONSTANTS
  a = a
  b = b
  Ends = {a, b}
  Callers <- TwoAndOne
  often = often
  once = once
  Kinds = {often, once}
  Nobody = Nobody
  QueueLimit = 2
  FrameLimit = 4
  MayClose = {a}
  MaxSent <- Uses
SPECIFICATION Spec
INVARIANT PairedInOrder QueuesAccounted
PROPERTY MatchedCallsEnd
