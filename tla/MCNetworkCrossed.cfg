CONSTANTS
  N = {a, b}
  Leader = a
  Modes = {FALSE}
  ByteBits = 2
  MaxEdges = 2
  History = 1
  MaxRepeats = 0
  MayStop = {}
SPECIFICATION Spec
INVARIANT CrossedEdgesPair
