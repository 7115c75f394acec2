CONSTANTS N = {a, b}
  Leader = a
  Modes = {TRUE, FALSE}
  ByteBits = 2
  MaxEdges = 2
  History = 1
  MaxRepeats = 1
  MayStop = {b}
SPECIFICATION Spec
INVARIANT ExactlyOnce Accounted NoOvertaking NoFalseAccusation
PROPERTY CrossedMastersMeet
