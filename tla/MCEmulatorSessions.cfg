CONSTANTS Threads = {t1, t2}
  t1 = t1
  t2 = t2
  Free = Free
  Emulators = {1, 2}
  MaxOrder = 2
  MaxNest = 2
  MaxAttempts = 2
SPECIFICATION Spec
INVARIANT NoRing StopOnce 
PROPERTY ResultsAreFinal EveryAttemptEnds
