SPECIFICATION Spec
CONSTANTS
  w1 = w1
  w2 = w2
  x1 = x1
  x2 = x2
  Events <- EventSet
  IdleWindow = 1
  Workers <- WorkerSet
  Erasers <- EraserSet
  MaxStored = 2
  MaxSessions = 2
  MaxChanges = 2
SYMMETRY Symmetric
INVARIANTS
  SessionsTypeOK
  CountsAgree
  OneStretch
CHECK_DEADLOCK FALSE
