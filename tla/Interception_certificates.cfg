SPECIFICATION Spec
CONSTANTS
  app = app
  cli = cli
  c1 = c1
  c2 = c2
  Unknown = Unknown
  Names <- MCNames
  Lists <- BothLists
  Conns <- OneConn
  Programs <- MCPrograms
  Unwilling <- Pins
  LeafLife = 1
  LeafMargin = 0
  InterLife = 7
  RenewBefore = 2
  CacheSize = 1
  MaxGap = 1
  MaxClock = 9
  MaxRoots = 2
  MaxFaults = 1
INVARIANTS
  InterceptionTypeOK
  ServedVerifies
CHECK_DEADLOCK FALSE
