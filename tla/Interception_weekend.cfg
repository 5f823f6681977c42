SPECIFICATION Spec
CONSTANTS
  app = app
  cli = cli
  c1 = c1
  c2 = c2
  Unknown = Unknown
  Names <- OneName
  Lists <- WildOnly
  Conns <- OneConn
  Programs <- MCPrograms
  Unwilling <- Pins
  LeafLife = 2
  LeafMargin = 0
  InterLife = 14
  RenewBefore = 4
  CacheSize = 1
  MaxGap = 5
  MaxClock = 15
  MaxRoots = 1
  MaxFaults = 0
INVARIANTS
  ChainIsValid
CHECK_DEADLOCK FALSE
