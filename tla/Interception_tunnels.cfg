SPECIFICATION Spec
CONSTANTS
  app = app
  cli = cli
  c1 = c1
  c2 = c2
  Unknown = Unknown
  Names <- OneName
  Lists <- WildOnly
  Conns <- TwoConns
  Programs <- MCPrograms
  Unwilling <- Pins
  LeafLife = 1
  LeafMargin = 0
  InterLife = 3
  RenewBefore = 2
  CacheSize = 1
  MaxGap = 1
  MaxClock = 3
  MaxRoots = 2
  MaxFaults = 1
INVARIANTS
  SealedForAReason
PROPERTIES
  RefusedFinitely
CHECK_DEADLOCK FALSE
