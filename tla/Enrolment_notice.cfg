SPECIFICATION Spec
CONSTANTS
  p1 = p1
  p2 = p2
  own = own
  other = other
  h1 = h1
  h2 = h2
  r1 = r1
  r2 = r2
  Nobody = Nobody
  People <- PersonSet
  Tenants <- TenantSet
  Hosts <- HostSet
  Requests <- RequestSet
  TenantOf <- EmployerOf
  Founders <- FounderSet
  Rushed = FALSE
  OldPages = TRUE
  MaxTokens = 2
  MaxCodes = 1
  MaxVersion = 2
SYMMETRY Symmetric
\* In place of the invariant, WaitsForTheCode is refuted as well.
INVARIANT
  ShownIsAccepted
CHECK_DEADLOCK FALSE
