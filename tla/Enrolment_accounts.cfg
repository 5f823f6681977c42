SPECIFICATION Spec
CONSTANTS
  p1 = p1
  p2 = p2
  own = own
  other = other
  h1 = h1
  h2 = h2
  r1 = r1
  r2 = r2
  Nobody = Nobody
  People <- PersonSet
  Tenants <- TenantSet
  Hosts <- HostSet
  Requests <- RequestSet
  TenantOf <- EmployerOf
  Founders <- FounderSet
  Rushed = FALSE
  OldPages = FALSE
  MaxTokens = 2
  MaxCodes = 2
  MaxVersion = 2
SYMMETRY Symmetric
INVARIANTS
  EnrolmentTypeOK
  OneRecordPerMachine
  OwnerIsTheOneNamed
  CapturedWithConsent
  SomebodyManages
CHECK_DEADLOCK FALSE
