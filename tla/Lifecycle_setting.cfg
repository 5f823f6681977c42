SPECIFICATION Spec
CONSTANTS
  NPlaces = 1
  MaxFaults = 1
INVARIANTS
  LifecycleTypeOK
  LeftBehindForAReason
  InstalledIsComplete
  PointedAtARunningWorker
PROPERTIES
  Managed
  FailsOpen
CHECK_DEADLOCK FALSE
