SPECIFICATION Spec
CONSTANTS
  NPlaces = 1
  MaxFaults = 1
INVARIANT
  EnsuredIsUsable
CHECK_DEADLOCK FALSE
