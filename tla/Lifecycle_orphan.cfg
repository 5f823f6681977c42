SPECIFICATION Spec
CONSTANTS
  NPlaces = 1
  MaxFaults = 0
INVARIANT
  NothingLeftBehind
CHECK_DEADLOCK FALSE
