SPECIFICATION Spec
CONSTANTS
  a = a
  w1 = w1
  w2 = w2
  Ids <- MCIds
  Workers <- TwoWorkers
  Recordable <- Copies
  MaxDay = 1
  MaxFaults = 1
  MaxErased = 1
INVARIANTS
  RetentionTypeOK
  TextIsAccounted
PROPERTIES
  TrashedStaysHidden
