SPECIFICATION FairSpec
CONSTANTS
  a = a
  w1 = w1
  w2 = w2
  Ids <- MCIds
  Workers <- TwoWorkers
  Recordable <- Copies
  MaxDay = 2
  MaxFaults = 1
  MaxErased = 0
INVARIANTS
  TextIsAccounted
PROPERTIES
  FirstPromptKept
  PurgeReaches
