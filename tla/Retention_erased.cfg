SPECIFICATION FairSpec
CONSTANTS
  a = a
  w1 = w1
  w2 = w2
  Ids <- MCIds
  Workers <- OneWorker
  Recordable <- Copies
  MaxDay = 1
  MaxFaults = 0
  MaxErased = 1
\* In place of the property, INVARIANT NoTextWithoutRow is refuted as well.
PROPERTIES
  ErasedForGood
