SPECIFICATION FairSpec
CONSTANTS
  a = a
  b = b
  w1 = w1
  w2 = w2
  NoWorker = NoWorker
  Ids <- MCIds
  Workers <- MCWorkers
  Recordable <- Rejectable
  MaxRecords = 2
  BatchSize = 2
  MaxDay = 1
  MaxFaults = 1
  MaxRefused = 1
PROPERTIES
  Delivered
  DrainReturns
