CONSTANTS
  Intervals = {0, 1, 3}
  DefInterval = 3
  IdlePeriod = 2
  SyncInterval = 2
  MaxFile = 3
  MaxSets = 2
SPECIFICATION FairSpec
INVARIANTS
  TypeOK
  BoundedLoss
  StoppedIsClean
  ClosedIsClean
PROPERTIES
  SyncsForever
CHECK_DEADLOCK FALSE
