CONSTANTS
  MaxDbFileSize = 7
  DbFileHeadLen = 2
  MsgHeadLen = 1
  Lens = {1, 2}
  MaxQueues = {0, 2}
  Delays <- DelayArgs
  Wlocks <- WlockArgs
  DefMaxQueue = 3
  DefDelay = 0
  Width = 100
  MaxPut = 3
  MaxTime = 2
SPECIFICATION FairSpec
INVARIANTS
  RtagDescribesQueue
PROPERTIES
  EmptyIsTrue
  DelayIsKept
  QueueDrains
