CONSTANTS
  MaxDbFileSize = 8
  DbFileHeadLen = 2
  MsgHeadLen = 1
  Lens = {1, 2, 3}
  MaxQueues = {0}
  Delays <- NoDelay
  Wlocks <- NoWlock
  DefMaxQueue = 0
  DefDelay = 0
  Width = 100
  MaxPut = 7
  MaxTime = 0
SPECIFICATION Spec
INVARIANTS
  TypeOK
  IInv
  NothingLost
  UnreadIsExact
  NoOverlap
  FilesMatchCursors
  HeadsCount
PROPERTIES
  ImplementsFifo
