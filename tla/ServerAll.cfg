CONSTANTS
  a = a
  b = b
  c = c
  Names = {a, b, c}
  MaxQlistItems = 2
  DefMaxQueue = 0
  DefDelay = 0
  Nums <- NumArgs
  QueueMaxSize = 1
  MaxUnread = 1
  MaxPut = 2
  MaxCrash = 1
SYMMETRY NameSymmetry
VIEW ServerView
SPECIFICATION Spec
INVARIANTS
  ServerTypeOK
  CountCovers
  LimitKept
  ListMatchesDisk
