CONSTANTS
  s1 = s1
  s2 = s2
  s3 = s3
  bad = bad
  Dests = {s1, s2, s3}
  BadDest = bad
  Slots = 2
  KeepTime = 0
  Opts = {"put", "set"}
  MaxTry = 2
  MaxCalls = 3
  MaxTime = 1
SYMMETRY DestSymmetry
SPECIFICATION Spec
CHECK_DEADLOCK FALSE
INVARIANTS
  PhpTypeOK
  PoolIsExact
  AnswerIsOwn
  PutIsTold
PROPERTIES
  CallEnds
