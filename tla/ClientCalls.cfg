CONSTANTS
  Count = 2
  Opts = {"put", "get", "all_set", "set", "remove"}
  Splits = {TRUE, FALSE}
  Faults = TRUE
  MaxCalls = 2
SPECIFICATION FairSpec
CHECK_DEADLOCK FALSE
INVARIANTS
  ClientTypeOK
  AnswerIsOwn
  WholeIsTrue
  PutOnce
PROPERTIES
  CallReturns
