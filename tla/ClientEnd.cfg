CONSTANTS
  Count = 2
  Opts = {"get"}
  Splits = {TRUE}
  Faults = FALSE
  MaxCalls = 2
SPECIFICATION Spec
CHECK_DEADLOCK FALSE
INVARIANTS
  EndIsTrue
