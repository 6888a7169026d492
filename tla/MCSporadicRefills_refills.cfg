SPECIFICATION Spec
CONSTANTS
  Wcet = 1
  MaxRefills = 3
  Params <- SomeParams
  MaxLate = 1
  CurSCDeleted = {TRUE, FALSE}
  OtherBudget = 4
  MaxStep = 3
  MaxTime = 10
CHECK_DEADLOCK FALSE
INVARIANTS
  RefillSanity
  
  HeadSufficient
  
