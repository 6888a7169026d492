SPECIFICATION Spec
CONSTANTS
  Wcet = 1
  MaxRefills = 3
  Params <- OneContext
  MaxLate = 1
  CurSCDeleted = {TRUE, FALSE}
  OtherBudget = 3
  MaxStep = 3
  MaxTime = 14
CHECK_DEADLOCK FALSE
INVARIANTS
  BudgetPerPeriod
