SPECIFICATION Spec
CONSTANTS
  MaxTask = 3
  MaxFault = 1
  MaxStart = 2
  Oversize = {TRUE, FALSE}
  StaleBytes <- AnyHeap
PROPERTY HealthyLevelEndsLoop
CHECK_DEADLOCK FALSE
