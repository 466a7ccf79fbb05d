SPECIFICATION FairSpec
CONSTANTS
  MaxTask = 3
  MaxFault = 1
  MaxStart = 2
  Oversize = {TRUE, FALSE}
  StaleBytes <- CleanHeap
PROPERTY ExpiryShutsDown
CHECK_DEADLOCK FALSE
