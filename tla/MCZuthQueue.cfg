SPECIFICATION FairSpec
CONSTANTS
  MaxTask = 3
  MaxFault = 1
  MaxStart = 2
  StaleBytes <- AnyHeap
  Oversize = {TRUE, FALSE}
INVARIANTS
  TypeOK
  OneEar
  NoTaskOverlooked
  ListIsFresh
  NoOvertaking
PROPERTIES
  Implements
  EveryTaskTried
\* the server may stop for good
CHECK_DEADLOCK FALSE
