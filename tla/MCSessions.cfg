SPECIFICATION SessionsSpec
CONSTANTS
  MaxSub = 2
  MaxItem <- ItemsOf
  MaxValue = 1
  MaxRequest = 2
  MaxGiveUp = 2
  KeepAliveLimits <- KeepAlive
  LifeTimeLimits <- LifeTime
  QueueSizeLimits <- QueueSize
  MaxPerPublish = 2
  MaxRetransmission = 0
  Settings <- Asked
  ItemSettings <- AskedOfItems
  Modes = {TRUE, FALSE}
INVARIANTS
  TypesOK
  Recoverable
  UpToDate
PROPERTIES
  InOrder
  RequestsEnd
  Reclaimed
\* everything that is bounded may be used up
CHECK_DEADLOCK FALSE
