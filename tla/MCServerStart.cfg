SPECIFICATION Spec
CONSTANTS
  p1 = p1
  p2 = p2
  e1 = e1
  Processes = {p1, p2}
  Endpoints = {e1}
  EndpointOf <- Configured
  MaxSession = 4
  MaxLoss = 1
INVARIANTS
  TypeOK
  OneServer
  SetUp
  ParentsFirst
\* the last process may be gone
CHECK_DEADLOCK FALSE
