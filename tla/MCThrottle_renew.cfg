SPECIFICATION FairSpec
CONSTANTS
  MaxTask = 3
  Clients = {c1}
  NoClient = NoClient
  MaxFault = 1
  MaxRenew = 2
  MaxStart = 2
INVARIANTS
  InCallOrder
  CloseWaits
PROPERTIES
  NeverBack
  Answered
\* the server may stay down, and its clients may be gone
CHECK_DEADLOCK FALSE
