SPECIFICATION Spec
CONSTANTS
  MaxTask = 3
  Clients = {c1, c2}
  NoClient = NoClient
  MaxFault = 1
  MaxRenew = 0
  MaxStart = 2
SYMMETRY Symmetry
INVARIANTS
  TypeOK
  AtMostOnce
  ResultIsForCall
\* the server may stay down, and its clients may be gone
CHECK_DEADLOCK FALSE
