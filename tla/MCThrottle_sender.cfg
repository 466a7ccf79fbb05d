SPECIFICATION Spec
CONSTANTS
  MaxTask = 2
  Clients = {c1, c2}
  NoClient = NoClient
  MaxFault = 0
  MaxRenew = 0
  MaxStart = 2
SYMMETRY Symmetry
INVARIANTS
  AnswerToSender
\* the server may stay down, and its clients may be gone
CHECK_DEADLOCK FALSE
