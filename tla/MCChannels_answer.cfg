SPECIFICATION Spec
CONSTANTS
  Conns = {c1, c2}
  Sessions = {s1, s2}
  NoConn = NoConn
  MaxChannels = 2
  MaxSessions = 2
  MaxTokens = 4
  MaxAnswers = 2
SYMMETRY Symmetry
INVARIANTS
  OwnAnswer
CHECK_DEADLOCK FALSE
