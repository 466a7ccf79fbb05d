SPECIFICATION Spec
CONSTANTS
  Conns = {c1, c2, c3}
  Sessions = {s1, s2}
  NoConn = NoConn
  MaxChannels = 2
  MaxSessions = 2
  MaxTokens = 3
  MaxAnswers = 2
SYMMETRY Symmetry
INVARIANTS
  ConnectionLinked
  SessionLinked
  Counted
  TokenKnown
PROPERTIES
  KeptForOthers
\* every connection may be used up
CHECK_DEADLOCK FALSE
