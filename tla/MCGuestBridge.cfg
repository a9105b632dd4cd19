CONSTANTS
  w1 = w1
  w2 = w2
  s1 = s1
  Sockets = {w1, w2}
  Sessions = {s1}
  SessionOf <- MCSessionOf
  OnRelay = {w2}
  MaxUses = 2
  MaxConns = 2
  MaxMsgs <- MCTwoEach
  Unreliable = TRUE
SPECIFICATION FairSpec
CHECK_DEADLOCK FALSE
INVARIANTS
  OpeningCharged
  ChargedOnce
  NoHandlerForgotten
PROPERTIES
  SilentAfterInvalidation
  RevocationReaches
