CONSTANTS
  g1 = g1
  g2 = g2
  Callers = {g1, g2}
  MaxUses = 2
  Attempts = 2
  MaxCalls = 5
  Lossy = TRUE
  None = None
SPECIFICATION FairSpec
CHECK_DEADLOCK FALSE
INVARIANTS
  TypeOK
  UsesExact
  ConflictHasCause
PROPERTIES
  RevocationFinal
  ImplementsLink
  CallAnswered
