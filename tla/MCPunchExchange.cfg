SPECIFICATION FairSpec
CONSTANTS
  MaxRequests = 3
  MaxMessages = 1
  None = None
INVARIANTS
  LANAnswersBounded
  FallbackCancellable
PROPERTIES
  EveryRequestAnswered
CHECK_DEADLOCK FALSE
