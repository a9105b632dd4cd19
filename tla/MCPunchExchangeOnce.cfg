SPECIFICATION Spec
CONSTANTS
  MaxRequests = 2
  MaxMessages = 1
  None = None
INVARIANT LANAnsweredOnce
CHECK_DEADLOCK FALSE
