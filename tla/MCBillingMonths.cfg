SPECIFICATION Spec
CONSTANTS
  Relays = {u1}
  INCLUDED = 3
  ROUND = 2
  MONTH = 2
  TTL = 1
  Start = 1
  MaxTime = 3
  MaxBusy = 2
  MaxRequests = 2
  RequireReport = TRUE
  Ticker = Ticker
  Operator = Operator
  Admin = Admin
  None = None
INVARIANTS
  MonthsAddUp
CHECK_DEADLOCK FALSE
