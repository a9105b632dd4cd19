CONSTANTS
  c1 = c1
  c2 = c2
  c3 = c3
  u1 = u1
  ip1 = ip1
  ip2 = ip2
  p1 = p1
  p2 = p2
  p3 = p3
  Conns = {c1, c2, c3}
  Uuids = {u1}
  Ips = {ip1, ip2}
  IpOf <- MCIpOf
  Wants <- MCWants
  Peers = {p1, p2, p3}
  Pairs <- MCPairs
  PairTimeout = 2
  AuthWait = 1
  MaxWaitGlobal = 2
  MaxWaitPerIP = 1
  MaxTickets = 2
  None = None
SPECIFICATION Spec
SYMMETRY MCSymmetry
INVARIANTS
  TypeOK
  WindowCovered
  RegisteredWaitersTold
  AuthWaitExact
PROPERTIES
  ReplayWindow
