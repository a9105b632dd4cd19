CONSTANTS
  c1 = c1
  c2 = c2
  c3 = c3
  c4 = c4
  u1 = u1
  u2 = u2
  ip1 = ip1
  ip2 = ip2
  ip3 = ip3
  p1 = p1
  p2 = p2
  Conns = {c1, c2, c3}
  Uuids = {u1}
  Ips = {ip1, ip2}
  IpOf <- MCIpOf
  Transport <- MCTransport
  Wants <- MCWants
  Peers = {p1, p2}
  Pairs <- MCPairs
  PairTimeout = 2
  AuthWait = 1
  MaxWaitGlobal = 2
  MaxWaitPerIP = 1
  MaxTickets = 1
  MaxConnsIP = 2
  Prompt = FALSE
  None = None
SPECIFICATION ServerSpec
SYMMETRY MCSymmetry
CHECK_DEADLOCK FALSE
INVARIANT NoDoubleClose
