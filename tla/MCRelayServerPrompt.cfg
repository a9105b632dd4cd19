CONSTANTS
  c1 = c1
  c2 = c2
  c3 = c3
  c4 = c4
  u1 = u1
  u2 = u2
  ip1 = ip1
  ip2 = ip2
  ip3 = ip3
  p1 = p1
  p2 = p2
  Conns = {c1, c2, c3, c4}
  Uuids = {u1, u2}
  Ips = {ip1, ip2, ip3}
  IpOf <- MCIpOf
  Transport <- MCTransport
  Wants <- MCWants4
  Peers = {p1, p2}
  Pairs <- MCPairs
  PairTimeout = 1
  AuthWait = 1
  MaxWaitGlobal = 1
  MaxWaitPerIP = 1
  MaxTickets = 1
  MaxConnsIP = 1
  Prompt = TRUE
  None = None
SPECIFICATION ServerSpec
INVARIANTS
  SessionLimitSound
  SessionExclusive
  AtMostTwoHolders
  NoDoubleClose
  NoStrandedSocket
