SPECIFICATION FairSpec
CONSTANTS
  d1 = d1
  i1 = i1
  None = None
  Sessions = {s1}
  Devices = {d1}
  MaxSockets = 4
  IPs = {i1}
  IpOf <- MCIpOf
  TargetOf <- MCTargetOf
  MAX_RELAY_PER_IP = 2
INVARIANTS
  TokenUsedOnce
  NoStrandedRelaySocket
  OnlineIsNewest
  IpCountExact
PROPERTIES
  WaitingReleased
CHECK_DEADLOCK FALSE
