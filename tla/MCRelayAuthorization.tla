------------------------ MODULE MCRelayAuthorization ------------------------
(* Instances of RelayAuthorization for TLC. *)
EXTENDS RelayAuthorization, TLC

CONSTANTS c1, c2, c3, u1, ip1, ip2, p1, p2, p3

(* c1 and c2 come from one address, c3 from another. *)
MCIpOf == [c \in Conns |-> IF c = c3 THEN ip2 ELSE ip1]
MCWants == [c \in Conns |-> Uuids]
MCPairs == {<<p1, p2>>}

(* c1 and c2 share an address and everything else. *)
MCSymmetry == Permutations({c1, c2})
=============================================================================
