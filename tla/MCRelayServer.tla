--------------------------- MODULE MCRelayServer ---------------------------
(* Instances of RelayServer for TLC. *)
EXTENDS RelayServer, TLC

CONSTANTS c1, c2, c3, c4, u1, u2, ip1, ip2, ip3, p1, p2

(* c1 and c2 come from one address, c3 from another, over WebSocket, and   *)
(* c4 from a third.                                                        *)
MCIpOf == [c \in Conns |-> CASE c = c3 -> ip2 [] c = c4 -> ip3
                             [] OTHER -> ip1]
MCTransport == [c \in Conns |-> IF c = c3 THEN "ws" ELSE "tcp"]

(* Any UUID; or c1 and c3 want one UUID, c2 the other, and c4 comes third   *)
(* for the first or second for the other.                                  *)
MCWants == [c \in Conns |-> Uuids]
MCWants4 == [c \in Conns |-> CASE c = c4 -> {u1, u2} [] c = c2 -> {u2}
                               [] OTHER -> {u1}]

MCPairs == {<<p1, p2>>}

(* c1 and c2 share an address and a transport. *)
MCSymmetry == Permutations({c1, c2})
=============================================================================
