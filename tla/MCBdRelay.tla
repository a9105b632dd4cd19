------------------------------- MODULE MCBdRelay -------------------------------
(* Small instances of BdRelay: every socket comes from the same address. *)
EXTENDS BdRelay

CONSTANTS d1, i1

MCIpOf == [k \in Sockets |-> i1]
MCTargetOf == [s \in Sessions |-> d1]
=============================================================================
