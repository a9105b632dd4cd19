---------------------------- MODULE MCPunchExchange ----------------------------
(* Small instances of PunchExchange. *)
EXTENDS PunchExchange
=============================================================================
