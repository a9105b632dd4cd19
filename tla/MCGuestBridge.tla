---------------------------- MODULE MCGuestBridge ----------------------------
(* Instances of GuestBridge for TLC. *)
EXTENDS GuestBridge

CONSTANTS w1, w2, s1

(* w1 and w2 are the rendezvous and the relay socket of one guest session. *)
MCSessionOf == [w \in Sockets |-> s1]

(* How many messages the sockets send. *)
MCTwoEach == [w \in Sockets |-> 2]
=============================================================================
