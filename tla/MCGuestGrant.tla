---------------------------- MODULE MCGuestGrant ----------------------------
(* Instances of GuestGrant for TLC: the callers are model values. *)
EXTENDS GuestGrant

CONSTANTS g1, g2
=============================================================================
