----------------------------- MODULE GuestLink -----------------------------
(***************************************************************************)
(* What a Guest Access Link promises (docs/features/GUEST_ACCESS_LINKS.md; *)
(* betterdesk-server/guestaccess): a link is created once, may be used a   *)
(* limited number of times while it is live, and is never used again after *)
(* it has been revoked or its record has been dropped.                     *)
(*                                                                         *)
(* GuestGrant implements this with a JSON row and compare-and-swap loops;  *)
(* GuestBridge is a client of it.                                          *)
(***************************************************************************)
EXTENDS Naturals

CONSTANT MaxUses   (* Grant.MaxUses; 0 means no limit *)

ASSUME MaxUsesAssumption == MaxUses \in Nat

VARIABLES
  status,   (* where the link is in its life                          *)
  uses      (* number of sessions the link has been charged for       *)

linkVars == <<status, uses>>

Statuses == {"absent", "live", "revoked", "dropped"}

LinkTypeOK == status \in Statuses /\ uses \in Nat

BelowLimit(n) == MaxUses = 0 \/ n < MaxUses

LinkInit == status = "absent" /\ uses = 0

LinkCreate == /\ status = "absent"
              /\ status' = "live"
              /\ UNCHANGED uses

LinkUse == /\ status = "live"
           /\ BelowLimit(uses)
           /\ uses' = uses + 1
           /\ UNCHANGED status

LinkRevoke == /\ status = "live"
              /\ status' = "revoked"
              /\ UNCHANGED uses

LinkDrop == /\ status \in {"live", "revoked"}
            /\ status' = "dropped"
            /\ UNCHANGED uses

LinkNext == LinkCreate \/ LinkUse \/ LinkRevoke \/ LinkDrop

LinkSpec == LinkInit /\ [][LinkNext]_linkVars
=============================================================================
