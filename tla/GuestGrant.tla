----------------------------- MODULE GuestGrant -----------------------------
(***************************************************************************)
(* The server's store of one Guest Access Link (betterdesk-server/         *)
(* guestaccess/grants.go).  The grant is a JSON value in one row of        *)
(* server_config.  Consume and RevokeByID read it, compute a replacement   *)
(* and write it back with a compare-and-swap, at most Attempts times;      *)
(* Validate reads it and deletes it when it has expired.  Every call is    *)
(* made by its own request goroutine and each database statement is one    *)
(* step, so calls interleave between the read and the swap.                *)
(*                                                                         *)
(* Tokens and ids are random and unique, so no two grants share a row and  *)
(* one grant is enough.  Two writes of RevokedAt never carry the same time *)
(* (nanosecond stamps), so a stamp is the serial number of its revocation. *)
(***************************************************************************)
EXTENDS Naturals

CONSTANTS
  Callers,    (* request goroutines                                         *)
  MaxUses,    (* Grant.MaxUses; 0 means no limit                            *)
  Attempts,   (* tries of the compare-and-swap loops                        *)
  MaxCalls,   (* bound of the model: calls ever made                        *)
  Lossy,      (* whether a database statement may report an error           *)
  None        (* no row                                                     *)

ASSUME GrantAssumption ==
  /\ MaxUses \in Nat
  /\ Attempts \in Nat \ {0}
  /\ MaxCalls \in Nat
  /\ Lossy \in BOOLEAN

(* What the row holds; the other fields of Grant never change. *)
Row == [uses : Nat, revokedAt : Nat]

ASSUME NoRowAssumption == None \notin Row

VARIABLES
  row,       (* the row of the grant in server_config                       *)
  expired,   (* time.Now() is after ExpiresAt                               *)
  pc,        (* where a call is: idle, read, swap or delete                 *)
  op,        (* the operation a call runs                                   *)
  entitled,  (* its peer is on the allowlist / its user may revoke          *)
  attempt,   (* its loop counter                                            *)
  saw,       (* the row value its last read returned                        *)
  ret,       (* the outcome of the caller's last call                       *)
  calls,     (* history: calls made                                         *)
  writes,    (* history: changes made to the row                            *)
  granted,   (* history: Consume calls that returned a grant                *)
  unsure     (* history: swaps done whose caller was told of an error       *)

callVars == <<pc, op, entitled, attempt, saw, ret, calls>>
vars     == <<row, expired, callVars, writes, granted, unsure>>

Ops  == {"consume", "revoke", "validate"}
Rets == {"none", "ok", "refused", "conflict", "notfound", "error"}

Init ==
  /\ row = None
  /\ expired = FALSE
  /\ pc = [c \in Callers |-> "idle"]
  /\ op = [c \in Callers |-> "validate"]
  /\ entitled = [c \in Callers |-> FALSE]
  /\ attempt = [c \in Callers |-> 0]
  /\ saw = [c \in Callers |-> None]
  /\ ret = [c \in Callers |-> "none"]
  /\ calls = 0 /\ writes = 0 /\ granted = 0 /\ unsure = 0

(* Create stores the row under a fresh token. *)
Create ==
  /\ writes = 0
  /\ row' = [uses |-> 0, revokedAt |-> 0]
  /\ writes' = 1
  /\ UNCHANGED <<expired, callVars, granted, unsure>>

(* ExpiresAt passes. *)
Expire ==
  /\ ~expired
  /\ expired' = TRUE
  /\ UNCHANGED <<row, callVars, writes, granted, unsure>>

(* A request handler enters Consume, RevokeByID or Validate.  Nobody knows *)
(* the token or the id before Create has returned them.                    *)
Call(c, o, e) ==
  /\ pc[c] = "idle"
  /\ writes > 0
  /\ calls < MaxCalls
  /\ calls' = calls + 1
  /\ pc' = [pc EXCEPT ![c] = "read"]
  /\ op' = [op EXCEPT ![c] = o]
  /\ entitled' = [entitled EXCEPT ![c] = e]
  /\ attempt' = [attempt EXCEPT ![c] = 0]
  /\ UNCHANGED <<row, expired, saw, ret, writes, granted, unsure>>

Answer(c, r) ==
  /\ pc' = [pc EXCEPT ![c] = "idle"]
  /\ ret' = [ret EXCEPT ![c] = r]
  /\ UNCHANGED <<op, entitled, saw, calls>>

(* The call goes on with the row it has just read. *)
Proceed(c, next) ==
  /\ pc' = [pc EXCEPT ![c] = next]
  /\ saw' = [saw EXCEPT ![c] = row]
  /\ UNCHANGED <<op, entitled, attempt, ret, calls>>

(* Mutant of the loops: one attempt too many. *)
RetryOnceMore(c, failure) ==
  /\ attempt' = [attempt EXCEPT ![c] = @ + 1]
  /\ IF attempt[c] = Attempts
       THEN Answer(c, failure)
       ELSE /\ pc' = [pc EXCEPT ![c] = "read"]
            /\ UNCHANGED <<op, entitled, saw, ret, calls>>

(* Once more round the loop, unless this was the last attempt. *)
Retry(c, failure) ==
  /\ attempt' = [attempt EXCEPT ![c] = @ + 1]
  /\ IF attempt[c] + 1 = Attempts
       THEN Answer(c, failure)
       ELSE /\ pc' = [pc EXCEPT ![c] = "read"]
            /\ UNCHANGED <<op, entitled, saw, ret, calls>>

UnderLimit(g) == MaxUses = 0 \/ g.uses < MaxUses

(* Mutant of isActive: a revoked grant still passes. *)
ActiveThoughRevoked(g) == ~expired /\ UnderLimit(g)

(* isActive: not revoked, not expired, uses left. *)
Active(g) == g.revokedAt = 0 /\ ~expired /\ UnderLimit(g)

(* The read of consume: any reason to refuse ends the call. *)
ReadConsume(c) ==
  /\ op[c] = "consume"
  /\ IF row = None \/ ~Active(row) \/ ~entitled[c]
       THEN Answer(c, "refused") /\ UNCHANGED attempt
       ELSE Proceed(c, "swap")

(* Mutant of RevokeByID: a scan that finds no row does not count. *)
ReadRevokeUncounted(c) ==
  /\ op[c] = "revoke"
  /\ \/ row = None /\ UNCHANGED callVars
     \/ row # None /\ ~entitled[c] /\ Answer(c, "refused") /\ UNCHANGED attempt
     \/ row # None /\ entitled[c] /\ Proceed(c, "swap")

(* The scan of RevokeByID; a scan that does not meet the id uses up an     *)
(* attempt like a lost swap.                                               *)
ReadRevoke(c) ==
  /\ op[c] = "revoke"
  /\ \/ row = None /\ Retry(c, "notfound")
     \/ row # None /\ ~entitled[c] /\ Answer(c, "refused") /\ UNCHANGED attempt
     \/ row # None /\ entitled[c] /\ Proceed(c, "swap")

(* Validate: a row that has expired and is not revoked is then deleted. *)
ReadValidate(c) ==
  /\ op[c] = "validate"
  /\ IF row # None /\ row.revokedAt = 0 /\ expired
       THEN Proceed(c, "delete")
       ELSE /\ Answer(c, IF row # None /\ Active(row) /\ entitled[c]
                           THEN "ok" ELSE "refused")
            /\ UNCHANGED attempt

Read(c) ==
  /\ pc[c] = "read"
  /\ ReadConsume(c) \/ ReadRevoke(c) \/ ReadValidate(c)
  /\ UNCHANGED <<row, expired, writes, granted, unsure>>

(* A statement that changes nothing and reports an error ends the call;    *)
(* the result of DeleteConfig is ignored.                                  *)
StatementFails(c) ==
  /\ Lossy
  /\ pc[c] # "idle"
  /\ Answer(c, IF pc[c] = "delete" THEN "refused" ELSE "error")
  /\ UNCHANGED <<row, expired, attempt, writes, granted, unsure>>

(* The value the loops marshal: one more use, or the time of revocation. *)
Replacement(c) ==
  IF op[c] = "consume"
    THEN [saw[c] EXCEPT !.uses = @ + 1]
    ELSE [saw[c] EXCEPT !.revokedAt = writes]

(* Mutant of CompareAndSwapConfig: the value is written unconditionally. *)
MatchesAnything(c) == row # None

(* Mutant of the calls: the replacement is passed as the expected value. *)
MatchesReplacement(c) == row # None /\ row = Replacement(c)

(* CompareAndSwapConfig's WHERE key = ? AND value = ?. *)
Matches(c) == row # None /\ row = saw[c]

(* The swap of either loop.  When the statement's result is lost the row   *)
(* has changed and the caller sees an error.                               *)
Swap(c) ==
  /\ pc[c] = "swap"
  /\ Matches(c)
  /\ row' = Replacement(c)
  /\ writes' = writes + 1
  /\ \/ /\ Answer(c, "ok")
        /\ granted' = IF op[c] = "consume" THEN granted + 1 ELSE granted
        /\ UNCHANGED unsure
     \/ /\ Lossy
        /\ Answer(c, "error")
        /\ unsure' = IF op[c] = "consume" THEN unsure + 1 ELSE unsure
        /\ UNCHANGED granted
  /\ UNCHANGED <<expired, attempt>>

SwapLost(c) ==
  /\ pc[c] = "swap"
  /\ ~Matches(c)
  /\ Retry(c, IF op[c] = "consume" THEN "conflict" ELSE "notfound")
  /\ UNCHANGED <<row, expired, writes, granted, unsure>>

(* Validate's DeleteConfig: by key, whatever the row holds now. *)
Delete(c) ==
  /\ pc[c] = "delete"
  /\ row' = None
  /\ writes' = IF row = None THEN writes ELSE writes + 1
  /\ Answer(c, "refused")
  /\ UNCHANGED <<expired, attempt, granted, unsure>>

Step(c) == Read(c) \/ Swap(c) \/ SwapLost(c) \/ Delete(c) \/ StatementFails(c)

Next ==
  \/ Create
  \/ Expire
  \/ \E c \in Callers :
       Step(c) \/ \E o \in Ops, e \in BOOLEAN : Call(c, o, e)

Spec == Init /\ [][Next]_vars

(* A request goroutine runs until it has answered; no error is forced. *)
FairSpec ==
  /\ Spec
  /\ \A c \in Callers :
       WF_vars(Read(c) \/ Swap(c) \/ SwapLost(c) \/ Delete(c))

-----------------------------------------------------------------------------
(***************************************************************************)
(* Properties                                                              *)
(***************************************************************************)

TypeOK ==
  /\ row \in Row \cup {None}
  /\ expired \in BOOLEAN
  /\ pc \in [Callers -> {"idle", "read", "swap", "delete"}]
  /\ op \in [Callers -> Ops]
  /\ entitled \in [Callers -> BOOLEAN]
  /\ attempt \in [Callers -> 0..Attempts]
  /\ saw \in [Callers -> Row \cup {None}]
  /\ ret \in [Callers -> Rets]
  /\ calls \in Nat /\ writes \in Nat /\ granted \in Nat /\ unsure \in Nat

(* Every session that was granted is counted in the row, and nothing else  *)
(* is but the swaps whose result was lost: no increment of use_count is    *)
(* overwritten by a concurrent Consume or RevokeByID.                      *)
UsesExact == row # None => row.uses = granted + unsure

(* max_uses is never exceeded, however many WebSocket upgrades consume the *)
(* link at the same time, also once the row is gone.                       *)
UseLimit == MaxUses > 0 => granted + unsure <= MaxUses

(* A revocation that has been written is final: no Consume that read the   *)
(* row before it is granted after it, and none undoes it.                  *)
RevocationFinal ==
  [][row # None /\ row.revokedAt # 0
       => /\ row' = None \/ (row'.revokedAt # 0 /\ row'.uses = row.uses)
          /\ granted' = granted]_vars

(* Consume reports a conflict, and RevokeByID "not found" while the link   *)
(* exists, only when the row really changed under them: n lost swaps mean  *)
(* n changes by others after the row was created, so fewer than Attempts   *)
(* other writers can never starve a call.                                  *)
ConflictHasCause ==
  \A c \in Callers : attempt[c] > 0 =>
    /\ op[c] = "consume" => attempt[c] < writes
    /\ op[c] = "revoke" => attempt[c] < writes \/ row = None

(* Every call is answered, however often its swap is lost. *)
CallAnswered == \A c \in Callers : pc[c] # "idle" ~> pc[c] = "idle"

(***************************************************************************)
(* The store implements GuestLink.                                         *)
(***************************************************************************)

LinkStatus ==
  IF row # None
    THEN IF row.revokedAt = 0 THEN "live" ELSE "revoked"
    ELSE IF writes = 0 THEN "absent" ELSE "dropped"

Link == INSTANCE GuestLink WITH status <- LinkStatus, uses <- granted + unsure

(* The store keeps the promise of GuestLink: uses are taken one by one,    *)
(* within the limit, and only from a link that is live at that moment.     *)
ImplementsLink == Link!LinkSpec
=============================================================================
