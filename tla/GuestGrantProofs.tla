-------------------------- MODULE GuestGrantProofs --------------------------
(***************************************************************************)
(* Proofs about GuestGrant for any number of callers, any limit and any    *)
(* number of attempts.                                                     *)
(***************************************************************************)
EXTENDS GuestGrant, TLAPS

(* What a call that is about to swap still knows about the row it read. *)
SwapReady ==
  \A c \in Callers : pc[c] = "swap" =>
    /\ saw[c] \in Row
    /\ op[c] \in {"consume", "revoke"}
    /\ op[c] = "consume" =>
         /\ saw[c].revokedAt = 0
         /\ UnderLimit(saw[c])
         /\ saw[c].uses <= granted + unsure
         /\ attempt[c] <= saw[c].uses

(* A loop that goes on has attempts left, and a Consume that is back at    *)
(* its read has lost no more swaps than the row has uses.                  *)
ReadReady ==
  \A c \in Callers :
    /\ pc[c] # "idle" => attempt[c] < Attempts
    /\ pc[c] = "read" /\ op[c] = "consume" /\ row # None =>
         (row.revokedAt = 0 => attempt[c] <= row.uses)

(* The number of writes accounts for every change of the row. *)
WritesCount ==
  /\ writes = 0 => row = None
  /\ writes = 0 => granted = 0 /\ unsure = 0
  /\ writes = 0 => \A c \in Callers : pc[c] = "idle"
  /\ row # None => writes > granted + unsure
  /\ row # None => (row.revokedAt # 0 => writes > granted + unsure + 1)
  /\ row = None /\ writes > 0 => writes > granted + unsure + 1

(* A Consume that lost n swaps has been overtaken by n writes. *)
ConsumeLosses ==
  \A c \in Callers : op[c] = "consume" /\ attempt[c] > 0 => attempt[c] < writes

(* The inductive invariant. *)
GrantInv ==
  /\ TypeOK
  /\ UsesExact
  /\ UseLimit
  /\ ConsumeLosses
  /\ SwapReady
  /\ ReadReady
  /\ WritesCount

USE GrantAssumption, NoRowAssumption

(* No link exists at the start. *)
LEMMA InitInv == Init => GrantInv
<1> SUFFICES ASSUME Init PROVE GrantInv
  OBVIOUS
<1>1. TypeOK
  <2>1. /\ row \in Row \cup {None}
        /\ expired \in BOOLEAN
        /\ entitled \in [Callers -> BOOLEAN]
        /\ saw \in [Callers -> Row \cup {None}]
    BY DEF Init
  <2>2. /\ pc \in [Callers -> {"idle", "read", "swap", "delete"}]
        /\ op \in [Callers -> Ops]
        /\ ret \in [Callers -> Rets]
    BY DEF Init, Ops, Rets
  <2>3. /\ attempt \in [Callers -> 0..Attempts]
        /\ calls \in Nat /\ writes \in Nat /\ granted \in Nat /\ unsure \in Nat
    BY DEF Init
  <2> QED
    BY <2>1, <2>2, <2>3 DEF TypeOK
<1>2. UsesExact /\ UseLimit /\ ConsumeLosses
  BY DEF Init, UsesExact, UseLimit, ConsumeLosses
<1>3. SwapReady /\ ReadReady
  BY DEF Init, SwapReady, ReadReady
<1>4. WritesCount
  BY DEF Init, WritesCount
<1> QED
  BY <1>1, <1>2, <1>3, <1>4 DEF GrantInv

(* Create writes a fresh row. *)
LEMMA CreateInv == GrantInv /\ Create => GrantInv'
BY DEF GrantInv, TypeOK, UsesExact, UseLimit, ConsumeLosses, SwapReady,
       ReadReady, WritesCount, UnderLimit, Create, callVars, Row

(* Expiry changes no row. *)
LEMMA ExpireInv == GrantInv /\ Expire => GrantInv'
BY DEF GrantInv, TypeOK, UsesExact, UseLimit, ConsumeLosses, SwapReady,
       ReadReady, WritesCount, UnderLimit, Expire, callVars

(* A call begins with nothing read. *)
LEMMA CallInv ==
  ASSUME GrantInv, NEW c \in Callers, NEW o \in Ops, NEW e \in BOOLEAN,
         Call(c, o, e)
  PROVE  GrantInv'
BY DEF GrantInv, TypeOK, UsesExact, UseLimit, ConsumeLosses, SwapReady,
       ReadReady, WritesCount, UnderLimit, Call, Ops


(* A call that only reads or only answers leaves the row and the counts;   *)
(* these are the parts of the invariant that are then at stake.            *)
LEMMA FrameInv ==
  ASSUME GrantInv, TypeOK', UNCHANGED <<row, writes, granted, unsure>>,
         ConsumeLosses', SwapReady', ReadReady',
         writes # 0
  PROVE  GrantInv'
BY DEF GrantInv, UsesExact, UseLimit, WritesCount, UnderLimit

(* A call under way follows the creation of the link. *)
LEMMA BusyMeansWritten ==
  ASSUME GrantInv, NEW c \in Callers, pc[c] # "idle"
  PROVE  writes # 0
BY DEF GrantInv, WritesCount

(* A read takes a copy, or answers when the link cannot be used. *)
LEMMA ReadInv ==
  ASSUME GrantInv, NEW c \in Callers, Read(c)
  PROVE  GrantInv'
<1> USE DEF Read
<1>1. writes # 0
  BY BusyMeansWritten
<1>2. CASE ReadConsume(c)
  <2>1. CASE row = None \/ ~Active(row) \/ ~entitled[c]
    <3>1. TypeOK'
      BY <1>2, <2>1 DEF GrantInv, TypeOK, ReadConsume, Answer, Rets
    <3> QED
      BY <1>1, <1>2, <2>1, <3>1, FrameInv
         DEF GrantInv, TypeOK, ConsumeLosses, SwapReady, ReadReady,
             ReadConsume, Answer
  <2>2. CASE ~(row = None \/ ~Active(row) \/ ~entitled[c])
    <3>1. TypeOK'
      BY <1>2, <2>2 DEF GrantInv, TypeOK, ReadConsume, Proceed
    <3>2. row \in Row /\ row.revokedAt = 0 /\ UnderLimit(row)
          /\ row.uses = granted + unsure
      BY <2>2 DEF GrantInv, TypeOK, Active, UsesExact
    <3>3. attempt[c] <= row.uses
      BY <1>2, <2>2, <3>2 DEF GrantInv, ReadReady, ReadConsume
    <3>4. SwapReady'
      BY <1>2, <2>2, <3>2, <3>3
         DEF GrantInv, TypeOK, SwapReady, ReadConsume, Proceed, UnderLimit, Row
    <3>5. ConsumeLosses' /\ ReadReady'
      BY <1>2, <2>2
         DEF GrantInv, TypeOK, ConsumeLosses, ReadReady, ReadConsume, Proceed
    <3> QED
      BY <1>1, <1>2, <2>2, <3>1, <3>4, <3>5, FrameInv DEF ReadConsume, Proceed
  <2> QED
    BY <2>1, <2>2
<1>3. CASE ReadRevoke(c)
  <2>1. CASE row = None /\ Retry(c, "notfound")
    <3>1. TypeOK'
      BY <1>3, <2>1 DEF GrantInv, TypeOK, ReadReady, Retry, Answer, Rets
    <3>2. ConsumeLosses' /\ ReadReady'
      BY <1>3, <2>1 DEF GrantInv, TypeOK, ConsumeLosses, ReadReady,
                        ReadRevoke, Retry, Answer
    <3>3. SwapReady'
      BY <1>3, <2>1 DEF GrantInv, TypeOK, SwapReady, Retry, Answer, UnderLimit
    <3> QED
      BY <1>1, <2>1, <3>1, <3>2, <3>3, FrameInv
  <2>2. CASE row # None /\ Answer(c, "refused") /\ UNCHANGED attempt
    <3>1. TypeOK'
      BY <2>2 DEF GrantInv, TypeOK, Answer, Rets
    <3> QED
      BY <1>1, <2>2, <3>1, FrameInv
         DEF GrantInv, TypeOK, ConsumeLosses, SwapReady, ReadReady, Answer
  <2>3. CASE row # None /\ Proceed(c, "swap")
    <3>1. TypeOK'
      BY <2>3 DEF GrantInv, TypeOK, Proceed
    <3>2. ConsumeLosses' /\ ReadReady'
      BY <2>3 DEF GrantInv, TypeOK, ConsumeLosses, ReadReady, Proceed
    <3>3. SwapReady'
      BY <1>3, <2>3
         DEF GrantInv, TypeOK, SwapReady, ReadRevoke, Proceed, UnderLimit
    <3> QED
      BY <1>1, <2>3, <3>1, <3>2, <3>3, FrameInv
  <2> QED
    BY <1>3, <2>1, <2>2, <2>3 DEF ReadRevoke
<1>4. CASE ReadValidate(c)
  <2>1. CASE Proceed(c, "delete")
    <3>1. TypeOK'
      BY <2>1 DEF GrantInv, TypeOK, Proceed
    <3>2. ConsumeLosses' /\ ReadReady'
      BY <2>1 DEF GrantInv, TypeOK, ConsumeLosses, ReadReady, Proceed
    <3>3. SwapReady'
      BY <2>1 DEF GrantInv, TypeOK, SwapReady, Proceed, UnderLimit
    <3> QED
      BY <1>1, <2>1, <3>1, <3>2, <3>3, FrameInv
  <2>2. ASSUME NEW r \in {"ok", "refused"}, Answer(c, r), UNCHANGED attempt
        PROVE  GrantInv'
    <3>1. TypeOK'
      BY <2>2 DEF GrantInv, TypeOK, Answer, Rets
    <3> QED
      BY <1>1, <2>2, <3>1, FrameInv
         DEF GrantInv, TypeOK, ConsumeLosses, SwapReady, ReadReady, Answer
  <2> QED
    BY <1>4, <2>1, <2>2 DEF ReadValidate
<1> QED
  BY <1>2, <1>3, <1>4

(* A statement that fails leaves the row alone. *)
LEMMA StatementFailsInv ==
  ASSUME GrantInv, NEW c \in Callers, StatementFails(c)
  PROVE  GrantInv'
<1>1. TypeOK'
  BY DEF GrantInv, TypeOK, StatementFails, Answer, Rets
<1> QED
  BY <1>1, BusyMeansWritten, FrameInv
     DEF GrantInv, TypeOK, ConsumeLosses, SwapReady, ReadReady,
         StatementFails, Answer

(* A swap that matched: the row was still the one the call had read. *)
LEMMA SwapInv ==
  ASSUME GrantInv, NEW c \in Callers, Swap(c)
  PROVE  GrantInv'
<1> USE DEF Swap
<1>1. /\ writes # 0
      /\ row \in Row /\ row = saw[c]
      /\ op[c] \in {"consume", "revoke"}
      /\ row.uses = granted + unsure
  BY BusyMeansWritten DEF GrantInv, TypeOK, SwapReady, UsesExact, Matches
<1>2. /\ granted' \in Nat /\ unsure' \in Nat
      /\ op[c] = "consume" => granted' + unsure' = granted + unsure + 1
      /\ op[c] = "revoke" => granted' + unsure' = granted + unsure
  BY <1>1 DEF GrantInv, TypeOK
<1>3. /\ row' \in Row
      /\ row'.uses = granted' + unsure'
      /\ op[c] = "consume" => row'.revokedAt = 0
      /\ op[c] = "revoke" => row'.revokedAt # 0
  BY <1>1, <1>2 DEF GrantInv, TypeOK, SwapReady, Replacement, Row
<1>4. row' # None
  BY <1>3
<1>5. /\ pc' = [pc EXCEPT ![c] = "idle"]
      /\ UNCHANGED <<op, saw, attempt>>
  BY DEF Answer
<1>6. TypeOK'
  BY <1>2, <1>3 DEF GrantInv, TypeOK, Answer, Rets
<1>7. UsesExact'
  BY <1>3 DEF UsesExact
<1>8. UseLimit'
  BY <1>1, <1>2 DEF GrantInv, TypeOK, UseLimit, SwapReady, UnderLimit
<1>9. ConsumeLosses'
  BY <1>5 DEF GrantInv, TypeOK, ConsumeLosses
<1>10. SwapReady'
  <2> SUFFICES ASSUME NEW d \in Callers, pc'[d] = "swap"
               PROVE  (saw[d] \in Row /\ op[d] \in {"consume", "revoke"}
                        /\ (op[d] = "consume" =>
                              /\ saw[d].revokedAt = 0
                              /\ UnderLimit(saw[d])
                              /\ saw[d].uses <= granted + unsure
                              /\ attempt[d] <= saw[d].uses))'
    BY DEF SwapReady
  <2>1. pc[d] = "swap"
    BY <1>5 DEF GrantInv, TypeOK
  <2>2. granted + unsure <= granted' + unsure'
    BY <1>1, <1>2 DEF GrantInv, TypeOK
  <2> QED
    BY <1>2, <1>5, <2>1, <2>2 DEF GrantInv, TypeOK, SwapReady, UnderLimit, Row
<1>11. ReadReady'
  <2> SUFFICES ASSUME NEW d \in Callers
               PROVE  /\ pc'[d] # "idle" => attempt'[d] < Attempts
                      /\ pc'[d] = "read" /\ op'[d] = "consume" =>
                           (row'.revokedAt = 0 => attempt'[d] <= row'.uses)
    BY DEF ReadReady
  <2>1. pc'[d] # "idle" => attempt'[d] < Attempts
    BY <1>5 DEF GrantInv, TypeOK, ReadReady
  <2>2. ASSUME pc'[d] = "read", op'[d] = "consume", row'.revokedAt = 0
        PROVE  attempt'[d] <= row'.uses
    <3>1. op[c] = "consume" /\ row.revokedAt = 0
      BY <1>1, <1>3, <2>2 DEF GrantInv, SwapReady
    <3>2. pc[d] = "read" /\ op[d] = "consume" /\ attempt'[d] = attempt[d]
      BY <1>5, <2>2 DEF GrantInv, TypeOK
    <3>3. attempt[d] <= row.uses
      BY <1>1, <3>1, <3>2 DEF GrantInv, ReadReady
    <3> QED
      BY <1>1, <1>2, <1>3, <3>1, <3>2, <3>3 DEF GrantInv, TypeOK
  <2> QED
    BY <2>1, <2>2
<1>12. WritesCount'
  BY <1>1, <1>2, <1>3, <1>4, <1>5 DEF GrantInv, TypeOK, WritesCount, SwapReady
<1> QED
  BY <1>6, <1>7, <1>8, <1>9, <1>10, <1>11, <1>12 DEF GrantInv

(* A swap that did not match: somebody changed the row, which accounts for *)
(* the attempt it costs.                                                   *)
LEMMA SwapLostInv ==
  ASSUME GrantInv, NEW c \in Callers, SwapLost(c)
  PROVE  GrantInv'
<1> USE DEF SwapLost
<1>1. writes # 0 /\ op[c] \in {"consume", "revoke"}
  BY BusyMeansWritten DEF GrantInv, SwapReady
<1>2. TypeOK'
  BY <1>1 DEF GrantInv, TypeOK, ReadReady, Retry, Answer, Rets
<1>3. SwapReady'
  BY DEF GrantInv, TypeOK, SwapReady, Retry, Answer, UnderLimit
<1>4. ASSUME op[c] = "consume"
      PROVE  /\ attempt[c] + 1 < writes
             /\ row # None /\ row.revokedAt = 0 => attempt[c] + 1 <= row.uses
  <2>1. /\ saw[c] \in Row /\ saw[c].revokedAt = 0
        /\ attempt[c] <= saw[c].uses
        /\ saw[c].uses <= granted + unsure
        /\ attempt[c] \in Nat
    BY <1>4 DEF GrantInv, TypeOK, SwapReady
  <2>2. CASE row # None /\ row.revokedAt = 0
    <3>1. row \in Row /\ row.uses = granted + unsure
      BY <2>2 DEF GrantInv, TypeOK, UsesExact
    <3>2. row # saw[c]
      BY <2>2 DEF Matches
    <3>3. row.uses # saw[c].uses
      BY <2>1, <2>2, <3>1, <3>2 DEF Row
    <3> QED
      BY <2>1, <2>2, <3>1, <3>3, SMTT(30) DEF GrantInv, TypeOK, WritesCount, Row
  <2>3. CASE row = None \/ row.revokedAt # 0
    BY <1>1, <2>1, <2>3 DEF GrantInv, TypeOK, WritesCount, Row
  <2> QED
    BY <2>2, <2>3
<1>5. ConsumeLosses'
  BY <1>1, <1>4 DEF GrantInv, TypeOK, ConsumeLosses, Retry, Answer
<1>6. ReadReady'
  BY <1>1, <1>4 DEF GrantInv, TypeOK, ReadReady, Retry, Answer
<1> QED
  BY <1>1, <1>2, <1>3, <1>5, <1>6, FrameInv

(* The row of a revoked or expired link is deleted. *)
LEMMA DeleteInv ==
  ASSUME GrantInv, NEW c \in Callers, Delete(c)
  PROVE  GrantInv'
<1> USE DEF Delete
<1>1. writes # 0
  BY BusyMeansWritten
<1>2. TypeOK'
  BY DEF GrantInv, TypeOK, Answer, Rets
<1>3. UsesExact' /\ UseLimit' /\ ConsumeLosses'
  BY DEF GrantInv, TypeOK, UsesExact, UseLimit, ConsumeLosses, Answer
<1>4. SwapReady' /\ ReadReady'
  BY DEF GrantInv, TypeOK, SwapReady, ReadReady, Answer, UnderLimit
<1>5. WritesCount'
  BY <1>1 DEF GrantInv, TypeOK, WritesCount
<1> QED
  BY <1>2, <1>3, <1>4, <1>5 DEF GrantInv

(* One lemma per statement of the store. *)
LEMMA StepInv == GrantInv /\ [Next]_vars => GrantInv'
<1>1. ASSUME GrantInv, UNCHANGED vars PROVE GrantInv'
  BY <1>1 DEF vars, callVars, GrantInv, TypeOK, UsesExact, UseLimit,
              ConsumeLosses, SwapReady, ReadReady, WritesCount, UnderLimit
<1> QED
  BY <1>1, CreateInv, ExpireInv, CallInv, ReadInv, SwapInv, SwapLostInv,
     DeleteInv, StatementFailsInv DEF Next, Step

(* The inductive invariant of the store: what a goroutine of grants.go *)
(* knows about the row between its read and its swap, and how uses,    *)
(* writes and grants are related.                                      *)
THEOREM GrantInvariant == Spec => []GrantInv
BY InitInv, StepInv, PTL DEF Spec

(* Type correctness of the store. *)
THEOREM TypeCorrect == Spec => []TypeOK
<1>1. GrantInv => TypeOK
  BY DEF GrantInv
<1> QED
  BY <1>1, GrantInvariant, PTL

(* No increment of use_count is lost and max_uses is never exceeded, for   *)
(* any number of concurrent Consume, RevokeByID and Validate calls.        *)
THEOREM UsesAreCounted == Spec => [](UsesExact /\ UseLimit)
<1>1. GrantInv => UsesExact /\ UseLimit
  BY DEF GrantInv
<1> QED
  BY <1>1, GrantInvariant, PTL

-----------------------------------------------------------------------------
(***************************************************************************)
(* Revocations that lose their swap.  A revoked row can be written again   *)
(* without a use, so uses do not date a copy; its version does.            *)
(***************************************************************************)

(* The number of writes that led to a row: uses are written one by one,    *)
(* and a stamp is the number of the write before it.                       *)
Version(g) == IF g.revokedAt = 0 THEN g.uses + 1 ELSE g.revokedAt + 1

RowVersion == row # None => writes = Version(row)

(* A revocation about to swap has lost fewer swaps than the row it read    *)
(* had versions, and that row is the current one or older.                 *)
CopyBehind ==
  \A c \in Callers : pc[c] = "swap" /\ op[c] = "revoke" /\ row # None =>
    /\ attempt[c] < Version(saw[c])
    /\ Version(saw[c]) <= writes
    /\ Version(saw[c]) = writes => saw[c] = row

RevokeLosses ==
  \A c \in Callers : op[c] = "revoke" /\ attempt[c] > 0 =>
    attempt[c] < writes \/ (row = None /\ writes # 0)

RevokeInv == RowVersion /\ CopyBehind /\ RevokeLosses

(* The version of a row is a number. *)
LEMMA VersionType == ASSUME NEW g \in Row PROVE Version(g) \in Nat
BY DEF Version, Row

(* Steps that write nothing and take no copy of the row. *)
LEMMA RevokeFrame ==
  ASSUME RevokeInv, UNCHANGED <<row, writes>>,
         \A c \in Callers :
           pc'[c] = "swap" /\ op'[c] = "revoke" =>
             /\ pc[c] = "swap" /\ op[c] = "revoke"
             /\ saw'[c] = saw[c] /\ attempt'[c] = attempt[c],
         \A c \in Callers :
           op'[c] = "revoke" /\ attempt'[c] > 0 =>
             \/ op[c] = "revoke" /\ attempt'[c] = attempt[c]
             \/ attempt'[c] < writes
             \/ row = None /\ writes # 0
  PROVE  RevokeInv'
BY DEF RevokeInv, RowVersion, CopyBehind, RevokeLosses, Version

(* The scan of RevokeByID takes a copy of the newest version. *)
LEMMA RevokeRead ==
  ASSUME GrantInv, RevokeInv, NEW c \in Callers, Read(c)
  PROVE  RevokeInv'
<1>1. UNCHANGED <<row, writes>> /\ op' = op
  BY DEF Read, ReadConsume, ReadRevoke, ReadValidate, Retry, Answer, Proceed
<1>2. writes # 0 /\ writes \in Nat /\ row \in Row \cup {None}
      /\ attempt \in [Callers -> 0..Attempts] /\ pc[c] = "read"
  BY BusyMeansWritten DEF GrantInv, TypeOK, Read
<1>3. CASE op[c] = "revoke" /\ row # None /\ Proceed(c, "swap")
  <2>1. /\ pc' = [pc EXCEPT ![c] = "swap"] /\ saw' = [saw EXCEPT ![c] = row]
        /\ attempt' = attempt
    BY <1>3 DEF Proceed
  <2>2. attempt[c] < writes /\ Version(row) = writes
    BY <1>2, <1>3 DEF RevokeInv, RevokeLosses, RowVersion
  <2>3. RowVersion' /\ RevokeLosses'
    BY <1>1, <2>1 DEF RevokeInv, RowVersion, RevokeLosses, Version
  <2>4. CopyBehind'
    <3> SUFFICES ASSUME NEW d \in Callers, pc'[d] = "swap", op[d] = "revoke", row # None
                 PROVE  /\ attempt[d] < Version(saw'[d])
                        /\ Version(saw'[d]) <= writes
                        /\ Version(saw'[d]) = writes => saw'[d] = row
      BY <1>1, <2>1 DEF CopyBehind, Version
    <3>1. CASE d = c
      BY <1>2, <2>1, <2>2, <3>1 DEF GrantInv, TypeOK
    <3>2. CASE d # c
      BY <2>1, <3>2 DEF RevokeInv, CopyBehind, GrantInv, TypeOK
    <3>3. QED
      BY <3>1, <3>2
  <2>5. QED
    BY <2>3, <2>4 DEF RevokeInv
<1>4. CASE op[c] = "revoke" /\ row = None /\ Retry(c, "notfound")
  BY <1>1, <1>2, <1>4, RevokeFrame DEF Retry, Answer, GrantInv, TypeOK
<1>5. CASE Answer(c, "refused") /\ UNCHANGED attempt
  BY <1>1, <1>5, RevokeFrame DEF Answer, GrantInv, TypeOK
<1>6. CASE op[c] # "revoke"
  <2>1. /\ \A d \in Callers \ {c} : pc'[d] = pc[d] /\ saw'[d] = saw[d]
        /\ attempt' = attempt
    BY <1>6 DEF Read, ReadConsume, ReadRevoke, ReadValidate, Answer, Proceed, GrantInv, TypeOK
  <2>2. QED
    BY <1>1, <1>6, <2>1, RevokeFrame
<1>7. QED
  BY <1>3, <1>4, <1>5, <1>6 DEF Read, ReadConsume, ReadRevoke, ReadValidate

(* A swap writes the next version. *)
LEMMA RevokeSwap ==
  ASSUME GrantInv, RevokeInv, NEW c \in Callers, Swap(c)
  PROVE  RevokeInv'
<1>1. /\ row \in Row /\ row = saw[c] /\ row # None /\ writes # 0 /\ writes \in Nat
      /\ op[c] \in {"consume", "revoke"} /\ row' = Replacement(c) /\ writes' = writes + 1
      /\ op[c] = "consume" => row.revokedAt = 0
      /\ saw \in [Callers -> Row \cup {None}]
  BY BusyMeansWritten DEF GrantInv, TypeOK, SwapReady, Matches, Swap
<1>2. /\ pc' = [pc EXCEPT ![c] = "idle"] /\ op' = op /\ saw' = saw /\ attempt' = attempt
      /\ pc \in [Callers -> {"idle", "read", "swap", "delete"}]
      /\ attempt \in [Callers -> 0..Attempts]
  BY DEF Swap, Answer, GrantInv, TypeOK
<1>3. row' \in Row /\ Version(row') = writes + 1
  BY <1>1 DEF Replacement, Version, Row, RevokeInv, RowVersion
<1>4. RowVersion'
  BY <1>1, <1>3 DEF RowVersion, Version
<1>5. CopyBehind'
  <2> SUFFICES ASSUME NEW d \in Callers, pc'[d] = "swap", op[d] = "revoke"
               PROVE  attempt[d] < Version(saw[d]) /\ Version(saw[d]) <= writes
    <3>1. ASSUME NEW d \in Callers, pc'[d] = "swap", op'[d] = "revoke"
          PROVE  /\ attempt'[d] < Version(saw'[d]) /\ Version(saw'[d]) <= writes'
                 /\ Version(saw'[d]) # writes'
      <4>1. attempt[d] < Version(saw[d]) /\ Version(saw[d]) <= writes
        BY <1>2, <3>1
      <4>2. saw[d] \in Row
        BY <1>2, <3>1 DEF GrantInv, SwapReady
      <4>3. Version(saw[d]) \in Nat
        BY <4>2, VersionType
      <4>4. Version(saw'[d]) = Version(saw[d])
        BY <1>2
      <4>5. QED
        BY <1>1, <1>2, <4>1, <4>3, <4>4
    <3>2. QED
      BY <3>1 DEF CopyBehind, Version
  <2>1. pc[d] = "swap"
    BY <1>2
  <2>2. QED
    BY <1>1, <2>1 DEF RevokeInv, CopyBehind
<1>6. RevokeLosses'
  BY <1>1, <1>2 DEF RevokeInv, RevokeLosses
<1>7. QED
  BY <1>4, <1>5, <1>6 DEF RevokeInv

(* A revocation loses its swap only to a newer version. *)
LEMMA RevokeSwapLost ==
  ASSUME GrantInv, RevokeInv, NEW c \in Callers, SwapLost(c)
  PROVE  RevokeInv'
<1>1. /\ UNCHANGED <<row, writes>> /\ op' = op /\ saw' = saw
      /\ attempt' = [attempt EXCEPT ![c] = @ + 1]
      /\ pc'[c] \in {"idle", "read"} /\ \A d \in Callers \ {c} : pc'[d] = pc[d]
      /\ attempt \in [Callers -> 0..Attempts] /\ writes \in Nat
  BY DEF SwapLost, Retry, Answer, GrantInv, TypeOK
<1>2. op[c] = "revoke" /\ row # None => attempt[c] + 1 < writes
  <2> SUFFICES ASSUME op[c] = "revoke", row # None PROVE attempt[c] + 1 < writes
    OBVIOUS
  <2>1. saw[c] \in Row /\ saw[c] # row
    BY DEF SwapLost, Matches, GrantInv, SwapReady
  <2>2. /\ attempt[c] < Version(saw[c]) /\ Version(saw[c]) <= writes
        /\ Version(saw[c]) # writes
    BY <2>1 DEF SwapLost, RevokeInv, CopyBehind
  <2>3. Version(saw[c]) \in Nat /\ attempt[c] \in Nat
    BY <1>1, <2>1, VersionType
  <2>4. QED
    BY <1>1, <2>2, <2>3
<1>3. QED
  <2>1. writes # 0
    BY BusyMeansWritten DEF SwapLost
  <2>2. QED
    BY <1>1, <1>2, <2>1, RevokeFrame

(* One case per statement of the store. *)
LEMMA RevokeStep == GrantInv /\ RevokeInv /\ [Next]_vars => RevokeInv'
<1> SUFFICES ASSUME GrantInv, RevokeInv, [Next]_vars PROVE RevokeInv'
  OBVIOUS
<1>1. CASE Create
  <2>1. /\ writes' = 1 /\ Version(row') = 1 /\ UNCHANGED callVars
        /\ \A c \in Callers : pc[c] = "idle"
    BY <1>1 DEF Create, Version, GrantInv, WritesCount
  <2>2. \A c \in Callers : op[c] = "revoke" => attempt[c] = 0
    BY <1>1 DEF Create, GrantInv, TypeOK, RevokeInv, RevokeLosses
  <2>3. QED
    BY <2>1, <2>2 DEF RevokeInv, RowVersion, CopyBehind, RevokeLosses, Version, callVars
<1>2. CASE Expire \/ UNCHANGED vars
  BY <1>2, RevokeFrame DEF Expire, vars, callVars
<1>3. CASE \E c \in Callers, o \in Ops, e \in BOOLEAN : Call(c, o, e)
  BY <1>3, RevokeFrame DEF Call, GrantInv, TypeOK
<1>4. CASE \E c \in Callers : StatementFails(c)
  BY <1>4, RevokeFrame DEF StatementFails, Answer, GrantInv, TypeOK
<1>5. CASE \E c \in Callers : Delete(c)
  <2>1. PICK c \in Callers : Delete(c)
    BY <1>5
  <2>2. row' = None /\ writes' # 0 /\ UNCHANGED <<op, attempt>>
    BY <2>1, BusyMeansWritten DEF Delete, Answer, GrantInv, TypeOK
  <2>3. QED
    BY <2>2 DEF RevokeInv, RowVersion, CopyBehind, RevokeLosses
<1>6. QED
  BY <1>1, <1>2, <1>3, <1>4, <1>5, RevokeRead, RevokeSwap, RevokeSwapLost DEF Next, Step

(* A Consume or a RevokeByID that has lost n swaps has seen n changes by   *)
(* others: neither loop gives up on a link that nobody else was writing.   *)
THEOREM ConflictsAreReal == Spec => []ConflictHasCause
<1>1. Init => RevokeInv
  BY DEF Init, RevokeInv, RowVersion, CopyBehind, RevokeLosses
<1>2. GrantInv /\ RevokeInv => ConflictHasCause
  BY DEF GrantInv, RevokeInv, RevokeLosses, ConsumeLosses, ConflictHasCause
<1>3. QED
  BY <1>1, <1>2, GrantInvariant, RevokeStep, PTL DEF Spec

-----------------------------------------------------------------------------
(* What one step may do to a row that is revoked. *)
RevocationKept ==
  row # None /\ row.revokedAt # 0
    => /\ row' = None \/ (row'.revokedAt # 0 /\ row'.uses = row.uses)
       /\ granted' = granted

(* No swap undoes a revocation or adds a use to a revoked row. *)
LEMMA StepKeepsRevocation == GrantInv /\ [Next]_vars => RevocationKept
<1> SUFFICES ASSUME GrantInv, [Next]_vars, row # None, row.revokedAt # 0
             PROVE  /\ row' = None \/ (row'.revokedAt # 0 /\ row'.uses = row.uses)
                    /\ granted' = granted
  BY DEF RevocationKept
<1>1. CASE UNCHANGED <<row, granted>>
  BY <1>1
<1>2. CASE Create
  BY <1>2 DEF Create, GrantInv, WritesCount
<1>3. ASSUME NEW c \in Callers, Swap(c)
      PROVE  row'.revokedAt # 0 /\ row'.uses = row.uses /\ granted' = granted
  <2>1. writes # 0 /\ writes \in Nat
    BY <1>3, BusyMeansWritten DEF Swap, GrantInv, TypeOK
  <2>2. row = saw[c] /\ op[c] = "revoke" /\ saw[c] \in Row
    BY <1>3 DEF Swap, Matches, GrantInv, SwapReady
  <2> QED
    BY <1>3, <2>1, <2>2 DEF Swap, Replacement, Row
<1>4. ASSUME NEW c \in Callers, Delete(c)
      PROVE  row' = None /\ granted' = granted
  BY <1>4 DEF Delete
<1> QED
  BY <1>1, <1>2, <1>3, <1>4
     DEF Next, Step, Expire, Call, Read, SwapLost, StatementFails, vars

(* No Consume is granted after a revocation has been written, whatever it  *)
(* had read before, and no write undoes the revocation.                    *)
THEOREM RevocationIsFinal == Spec => RevocationFinal
<1>1. GrantInv /\ [Next]_vars => [RevocationKept]_vars
  BY StepKeepsRevocation
<1> QED
  BY <1>1, GrantInvariant, PTL DEF Spec, RevocationFinal, RevocationKept

-----------------------------------------------------------------------------
(***************************************************************************)
(* The store implements GuestLink.                                         *)
(***************************************************************************)

(* The initial states map to the initial state of the link. *)
LEMMA LinkInitially == Init => Link!LinkInit
BY DEF Init, Link!LinkInit, LinkStatus

(* Every statement is a step of the abstract link or a stutter. *)
LEMMA LinkStep == GrantInv /\ [Next]_vars => [Link!LinkNext]_(Link!linkVars)
<1> SUFFICES ASSUME GrantInv, [Next]_vars
             PROVE  Link!LinkNext \/ UNCHANGED Link!linkVars
  OBVIOUS
<1> USE DEF LinkStatus, Link!linkVars
<1>1. CASE UNCHANGED <<row, writes, granted, unsure>>
  BY <1>1
<1>2. CASE Create
  <2>1. Link!LinkCreate
    BY <1>2 DEF Create, Link!LinkCreate, GrantInv, WritesCount, Row
  <2> QED
    BY <2>1 DEF Link!LinkNext
<1>3. ASSUME NEW c \in Callers, Swap(c)
      PROVE  Link!LinkNext \/ UNCHANGED Link!linkVars
  <2>1. /\ writes # 0 /\ writes \in Nat
        /\ row = saw[c] /\ row # None /\ saw[c] \in Row
        /\ row.uses = granted + unsure
        /\ op[c] \in {"consume", "revoke"}
    BY <1>3, BusyMeansWritten
       DEF Swap, Matches, GrantInv, TypeOK, SwapReady, UsesExact
  <2>2. row' \in Row /\ row' # None
    BY <1>3, <2>1 DEF Swap, Replacement, Row
  <2>3. CASE op[c] = "consume"
    <3>1. row.revokedAt = 0 /\ row'.revokedAt = 0
      BY <1>3, <2>1, <2>3 DEF Swap, Replacement, GrantInv, SwapReady, Row
    <3>2. granted' + unsure' = granted + unsure + 1
      BY <1>3, <2>3 DEF Swap, GrantInv, TypeOK
    <3>3. MaxUses = 0 \/ granted + unsure < MaxUses
      BY <2>1, <2>3, <1>3 DEF Swap, GrantInv, SwapReady, UnderLimit
    <3>4. Link!LinkUse
      BY <2>1, <2>2, <3>1, <3>2, <3>3 DEF Link!LinkUse, Link!BelowLimit
    <3> QED
      BY <3>4 DEF Link!LinkNext
  <2>4. CASE op[c] = "revoke"
    <3>1. row'.revokedAt # 0 /\ UNCHANGED <<granted, unsure>>
      BY <1>3, <2>1, <2>4 DEF Swap, Replacement, Row
    <3>2. CASE row.revokedAt = 0
      BY <2>1, <2>2, <3>1, <3>2 DEF Link!LinkNext, Link!LinkRevoke
    <3>3. CASE row.revokedAt # 0
      BY <2>1, <2>2, <3>1, <3>3
    <3> QED
      BY <3>2, <3>3
  <2> QED
    BY <2>1, <2>3, <2>4
<1>4. ASSUME NEW c \in Callers, Delete(c)
      PROVE  Link!LinkNext \/ UNCHANGED Link!linkVars
  <2>1. writes # 0 /\ writes \in Nat /\ writes' # 0
    BY <1>4, BusyMeansWritten DEF Delete, GrantInv, TypeOK
  <2>2. CASE row = None
    BY <1>4, <2>1, <2>2 DEF Delete
  <2>3. CASE row # None
    BY <1>4, <2>1, <2>3 DEF Delete, Link!LinkNext, Link!LinkDrop
  <2> QED
    BY <2>2, <2>3
<1> QED
  BY <1>1, <1>2, <1>3, <1>4
     DEF Next, Step, Expire, Call, Read, SwapLost, StatementFails, vars

(* The compare-and-swap loops over the JSON row implement the abstract     *)
(* link: each step is a use, a revocation, a drop or invisible.            *)
THEOREM StoreImplementsLink == Spec => ImplementsLink
BY LinkInitially, LinkStep, GrantInvariant, PTL
   DEF Spec, ImplementsLink, Link!LinkSpec
=============================================================================
