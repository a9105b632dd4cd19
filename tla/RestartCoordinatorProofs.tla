------------------------ MODULE RestartCoordinatorProofs ------------------------
(***************************************************************************)
(* Proofs about RestartCoordinator, for every set of operators, settings and *)
(* requests in progress, and every bound on changes, saves and restarts.     *)
(***************************************************************************)
EXTENDS RestartCoordinator, FiniteSetTheorems, SequenceTheorems, TLAPS

Ops == {"idle", "saving", "saved", "cancelling", "restart", "undoing", "polling"}
Call == [op : Ops, state : States, left : Changes, broken : BOOLEAN]

\* A copy of the transaction, in the file or in the hands of a request, holds no
\* setting twice and is of no later process.
Distinct(changes) == Cardinality(ChangedKeys(changes)) = Len(changes)
CopyOK(state) == state \in States /\ Distinct(state.changes) /\ state.boot <= boot

\* A copy that is being polled is of an earlier process.
CopiesOK ==
  /\ CopyOK(file)
  /\ \A c \in Calls : /\ CopyOK(calls[c].state)
                      /\ calls[c].op = "polling" => calls[c].state.boot < boot

\* Every process that will still be started is within the bound.
BootsLeft ==
  /\ ~up => boot < MaxBoots /\ ~exiting /\ \A c \in Calls : calls[c] = Idle
  /\ exiting => boot < MaxBoots
  /\ \A c \in Calls : calls[c].op = "restart" => boot < MaxBoots

\* A request that saves a setting holds one change of a pending transaction.
SavesOne ==
  \A c \in Calls : calls[c].op \in {"saving", "saved"} =>
    calls[c].state.phase = "pending" /\ Len(calls[c].state.changes) = 1

CoordinatorInv ==
  /\ CoordinatorTypeOK
  /\ CopiesOK
  /\ SavesOne
  /\ BootsLeft
  /\ ReadyAfterReboot

Owns(c) == calls[c].op \notin {"idle", "polling"}
InPending(k) == file.phase = "pending" /\ k \in ChangedKeys(file.changes)

\* Rolling the changes back restores what the server runs with.
RestoresRunning(changes) == \A i \in DOMAIN changes : changes[i].old = running[changes[i].key]

\* A save read the value the server runs with, or its setting is in the pending
\* transaction already.
SaveInOrder(c) ==
  calls[c].op \in {"saving", "saved"} =>
    LET change == calls[c].state.changes[1] IN
      \/ InPending(change.key)
      \/ /\ change.old = running[change.key]
         /\ calls[c].op = "saving" => setting[change.key] = change.old

\* A cancellation or a confirmation can restore what the server runs with, and
\* what it has undone is restored.
UndoInOrder(c) ==
  calls[c].op \in {"restart", "cancelling", "undoing"} =>
    /\ RestoresRunning(calls[c].state.changes)
    /\ RestoresRunning(calls[c].left)
    /\ ChangedKeys(calls[c].left) \subseteq KeysOf(calls[c])
    /\ \A k \in KeysOf(calls[c]) \ ChangedKeys(calls[c].left) : setting[k] = running[k]

CallInOrder(c) ==
  /\ calls[c].op = "idle" => KeysOf(calls[c]) = {}
  /\ calls[c].op = "restart" => file = calls[c].state /\ file.phase = "restarting"
  /\ calls[c].op = "polling" => calls[c].state.phase = "restarting"
  /\ SaveInOrder(c)
  /\ UndoInOrder(c)

\* No two requests that change settings hold the same one.
OwnersDisjoint ==
  \A c, d \in Calls : c # d /\ Owns(c) /\ Owns(d) => KeysOf(calls[c]) \cap KeysOf(calls[d]) = {}
FileInOrder == file.phase \in {"pending", "failed"} => RestoresRunning(file.changes)
Covered(k) == InPending(k) \/ \E c \in Calls : calls[c].op # "polling" /\ k \in KeysOf(calls[c])
DriftCovered == \A k \in Keys : setting[k] # running[k] => Covered(k)

\* What holds as long as no accident has happened.
Orderly == OwnersDisjoint /\ FileInOrder /\ (\A c \in Calls : CallInOrder(c)) /\ DriftCovered
OrderlyUnlessAccident == ~accident => Orderly

-----------------------------------------------------------------------------
(* Lists of changes.                                                        *)

\* Changes are the short sequences of changes.
LEMMA ChangesAreSeqs ==
  \A s : s \in Changes <=> s \in Seq(Change) /\ Len(s) <= MAX_CHANGES
  <1>1. ASSUME NEW s \in Changes PROVE s \in Seq(Change) /\ Len(s) <= MAX_CHANGES
    <2>1. PICK n \in 0..MAX_CHANGES : s \in [1..n -> Change]
      BY DEF Changes
    <2>2. n \in Nat /\ s \in Seq(Change) /\ Len(s) = n
      BY <2>1, BoundsAssumption
    <2>3. QED
      BY <2>1, <2>2, BoundsAssumption
  <1>2. ASSUME NEW s \in Seq(Change), Len(s) <= MAX_CHANGES PROVE s \in Changes
    <2>1. Len(s) \in 0..MAX_CHANGES /\ s \in [1..Len(s) -> Change]
      BY <1>2, LenProperties, BoundsAssumption
    <2>2. QED
      BY <2>1 DEF Changes
  <1>3. QED
    BY <1>1, <1>2

\* No changes are a list of changes.
LEMMA EmptyChanges == <<>> \in Changes /\ Distinct(<<>>) /\ ChangedKeys(<<>>) = {}
  <1>1. <<>> \in Seq(Change) /\ Len(<<>>) = 0
    BY EmptySeq
  <1>2. ChangedKeys(<<>>) = {}
    BY DEF ChangedKeys
  <1>3. QED
    <2>1. 0 <= MAX_CHANGES
      BY BoundsAssumption
    <2>2. <<>> \in Changes
      BY <1>1, <2>1, ChangesAreSeqs
    <2>3. Distinct(<<>>)
      BY <1>1, <1>2, FS_EmptySet DEF Distinct
    <2>4. QED
      BY <1>2, <2>2, <2>3

\* What registerChange is given by a settings route: one change.
LEMMA OneChange ==
  ASSUME NEW x \in Change
  PROVE  /\ <<x>> \in Changes /\ Len(<<x>>) = 1 /\ <<x>>[1] = x
         /\ ChangedKeys(<<x>>) = {x.key} /\ Distinct(<<x>>)
  <1>1. <<x>> \in Seq(Change) /\ Len(<<x>>) = 1 /\ <<x>>[1] = x /\ DOMAIN <<x>> = {1}
    OBVIOUS
  <1>2. ChangedKeys(<<x>>) = {x.key}
    BY <1>1 DEF ChangedKeys
  <1>3. QED
    <2>1. 1 <= MAX_CHANGES
      BY BoundsAssumption
    <2>2. <<x>> \in Changes
      BY <1>1, <2>1, ChangesAreSeqs
    <2>3. Distinct(<<x>>)
      BY <1>1, <1>2, FS_Singleton DEF Distinct
    <2>4. QED
      BY <1>1, <1>2, <2>2, <2>3

\* What a list of changes consists of.
LEMMA ChangesFacts ==
  ASSUME NEW s \in Changes
  PROVE  /\ s \in Seq(Change) /\ Len(s) \in Nat /\ Len(s) <= MAX_CHANGES
         /\ DOMAIN s = 1..Len(s)
         /\ \A i \in DOMAIN s : s[i] \in Change /\ s[i].key \in Keys /\ s[i].old \in Values
         /\ \A i \in DOMAIN s : s[i].key \in ChangedKeys(s)
         /\ ChangedKeys(s) \subseteq Keys /\ IsFiniteSet(ChangedKeys(s))
         /\ s = <<>> => ChangedKeys(s) = {}
  <1>1. s \in Seq(Change) /\ Len(s) \in Nat /\ Len(s) <= MAX_CHANGES /\ DOMAIN s = 1..Len(s)
    BY ChangesAreSeqs, LenProperties
  <1>2. \A i \in DOMAIN s : s[i] \in Change /\ s[i].key \in Keys /\ s[i].old \in Values
    <2>1. \A i \in DOMAIN s : s[i] \in Change
      BY <1>1, ElementOfSeq
    <2>2. QED
      BY <2>1 DEF Change
  <1>3. IsFiniteSet(DOMAIN s)
    BY <1>1, FS_Interval
  <1>4. IsFiniteSet(ChangedKeys(s))
    <2> DEFINE f == [i \in DOMAIN s |-> s[i].key]
    <2>1. f \in Surjection(DOMAIN s, ChangedKeys(s))
      BY DEF ChangedKeys, Surjection
    <2>2. QED
      BY <2>1, <1>3, FS_Surjection
  <1>5. QED
    BY <1>1, <1>2, <1>4 DEF ChangedKeys

\* A change of a setting that is not there yet is appended.
LEMMA ChangeAppended ==
  ASSUME NEW s \in Changes, NEW x \in Change, Len(s \o <<x>>) <= MAX_CHANGES
  PROVE  /\ s \o <<x>> \in Changes
         /\ ChangedKeys(s \o <<x>>) = ChangedKeys(s) \cup {x.key}
         /\ Distinct(s) /\ x.key \notin ChangedKeys(s) => Distinct(s \o <<x>>)
         /\ RestoresRunning(s) /\ x.old = running[x.key] => RestoresRunning(s \o <<x>>)
  <1> DEFINE t == s \o <<x>>
  <1>1. s \in Seq(Change) /\ <<x>> \in Seq(Change) /\ Len(<<x>>) = 1 /\ <<x>>[1] = x
    BY ChangesFacts
  <1>2. /\ t \in Seq(Change) /\ Len(t) = Len(s) + 1
        /\ \A i \in 1..Len(s) + 1 : t[i] = IF i <= Len(s) THEN s[i] ELSE <<x>>[i - Len(s)]
    BY <1>1, ConcatProperties
  <1>3. /\ DOMAIN s = 1..Len(s) /\ Len(s) \in Nat /\ DOMAIN t = 1..Len(s) + 1
        /\ IsFiniteSet(ChangedKeys(s))
    BY <1>2, ChangesFacts, LenProperties
  <1>4. \A i \in DOMAIN t : t[i] = IF i <= Len(s) THEN s[i] ELSE x
    BY <1>1, <1>2, <1>3
  <1>5. t \in Changes
    BY <1>2, ChangesAreSeqs
  <1> HIDE DEF t
  <1>6. ChangedKeys(t) = ChangedKeys(s) \cup {x.key}
    <2>1. ChangedKeys(t) \subseteq ChangedKeys(s) \cup {x.key}
      BY <1>3, <1>4 DEF ChangedKeys
    <2>2. ASSUME NEW k \in ChangedKeys(s) PROVE k \in ChangedKeys(t)
      <3>1. PICK i \in DOMAIN s : k = s[i].key
        BY DEF ChangedKeys
      <3>2. i \in DOMAIN t /\ t[i] = s[i]
        BY <1>3, <1>4
      <3>3. QED
        BY <3>1, <3>2 DEF ChangedKeys
    <2>3. x.key \in ChangedKeys(t)
      <3>1. Len(s) + 1 \in DOMAIN t /\ t[Len(s) + 1] = x
        BY <1>3, <1>4
      <3>2. QED
        BY <3>1 DEF ChangedKeys
    <2>4. QED
      BY <2>1, <2>2, <2>3
  <1>7. Distinct(s) /\ x.key \notin ChangedKeys(s) => Distinct(t)
    BY <1>2, <1>3, <1>6, FS_AddElement, ZenonT(30) DEF Distinct
  <1>8. RestoresRunning(s) /\ x.old = running[x.key] => RestoresRunning(t)
    BY <1>3, <1>4 DEF RestoresRunning
  <1>9. QED
    BY <1>5, <1>6, <1>7, <1>8 DEF t

\* One round of a rollback takes the last change off the list.
LEMMA ChangeUndone ==
  ASSUME NEW s \in Changes, s # <<>>
  PROVE  LET n == Len(s)
             rest == SubSeq(s, 1, n - 1)
         IN /\ n \in DOMAIN s /\ s[n] \in Change /\ rest \in Changes
            /\ ChangedKeys(s) = ChangedKeys(rest) \cup {s[n].key}
            /\ RestoresRunning(s) => RestoresRunning(rest) /\ s[n].old = running[s[n].key]
  <1> DEFINE n == Len(s)
             rest == SubSeq(s, 1, n - 1)
  <1>1. /\ s \in Seq(Change) /\ n \in Nat \ {0} /\ DOMAIN s = 1..n /\ n <= MAX_CHANGES
        /\ \A i \in 1..n : s[i] \in Change
    BY ChangesFacts, EmptySeq
  <1>2. /\ rest \in Seq(Change) /\ Len(rest) = n - 1
        /\ \A i \in 1..n - 1 : rest[i] = s[i]
    <2>1. \A i \in 1..n - 1 : s[i] \in Change
      BY <1>1
    <2>2. /\ rest \in Seq(Change)
          /\ Len(rest) = IF 1 <= n - 1 THEN (n - 1) - 1 + 1 ELSE 0
          /\ \A i \in 1..(n - 1) - 1 + 1 : rest[i] = s[1 + i - 1]
      BY <1>1, <2>1, SubSeqProperties
    <2>3. QED
      BY <1>1, <2>2
  <1>3. DOMAIN rest = 1..n - 1
    BY <1>2, LenProperties
  <1>4. rest \in Changes
    <2>1. Len(rest) <= MAX_CHANGES
      BY <1>1, <1>2, BoundsAssumption
    <2>2. QED
      BY <1>2, <2>1, ChangesAreSeqs
  <1> HIDE DEF rest, n
  <1>5. n \in DOMAIN s /\ s[n] \in Change
    BY <1>1
  <1>6. ChangedKeys(s) = ChangedKeys(rest) \cup {s[n].key}
    <2>1. ASSUME NEW k \in ChangedKeys(s) PROVE k \in ChangedKeys(rest) \cup {s[n].key}
      <3>1. PICK i \in DOMAIN s : k = s[i].key
        BY DEF ChangedKeys
      <3>2. i = n \/ (i \in DOMAIN rest /\ rest[i] = s[i])
        BY <1>1, <1>2, <1>3
      <3>3. QED
        BY <3>1, <3>2 DEF ChangedKeys
    <2>2. ASSUME NEW k \in ChangedKeys(rest) PROVE k \in ChangedKeys(s)
      <3>1. PICK i \in DOMAIN rest : k = rest[i].key
        BY DEF ChangedKeys
      <3>2. i \in DOMAIN s /\ rest[i] = s[i]
        BY <1>1, <1>2, <1>3
      <3>3. QED
        BY <3>1, <3>2 DEF ChangedKeys
    <2>3. s[n].key \in ChangedKeys(s)
      BY <1>5 DEF ChangedKeys
    <2>4. QED
      BY <2>1, <2>2, <2>3
  <1>7. RestoresRunning(s) => RestoresRunning(rest) /\ s[n].old = running[s[n].key]
    BY <1>1, <1>2, <1>3, <1>5 DEF RestoresRunning
  <1>8. QED
    BY <1>4, <1>5, <1>6, <1>7 DEF n, rest

-----------------------------------------------------------------------------
(* The type invariant and the order of the processes.                       *)

\* The absence of a transaction is a copy like any other.
LEMMA NoStateOK == CoordinatorTypeOK => CopyOK(NoState) /\ Idle \in Call
  <1> SUFFICES ASSUME CoordinatorTypeOK PROVE CopyOK(NoState) /\ Idle \in Call
    OBVIOUS
  <1>1. NoState \in States
    BY EmptyChanges, BoundsAssumption DEF NoState, States, Phases
  <1>2. CopyOK(NoState)
    BY <1>1, EmptyChanges DEF NoState, CopyOK, CoordinatorTypeOK
  <1>3. QED
    BY <1>1, <1>2, EmptyChanges DEF Idle, Call, Ops

\* Handlers write a copy back with another phase.
LEMMA PhaseWritten ==
  ASSUME NEW x, CopyOK(x), NEW p \in Phases
  PROVE  /\ CopyOK([x EXCEPT !.phase = p]) /\ [x EXCEPT !.phase = p].phase = p
         /\ [x EXCEPT !.phase = p].boot = x.boot /\ [x EXCEPT !.phase = p].id = x.id
         /\ [x EXCEPT !.phase = p].changes = x.changes
  BY DEF CopyOK, States

\* There is no transaction at the start.
LEMMA CoordinatorInit == Init => CoordinatorInv
  <1> SUFFICES ASSUME Init PROVE CoordinatorInv
    OBVIOUS
  <1>1. NoState \in States /\ Distinct(NoState.changes) /\ Idle.state = NoState
    BY EmptyChanges, BoundsAssumption DEF NoState, States, Phases, Idle
  <1>2. Idle \in Call /\ Idle.op = "idle"
    BY <1>1, EmptyChanges DEF Idle, Call, Ops
  <1>3. setting \in [Keys -> Values]
    BY BoundsAssumption DEF Init
  <1>4. CoordinatorTypeOK
    <2>1. file \in States /\ Cardinality(ChangedKeys(file.changes)) = Len(file.changes)
      BY <1>1 DEF Init, Distinct
    <2>2. calls \in [Calls -> Call]
      BY <1>2 DEF Init
    <2>3. boot \in 1..MaxBoots /\ saves \in 0..MaxSaves
      BY BoundsAssumption DEF Init
    <2>4. QED
      BY <1>3, <2>1, <2>2, <2>3 DEF Init, CoordinatorTypeOK, Call, Ops
  <1>5. CopiesOK /\ SavesOne /\ BootsLeft /\ ReadyAfterReboot
    BY <1>1, <1>2 DEF Init, CopiesOK, CopyOK, SavesOne, BootsLeft, ReadyAfterReboot, NoState
  <1>6. QED
    BY <1>4, <1>5 DEF CoordinatorInv

\* A handler runs: one request goes on, and what it writes is in order.
LEMMA HandlerKeeps ==
  ASSUME CoordinatorInv, up, NEW c \in Calls, NEW call \in Call,
         calls' = [calls EXCEPT ![c] = call],
         CopyOK(call.state), call.op = "polling" => call.state.boot < boot,
         call.op = "restart" => boot < MaxBoots,
         call.op \in {"saving", "saved"} =>
           call.state.phase = "pending" /\ Len(call.state.changes) = 1,
         CopyOK(file'), file'.phase = "ready" => file'.boot < boot,
         setting' \in [Keys -> Values], running' \in [Keys -> Values],
         exiting' \in BOOLEAN, exiting' => boot < MaxBoots,
         saves' \in 0..MaxSaves, accident' \in BOOLEAN,
         UNCHANGED <<up, boot>>
  PROVE  CoordinatorInv'
  <1>1. calls \in [Calls -> Call]
    BY DEF CoordinatorInv, CoordinatorTypeOK, Call, Ops
  <1>2. calls' \in [Calls -> Call] /\ calls'[c] = call /\ \A d \in Calls \ {c} : calls'[d] = calls[d]
    BY <1>1
  <1>3. file' \in States /\ Distinct(file'.changes)
    BY DEF CopyOK
  <1>4. CoordinatorTypeOK'
    BY <1>2, <1>3 DEF CoordinatorInv, CoordinatorTypeOK, Call, Ops, Distinct
  <1>5. CopiesOK'
    BY <1>2 DEF CoordinatorInv, CopiesOK, CopyOK
  <1>6. SavesOne' /\ BootsLeft' /\ ReadyAfterReboot'
    BY <1>2 DEF CoordinatorInv, SavesOne, BootsLeft, ReadyAfterReboot
  <1>7. QED
    BY <1>4, <1>5, <1>6 DEF CoordinatorInv

\* What the actions below use of the invariant.
LEMMA InvFacts ==
  ASSUME CoordinatorInv
  PROVE  /\ CopyOK(file) /\ file \in States
         /\ calls \in [Calls -> Call]
         /\ \A c \in Calls : calls[c] \in Call /\ CopyOK(calls[c].state) /\ calls[c].left \in Changes
         /\ setting \in [Keys -> Values] /\ running \in [Keys -> Values]
         /\ up \in BOOLEAN /\ exiting \in BOOLEAN /\ accident \in BOOLEAN
         /\ boot \in 1..MaxBoots /\ saves \in 0..MaxSaves
         /\ exiting => boot < MaxBoots
         /\ file.phase = "ready" => file.boot < boot
         /\ CopyOK(NoState) /\ NoState.phase = "absent"
         /\ Idle \in Call /\ Idle.state = NoState /\ Idle.op = "idle"
  <1>1. CoordinatorTypeOK /\ CopiesOK /\ BootsLeft /\ ReadyAfterReboot
    BY DEF CoordinatorInv
  <1>2. calls \in [Calls -> Call] /\ CopyOK(file)
    BY <1>1 DEF CoordinatorTypeOK, Call, Ops, CopiesOK
  <1>3. CopyOK(NoState) /\ Idle \in Call
    BY <1>1, NoStateOK
  <1>4. QED
    BY <1>1, <1>2, <1>3 DEF CoordinatorTypeOK, CopiesOK, BootsLeft, ReadyAfterReboot, Call, Idle, NoState

\* A settings route reads the old value.
LEMMA SaveReadStep ==
  ASSUME CoordinatorInv, NEW c \in Calls, NEW u \in Users, NEW k \in Keys, SaveRead(c, u, k)
  PROVE  CoordinatorInv'
  <1> DEFINE x == [key |-> k, old |-> setting[k]]
             state == [id |-> saves + 1, user |-> u, phase |-> "pending", boot |-> 0, changes |-> <<x>>]
             call == [Idle EXCEPT !.op = "saving", !.state = state]
  <1>1. x \in Change /\ saves' = saves + 1 /\ saves' \in 0..MaxSaves
    BY InvFacts, BoundsAssumption DEF SaveRead, Change
  <1>2. <<x>> \in Changes /\ Distinct(<<x>>) /\ Len(<<x>>) = 1
    BY <1>1, OneChange
  <1> HIDE DEF x
  <1>3. state \in States
    BY <1>1, <1>2, BoundsAssumption DEF States, Phases
  <1>4. CopyOK(state) /\ call \in Call /\ call.state = state /\ call.op = "saving"
        /\ state.phase = "pending" /\ Len(state.changes) = 1
    <2>1. CopyOK(state) /\ state.phase = "pending" /\ Len(state.changes) = 1
      BY <1>2, <1>3, InvFacts DEF CopyOK
    <2> HIDE DEF state
    <2>2. QED
      BY <2>1, <1>3, InvFacts DEF Call, Ops
  <1>5. calls' = [calls EXCEPT ![c] = call]
    BY DEF SaveRead, Enter, x
  <1>6. /\ up /\ accident' \in BOOLEAN
        /\ UNCHANGED <<file, setting, running, up, boot, exiting>>
    BY DEF SaveRead, CanRun, Accident
  <1> HIDE DEF state, call
  <1>7. CopyOK(file')
    BY <1>6, InvFacts
  <1>8. QED
    BY <1>1, <1>4, <1>5, <1>6, <1>7, InvFacts, HandlerKeeps

\* What registerChange makes of the file.
LEMMA RegisteredOK ==
  ASSUME CoordinatorInv, NEW fresh, CopyOK(fresh), fresh.phase = "pending",
         Len(fresh.changes) = 1, ~Refused(fresh)
  PROVE  /\ CopyOK(Registered(fresh)) /\ Registered(fresh).phase = "pending"
         /\ file.phase = "pending" => Registered(fresh).id = file.id
         /\ ChangedKeys(fresh.changes) \subseteq ChangedKeys(Registered(fresh).changes)
         /\ file.phase = "pending" =>
              ChangedKeys(file.changes) \subseteq ChangedKeys(Registered(fresh).changes)
         /\ \/ file.phase = "pending" /\ Registered(fresh).changes = file.changes
            \/ /\ file.phase # "pending" /\ Registered(fresh) = fresh
            \/ /\ file.phase = "pending"
               /\ Registered(fresh).changes = file.changes \o fresh.changes
               /\ ~(ChangedKeys(fresh.changes) \subseteq ChangedKeys(file.changes))
  <1>1. CASE file.phase # "pending"
    BY <1>1 DEF Registered
  <1>2. CASE file.phase = "pending" /\ ChangedKeys(fresh.changes) \subseteq ChangedKeys(file.changes)
    BY <1>2, InvFacts DEF Registered
  <1>3. CASE file.phase = "pending" /\ ~(ChangedKeys(fresh.changes) \subseteq ChangedKeys(file.changes))
    <2> DEFINE new == file.changes \o fresh.changes
    <2>1. /\ file \in States /\ file.changes \in Changes /\ fresh.changes \in Changes
          /\ Distinct(file.changes) /\ file.boot <= boot
      BY InvFacts DEF CopyOK, States
    <2>2. Registered(fresh) = [file EXCEPT !.changes = new]
      BY <1>3 DEF Registered
    <2>3. PICK x \in Change : fresh.changes = <<x>>
      <3>1. fresh.changes \in Seq(Change) /\ fresh.changes[1] \in Change
        BY <2>1, ChangesFacts
      <3>2. fresh.changes = <<fresh.changes[1]>>
        BY <3>1
      <3>3. QED
        BY <3>1, <3>2
    <2>4. x.key \notin ChangedKeys(file.changes) /\ ChangedKeys(fresh.changes) = {x.key}
      BY <1>3, <2>3, OneChange
    <2>5. Registered(fresh).changes = new
      BY <2>1, <2>2 DEF States
    <2>6. Len(new) <= MAX_CHANGES
      <3>1. Len(new) \in Nat
        BY <2>1, ChangesFacts, ConcatProperties, LenProperties
      <3>2. ~(Len(new) > MAX_CHANGES)
        BY <1>3, <2>5 DEF Refused
      <3> HIDE DEF new
      <3>3. QED
        BY <3>1, <3>2, BoundsAssumption
    <2>7. /\ new \in Changes /\ Distinct(new)
          /\ ChangedKeys(new) = ChangedKeys(file.changes) \cup {x.key}
      BY <2>1, <2>3, <2>4, <2>6, ChangeAppended
    <2> HIDE DEF new
    <2>8. /\ Registered(fresh) \in States /\ Registered(fresh).phase = "pending"
          /\ Registered(fresh).id = file.id /\ Registered(fresh).boot = file.boot
      BY <2>1, <2>2, <2>7, <1>3 DEF States
    <2>9. QED
      BY <2>1, <2>4, <2>5, <2>7, <2>8, <1>3 DEF CopyOK, new
  <1>4. QED
    BY <1>1, <1>2, <1>3

\* A setting is written, or a restart fails: the request goes on with its copy.
LEMMA CallGoesOn ==
  ASSUME CoordinatorInv, up, NEW c \in Calls, NEW p \in {"saved", "undoing"},
         p = "saved" => calls[c].op = "saving",
         calls' = [calls EXCEPT ![c].op = p],
         setting' \in [Keys -> Values], running' \in [Keys -> Values], accident' \in BOOLEAN,
         UNCHANGED <<file, up, boot, exiting, saves>>
  PROVE  CoordinatorInv'
  <1> DEFINE call == [calls[c] EXCEPT !.op = p]
  <1>1. /\ call \in Call /\ call.state = calls[c].state /\ call.op = p /\ CopyOK(calls[c].state)
        /\ calls' = [calls EXCEPT ![c] = call]
    BY InvFacts DEF Call, Ops
  <1> HIDE DEF call
  <1>2. p = "saved" => call.state.phase = "pending" /\ Len(call.state.changes) = 1
    BY <1>1 DEF CoordinatorInv, SavesOne
  <1>3. CopyOK(file')
    BY InvFacts
  <1>4. QED
    BY <1>1, <1>2, <1>3, InvFacts, HandlerKeeps

\* A request leaves, and at most writes the file.
LEMMA CallLeaves ==
  ASSUME CoordinatorInv, up, NEW c \in Calls, Leave(c),
         CopyOK(file'), file'.phase = "ready" => file'.boot < boot,
         running' \in [Keys -> Values], exiting' \in BOOLEAN, exiting' => boot < MaxBoots,
         accident' \in BOOLEAN, UNCHANGED <<setting, up, boot, saves>>
  PROVE  CoordinatorInv'
  <1>1. calls' = [calls EXCEPT ![c] = Idle]
    BY DEF Leave
  <1>2. QED
    BY <1>1, InvFacts, HandlerKeeps

\* A settings route writes the value and registers the change.
LEMMA SaveSteps ==
  ASSUME CoordinatorInv, NEW c \in Calls,
         (\E v \in Values : SaveWrite(c, v)) \/ registerChange(c) \/ dismissFailed(c)
  PROVE  CoordinatorInv'
  <1>1. CASE \E v \in Values : SaveWrite(c, v)
    <2>1. PICK v \in Values : SaveWrite(c, v)
      BY <1>1
    <2>2. setting' \in [Keys -> Values] /\ running' \in [Keys -> Values]
      BY <2>1, InvFacts DEF SaveWrite
    <2>3. /\ up /\ accident' \in BOOLEAN /\ calls[c].op = "saving"
          /\ calls' = [calls EXCEPT ![c].op = "saved"]
          /\ UNCHANGED <<file, running, up, boot, exiting, saves>>
      BY <2>1 DEF SaveWrite, CanRun, Accident
    <2>4. QED
      BY <2>2, <2>3, CallGoesOn
  <1>2. CASE registerChange(c)
    <2> DEFINE fresh == calls[c].state
    <2>1. /\ up /\ accident' \in BOOLEAN /\ Leave(c)
          /\ UNCHANGED <<setting, running, up, boot, exiting, saves>>
          /\ file' = IF Refused(fresh) THEN file ELSE Registered(fresh)
      BY <1>2 DEF registerChange, CanRun, Accident
    <2>2. CopyOK(fresh) /\ fresh.phase = "pending" /\ Len(fresh.changes) = 1
      BY <1>2, InvFacts DEF registerChange, CoordinatorInv, SavesOne
    <2> HIDE DEF fresh
    <2>3. CopyOK(file') /\ (file'.phase = "ready" => file'.boot < boot)
      BY <2>1, <2>2, RegisteredOK, InvFacts
    <2>4. QED
      BY <2>1, <2>3, InvFacts, CallLeaves
  <1>3. CASE dismissFailed(c)
    <2>1. /\ up /\ accident' \in BOOLEAN /\ Leave(c) /\ file' \in {file, NoState}
          /\ UNCHANGED <<setting, up, boot, exiting, saves>>
          /\ running' = [running EXCEPT ![calls[c].state.changes[1].key] =
                                          setting[calls[c].state.changes[1].key]]
      BY <1>3 DEF dismissFailed, CanRun, Accident
    <2>2. calls[c].state.changes[1].key \in Keys
      <3>1. calls[c].state.changes \in Changes /\ Len(calls[c].state.changes) = 1
        BY <1>3, InvFacts DEF dismissFailed, CoordinatorInv, SavesOne, CopyOK, States
      <3>2. QED
        BY <3>1, ChangesFacts
    <2>3. running' \in [Keys -> Values] /\ CopyOK(file') /\ (file'.phase = "ready" => file'.boot < boot)
      BY <2>1, <2>2, InvFacts
    <2>4. QED
      BY <2>1, <2>3, InvFacts, CallLeaves
  <1>4. QED
    BY <1>1, <1>2, <1>3

\* cancel, confirm and a poll take a copy of the file.
LEMMA CopyTakenSteps ==
  ASSUME CoordinatorInv, NEW c \in Calls,
         (\E u \in Users : cancel(c, u) \/ confirm(c, u)) \/ getPublicStatus(c)
  PROVE  CoordinatorInv'
  <1>1. CASE \E u \in Users : cancel(c, u)
    <2> DEFINE call == [op |-> "cancelling", state |-> file, left |-> file.changes, broken |-> FALSE]
    <2>1. call \in Call /\ CopyOK(call.state) /\ call.op = "cancelling"
      BY InvFacts DEF Call, Ops, States
    <2>2. /\ up /\ accident' \in BOOLEAN /\ calls' = [calls EXCEPT ![c] = call]
          /\ UNCHANGED <<file, setting, running, up, boot, exiting, saves>>
      BY <1>1 DEF cancel, CanRun, Accident, Enter
    <2> HIDE DEF call
    <2>3. CopyOK(file')
      BY <2>2, InvFacts
    <2>4. QED
      BY <2>1, <2>2, <2>3, InvFacts, HandlerKeeps
  <1>2. CASE \E u \in Users : confirm(c, u)
    <2> DEFINE state == [file EXCEPT !.phase = "restarting", !.boot = boot]
               call == [op |-> "restart", state |-> state, left |-> file.changes, broken |-> FALSE]
    <2>1. CopyOK(state) /\ state \in States /\ state.phase = "restarting"
      <3>1. file \in States /\ Distinct(file.changes) /\ boot \in 0..MaxBoots /\ boot <= boot
        BY InvFacts, BoundsAssumption DEF CopyOK
      <3>2. state \in States /\ state.changes = file.changes /\ state.boot = boot
            /\ state.phase = "restarting"
        BY <3>1 DEF States, Phases
      <3> HIDE DEF state
      <3>3. QED
        BY <3>1, <3>2 DEF CopyOK
    <2>2. call \in Call /\ call.state = state /\ call.op = "restart"
      BY <2>1, InvFacts DEF Call, Ops, States
    <2>3. /\ up /\ accident' \in BOOLEAN /\ calls' = [calls EXCEPT ![c] = call] /\ file' = state
          /\ UNCHANGED <<setting, running, up, boot, exiting, saves>>
      BY <1>2 DEF confirm, CanRun, Accident, Enter
    <2>4. boot < MaxBoots
      BY <1>2, InvFacts, BoundsAssumption DEF confirm
    <2> HIDE DEF call, state
    <2>5. QED
      BY <2>1, <2>2, <2>3, <2>4, InvFacts, HandlerKeeps
  <1>3. CASE getPublicStatus(c)
    <2> DEFINE call == [Idle EXCEPT !.op = "polling", !.state = file]
    <2>1. call \in Call /\ call.state = file /\ CopyOK(file) /\ call.op = "polling"
      BY InvFacts DEF Call, Ops
    <2>2. /\ up /\ calls' = [calls EXCEPT ![c] = call]
          /\ UNCHANGED <<file, setting, running, up, boot, exiting, saves, accident>>
      BY <1>3 DEF getPublicStatus, CanRun, Enter
    <2>3. file.boot < boot
      BY <1>3, InvFacts, BoundsAssumption DEF getPublicStatus, ConfirmedByAnother, CopyOK, States
    <2> HIDE DEF call
    <2>4. CopyOK(file')
      BY <2>2, InvFacts
    <2>5. QED
      BY <2>1, <2>2, <2>3, <2>4, InvFacts, HandlerKeeps
  <1>4. QED
    BY <1>1, <1>2, <1>3

\* A change is undone, or cannot be.
LEMMA RollbackStep ==
  ASSUME CoordinatorInv, NEW c \in Calls, rollbackChange(c)
  PROVE  CoordinatorInv'
  <1> DEFINE left == calls[c].left
             n == Len(left)
             rest == SubSeq(left, 1, n - 1)
  <1>1. left \in Changes /\ left # <<>> /\ calls[c] \in Call
    BY InvFacts DEF rollbackChange
  <1>2. rest \in Changes /\ left[n] \in Change
    BY <1>1, ChangeUndone
  <1>3. /\ up /\ calls[c].op \in {"cancelling", "undoing"}
        /\ accident' \in BOOLEAN
        /\ UNCHANGED <<file, running, up, boot, exiting, saves>>
        /\ setting' = setting \/ setting' = [setting EXCEPT ![left[n].key] = left[n].old]
        /\ \/ calls' = [calls EXCEPT ![c] = [@ EXCEPT !.left = rest]]
           \/ calls' = [calls EXCEPT ![c] = [@ EXCEPT !.left = rest, !.broken = TRUE]]
    BY DEF rollbackChange, CanRun, Accident
  <1> HIDE DEF rest, n, left
  <1>4. setting' \in [Keys -> Values]
    BY <1>2, <1>3, InvFacts DEF Change
  <1>5. PICK call \in Call : /\ calls' = [calls EXCEPT ![c] = call]
                             /\ call.state = calls[c].state /\ call.op = calls[c].op
    <2>1. /\ [calls[c] EXCEPT !.left = rest] \in Call
          /\ [calls[c] EXCEPT !.left = rest].state = calls[c].state
          /\ [calls[c] EXCEPT !.left = rest].op = calls[c].op
      BY <1>1, <1>2 DEF Call
    <2>2. /\ [calls[c] EXCEPT !.left = rest, !.broken = TRUE] \in Call
          /\ [calls[c] EXCEPT !.left = rest, !.broken = TRUE].state = calls[c].state
          /\ [calls[c] EXCEPT !.left = rest, !.broken = TRUE].op = calls[c].op
      BY <1>1, <1>2 DEF Call
    <2>3. QED
      BY <1>3, <2>1, <2>2
  <1>6. CopyOK(file') /\ CopyOK(call.state)
    BY <1>3, <1>5, InvFacts
  <1>7. QED
    BY <1>3, <1>4, <1>5, <1>6, InvFacts, HandlerKeeps

\* A request ends and writes its copy back.
LEMMA WriteBackSteps ==
  ASSUME CoordinatorInv, NEW c \in Calls,
         CancelEnd(c) \/ RestartDone(c) \/ RestartThrew(c) \/ UndoEnd(c) \/ Healthy(c) \/ Unhealthy(c)
  PROVE  CoordinatorInv'
  <1>1. /\ up /\ Leave(c) /\ accident' \in BOOLEAN /\ UNCHANGED <<setting, up, boot, saves>>
    BY InvFacts DEF CancelEnd, RestartDone, RestartThrew, UndoEnd, Healthy, Unhealthy, CanRun, Accident
  <1>2. /\ running' \in [Keys -> Values] /\ exiting' \in BOOLEAN /\ (exiting' => boot < MaxBoots)
    <2>1. CASE RestartDone(c)
      <3>1. running' = setting /\ exiting' = TRUE /\ calls[c].op = "restart"
        BY <2>1 DEF RestartDone, ArmExit
      <3>2. boot < MaxBoots
        BY <3>1 DEF CoordinatorInv, BootsLeft
      <3>3. QED
        BY <3>1, <3>2, InvFacts
    <2>2. CASE UNCHANGED <<running, exiting>>
      BY <2>2, InvFacts
    <2>3. QED
      BY <2>1, <2>2 DEF CancelEnd, RestartThrew, UndoEnd, Healthy, Unhealthy
  <1>3. CopyOK(file') /\ (file'.phase = "ready" => file'.boot < boot)
    <2>1. \/ file' \in {file, NoState}
          \/ file' = [calls[c].state EXCEPT !.phase = "failed"]
          \/ file' = [calls[c].state EXCEPT !.phase = "ready"] /\ calls[c].op = "polling"
      BY DEF CancelEnd, RestartDone, RestartThrew, UndoEnd, Healthy, Unhealthy
    <2>2. CopyOK(calls[c].state) /\ (calls[c].op = "polling" => calls[c].state.boot < boot)
      BY DEF CoordinatorInv, CopiesOK
    <2>3. "failed" \in Phases /\ "ready" \in Phases
      BY DEF Phases
    <2>4. CASE file' \in {file, NoState}
      BY <2>4, InvFacts
    <2>5. CASE file' = [calls[c].state EXCEPT !.phase = "failed"]
      BY <2>2, <2>3, <2>5, PhaseWritten
    <2>6. CASE file' = [calls[c].state EXCEPT !.phase = "ready"] /\ calls[c].op = "polling"
      BY <2>2, <2>3, <2>6, PhaseWritten
    <2>7. QED
      BY <2>1, <2>4, <2>5, <2>6
  <1>4. QED
    BY <1>1, <1>2, <1>3, CallLeaves

\* The process ends and is started again; the transaction is completed.
LEMMA ProcessSteps ==
  ASSUME CoordinatorInv, Exit \/ Crash \/ Boot \/ \E u \in Users : complete(u)
  PROVE  CoordinatorInv'
  <1>1. CASE Exit \/ Crash
    <2>1. Stop /\ boot < MaxBoots
      BY <1>1 DEF Exit, Crash, CoordinatorInv, BootsLeft
    <2>2. calls' \in [Calls -> Call] /\ \A c \in Calls : calls'[c] = Idle
      BY <2>1, InvFacts DEF Stop
    <2>3. CoordinatorTypeOK'
      BY <2>1, <2>2 DEF Stop, Accident, CoordinatorInv, CoordinatorTypeOK, Call, Ops
    <2>4. CopiesOK'
      BY <2>1, <2>2, InvFacts DEF Stop, CopiesOK, CopyOK
    <2>5. SavesOne' /\ BootsLeft' /\ ReadyAfterReboot'
      BY <2>1, <2>2, InvFacts DEF Stop, SavesOne, BootsLeft, ReadyAfterReboot
    <2>6. QED
      BY <2>3, <2>4, <2>5 DEF CoordinatorInv
  <1>2. CASE Boot
    <2>1. /\ boot < MaxBoots /\ boot' = boot + 1 /\ ~exiting /\ up' = TRUE
          /\ \A c \in Calls : calls[c] = Idle
          /\ UNCHANGED <<file, setting, running, calls, exiting, saves, accident>>
      BY <1>2 DEF Boot, CoordinatorInv, BootsLeft
    <2>2. CoordinatorTypeOK'
      BY <2>1, InvFacts, BoundsAssumption DEF CoordinatorInv, CoordinatorTypeOK
    <2>3. file.boot \in Nat /\ NoState.boot = 0 /\ boot \in Nat
      BY InvFacts, BoundsAssumption DEF States, NoState
    <2>4. CopiesOK'
      BY <2>1, <2>3, InvFacts DEF CopiesOK, CopyOK
    <2>5. SavesOne' /\ BootsLeft' /\ ReadyAfterReboot'
      BY <2>1, <2>3, InvFacts DEF SavesOne, BootsLeft, ReadyAfterReboot
    <2>6. QED
      BY <2>2, <2>4, <2>5 DEF CoordinatorInv
  <1>3. CASE \E u \in Users : complete(u)
    <2>1. file' = NoState /\ UNCHANGED <<setting, running, calls, up, boot, exiting, saves, accident>>
      BY <1>3 DEF complete
    <2>2. CoordinatorTypeOK' /\ CopiesOK'
      BY <2>1, InvFacts DEF CoordinatorInv, CoordinatorTypeOK, CopiesOK, CopyOK, Distinct
    <2>3. SavesOne' /\ BootsLeft' /\ ReadyAfterReboot'
      BY <2>1, InvFacts DEF CoordinatorInv, SavesOne, BootsLeft, ReadyAfterReboot
    <2>4. QED
      BY <2>2, <2>3 DEF CoordinatorInv
  <1>4. QED
    BY <1>1, <1>2, <1>3

\* One case per piece of a handler between two awaits.
LEMMA CoordinatorStep == CoordinatorInv /\ [Next]_vars => CoordinatorInv'
  <1> SUFFICES ASSUME CoordinatorInv, [Next]_vars PROVE CoordinatorInv'
    OBVIOUS
  <1>1. CASE UNCHANGED vars
    BY <1>1 DEF vars, CoordinatorInv, CoordinatorTypeOK, CopiesOK, CopyOK, SavesOne, BootsLeft,
                ReadyAfterReboot
  <1>2. CASE \E c \in Calls, u \in Users, k \in Keys : SaveRead(c, u, k)
    BY <1>2, SaveReadStep
  <1>3. CASE \E c \in Calls : \/ \E v \in Values : SaveWrite(c, v)
                              \/ registerChange(c) \/ dismissFailed(c)
    BY <1>3, SaveSteps
  <1>4. CASE \E c \in Calls : rollbackChange(c)
    BY <1>4, RollbackStep
  <1>5. CASE \E c \in Calls : \/ CancelEnd(c) \/ RestartDone(c) \/ RestartThrew(c) \/ UndoEnd(c)
                              \/ Healthy(c) \/ Unhealthy(c)
    BY <1>5, WriteBackSteps
  <1>6. CASE \E c \in Calls : RestartFailed(c)
    <2>1. PICK c \in Calls : RestartFailed(c)
      BY <1>6
    <2>2. /\ setting' \in [Keys -> Values] /\ running' \in [Keys -> Values]
          /\ accident' \in BOOLEAN
      BY <2>1, InvFacts DEF RestartFailed, Accident
    <2>3. QED
      BY <2>1, <2>2, CallGoesOn DEF RestartFailed
  <1>7. CASE \E c \in Calls : (\E u \in Users : cancel(c, u) \/ confirm(c, u)) \/ getPublicStatus(c)
    BY <1>7, CopyTakenSteps
  <1>8. CASE Exit \/ Crash \/ Boot \/ \E u \in Users : complete(u)
    BY <1>8, ProcessSteps
  <1>9. QED
    BY <1>1, <1>2, <1>3, <1>4, <1>5, <1>6, <1>7, <1>8 DEF Next

\* The inductive invariant holds always.
LEMMA CoordinatorInvariant == Spec => []CoordinatorInv
  BY CoordinatorInit, CoordinatorStep, PTL DEF Spec

\* Every variable keeps its type: a transaction never holds more than
\* MAX_CHANGES changes nor two of one setting, although handlers write back
\* copies they read before their awaits.
THEOREM CoordinatorTypeCorrect == Spec => []CoordinatorTypeOK
  <1>1. CoordinatorInv => CoordinatorTypeOK
    BY DEF CoordinatorInv
  <1>2. QED
    BY <1>1, CoordinatorInvariant, PTL

\* No process reports its own restart as ready: every copy of a transaction that
\* a poll holds was confirmed by an earlier process (getPublicStatus).
THEOREM ReadyIsOfEarlierProcess == Spec => []ReadyAfterReboot
  <1>1. CoordinatorInv => ReadyAfterReboot
    BY DEF CoordinatorInv
  <1>2. QED
    BY <1>1, CoordinatorInvariant, PTL

\* A pending transaction is taken from the operator only by the cancellation
\* that read it or by a handler whose copy is stale.
THEOREM PendingTransactionKept == Spec => PendingKept
  <1>1. ASSUME CoordinatorInv, [Next]_vars, file.phase = "pending", file'.id # file.id
        PROVE  \E c \in Calls : /\ calls[c] # Idle /\ calls'[c] = Idle
                                /\ calls[c].op = "cancelling" \/ Stale(c)
    <2>1. ASSUME NEW c \in Calls, registerChange(c) PROVE FALSE
      <3> DEFINE fresh == calls[c].state
      <3>1. CopyOK(fresh) /\ fresh.phase = "pending" /\ Len(fresh.changes) = 1
        BY <1>1, <2>1, InvFacts DEF registerChange, CoordinatorInv, SavesOne
      <3>2. file' = file \/ (~Refused(fresh) /\ file' = Registered(fresh))
        BY <2>1 DEF registerChange
      <3> HIDE DEF fresh
      <3>3. QED
        BY <1>1, <3>1, <3>2, RegisteredOK
    <2>2. ASSUME NEW c \in Calls, NEW u \in Users, confirm(c, u) PROVE FALSE
      BY <1>1, <2>2, InvFacts DEF confirm, States
    <2>3. file' # file
      BY <1>1
    <2>4. PICK c \in Calls :
            /\ Leave(c) /\ calls[c].op # "idle"
            /\ \/ calls[c].op = "cancelling"
               \/ \E p \in Phases : file' = [calls[c].state EXCEPT !.phase = p]
      BY <1>1, <2>1, <2>2, <2>3
         DEF Next, vars, SaveRead, SaveWrite, dismissFailed, rollbackChange, CancelEnd, RestartDone,
             RestartFailed, RestartThrew, UndoEnd, getPublicStatus, Healthy, Unhealthy, cancel, complete,
             Completes, Exit, Crash, Stop, Boot, Phases
    <2>5. calls[c] # Idle /\ calls'[c] = Idle
      BY <1>1, <2>4, InvFacts DEF Leave
    <2>6. CASE calls[c].op = "cancelling"
      BY <2>5, <2>6
    <2>7. CASE \E p \in Phases : file' = [calls[c].state EXCEPT !.phase = p]
      <3>1. file'.id = calls[c].state.id
        BY <1>1, <2>7, InvFacts, PhaseWritten
      <3>2. QED
        BY <1>1, <2>5, <3>1 DEF Stale
    <2>8. QED
      BY <2>4, <2>6, <2>7
  <1>2. CoordinatorInv /\ [Next]_vars =>
          [file.phase = "pending" /\ file'.id # file.id
             => \E c \in Calls : /\ calls[c] # Idle /\ calls'[c] = Idle
                                 /\ calls[c].op = "cancelling" \/ Stale(c)]_vars
    BY <1>1
  <1>3. QED
    BY <1>2, CoordinatorInvariant, PTL DEF Spec, PendingKept

-----------------------------------------------------------------------------
(* Settings and the running server.                                         *)

\* A request that saves holds one change, and so one setting.
LEMMA SavedChange ==
  ASSUME CoordinatorInv, NEW c \in Calls, calls[c].op \in {"saving", "saved"}
  PROVE  /\ calls[c].state.changes[1] \in Change
         /\ calls[c].state.changes = <<calls[c].state.changes[1]>>
         /\ KeysOf(calls[c]) = {calls[c].state.changes[1].key}
         /\ calls[c].state.changes[1].key \in Keys
  <1> DEFINE s == calls[c].state.changes
  <1>1. s \in Changes /\ Len(s) = 1
    BY InvFacts DEF CoordinatorInv, SavesOne, CopyOK, States
  <1>2. s \in Seq(Change) /\ s[1] \in Change /\ s[1].key \in Keys
    BY <1>1, ChangesFacts
  <1>3. s = <<s[1]>>
    BY <1>1, <1>2
  <1>4. ChangedKeys(s) = {s[1].key}
    BY <1>2, <1>3, OneChange
  <1>5. QED
    BY <1>2, <1>3, <1>4 DEF KeysOf

\* A request that is over holds no setting.
LEMMA NoKeysIdle == KeysOf(Idle) = {}
  BY EmptyChanges DEF KeysOf, Idle, NoState

\* A request stays in order while others run, as long as they leave its settings
\* alone and keep those of the pending transaction it relies on.
LEMMA OtherInOrder ==
  ASSUME CoordinatorInv, NEW d \in Calls, CallInOrder(d), calls'[d] = calls[d],
         Owns(d) => \A k \in KeysOf(calls[d]) :
                      /\ setting'[k] = setting[k] /\ running'[k] = running[k]
                      /\ InPending(k) => InPending(k)',
         calls[d].op = "restart" => file' = file
  PROVE  CallInOrder(d)'
  <1>1. /\ calls[d].state.changes \in Changes /\ calls[d].left \in Changes
    BY InvFacts DEF CopyOK, States
  <1>2. /\ \A i \in DOMAIN calls[d].state.changes : calls[d].state.changes[i].key \in KeysOf(calls[d])
        /\ \A i \in DOMAIN calls[d].left : calls[d].left[i].key \in ChangedKeys(calls[d].left)
    BY <1>1, ChangesFacts DEF KeysOf
  <1>3. SaveInOrder(d)'
    <2> SUFFICES ASSUME calls[d].op \in {"saving", "saved"} PROVE SaveInOrder(d)'
      BY DEF SaveInOrder
    <2> DEFINE change == calls[d].state.changes[1]
    <2>1. change.key \in KeysOf(calls[d])
      BY SavedChange
    <2>2. /\ setting'[change.key] = setting[change.key] /\ running'[change.key] = running[change.key]
          /\ InPending(change.key) => InPending(change.key)'
      <3>1. Owns(d)
        BY DEF Owns
      <3>2. PICK k \in KeysOf(calls[d]) : k = change.key
        BY <2>1
      <3>3. change' = change
        OBVIOUS
      <3> HIDE DEF change
      <3>4. QED
        BY <3>1, <3>2, <3>3 DEF InPending
    <2>3. QED
      BY <2>2 DEF CallInOrder, SaveInOrder
  <1>4. UndoInOrder(d)'
    <2> SUFFICES ASSUME calls[d].op \in {"restart", "cancelling", "undoing"} PROVE UndoInOrder(d)'
      BY DEF UndoInOrder
    <2>1. \A k \in KeysOf(calls[d]) : setting'[k] = setting[k] /\ running'[k] = running[k]
      BY DEF Owns
    <2>2. UndoInOrder(d) /\ ChangedKeys(calls[d].left) \subseteq KeysOf(calls[d])
      BY DEF CallInOrder, UndoInOrder
    <2>3. QED
      <3>1. /\ KeysOf(calls[d])' = KeysOf(calls[d])
            /\ ChangedKeys(calls[d].left)' = ChangedKeys(calls[d].left)
        BY DEF KeysOf, ChangedKeys
      <3>2. RestoresRunning(calls[d].state.changes)' /\ RestoresRunning(calls[d].left)'
        BY <1>2, <2>1, <2>2 DEF UndoInOrder, RestoresRunning
      <3>3. QED
        BY <2>1, <2>2, <3>1, <3>2 DEF UndoInOrder
  <1>5. QED
    BY <1>3, <1>4 DEF CallInOrder, KeysOf, ChangedKeys

\* A settings route reads the old value: its setting is owned by it from here
\* on.
LEMMA SaveReadOrderly ==
  ASSUME CoordinatorInv, Orderly, ~accident', NEW c \in Calls, NEW u \in Users, NEW k \in Keys,
         SaveRead(c, u, k)
  PROVE  Orderly'
  <1> DEFINE x == [key |-> k, old |-> setting[k]]
             state == [id |-> saves + 1, user |-> u, phase |-> "pending", boot |-> 0, changes |-> <<x>>]
             call == [Idle EXCEPT !.op = "saving", !.state = state]
  <1>1. /\ call.op = "saving" /\ call.state.changes = <<x>> /\ x.key = k /\ x.old = setting[k]
    BY InvFacts DEF Call
  <1>2. calls' = [calls EXCEPT ![c] = call] /\ calls[c] = Idle
    BY DEF SaveRead, Enter
  <1>3. KeysOf(call) = {k} /\ <<x>>[1] = x
    <2>1. x \in Change
      BY InvFacts DEF Change
    <2> HIDE DEF x, call
    <2>2. QED
      BY <1>1, <2>1, OneChange DEF KeysOf
  <1> HIDE DEF x, state, call
  <1>4. calls'[c] = call /\ \A d \in Calls \ {c} : calls'[d] = calls[d]
    BY <1>2, InvFacts
  <1>5. UNCHANGED <<file, setting, running>> /\ \A d \in Calls \ {c} : k \notin KeysOf(calls[d])
    BY DEF SaveRead, Accident, Contended
  <1>6. OwnersDisjoint'
    BY <1>3, <1>4, <1>5 DEF Orderly, OwnersDisjoint, Owns
  <1>7. FileInOrder'
    BY <1>5 DEF Orderly, FileInOrder, RestoresRunning
  <1>8. ASSUME NEW d \in Calls \ {c} PROVE CallInOrder(d)'
    BY <1>4, <1>5, OtherInOrder DEF Orderly, InPending
  <1>9. CallInOrder(c)'
    <2>1. InPending(k) \/ setting[k] = running[k]
      BY <1>2, <1>5, NoKeysIdle DEF Orderly, DriftCovered, Covered
    <2>2. SaveInOrder(c)'
      BY <1>1, <1>3, <1>4, <1>5, <2>1 DEF SaveInOrder, InPending
    <2>3. QED
      BY <1>1, <1>4, <2>2 DEF CallInOrder, UndoInOrder
  <1>10. DriftCovered'
    BY <1>2, <1>4, <1>5, NoKeysIdle DEF Orderly, DriftCovered, Covered, InPending
  <1>11. QED
    BY <1>6, <1>7, <1>8, <1>9, <1>10 DEF Orderly

\* The setting is written: its drift is covered by the request.
LEMMA SaveWriteOrderly ==
  ASSUME CoordinatorInv, Orderly, ~accident', NEW c \in Calls, NEW v \in Values, SaveWrite(c, v)
  PROVE  Orderly'
  <1>1. PICK k \in Keys : /\ k = calls[c].state.changes[1].key /\ KeysOf(calls[c]) = {k}
                          /\ setting' = [setting EXCEPT ![k] = v]
    BY SavedChange DEF SaveWrite
  <1>2. /\ calls'[c].op = "saved" /\ calls'[c].state = calls[c].state /\ calls[c].op = "saving"
        /\ \A d \in Calls \ {c} : calls'[d] = calls[d]
    BY InvFacts DEF SaveWrite, Call
  <1>3. KeysOf(calls'[c]) = {k}
    BY <1>1, <1>2 DEF KeysOf
  <1>4. UNCHANGED <<file, running>> /\ \A d \in Calls \ {c} : k \notin KeysOf(calls[d])
    BY <1>1 DEF SaveWrite, Accident, Contended
  <1>5. \A j \in Keys \ {k} : setting'[j] = setting[j]
    BY <1>1, InvFacts
  <1>6. OwnersDisjoint' /\ FileInOrder'
    BY <1>1, <1>2, <1>3, <1>4 DEF Orderly, OwnersDisjoint, Owns, FileInOrder, RestoresRunning
  <1>7. ASSUME NEW d \in Calls \ {c} PROVE CallInOrder(d)'
    <2>1. KeysOf(calls[d]) \subseteq Keys
      BY InvFacts, ChangesFacts DEF KeysOf, CopyOK, States
    <2>2. calls[d].op # "restart"
      BY DEF SaveWrite, CanRun
    <2>3. QED
      BY <1>2, <1>4, <1>5, <2>1, <2>2, OtherInOrder DEF Orderly, InPending
  <1>8. CallInOrder(c)'
    BY <1>2, <1>4 DEF Orderly, CallInOrder, SaveInOrder, UndoInOrder, InPending
  <1>9. DriftCovered'
    <2> SUFFICES ASSUME NEW j \in Keys, setting'[j] # running'[j] PROVE Covered(j)'
      BY DEF DriftCovered
    <2>1. CASE j = k
      BY <2>1, <1>2, <1>3 DEF Covered
    <2>2. CASE j # k
      BY <2>2, <1>1, <1>2, <1>4, <1>5 DEF Orderly, DriftCovered, Covered, InPending
    <2>3. QED
      BY <2>1, <2>2
  <1>10. QED
    BY <1>6, <1>7, <1>8, <1>9 DEF Orderly

\* A request that leaves: the others stay disjoint, and it is itself in order.
LEMMA LeaveFacts ==
  ASSUME CoordinatorInv, Orderly, NEW c \in Calls, Leave(c)
  PROVE  /\ calls'[c] = Idle /\ \A d \in Calls \ {c} : calls'[d] = calls[d]
         /\ OwnersDisjoint' /\ CallInOrder(c)'
         /\ \A k \in Keys, d \in Calls \ {c} :
              calls[d].op # "polling" /\ k \in KeysOf(calls[d]) => Covered(k)'
  <1>1. calls'[c] = Idle /\ \A d \in Calls \ {c} : calls'[d] = calls[d]
    BY InvFacts DEF Leave
  <1>2. KeysOf(Idle) = {} /\ Idle.op = "idle"
    BY NoKeysIdle DEF Idle
  <1>3. OwnersDisjoint'
    BY <1>1, <1>2 DEF Orderly, OwnersDisjoint, Owns
  <1>4. CallInOrder(c)'
    BY <1>1, <1>2 DEF CallInOrder, SaveInOrder, UndoInOrder
  <1>5. \A k \in Keys, d \in Calls \ {c} :
              calls[d].op # "polling" /\ k \in KeysOf(calls[d]) => Covered(k)'
    BY <1>1 DEF Covered
  <1>6. QED
    BY <1>1, <1>3, <1>4, <1>5

\* The change is registered: its drift is covered by the transaction.
LEMMA RegisterOrderly ==
  ASSUME CoordinatorInv, Orderly, ~accident', NEW c \in Calls, registerChange(c)
  PROVE  Orderly'
  <1>1. PICK fresh : fresh = calls[c].state
    OBVIOUS
  <1>2. /\ calls[c].op = "saved" /\ Leave(c) /\ ~Refused(fresh) /\ file' = Registered(fresh)
        /\ UNCHANGED <<setting, running>>
    BY <1>1 DEF registerChange, Accident
  <1>3. CopyOK(fresh) /\ fresh.phase = "pending" /\ Len(fresh.changes) = 1
    BY <1>1, <1>2, InvFacts DEF CoordinatorInv, SavesOne
  <1>4. PICK x \in Change : /\ fresh.changes = <<x>> /\ x = calls[c].state.changes[1]
                            /\ KeysOf(calls[c]) = {x.key} /\ ChangedKeys(fresh.changes) = {x.key}
    BY <1>1, <1>2, SavedChange DEF KeysOf
  <1>5. /\ CopyOK(file') /\ file'.phase = "pending"
        /\ ChangedKeys(fresh.changes) \subseteq ChangedKeys(file'.changes)
        /\ file.phase = "pending" => ChangedKeys(file.changes) \subseteq ChangedKeys(file'.changes)
        /\ \/ file.phase = "pending" /\ file'.changes = file.changes
           \/ file.phase # "pending" /\ file' = fresh
           \/ /\ file.phase = "pending" /\ file'.changes = file.changes \o fresh.changes
              /\ ~(ChangedKeys(fresh.changes) \subseteq ChangedKeys(file.changes))
    BY <1>2, <1>3, RegisteredOK
  <1>6. \A k : InPending(k) \/ k = x.key => InPending(k)'
    BY <1>4, <1>5 DEF InPending
  <1>7. InPending(x.key) \/ x.old = running[x.key]
    BY <1>2, <1>4 DEF Orderly, CallInOrder, SaveInOrder
  <1>8. FileInOrder'
    <2>1. RestoresRunning(file'.changes)
      <3>1. CASE file.phase = "pending" /\ file'.changes = file.changes
        BY <3>1 DEF Orderly, FileInOrder
      <3>2. CASE file.phase # "pending" /\ file' = fresh
        <4>1. x.old = running[x.key] /\ <<x>>[1] = x /\ DOMAIN <<x>> = {1}
          BY <3>2, <1>7 DEF InPending
        <4>2. QED
          BY <4>1, <3>2, <1>4 DEF RestoresRunning
      <3>3. CASE /\ file.phase = "pending" /\ file'.changes = file.changes \o fresh.changes
                 /\ ~(ChangedKeys(fresh.changes) \subseteq ChangedKeys(file.changes))
        <4>1. x.old = running[x.key] /\ RestoresRunning(file.changes)
          BY <3>3, <1>4, <1>7 DEF InPending, Orderly, FileInOrder
        <4>2. file.changes \in Changes /\ Len(file.changes \o <<x>>) <= MAX_CHANGES
          BY <3>3, <1>4, <1>5, InvFacts, ChangesFacts DEF CopyOK, States
        <4>3. QED
          BY <4>1, <4>2, <3>3, <1>4, ChangeAppended
      <3>4. QED
        BY <1>5, <3>1, <3>2, <3>3
    <2>2. QED
      BY <2>1, <1>2 DEF FileInOrder, RestoresRunning
  <1>9. ASSUME NEW d \in Calls \ {c} PROVE CallInOrder(d)'
    <2>1. calls[d].op # "restart"
      BY DEF registerChange, CanRun
    <2>2. QED
      BY <1>2, <1>6, <2>1, LeaveFacts, OtherInOrder DEF Orderly
  <1>10. DriftCovered'
    <2> SUFFICES ASSUME NEW k \in Keys, setting[k] # running[k] PROVE Covered(k)'
      BY <1>2 DEF DriftCovered
    <2>1. CASE InPending(k) \/ k = x.key
      BY <2>1, <1>6 DEF Covered
    <2>2. CASE \E d \in Calls \ {c} : calls[d].op # "polling" /\ k \in KeysOf(calls[d])
      BY <2>2, <1>2, LeaveFacts
    <2>3. QED
      BY <2>1, <2>2, <1>4 DEF Orderly, DriftCovered, Covered
  <1>11. QED
    BY <1>2, <1>8, <1>9, <1>10, LeaveFacts DEF Orderly

\* In a container the change takes effect at once.
LEMMA DismissOrderly ==
  ASSUME CoordinatorInv, Orderly, ~accident', NEW c \in Calls, dismissFailed(c)
  PROVE  Orderly'
  <1>1. PICK k \in Keys : k = calls[c].state.changes[1].key /\ KeysOf(calls[c]) = {k}
    BY SavedChange DEF dismissFailed
  <1>2. /\ running' = [running EXCEPT ![k] = setting[k]] /\ Leave(c)
        /\ k \notin ChangedKeys(file.changes) /\ UNCHANGED <<file, setting>>
        /\ \A d \in Calls \ {c} : k \notin KeysOf(calls[d])
    BY <1>1 DEF dismissFailed, Accident, Contended
  <1>3. running'[k] = setting[k] /\ \A j \in Keys \ {k} : running'[j] = running[j]
    BY <1>2, InvFacts
  <1>4. FileInOrder'
    <2>1. \A i \in DOMAIN file.changes : file.changes[i].key \in Keys \ {k}
      BY <1>2, InvFacts, ChangesFacts DEF States
    <2>2. QED
      BY <2>1, <1>2, <1>3 DEF Orderly, FileInOrder, RestoresRunning
  <1>5. ASSUME NEW d \in Calls \ {c} PROVE CallInOrder(d)'
    <2>1. KeysOf(calls[d]) \subseteq Keys
      BY InvFacts, ChangesFacts DEF KeysOf, CopyOK, States
    <2>2. \A j \in KeysOf(calls[d]) : j \in Keys \ {k}
      BY <2>1, <1>2
    <2>3. QED
      BY <2>2, <1>2, <1>3, LeaveFacts, OtherInOrder DEF Orderly, InPending
  <1>6. DriftCovered'
    <2> SUFFICES ASSUME NEW j \in Keys, setting[j] # running'[j] PROVE Covered(j)'
      BY <1>2 DEF DriftCovered
    <2>1. j # k /\ setting[j] # running[j]
      BY <1>3
    <2>2. CASE InPending(j)
      BY <2>2, <1>2 DEF Covered, InPending
    <2>3. CASE \E d \in Calls \ {c} : calls[d].op # "polling" /\ j \in KeysOf(calls[d])
      BY <2>3, <1>2, LeaveFacts
    <2>4. QED
      BY <2>1, <2>2, <2>3, <1>1 DEF Orderly, DriftCovered, Covered
  <1>7. QED
    BY <1>2, <1>4, <1>5, <1>6, LeaveFacts DEF Orderly

\* cancel and confirm take charge of the settings of the transaction.
LEMMA TakeChargeOrderly ==
  ASSUME CoordinatorInv, Orderly, ~accident', NEW c \in Calls, NEW u \in Users,
         cancel(c, u) \/ confirm(c, u)
  PROVE  Orderly'
  <1>1. PICK call :
          /\ calls[c] = Idle /\ calls' = [calls EXCEPT ![c] = call]
          /\ call.op \in {"cancelling", "restart"}
          /\ call.state.changes = file.changes /\ call.left = file.changes
          /\ call.op = "restart" => file' = call.state /\ file'.phase = "restarting"
    <2>1. CASE cancel(c, u)
      <3> DEFINE call == [op |-> "cancelling", state |-> file, left |-> file.changes, broken |-> FALSE]
      <3>1. call.op = "cancelling" /\ call.state = file /\ call.left = file.changes
        OBVIOUS
      <3>2. calls[c] = Idle /\ calls' = [calls EXCEPT ![c] = call]
        BY <2>1 DEF cancel, Enter
      <3> HIDE DEF call
      <3>3. QED
        BY <3>1, <3>2
    <2>2. CASE confirm(c, u)
      <3> DEFINE call == [op |-> "restart", state |-> file', left |-> file.changes, broken |-> FALSE]
      <3>1. file'.changes = file.changes /\ file'.phase = "restarting"
        BY <2>2, InvFacts DEF confirm, States
      <3>2. call.op = "restart" /\ call.state = file' /\ call.left = file.changes
        OBVIOUS
      <3>3. calls[c] = Idle /\ calls' = [calls EXCEPT ![c] = call]
        BY <2>2 DEF confirm, Enter
      <3> HIDE DEF call
      <3>4. QED
        BY <3>1, <3>2, <3>3
    <2>3. QED
      BY <2>1, <2>2
  <1>2. calls'[c] = call /\ \A d \in Calls \ {c} : calls'[d] = calls[d]
    BY <1>1, InvFacts
  <1>3. KeysOf(call) = ChangedKeys(file.changes)
    BY <1>1 DEF KeysOf
  <1>4. /\ UNCHANGED <<setting, running>> /\ file.phase \in {"pending", "failed"}
        /\ \A d \in Calls \ {c} : KeysOf(calls[d]) \cap ChangedKeys(file.changes) = {}
        /\ \A d \in Calls : calls[d].op # "restart"
        /\ file' = file \/ file'.phase = "restarting"
    BY <1>1, InvFacts DEF cancel, confirm, Accident, Contended, CanRun, Phases, States
  <1>5. OwnersDisjoint'
    BY <1>2, <1>3, <1>4 DEF Orderly, OwnersDisjoint, Owns
  <1>6. RestoresRunning(file.changes)
    BY <1>4 DEF Orderly, FileInOrder
  <1>7. FileInOrder'
    BY <1>4, <1>6 DEF FileInOrder, RestoresRunning
  <1>8. ASSUME NEW d \in Calls \ {c} PROVE CallInOrder(d)'
    BY <1>2, <1>4, OtherInOrder DEF Orderly, InPending
  <1>9. CallInOrder(c)'
    <2>1. UndoInOrder(c)'
      BY <1>1, <1>2, <1>3, <1>4, <1>6 DEF UndoInOrder, RestoresRunning
    <2>2. QED
      BY <1>1, <1>2, <2>1 DEF CallInOrder, SaveInOrder
  <1>10. DriftCovered'
    <2> SUFFICES ASSUME NEW k \in Keys, setting[k] # running[k] PROVE Covered(k)'
      BY <1>4 DEF DriftCovered
    <2>1. CASE InPending(k)
      BY <2>1, <1>1, <1>2, <1>3 DEF InPending, Covered
    <2>2. CASE \E d \in Calls \ {c} : calls[d].op # "polling" /\ k \in KeysOf(calls[d])
      BY <2>2, <1>2 DEF Covered
    <2>3. QED
      BY <2>1, <2>2, <1>1, NoKeysIdle DEF Orderly, DriftCovered, Covered
  <1>11. QED
    BY <1>5, <1>7, <1>8, <1>9, <1>10 DEF Orderly

\* An undone change puts back the value the server runs with.
LEMMA RollbackOrderly ==
  ASSUME CoordinatorInv, Orderly, ~accident', NEW c \in Calls, rollbackChange(c)
  PROVE  Orderly'
  <1>1. PICK left \in Changes : left = calls[c].left /\ left # <<>>
    BY InvFacts DEF rollbackChange
  <1>2. PICK rest \in Changes, x \in Change :
          /\ rest = SubSeq(left, 1, Len(left) - 1) /\ x = left[Len(left)]
          /\ ChangedKeys(left) = ChangedKeys(rest) \cup {x.key}
          /\ RestoresRunning(left) => RestoresRunning(rest) /\ x.old = running[x.key]
    <2> DEFINE n == Len(left)
               rest == SubSeq(left, 1, n - 1)
    <2>1. /\ left[n] \in Change /\ rest \in Changes
          /\ ChangedKeys(left) = ChangedKeys(rest) \cup {left[n].key}
          /\ RestoresRunning(left) => RestoresRunning(rest) /\ left[n].old = running[left[n].key]
      BY <1>1, ChangeUndone
    <2>2. QED
      BY <2>1
  <1>3. /\ calls[c].op \in {"cancelling", "undoing"} /\ UNCHANGED <<file, running>>
        /\ setting' = [setting EXCEPT ![x.key] = x.old]
        /\ calls' = [calls EXCEPT ![c] = [@ EXCEPT !.left = rest]]
        /\ \A d \in Calls \ {c} : x.key \notin KeysOf(calls[d])
        /\ \A d \in Calls : calls[d].op # "restart"
    BY <1>1, <1>2 DEF rollbackChange, Accident, Contended, CanRun
  <1>4. /\ calls'[c].op = calls[c].op /\ calls'[c].state = calls[c].state /\ calls'[c].left = rest
        /\ \A d \in Calls \ {c} : calls'[d] = calls[d]
    BY <1>3, InvFacts DEF Call
  <1>5. KeysOf(calls'[c]) = KeysOf(calls[c])
    BY <1>4 DEF KeysOf
  <1>6. /\ RestoresRunning(left) /\ RestoresRunning(calls[c].state.changes)
        /\ ChangedKeys(left) \subseteq KeysOf(calls[c])
        /\ \A k \in KeysOf(calls[c]) \ ChangedKeys(left) : setting[k] = running[k]
    BY <1>1, <1>3 DEF Orderly, CallInOrder, UndoInOrder
  <1>7. /\ x.key \in Keys /\ setting'[x.key] = running[x.key]
        /\ \A k \in Keys \ {x.key} : setting'[k] = setting[k]
    BY <1>2, <1>3, <1>6, InvFacts DEF Change
  <1>8. \A d \in Calls : KeysOf(calls[d]) \subseteq Keys
    BY InvFacts, ChangesFacts DEF KeysOf, CopyOK, States
  <1>9. OwnersDisjoint' /\ FileInOrder'
    BY <1>3, <1>4, <1>5 DEF Orderly, OwnersDisjoint, Owns, FileInOrder, RestoresRunning
  <1>10. ASSUME NEW d \in Calls \ {c} PROVE CallInOrder(d)'
    BY <1>3, <1>4, <1>7, <1>8, OtherInOrder DEF Orderly, InPending
  <1>11. CallInOrder(c)'
    <2>1. RestoresRunning(calls[c].state.changes)' /\ RestoresRunning(calls[c].left)'
      BY <1>2, <1>3, <1>4, <1>6 DEF RestoresRunning
    <2>2. /\ ChangedKeys(calls[c].left)' \subseteq KeysOf(calls[c])'
          /\ \A k \in KeysOf(calls[c])' \ ChangedKeys(calls[c].left)' : setting'[k] = running'[k]
      <3>1. KeysOf(calls[c])' = KeysOf(calls[c]) /\ ChangedKeys(calls[c].left)' = ChangedKeys(rest)
        BY <1>4 DEF KeysOf, ChangedKeys
      <3>2. QED
        BY <3>1, <1>2, <1>3, <1>6, <1>7, <1>8
    <2>3. UndoInOrder(c)'
      BY <2>1, <2>2 DEF UndoInOrder
    <2>4. QED
      BY <1>3, <1>4, <2>3 DEF CallInOrder, SaveInOrder
  <1>12. DriftCovered'
    <2> SUFFICES ASSUME NEW k \in Keys, setting'[k] # running[k] PROVE Covered(k)'
      BY <1>3 DEF DriftCovered
    <2>1. k # x.key /\ setting[k] # running[k]
      BY <1>7
    <2>2. Covered(k)
      BY <2>1 DEF Orderly, DriftCovered
    <2>3. QED
      BY <2>2, <1>3, <1>4, <1>5 DEF Covered, InPending
  <1>13. QED
    BY <1>9, <1>10, <1>11, <1>12 DEF Orderly

\* A cancellation or an undo that ends has restored all its settings, and the
\* file is still the copy it read.
LEMMA UndoEndOrderly ==
  ASSUME CoordinatorInv, Orderly, ~accident', NEW c \in Calls, CancelEnd(c) \/ UndoEnd(c)
  PROVE  Orderly'
  <1>1. /\ Leave(c) /\ file = calls[c].state /\ calls[c].left = <<>>
        /\ calls[c].op \in {"cancelling", "undoing"} /\ UNCHANGED <<setting, running>>
        /\ \A d \in Calls : calls[d].op # "restart"
        /\ file' = NoState \/ file' = [calls[c].state EXCEPT !.phase = "failed"]
    BY DEF CancelEnd, UndoEnd, Accident, Stale, CanRun
  <1>2. file'.phase \in {"absent", "failed"} /\ (file'.phase = "failed" => file'.changes = file.changes)
    BY <1>1, InvFacts DEF States
  <1>3. KeysOf(calls[c]) = ChangedKeys(file.changes)
    BY <1>1 DEF KeysOf
  <1>4. /\ RestoresRunning(file.changes)
        /\ \A k \in ChangedKeys(file.changes) : setting[k] = running[k]
    BY <1>1, <1>3, EmptyChanges DEF Orderly, CallInOrder, UndoInOrder
  <1>5. FileInOrder'
    BY <1>1, <1>2, <1>4 DEF FileInOrder, RestoresRunning
  <1>6. ASSUME NEW d \in Calls \ {c} PROVE CallInOrder(d)'
    <2>1. Owns(d) => KeysOf(calls[d]) \cap ChangedKeys(file.changes) = {}
      BY <1>1, <1>3 DEF Orderly, OwnersDisjoint, Owns
    <2>2. QED
      BY <1>1, <2>1, LeaveFacts, OtherInOrder DEF Orderly, InPending
  <1>7. DriftCovered'
    <2> SUFFICES ASSUME NEW k \in Keys, setting[k] # running[k] PROVE Covered(k)'
      BY <1>1 DEF DriftCovered
    <2>1. k \notin ChangedKeys(file.changes)
      BY <1>4
    <2>2. QED
      BY <2>1, <1>1, <1>3, LeaveFacts DEF Orderly, DriftCovered, Covered, InPending
  <1>8. QED
    BY <1>1, <1>5, <1>6, <1>7, LeaveFacts DEF Orderly

\* After the restart the server runs with what is saved.
LEMMA RestartOrderly ==
  ASSUME CoordinatorInv, Orderly, ~accident', NEW c \in Calls, RestartDone(c) \/ RestartFailed(c)
  PROVE  Orderly'
  <1>1. /\ calls[c].op = "restart" /\ UNCHANGED <<file, setting>>
        /\ file.phase = "restarting"
    BY DEF RestartDone, RestartFailed, Orderly, CallInOrder
  <1>2. FileInOrder'
    BY <1>1 DEF FileInOrder
  <1>3. CASE RestartDone(c)
    <2>1. /\ Leave(c) /\ running' = setting
          /\ \A d \in Calls \ {c} : calls[d].op \in {"idle", "polling"}
      BY <1>3 DEF RestartDone, Accident
    <2>2. ASSUME NEW d \in Calls \ {c} PROVE CallInOrder(d)'
      BY <2>1, LeaveFacts, OtherInOrder DEF Orderly, Owns
    <2>3. DriftCovered'
      BY <1>1, <2>1 DEF DriftCovered
    <2>4. QED
      BY <1>2, <2>1, <2>2, <2>3, LeaveFacts DEF Orderly
  <1>4. CASE RestartFailed(c)
    <2>1. /\ calls'[c].op = "undoing" /\ calls'[c].state = calls[c].state
          /\ calls'[c].left = calls[c].left /\ running' = running
          /\ \A d \in Calls \ {c} : calls'[d] = calls[d]
      BY <1>4, InvFacts DEF RestartFailed, Accident, Call
    <2>2. KeysOf(calls'[c]) = KeysOf(calls[c])
      BY <2>1 DEF KeysOf
    <2>3. OwnersDisjoint'
      BY <1>1, <2>1, <2>2 DEF Orderly, OwnersDisjoint, Owns
    <2>4. ASSUME NEW d \in Calls \ {c} PROVE CallInOrder(d)'
      BY <1>1, <2>1, OtherInOrder DEF Orderly, InPending
    <2>5. CallInOrder(c)'
      <3>1. UndoInOrder(c)
        BY DEF Orderly, CallInOrder
      <3>2. UndoInOrder(c)'
        BY <1>1, <2>1, <2>2, <3>1 DEF UndoInOrder, RestoresRunning
      <3>3. QED
        BY <2>1, <3>2 DEF CallInOrder, SaveInOrder
    <2>6. DriftCovered'
      BY <1>1, <2>1, <2>2 DEF Orderly, DriftCovered, Covered, InPending
    <2>7. QED
      BY <1>2, <2>3, <2>4, <2>5, <2>6 DEF Orderly
  <1>5. QED
    BY <1>3, <1>4

\* A step that leaves the file, the settings and the requests alone.
LEMMA UntouchedOrderly ==
  ASSUME CoordinatorInv, Orderly, UNCHANGED <<file, setting, running, calls>>
  PROVE  Orderly'
  <1>1. OwnersDisjoint'
    BY DEF Orderly, OwnersDisjoint, Owns
  <1>2. FileInOrder'
    BY DEF Orderly, FileInOrder, RestoresRunning
  <1>3. ASSUME NEW d \in Calls PROVE CallInOrder(d)'
    BY OtherInOrder DEF Orderly, InPending
  <1>4. DriftCovered'
    BY DEF Orderly, DriftCovered, Covered, InPending
  <1>5. QED
    BY <1>1, <1>2, <1>3, <1>4 DEF Orderly

\* A poll holds no setting; what it writes, it writes over the transaction it
\* read, which was restarting.
LEMMA PollOrderly ==
  ASSUME CoordinatorInv, Orderly, ~accident', NEW c \in Calls,
         getPublicStatus(c) \/ Healthy(c) \/ Unhealthy(c)
  PROVE  Orderly'
  <1>1. CASE getPublicStatus(c)
    <2> DEFINE call == [Idle EXCEPT !.op = "polling", !.state = file]
    <2>1. call.op = "polling" /\ call.state = file
      BY InvFacts DEF Call
    <2>2. /\ calls[c] = Idle /\ calls' = [calls EXCEPT ![c] = call] /\ file.phase = "restarting"
          /\ UNCHANGED <<file, setting, running>>
      BY <1>1 DEF getPublicStatus, Enter
    <2> HIDE DEF call
    <2>3. calls'[c] = call /\ \A d \in Calls \ {c} : calls'[d] = calls[d]
      BY <2>2, InvFacts
    <2>4. OwnersDisjoint' /\ FileInOrder'
      BY <2>1, <2>2, <2>3 DEF Orderly, OwnersDisjoint, Owns, FileInOrder
    <2>5. ASSUME NEW d \in Calls \ {c} PROVE CallInOrder(d)'
      BY <2>2, <2>3, OtherInOrder DEF Orderly, InPending
    <2>6. CallInOrder(c)'
      BY <2>1, <2>2, <2>3 DEF CallInOrder, SaveInOrder, UndoInOrder
    <2>7. DriftCovered'
      BY <2>2, <2>3, NoKeysIdle DEF Orderly, DriftCovered, Covered, InPending
    <2>8. QED
      BY <2>4, <2>5, <2>6, <2>7 DEF Orderly
  <1>2. CASE Healthy(c) \/ Unhealthy(c)
    <2>1. /\ Leave(c) /\ calls[c].op = "polling" /\ UNCHANGED <<setting, running>>
          /\ \A d \in Calls : calls[d].op # "restart"
      BY <1>2 DEF Healthy, Unhealthy, CanRun
    <2>2. calls[c].state.phase = "restarting"
      BY <2>1 DEF Orderly, CallInOrder
    <2>3. file' = file \/ (file.phase = "restarting" /\ file'.phase = "ready")
      <3>1. CASE Healthy(c)
        <4>1. file = calls[c].state /\ file' = [calls[c].state EXCEPT !.phase = "ready"]
          BY <3>1 DEF Healthy, Accident, Stale
        <4>2. QED
          BY <4>1, <2>2, InvFacts DEF States
      <3>2. CASE Unhealthy(c)
        BY <3>2 DEF Unhealthy
      <3>3. QED
        BY <1>2, <3>1, <3>2
    <2>4. FileInOrder' /\ \A k : InPending(k) => InPending(k)'
      BY <2>1, <2>3 DEF Orderly, FileInOrder, RestoresRunning, InPending
    <2>5. ASSUME NEW d \in Calls \ {c} PROVE CallInOrder(d)'
      BY <2>1, <2>4, LeaveFacts, OtherInOrder DEF Orderly
    <2>6. DriftCovered'
      BY <2>1, <2>4, LeaveFacts DEF Orderly, DriftCovered, Covered
    <2>7. QED
      BY <2>1, <2>4, <2>5, <2>6, LeaveFacts DEF Orderly
  <1>3. QED
    BY <1>1, <1>2

\* A process that ends outside the handlers loses saves that have written nothing
\* yet; a completed transaction was ready or had failed.
LEMMA ProcessOrderly ==
  ASSUME CoordinatorInv, Orderly, ~accident', Exit \/ Crash \/ Boot \/ \E u \in Users : complete(u)
  PROVE  Orderly'
  <1>1. CASE Exit \/ Crash
    <2>1. /\ \A c \in Calls : calls'[c] = Idle
          /\ \A c \in Calls : calls[c].op \in {"idle", "saving", "polling"}
          /\ UNCHANGED <<file, setting, running>>
      BY <1>1 DEF Exit, Crash, Stop, Accident
    <2>2. Idle.op = "idle" /\ KeysOf(Idle) = {}
      BY NoKeysIdle DEF Idle
    <2>3. OwnersDisjoint' /\ FileInOrder'
      BY <2>1, <2>2 DEF Orderly, OwnersDisjoint, Owns, FileInOrder, RestoresRunning
    <2>4. ASSUME NEW c \in Calls PROVE CallInOrder(c)'
      BY <2>1, <2>2 DEF CallInOrder, SaveInOrder, UndoInOrder
    <2>5. DriftCovered'
      <3> SUFFICES ASSUME NEW k \in Keys, setting[k] # running[k] PROVE InPending(k)
        BY <2>1 DEF DriftCovered, Covered, InPending
      <3>1. ASSUME NEW c \in Calls, calls[c].op # "polling", k \in KeysOf(calls[c]) PROVE InPending(k)
        <4>1. calls[c].op = "saving"
          BY <2>1, <3>1 DEF Orderly, CallInOrder
        <4>2. calls[c].state.changes[1].key = k
          BY <3>1, <4>1, SavedChange
        <4>3. QED
          BY <4>1, <4>2 DEF Orderly, CallInOrder, SaveInOrder
      <3>2. QED
        BY <3>1 DEF Orderly, DriftCovered, Covered
    <2>6. QED
      BY <2>3, <2>4, <2>5 DEF Orderly
  <1>2. CASE Boot
    BY <1>2, UntouchedOrderly DEF Boot
  <1>3. CASE \E u \in Users : complete(u)
    <2>1. /\ file.phase \in {"ready", "failed"} /\ file'.phase = "absent"
          /\ UNCHANGED <<setting, running, calls>> /\ \A d \in Calls : calls[d].op # "restart"
      BY <1>3 DEF complete, Completes, NoState, CanRun
    <2>2. OwnersDisjoint' /\ FileInOrder' /\ DriftCovered'
      BY <2>1 DEF Orderly, OwnersDisjoint, Owns, FileInOrder, DriftCovered, Covered, InPending
    <2>3. ASSUME NEW d \in Calls PROVE CallInOrder(d)'
      BY <2>1, OtherInOrder DEF Orderly, InPending
    <2>4. QED
      BY <2>2, <2>3 DEF Orderly
  <1>4. QED
    BY <1>1, <1>2, <1>3

\* Nothing drifts at the start.
LEMMA OrderlyInit == Init => OrderlyUnlessAccident
  <1> SUFFICES ASSUME Init PROVE Orderly
    BY DEF OrderlyUnlessAccident
  <1>1. /\ \A c \in Calls : calls[c] = Idle
        /\ file = NoState /\ running = setting
    BY DEF Init
  <1>2. Idle.op = "idle" /\ KeysOf(Idle) = {} /\ NoState.phase = "absent"
    BY NoKeysIdle DEF Idle, NoState
  <1>3. QED
    BY <1>1, <1>2 DEF Orderly, OwnersDisjoint, Owns, FileInOrder, CallInOrder, SaveInOrder, UndoInOrder,
                      DriftCovered

\* Every step without an accident keeps things orderly.
LEMMA OrderlyStep == CoordinatorInv /\ OrderlyUnlessAccident /\ [Next]_vars => OrderlyUnlessAccident'
  <1> SUFFICES ASSUME CoordinatorInv, OrderlyUnlessAccident, [Next]_vars, ~accident' PROVE Orderly'
    BY DEF OrderlyUnlessAccident
  <1>1. Orderly
    BY DEF OrderlyUnlessAccident, vars, Next, SaveRead, SaveWrite, registerChange, dismissFailed, cancel,
           rollbackChange, CancelEnd, confirm, RestartDone, RestartFailed, RestartThrew, UndoEnd,
           getPublicStatus, Healthy, Unhealthy, complete, Exit, Crash, Stop, Boot, Accident
  <1>2. CASE UNCHANGED vars
    BY <1>1, <1>2, UntouchedOrderly DEF vars
  <1>3. CASE \E c \in Calls : \/ \E u \in Users, k \in Keys : SaveRead(c, u, k)
                              \/ \E v \in Values : SaveWrite(c, v)
                              \/ registerChange(c) \/ dismissFailed(c)
    BY <1>1, <1>3, SaveReadOrderly, SaveWriteOrderly, RegisterOrderly, DismissOrderly
  <1>4. CASE \E c \in Calls : \/ \E u \in Users : cancel(c, u) \/ confirm(c, u)
                              \/ rollbackChange(c) \/ CancelEnd(c) \/ UndoEnd(c)
    BY <1>1, <1>4, TakeChargeOrderly, RollbackOrderly, UndoEndOrderly
  <1>5. CASE \E c \in Calls : RestartDone(c) \/ RestartFailed(c)
    BY <1>1, <1>5, RestartOrderly
  <1>6. CASE \E c \in Calls : RestartThrew(c)
    BY <1>6 DEF RestartThrew, Accident
  <1>7. CASE \E c \in Calls : getPublicStatus(c) \/ Healthy(c) \/ Unhealthy(c)
    BY <1>1, <1>7, PollOrderly
  <1>8. CASE Exit \/ Crash \/ Boot \/ \E u \in Users : complete(u)
    BY <1>1, <1>8, ProcessOrderly
  <1>9. QED
    BY <1>2, <1>3, <1>4, <1>5, <1>6, <1>7, <1>8 DEF Next

\* A saved setting differs from what the server runs with only while a request
\* or a transaction that can still be cancelled holds it, unless an accident
\* has happened: registerChange keeps the first snapshot, cancel and a failed
\* restart go back to it, and only confirm hands the difference to the server.
THEOREM DriftExplained == Spec => []DriftHasCause
  <1>1. OrderlyUnlessAccident => DriftHasCause
    BY DEF OrderlyUnlessAccident, Orderly, DriftCovered, Covered, InPending, DriftHasCause
  <1>2. QED
    BY <1>1, OrderlyInit, OrderlyStep, CoordinatorInvariant, PTL DEF Spec

=============================================================================
