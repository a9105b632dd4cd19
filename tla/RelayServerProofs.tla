------------------------- MODULE RelayServerProofs -------------------------
(***************************************************************************)
(* Proofs about the relay server, for any number of connections, addresses *)
(* and UUIDs, any limits and any scheduling of the goroutines.  The two    *)
(* limiters and the references between connections are correct whatever    *)
(* signal does; that a ticket has at most two holders and a parked         *)
(* connection at most one session is proved for a signal that authorizes   *)
(* a UUID once.  That done is closed once and no open socket is forgotten  *)
(* needs, besides, handlers that outrun the pair timeout (Prompt).  Four   *)
(* inductive invariants build on each other: CountInv (types and           *)
(* counters), ServerInv (who knows a connection), OnceInv (who holds a     *)
(* claim) and PromptInv (who will close a connection).                     *)
(***************************************************************************)
EXTENDS RelayServer, FiniteSetTheorems, TLAPS

(* Between the request and the return a handler has a UUID. *)
AskedPC == ServerPC \ {"idle", "reading", "rejected", "closed", "handed"}

(* The variables of the gate, as the server uses them. *)
GateOK ==
  /\ tickets \in [Uuids -> Ticket \cup {None}]
  /\ used \in [Uuids -> 0..PairTimeout \cup {None}]
  /\ waiters \in [Uuids -> SUBSET Conns]
  /\ issued \in [Uuids -> 0..MaxTickets]
  /\ req \in [Conns -> Uuids \cup {None}]
  /\ elapsed \in [Conns -> 0..(PairTimeout + 1)]
  /\ claimed \in [Conns -> 0..MaxTickets]
  /\ \A c \in Conns : pc[c] \in AskedPC => req[c] # None
  /\ \A u \in Uuids : \A c \in waiters[u] : pc[c] = "blocked" /\ req[c] = u

SweepOK ==
  sweep.at # "rest" => sweep.conn \in Conns /\ sweep.uuid \in Uuids

SessionsExact == sessions = Cardinality({c \in Conns : pc[c] = "copying"})

(* The first inductive invariant: the types, and the three counters. *)
CountInv ==
  /\ ServerTypeOK
  /\ GateOK
  /\ SweepOK
  /\ SessionsExact
  /\ ConnLimiterExact
  /\ SessionLimitSound

(* A ticket that no claim can use any more. *)
Dead(u) == tickets[u] = None \/ tickets[u].ttl = 0

-----------------------------------------------------------------------------
(* A step of the gate, of signal or of the operator: it touches neither    *)
(* the pending map nor the limiters nor a socket.                          *)
GateStep ==
  /\ UNCHANGED srvVars
  /\ \/ \E c \in Conns : Gate(c)
     \/ \E u \in Uuids, pair \in Pairs : Authorize(u, pair)
     \/ \E p \in Peers : RevokeForPeer(p)
     \/ \E c \in Conns, u \in Uuids : Request(c, u)
     \/ \E c \in Conns : BadRequest(c)
     \/ Stop

(* A step of the handler of c beyond the gate. *)
PairStep(c) ==
  \/ Accept(c)
  \/ CloseRejected(c)
  \/ Return(c)
  \/ LoadOrStore(c)
  \/ Paired(c)
  \/ TimedOut(c)
  \/ TimeoutDelete(c)
  \/ TimeoutRelease(c)
  \/ DeleteEntry(c)
  \/ CloseDone(c)
  \/ AcquireFirst(c)
  \/ AcquireSecond(c)
  \/ StartSession(c)
  \/ EndSession(c)
  \/ FreeSession(c)

(* Every step is one of these. *)
LEMMA StepCases ==
  ASSUME ServerNext
  PROVE  \/ GateStep
         \/ \E c \in Conns : PairStep(c)
         \/ \E u \in Uuids : SweepVisit(u)
         \/ SweepDelete
         \/ SweepRelease
         \/ SweepClose
         \/ ServerTick
  <1>1. CASE Environment
    BY <1>1 DEF Environment, GateStep, PairStep
  <1>2. CASE \E c \in Conns : Handler(c)
    BY <1>2 DEF Handler, GateStep, PairStep
  <1>3. CASE SweepStep
    BY <1>3 DEF SweepStep
  <1> QED
    BY <1>1, <1>2, <1>3 DEF ServerNext

(* Pruning keeps the maps well typed and drops only what has run out. *)
LEMMA PruneTyped ==
  ASSUME GateOK
  PROVE  /\ PrunedTickets \in [Uuids -> Ticket \cup {None}]
         /\ PrunedUsed \in [Uuids -> 0..PairTimeout \cup {None}]
         /\ \A u \in Uuids :
              /\ PrunedTickets[u] # None =>
                   PrunedTickets[u] = tickets[u] /\ tickets[u].ttl > 0
              /\ PrunedTickets[u] = None <=> Dead(u)
  BY NoneAssumption, TimeAssumption
     DEF GateOK, PrunedTickets, PrunedUsed, Ticket, Dead

(* Where a step of the gate can take a connection: it stays, or it moves   *)
(* on within the gate, before the outcome.                                 *)
BeforeOutcome == GatePC \ {"claimed", "rejected"}

GateMoves ==
  /\ pc' \in [Conns -> ServerPC]
  /\ \A d \in Conns :
       \/ pc'[d] = pc[d]
       \/ pc[d] \in BeforeOutcome /\ pc'[d] \in GatePC \ {"reading"}
  /\ \A d \in Conns : req'[d] = req[d] \/ pc[d] = "reading"

(* A handler that moves within the gate. *)
LEMMA GotoMoves ==
  ASSUME ServerTypeOK, NEW c \in Conns, NEW label \in GatePC \ {"reading"},
         pc[c] \in BeforeOutcome, Goto(c, label)
  PROVE  /\ pc' \in [Conns -> ServerPC]
         /\ pc'[c] = label
         /\ \A d \in Conns : d # c => pc'[d] = pc[d]
         /\ \A d \in Conns :
              \/ pc'[d] = pc[d]
              \/ pc[d] \in BeforeOutcome /\ pc'[d] \in GatePC \ {"reading"}
  BY DEF ServerTypeOK, Goto, ServerPC

(* The handlers whose channel is closed are blocked ones. *)
LEMMA SignalMoves ==
  ASSUME ServerTypeOK, GateOK, NEW us \in SUBSET Uuids, SignalWaiters(us)
  PROVE  /\ waiters' \in [Uuids -> SUBSET Conns]
         /\ pc' \in [Conns -> ServerPC]
         /\ \A d \in Conns : pc'[d] = pc[d] \/ (pc[d] = "blocked" /\ pc'[d] = "woken")
         /\ \A u \in Uuids : \A c \in waiters'[u] : pc'[c] = pc[c] /\ c \in waiters[u]
  <1>1. /\ waiters' \in [Uuids -> SUBSET Conns]
        /\ pc' \in [Conns -> ServerPC]
    BY DEF ServerTypeOK, GateOK, SignalWaiters, ServerPC, GatePC
  <1>2. ASSUME NEW d \in Conns
        PROVE  pc'[d] = pc[d] \/ (pc[d] = "blocked" /\ pc'[d] = "woken")
    <2> DEFINE told == \E u \in us : d \in waiters[u]
    <2>1. pc'[d] = IF told THEN "woken" ELSE pc[d]
      BY DEF SignalWaiters
    <2> HIDE DEF told
    <2>2. CASE told
      <3>1. PICK u \in us : d \in waiters[u]
        BY <2>2 DEF told
      <3>2. pc[d] = "blocked"
        BY <3>1 DEF GateOK
      <3> QED
        BY <2>1, <2>2, <3>2
    <2>3. CASE ~told
      BY <2>1, <2>3
    <2> QED
      BY <2>2, <2>3
  <1>3. ASSUME NEW u \in Uuids, NEW c \in waiters'[u]
        PROVE  pc'[c] = pc[c] /\ c \in waiters[u]
    <2>1. c \in waiters[u] /\ u \notin us /\ c \in Conns /\ req[c] = u
      BY <1>3 DEF GateOK, SignalWaiters
    <2>2. \A v \in us : c \notin waiters[v]
      BY <2>1 DEF GateOK
    <2> QED
      BY <2>1, <2>2 DEF SignalWaiters
  <1> QED
    BY <1>1, <1>2, <1>3

(* A registry step leaves the tickets and tombstones well typed. *)
LEMMA ClaimTyped ==
  ASSUME GateOK, NEW u \in Uuids, CanClaim(u), Claim(u)
  PROVE  /\ tickets' \in [Uuids -> Ticket \cup {None}]
         /\ used' \in [Uuids -> 0..PairTimeout \cup {None}]
         /\ PrunedTickets[u].serial \in 1..MaxTickets
  <1>1. /\ PrunedTickets[u] \in Ticket
        /\ PrunedTickets[u] = tickets[u] /\ tickets[u].ttl > 0
    BY PruneTyped DEF CanClaim
  <1>2. [PrunedTickets[u] EXCEPT !.claims = 1] \in Ticket
    BY <1>1 DEF Ticket
  <1>3. CASE PrunedTickets[u].claims + 1 = 2
    BY <1>1, <1>3, PruneTyped DEF Claim, Ticket
  <1>4. CASE PrunedTickets[u].claims + 1 # 2
    <2>1. PrunedTickets[u].claims + 1 = 1
      BY <1>1, <1>4 DEF Ticket
    <2>2. tickets' = [PrunedTickets EXCEPT ![u] =
                        [PrunedTickets[u] EXCEPT !.claims = 1]]
      BY <1>1, <1>4, <2>1, PruneTyped DEF Claim
    <2> QED
      BY <1>1, <1>2, <1>4, <2>2, PruneTyped DEF Claim, Ticket
  <1> QED
    BY <1>3, <1>4

(* A released claim leaves a ticket or a tombstone. *)
LEMMA ReleaseTyped ==
  ASSUME GateOK, NEW u \in Uuids, Release(u)
  PROVE  /\ tickets' \in [Uuids -> Ticket \cup {None}]
         /\ used' \in [Uuids -> 0..PairTimeout \cup {None}]
  <1>1. CASE PrunedTickets[u] # None /\ PrunedTickets[u].claims > 0
    <2>1. PrunedTickets[u] \in Ticket
      BY <1>1, PruneTyped
    <2>2. [PrunedTickets[u] EXCEPT !.claims = 0] \in Ticket
      BY <2>1 DEF Ticket
    <2>3. PrunedTickets[u].claims - 1 = 0
      BY <1>1, <2>1 DEF Ticket
    <2>4. tickets' = [PrunedTickets EXCEPT ![u] =
                        [PrunedTickets[u] EXCEPT !.claims = 0]]
      BY <1>1, <2>3, PruneTyped DEF Release
    <2> QED
      BY <2>2, <2>4, PruneTyped DEF Release
  <1>2. CASE ~(PrunedTickets[u] # None /\ PrunedTickets[u].claims > 0)
    BY <1>2, PruneTyped DEF Release
  <1> QED
    BY <1>1, <1>2

(* The steps of the gate keep its variables well typed. *)
LEMMA GateKept ==
  ASSUME ServerTypeOK, GateOK, NEW c \in Conns, Gate(c)
  PROVE  GateOK' /\ GateMoves
  <1>0. /\ \A d \in Conns : pc[d] \in AskedPC => req[d] \in Uuids
        /\ \A u \in Uuids : \A d \in waiters[u] :
             d \in Conns /\ pc[d] = "blocked" /\ req[d] = u
    BY DEF GateOK
  <1> DEFINE Others == \A d \in Conns : d # c => pc'[d] = pc[d]
             Rest == /\ waiters' \in [Uuids -> SUBSET Conns]
                     /\ req' = req /\ issued' = issued
                     /\ elapsed' \in [Conns -> 0..(PairTimeout + 1)]
                     /\ claimed' \in [Conns -> 0..MaxTickets]
                     /\ \A u \in Uuids : \A d \in waiters'[u] : d \in waiters[u]
             Regs == /\ tickets' \in [Uuids -> Ticket \cup {None}]
                     /\ used' \in [Uuids -> 0..PairTimeout \cup {None}]
  <1>1. ASSUME NEW label \in GatePC \ {"reading"}, Goto(c, label),
               pc[c] \in BeforeOutcome \ {"reading"},
               Regs, Rest, pc[c] # "blocked" \/ \A u \in Uuids : c \notin waiters'[u]
        PROVE  GateOK' /\ GateMoves
    <2>1. /\ pc' \in [Conns -> ServerPC] /\ pc'[c] = label /\ Others
          /\ \A d \in Conns : \/ pc'[d] = pc[d]
                              \/ pc[d] \in BeforeOutcome /\ pc'[d] \in GatePC \ {"reading"}
      BY <1>1, GotoMoves DEF BeforeOutcome
    <2>2. GateMoves
      BY <1>1, <2>1 DEF GateMoves
    <2>3. \A d \in Conns : pc'[d] \in AskedPC => req'[d] # None
      BY <1>1, <2>1 DEF GateOK, AskedPC, BeforeOutcome, GatePC, ServerPC
    <2>4. \A u \in Uuids : \A d \in waiters'[u] : pc'[d] = "blocked" /\ req'[d] = u
      BY <1>0, <1>1, <2>1
    <2> QED
      BY <1>1, <2>2, <2>3, <2>4 DEF GateOK
  <1>2. pc[c] \in AskedPC => req[c] \in Uuids
    BY <1>0
  <1>3. CASE FirstClaim(c)
    <2>1. pc[c] = "claiming" /\ req[c] \in Uuids
      BY <1>2, <1>3 DEF FirstClaim, AskedPC, ServerPC, GatePC
    <2>2. CASE CanClaim(req[c]) /\ Claim(req[c]) /\ Goto(c, "claimed")
               /\ claimed' = [claimed EXCEPT ![c] = PrunedTickets[req[c]].serial]
      <3>1. Regs /\ PrunedTickets[req[c]].serial \in 1..MaxTickets
        BY <2>1, <2>2, ClaimTyped
      <3>2. Rest
        BY <1>3, <2>2, <3>1, CapAssumption DEF FirstClaim, GateOK
      <3> QED
        BY <1>1, <2>1, <2>2, <3>1, <3>2 DEF BeforeOutcome, GatePC
    <2>3. CASE PruneOnly /\ Goto(c, "acquiring") /\ UNCHANGED claimed
      <3>1. Regs /\ Rest
        BY <1>3, <2>3, PruneTyped DEF FirstClaim, GateOK, PruneOnly
      <3> QED
        BY <1>1, <2>1, <2>3, <3>1 DEF BeforeOutcome, GatePC
    <2> QED
      BY <1>3, <2>2, <2>3 DEF FirstClaim
  <1>4. CASE AcquireWait(c)
    <2>1. Regs /\ Rest
      BY <1>4, TimeAssumption DEF AcquireWait, GateOK, regVars, capVars
    <2>2. pc[c] = "acquiring" /\ (Goto(c, "checking") \/ Goto(c, "rejected"))
      BY <1>4 DEF AcquireWait
    <2> QED
      BY <1>1, <2>1, <2>2 DEF BeforeOutcome, GatePC
  <1>5. CASE CheckWait(c)
    <2>1. pc[c] = "checking" /\ req[c] \in Uuids /\ Regs
      BY <1>2, <1>5, PruneTyped DEF CheckWait, AskedPC, ServerPC, GatePC, PruneOnly
    <2>2. CASE UNCHANGED waiters /\ (Goto(c, "leaving_no") \/ Goto(c, "reclaiming"))
      <3>1. Rest
        BY <1>5, <2>2 DEF CheckWait, GateOK
      <3> QED
        BY <1>1, <2>1, <2>2, <3>1 DEF BeforeOutcome, GatePC
    <2>3. CASE /\ Goto(c, "blocked")
               /\ waiters' = [waiters EXCEPT ![req[c]] = @ \cup {c}]
      <3>1. /\ pc' \in [Conns -> ServerPC] /\ pc'[c] = "blocked" /\ Others
            /\ \A d \in Conns : \/ pc'[d] = pc[d]
                                \/ pc[d] \in BeforeOutcome /\ pc'[d] \in GatePC \ {"reading"}
        <4>1. "blocked" \in GatePC \ {"reading"} /\ pc[c] \in BeforeOutcome
          BY <2>1 DEF GatePC, BeforeOutcome
        <4> QED
          BY <2>3, <4>1, GotoMoves
      <3>2. /\ req' = req /\ issued' = issued /\ elapsed' = elapsed /\ claimed' = claimed
            /\ waiters' \in [Uuids -> SUBSET Conns]
        BY <1>5, <2>1, <2>3 DEF CheckWait, GateOK
      <3>3. GateMoves
        BY <3>1, <3>2 DEF GateMoves
      <3>4. \A d \in Conns : pc'[d] \in AskedPC => req'[d] # None
        BY <2>1, <3>1, <3>2, NoneAssumption DEF GateOK
      <3>5. \A u \in Uuids : \A d \in waiters'[u] : pc'[d] = "blocked" /\ req'[d] = u
        BY <1>0, <2>1, <2>3, <3>1, <3>2 DEF GateOK
      <3> QED
        BY <2>1, <3>2, <3>3, <3>4, <3>5 DEF GateOK
    <2> QED
      BY <1>5, <2>2, <2>3 DEF CheckWait
  <1>6. CASE Wake(c)
    <2>1. Regs /\ Rest /\ pc[c] = "woken" /\ Goto(c, "checking")
      BY <1>6 DEF Wake, GateOK, regVars
    <2> QED
      BY <1>1, <2>1 DEF BeforeOutcome, GatePC
  <1>7. CASE WaitExpires(c)
    <2>1. /\ pc[c] \in {"blocked", "woken"} /\ req[c] \in Uuids
          /\ Goto(c, "leaving_no") /\ Regs
          /\ waiters' = [waiters EXCEPT ![req[c]] = IF c \in @ THEN {} ELSE @]
      BY <1>2, <1>7 DEF WaitExpires, RemoveWaiter, AskedPC, ServerPC, GatePC, GateOK
    <2>2. Rest
      BY <1>7, <2>1 DEF WaitExpires, GateOK
    <2>3. \A u \in Uuids : c \notin waiters'[u]
      BY <1>0, <2>1 DEF GateOK
    <2> QED
      BY <1>1, <2>1, <2>2, <2>3 DEF BeforeOutcome, GatePC
  <1>8. CASE SecondClaim(c)
    <2>1. pc[c] = "reclaiming" /\ req[c] \in Uuids
      BY <1>2, <1>8 DEF SecondClaim, AskedPC, ServerPC, GatePC
    <2>2. CASE CanClaim(req[c]) /\ Claim(req[c]) /\ Goto(c, "leaving_ok")
               /\ claimed' = [claimed EXCEPT ![c] = PrunedTickets[req[c]].serial]
      <3>1. Regs /\ PrunedTickets[req[c]].serial \in 1..MaxTickets
        BY <2>1, <2>2, ClaimTyped
      <3>2. Rest
        BY <1>8, <2>2, <3>1, CapAssumption DEF SecondClaim, GateOK
      <3> QED
        BY <1>1, <2>1, <2>2, <3>1, <3>2 DEF BeforeOutcome, GatePC
    <2>3. CASE PruneOnly /\ Goto(c, "leaving_no") /\ UNCHANGED claimed
      <3>1. Regs /\ Rest
        BY <1>8, <2>3, PruneTyped DEF SecondClaim, GateOK, PruneOnly
      <3> QED
        BY <1>1, <2>1, <2>3, <3>1 DEF BeforeOutcome, GatePC
    <2> QED
      BY <1>8, <2>2, <2>3 DEF SecondClaim
  <1>9. CASE LeaveWait(c)
    <2>1. Regs /\ Rest
      BY <1>9, TimeAssumption DEF LeaveWait, GateOK, regVars
    <2>2. /\ pc[c] \in {"leaving_ok", "leaving_no"}
          /\ Goto(c, "claimed") \/ Goto(c, "rejected")
      BY <1>9 DEF LeaveWait
    <2> QED
      BY <1>1, <2>1, <2>2 DEF BeforeOutcome, GatePC
  <1> QED
    BY <1>3, <1>4, <1>5, <1>6, <1>7, <1>8, <1>9 DEF Gate

(* So do signal, a client's first message and the operator. *)
LEMMA GateStepKept ==
  ASSUME ServerTypeOK, GateOK, GateStep
  PROVE  GateOK' /\ GateMoves
  <1>1. CASE \E c \in Conns : Gate(c)
    BY <1>1, GateKept
  <1>2. ASSUME NEW u \in Uuids, NEW pair \in Pairs, Authorize(u, pair)
        PROVE  GateOK' /\ GateMoves
    <2>1. req' = req /\ elapsed' = elapsed /\ claimed' = claimed
      BY <1>2 DEF Authorize
    <2>2. CASE tickets' = PrunedTickets /\ UNCHANGED <<waiters, issued, pc>>
      <3>1. GateMoves
        BY <2>1, <2>2 DEF GateMoves, ServerTypeOK
      <3> QED
        BY <1>2, <2>1, <2>2, <3>1, PruneTyped DEF GateOK, Authorize
    <2>3. CASE /\ issued[u] < MaxTickets
               /\ tickets' = [PrunedTickets EXCEPT ![u] =
                    [initiator |-> pair[1], target |-> pair[2],
                     ttl |-> PairTimeout, claims |-> 0, serial |-> issued[u] + 1]]
               /\ issued' = [issued EXCEPT ![u] = @ + 1]
               /\ SignalWaiters({u})
      <3>1. issued[u] \in 0..MaxTickets /\ issued[u] + 1 \in 1..MaxTickets
        BY <2>3, CapAssumption DEF GateOK
      <3>2. [initiator |-> pair[1], target |-> pair[2], ttl |-> PairTimeout,
             claims |-> 0, serial |-> issued[u] + 1] \in Ticket
        <4>1. pair[1] \in Peers /\ pair[2] \in Peers
          BY PairAssumption
        <4> QED
          BY <3>1, <4>1, TimeAssumption DEF Ticket
      <3>3. /\ tickets' \in [Uuids -> Ticket \cup {None}]
            /\ issued' \in [Uuids -> 0..MaxTickets]
            /\ used' \in [Uuids -> 0..PairTimeout \cup {None}]
        BY <1>2, <2>3, <3>1, <3>2, PruneTyped, CapAssumption DEF GateOK, Authorize
      <3>4. /\ waiters' \in [Uuids -> SUBSET Conns]
            /\ pc' \in [Conns -> ServerPC]
            /\ \A d \in Conns : pc'[d] = pc[d] \/ (pc[d] = "blocked" /\ pc'[d] = "woken")
            /\ \A v \in Uuids : \A c \in waiters'[v] : pc'[c] = pc[c] /\ c \in waiters[v]
        <4>1. {u} \in SUBSET Uuids
          OBVIOUS
        <4> QED
          BY <2>3, <4>1, SignalMoves
      <3>5. GateMoves
        BY <2>1, <3>4 DEF GateMoves, BeforeOutcome, GatePC
      <3>6. \A d \in Conns : pc'[d] \in AskedPC => req'[d] # None
        BY <2>1, <3>4 DEF GateOK, AskedPC, ServerPC, GatePC
      <3>7. \A v \in Uuids : \A c \in waiters'[v] : pc'[c] = "blocked" /\ req'[c] = v
        BY <2>1, <3>4 DEF GateOK
      <3> QED
        BY <2>1, <3>3, <3>4, <3>5, <3>6, <3>7 DEF GateOK
    <2> QED
      BY <1>2, <2>2, <2>3 DEF Authorize
  <1>3. ASSUME NEW p \in Peers, RevokeForPeer(p)
        PROVE  GateOK' /\ GateMoves
    <2> DEFINE gone == {u \in Uuids : Involves(PrunedTickets[u], p)}
    <2>1. req' = req /\ elapsed' = elapsed /\ claimed' = claimed /\ issued' = issued
          /\ SignalWaiters(gone)
      BY <1>3 DEF RevokeForPeer
    <2>2. /\ waiters' \in [Uuids -> SUBSET Conns]
          /\ pc' \in [Conns -> ServerPC]
          /\ \A d \in Conns : pc'[d] = pc[d] \/ (pc[d] = "blocked" /\ pc'[d] = "woken")
          /\ \A v \in Uuids : \A c \in waiters'[v] : pc'[c] = pc[c] /\ c \in waiters[v]
      <3>1. gone \in SUBSET Uuids
        OBVIOUS
      <3> HIDE DEF gone
      <3> QED
        BY <2>1, <3>1, SignalMoves
    <2>3. /\ tickets' \in [Uuids -> Ticket \cup {None}]
          /\ used' \in [Uuids -> 0..PairTimeout \cup {None}]
      <3>1. \A u \in gone : PrunedTickets[u].ttl \in 0..PairTimeout
        BY PruneTyped DEF Involves, Ticket
      <3> QED
        BY <1>3, <3>1, PruneTyped DEF RevokeForPeer
    <2>4. GateMoves
      BY <2>1, <2>2 DEF GateMoves, BeforeOutcome, GatePC
    <2>5. \A d \in Conns : pc'[d] \in AskedPC => req'[d] # None
      BY <2>1, <2>2 DEF GateOK, AskedPC, ServerPC, GatePC
    <2>6. \A v \in Uuids : \A c \in waiters'[v] : pc'[c] = "blocked" /\ req'[c] = v
      BY <2>1, <2>2 DEF GateOK
    <2> QED
      BY <2>1, <2>2, <2>3, <2>4, <2>5, <2>6 DEF GateOK
  <1>4. ASSUME NEW c \in Conns, NEW u \in Uuids, Request(c, u)
        PROVE  GateOK' /\ GateMoves
    <2>1. /\ UNCHANGED <<tickets, used, waiters, issued, elapsed, claimed>>
          /\ pc[c] = "reading" /\ Goto(c, "claiming")
          /\ req' = [req EXCEPT ![c] = u]
      BY <1>4 DEF Request, regVars
    <2>2. /\ pc' \in [Conns -> ServerPC] /\ pc'[c] = "claiming"
          /\ \A d \in Conns : d # c => pc'[d] = pc[d]
      BY <2>1 DEF Goto, ServerTypeOK, ServerPC, GatePC
    <2>3. req' \in [Conns -> Uuids \cup {None}] /\ req'[c] = u
          /\ \A d \in Conns : d # c => req'[d] = req[d]
      BY <2>1 DEF GateOK
    <2>4. \A v \in Uuids : \A d \in waiters[v] : d # c
      BY <2>1 DEF GateOK
    <2>5. GateMoves
      BY <2>1, <2>2, <2>3 DEF GateMoves, BeforeOutcome, GatePC
    <2>6. \A d \in Conns : pc'[d] \in AskedPC => req'[d] # None
      BY <2>2, <2>3, NoneAssumption DEF GateOK
    <2>7. \A v \in Uuids : \A d \in waiters'[v] : pc'[d] = "blocked" /\ req'[d] = v
      BY <2>1, <2>2, <2>3, <2>4 DEF GateOK
    <2> QED
      BY <2>1, <2>3, <2>5, <2>6, <2>7 DEF GateOK
  <1>5. ASSUME NEW c \in Conns, BadRequest(c)
        PROVE  GateOK' /\ GateMoves
    <2>1. /\ UNCHANGED <<tickets, used, waiters, issued, elapsed, claimed, req>>
          /\ pc[c] = "reading" /\ Goto(c, "rejected")
      BY <1>5 DEF BadRequest, regVars
    <2>2. /\ pc' \in [Conns -> ServerPC] /\ pc'[c] = "rejected"
          /\ \A d \in Conns : d # c => pc'[d] = pc[d]
      BY <2>1 DEF Goto, ServerTypeOK, ServerPC, GatePC
    <2>4. \A v \in Uuids : \A d \in waiters[v] : d # c
      BY <2>1 DEF GateOK
    <2>5. GateMoves
      BY <2>1, <2>2 DEF GateMoves, BeforeOutcome, GatePC
    <2>6. \A d \in Conns : pc'[d] \in AskedPC => req'[d] # None
      BY <2>1, <2>2 DEF GateOK, AskedPC
    <2>7. \A v \in Uuids : \A d \in waiters'[v] : pc'[d] = "blocked" /\ req'[d] = v
      BY <2>1, <2>2, <2>4 DEF GateOK
    <2> QED
      BY <2>1, <2>5, <2>6, <2>7 DEF GateOK
  <1>6. CASE Stop
    BY <1>6 DEF Stop, GateOK, GateMoves, regVars, connVars, ServerTypeOK
  <1> QED
    BY <1>1, <1>2, <1>3, <1>4, <1>5, <1>6 DEF GateStep

-----------------------------------------------------------------------------
(* What a handler that moves on by itself leaves alone. *)
LEMMA MoveFacts ==
  ASSUME ServerTypeOK, GateOK, NEW c \in Conns, NEW label \in ServerPC,
         Move(c, label), pc[c] # "blocked",
         label \in AskedPC => pc[c] \in AskedPC
  PROVE  /\ GateOK'
         /\ pc' \in [Conns -> ServerPC]
         /\ pc'[c] = label
         /\ \A d \in Conns : d # c => pc'[d] = pc[d]
         /\ UNCHANGED <<regVars, req, elapsed, claimed>>
  <1>1. /\ pc' \in [Conns -> ServerPC]
        /\ pc'[c] = label
        /\ \A d \in Conns : d # c => pc'[d] = pc[d]
    BY DEF Move, Goto, ServerTypeOK
  <1>2. UNCHANGED <<tickets, used, waiters, issued, age, req, elapsed, claimed>>
    BY DEF Move, regVars
  <1>3. \A d \in Conns : pc'[d] \in AskedPC => req'[d] # None
    BY <1>1, <1>2 DEF GateOK
  <1>4. \A u \in Uuids : \A d \in waiters'[u] : pc'[d] = "blocked" /\ req'[d] = u
    BY <1>1, <1>2 DEF GateOK
  <1> QED
    BY <1>1, <1>2, <1>3, <1>4 DEF GateOK, regVars

(* The same when a connection leaves the model. *)
LEMMA DropFacts ==
  ASSUME ServerTypeOK, GateOK, NEW c \in Conns \cup {None},
         NEW label \in {"closed", "handed"},
         NEW gone \in SUBSET Conns, MoveAndDrop(c, label, gone),
         \A d \in Conns : d = c \/ d \in gone => pc[d] # "blocked"
  PROVE  /\ GateOK'
         /\ pc' \in [Conns -> ServerPC]
         /\ \A d \in Conns : pc'[d] = IF d \in gone THEN "idle"
                                      ELSE IF d = c THEN label ELSE pc[d]
         /\ \A d \in Conns : d \notin gone =>
              req'[d] = req[d] /\ claimed'[d] = claimed[d] /\ elapsed'[d] = elapsed[d]
         /\ \A d \in gone : req'[d] = None /\ claimed'[d] = 0 /\ elapsed'[d] = 0
         /\ UNCHANGED regVars
  <1>1. /\ pc' \in [Conns -> ServerPC]
        /\ \A d \in Conns : pc'[d] = IF d \in gone THEN "idle"
                                     ELSE IF d = c THEN label ELSE pc[d]
    BY DEF MoveAndDrop, ServerTypeOK, ServerPC
  <1>2. UNCHANGED <<tickets, used, waiters, issued, age>>
    BY DEF MoveAndDrop, regVars
  <1>3. /\ \A d \in Conns : d \notin gone =>
              req'[d] = req[d] /\ claimed'[d] = claimed[d] /\ elapsed'[d] = elapsed[d]
        /\ \A d \in gone : req'[d] = None /\ claimed'[d] = 0 /\ elapsed'[d] = 0
    BY DEF MoveAndDrop
  <1>4. /\ req' \in [Conns -> Uuids \cup {None}]
        /\ claimed' \in [Conns -> 0..MaxTickets]
        /\ elapsed' \in [Conns -> 0..(PairTimeout + 1)]
    BY CapAssumption, TimeAssumption DEF MoveAndDrop, GateOK
  <1>5. \A d \in Conns : pc'[d] \in AskedPC => req'[d] # None
    BY <1>1, <1>3 DEF GateOK, AskedPC
  <1>6. \A u \in Uuids : \A d \in waiters'[u] : pc'[d] = "blocked" /\ req'[d] = u
    BY <1>1, <1>2, <1>3 DEF GateOK
  <1> QED
    BY <1>1, <1>2, <1>3, <1>4, <1>5, <1>6 DEF GateOK, regVars

(* Closing both sockets of a session. *)
LEMMA CloseFacts ==
  ASSUME ServerTypeOK, GateOK, NEW c \in Conns, CloseBoth(c, "closed"),
         pc[c] \in OwnerPC \cup {"freeing"}
  PROVE  /\ GateOK'
         /\ pc' \in [Conns -> ServerPC]
         /\ pc'[c] = "closed"
         /\ other[c] \in Conns
         /\ \A d \in Conns : d # c =>
              IF d = other[c] /\ pc[d] = "handed"
                THEN pc'[d] = "idle" /\ req'[d] = None /\ claimed'[d] = 0
                     /\ elapsed'[d] = 0
                ELSE pc'[d] = pc[d] /\ req'[d] = req[d] /\ claimed'[d] = claimed[d]
                     /\ elapsed'[d] = elapsed[d]
         /\ req'[c] = req[c] /\ claimed'[c] = claimed[c] /\ elapsed'[c] = elapsed[c]
         /\ UNCHANGED regVars
         /\ sock' \in [Conns -> BOOLEAN]
         /\ other' \in [Conns -> Conns \cup {None}]
         /\ other'[c] = None
         /\ \A d \in Conns : d # c => other'[d] = other[d]
  <1>1. other[c] \in Conns
    BY DEF ServerTypeOK
  <1>2. /\ Handed(other[c]) \in SUBSET Conns
        /\ c \notin Handed(other[c])
        /\ \A d \in Conns : d \in Handed(other[c]) <=> d = other[c] /\ pc[d] = "handed"
    BY <1>1 DEF Handed, OwnerPC
  <1>3. MoveAndDrop(c, "closed", Handed(other[c]))
    BY DEF CloseBoth
  <1>4. \A d \in Conns : d = c \/ d \in Handed(other[c]) => pc[d] # "blocked"
    BY <1>2 DEF OwnerPC
  <1>5. /\ sock' \in [Conns -> BOOLEAN]
        /\ other' \in [Conns -> Conns \cup {None}]
        /\ other'[c] = None
        /\ \A d \in Conns : d # c => other'[d] = other[d]
    BY DEF CloseBoth, ServerTypeOK
  <1>6. /\ GateOK'
        /\ pc' \in [Conns -> ServerPC]
        /\ \A d \in Conns : pc'[d] = IF d \in Handed(other[c]) THEN "idle"
                                     ELSE IF d = c THEN "closed" ELSE pc[d]
        /\ \A d \in Conns : d \notin Handed(other[c]) =>
             req'[d] = req[d] /\ claimed'[d] = claimed[d] /\ elapsed'[d] = elapsed[d]
        /\ \A d \in Handed(other[c]) :
             req'[d] = None /\ claimed'[d] = 0 /\ elapsed'[d] = 0
        /\ UNCHANGED regVars
    BY <1>2, <1>3, <1>4, DropFacts
  <1> QED
    BY <1>1, <1>2, <1>5, <1>6

(* A limiter stays a function into the naturals. *)
LEMMA LimiterTyped ==
  ASSUME NEW active \in [Ips -> Nat], NEW ip \in Ips
  PROVE  Freed(active, ip) \in [Ips -> Nat] /\ Taken(active, ip) \in [Ips -> Nat]
  BY DEF Freed, Taken

(* The number of a set of connections. *)
LEMMA CountTyped ==
  ASSUME NEW S \in SUBSET Conns
  PROVE  IsFiniteSet(S) /\ Cardinality(S) \in Nat
  BY ConnsAssumption, FS_Subset, FS_CardinalityType

(* What the handler of c leaves alone beyond the gate: every other         *)
(* connection, except that closing a session drops the connection it had   *)
(* taken over.                                                             *)
PairFrame(c) ==
  /\ pc' \in [Conns -> ServerPC]
  /\ \A d \in Conns : d # c =>
       \/ /\ pc'[d] = pc[d]
          /\ req'[d] = req[d] /\ claimed'[d] = claimed[d] /\ elapsed'[d] = elapsed[d]
       \/ /\ d = other[c] /\ pc[d] = "handed" /\ pc'[d] = "idle"
          /\ req'[d] = None /\ claimed'[d] = 0 /\ elapsed'[d] = 0
  /\ \A d \in Conns : d # c => other'[d] = other[d]
  /\ \A d \in Conns : pc'[d] \in OwnerPC \cup {"freeing"} <=> other'[d] # None
  /\ UNCHANGED <<sweep, waiters, issued>>

(* A step that only moves c, and neither picks up nor lets go. *)
LEMMA MoveFrame ==
  ASSUME ServerTypeOK, GateOK, NEW c \in Conns, NEW label \in ServerPC,
         Move(c, label), UNCHANGED <<other, sweep>>, pc[c] # "blocked",
         label \in AskedPC => pc[c] \in AskedPC,
         pc[c] \in OwnerPC \cup {"freeing"} <=> label \in OwnerPC \cup {"freeing"}
  PROVE  GateOK' /\ PairFrame(c)
  <1>1. /\ GateOK'
        /\ pc' \in [Conns -> ServerPC]
        /\ pc'[c] = label
        /\ \A d \in Conns : d # c => pc'[d] = pc[d]
        /\ UNCHANGED <<regVars, req, elapsed, claimed>>
    BY MoveFacts
  <1>2. \A d \in Conns : pc'[d] \in OwnerPC \cup {"freeing"} <=> other'[d] # None
    BY <1>1 DEF ServerTypeOK
  <1> QED
    BY <1>1, <1>2 DEF PairFrame, regVars

(* Closing a session. *)
LEMMA CloseFrame ==
  ASSUME ServerTypeOK, GateOK, NEW c \in Conns, CloseBoth(c, "closed"),
         pc[c] \in OwnerPC \cup {"freeing"}, UNCHANGED sweep
  PROVE  GateOK' /\ PairFrame(c)
  <1>1. /\ GateOK'
        /\ pc' \in [Conns -> ServerPC]
        /\ pc'[c] = "closed"
        /\ \A d \in Conns : d # c =>
             IF d = other[c] /\ pc[d] = "handed"
               THEN pc'[d] = "idle" /\ req'[d] = None /\ claimed'[d] = 0
                    /\ elapsed'[d] = 0
               ELSE pc'[d] = pc[d] /\ req'[d] = req[d] /\ claimed'[d] = claimed[d]
                    /\ elapsed'[d] = elapsed[d]
        /\ UNCHANGED regVars
        /\ other'[c] = None
        /\ \A d \in Conns : d # c => other'[d] = other[d]
    BY CloseFacts
  <1>2. \A d \in Conns : pc'[d] \in OwnerPC \cup {"freeing"} <=> other'[d] # None
    BY <1>1 DEF ServerTypeOK, OwnerPC
  <1> QED
    BY <1>1, <1>2 DEF PairFrame, regVars

(* The handlers beyond the gate keep the gate's variables well typed. *)
LEMMA PairKept ==
  ASSUME ServerTypeOK, GateOK, NEW c \in Conns, PairStep(c)
  PROVE  GateOK' /\ PairFrame(c)
  <1> USE DEF ServerPC, GatePC, AskedPC, OwnerPC
  <1>1. CASE Accept(c)
    <2>1. Move(c, "reading") /\ UNCHANGED <<other, sweep>> /\ pc[c] = "idle"
      BY <1>1 DEF Accept
    <2> QED
      BY <2>1, MoveFrame
  <1>2. CASE CloseRejected(c)
    <2>1. Move(c, "closed") /\ UNCHANGED <<other, sweep>> /\ pc[c] = "rejected"
      BY <1>2 DEF CloseRejected
    <2> QED
      BY <2>1, MoveFrame
  <1>3. CASE Return(c)
    <2> DEFINE gone == IF sock[c] THEN {} ELSE {c}
    <2>1. /\ MoveAndDrop(c, "handed", gone) /\ pc[c] = "closed"
          /\ UNCHANGED <<other, sweep>>
      BY <1>3 DEF Return, pairVars
    <2>2. gone \in SUBSET Conns /\ gone \subseteq {c}
      OBVIOUS
    <2> HIDE DEF gone
    <2>3. \A d \in Conns : d = c \/ d \in gone => pc[d] # "blocked"
      BY <2>1, <2>2
    <2>4. /\ GateOK'
          /\ pc' \in [Conns -> ServerPC]
          /\ \A d \in Conns : pc'[d] = IF d \in gone THEN "idle"
                                       ELSE IF d = c THEN "handed" ELSE pc[d]
          /\ \A d \in Conns : d \notin gone =>
               req'[d] = req[d] /\ claimed'[d] = claimed[d] /\ elapsed'[d] = elapsed[d]
          /\ UNCHANGED regVars
      BY <2>1, <2>2, <2>3, DropFacts
    <2>5. \A d \in Conns : d # c =>
            /\ pc'[d] = pc[d]
            /\ req'[d] = req[d] /\ claimed'[d] = claimed[d] /\ elapsed'[d] = elapsed[d]
      BY <2>2, <2>4
    <2>6. \A d \in Conns : pc'[d] \in OwnerPC \cup {"freeing"} <=> other'[d] # None
      BY <2>1, <2>4, <2>5 DEF ServerTypeOK
    <2> QED
      BY <2>1, <2>4, <2>5, <2>6 DEF PairFrame, regVars
  <1>4. CASE LoadOrStore(c)
    <2>1. pc[c] = "claimed" /\ UNCHANGED sweep /\ other[c] = None
      BY <1>4 DEF LoadOrStore, ServerTypeOK
    <2>2. CASE Move(c, "parked") /\ UNCHANGED other
      BY <2>1, <2>2, MoveFrame
    <2>3. CASE /\ Move(c, "loaded") /\ pending[req[c]] # None
               /\ other' = [other EXCEPT ![c] = pending[req[c]]]
      <3>1. /\ GateOK'
            /\ pc' \in [Conns -> ServerPC]
            /\ pc'[c] = "loaded"
            /\ \A d \in Conns : d # c => pc'[d] = pc[d]
            /\ UNCHANGED <<regVars, req, elapsed, claimed>>
        BY <2>1, <2>3, MoveFacts
      <3>2. other'[c] # None /\ \A d \in Conns : d # c => other'[d] = other[d]
        BY <2>3 DEF ServerTypeOK
      <3>3. \A d \in Conns : pc'[d] \in OwnerPC \cup {"freeing"} <=> other'[d] # None
        BY <3>1, <3>2 DEF ServerTypeOK
      <3> QED
        BY <2>1, <3>1, <3>2, <3>3 DEF PairFrame, regVars
    <2> QED
      BY <1>4, <2>2, <2>3 DEF LoadOrStore
  <1>5. CASE Paired(c)
    <2>1. Move(c, "closed") /\ UNCHANGED <<other, sweep>> /\ pc[c] = "parked"
      BY <1>5 DEF Paired
    <2> QED
      BY <2>1, MoveFrame
  <1>6. CASE TimedOut(c)
    <2>1. /\ Move(c, "closed") \/ Move(c, "expired")
          /\ UNCHANGED <<other, sweep>> /\ pc[c] = "parked"
      BY <1>6 DEF TimedOut
    <2> QED
      BY <2>1, MoveFrame
  <1>7. CASE TimeoutDelete(c)
    <2>1. Move(c, "undone") /\ UNCHANGED <<other, sweep>> /\ pc[c] = "expired"
      BY <1>7 DEF TimeoutDelete
    <2> QED
      BY <2>1, MoveFrame
  <1>8. CASE TimeoutRelease(c)
    <2>1. /\ pc[c] = "undone" /\ req[c] \in Uuids
          /\ Release(req[c]) /\ Goto(c, "closed")
          /\ claimed' = [claimed EXCEPT ![c] = 0]
          /\ UNCHANGED <<waiters, issued, req, elapsed, other, sweep>>
      BY <1>8 DEF TimeoutRelease, GateOK
    <2>2. /\ pc' \in [Conns -> ServerPC] /\ pc'[c] = "closed"
          /\ \A d \in Conns : d # c => pc'[d] = pc[d]
      BY <2>1 DEF Goto, ServerTypeOK
    <2>3. /\ tickets' \in [Uuids -> Ticket \cup {None}]
          /\ used' \in [Uuids -> 0..PairTimeout \cup {None}]
      BY <2>1, ReleaseTyped
    <2>4. /\ claimed' \in [Conns -> 0..MaxTickets]
          /\ \A d \in Conns : d # c => claimed'[d] = claimed[d]
      BY <2>1, CapAssumption DEF GateOK
    <2>5. \A d \in Conns : pc'[d] \in AskedPC => req'[d] # None
      BY <2>1, <2>2 DEF GateOK
    <2>6. \A u \in Uuids : \A d \in waiters'[u] : pc'[d] = "blocked" /\ req'[d] = u
      BY <2>1, <2>2 DEF GateOK
    <2>7. \A d \in Conns : pc'[d] \in OwnerPC \cup {"freeing"} <=> other'[d] # None
      BY <2>1, <2>2 DEF ServerTypeOK
    <2>8. GateOK'
      BY <2>1, <2>3, <2>4, <2>5, <2>6 DEF GateOK
    <2> QED
      BY <2>1, <2>2, <2>4, <2>7, <2>8 DEF PairFrame
  <1>9. CASE DeleteEntry(c)
    <2>1. Move(c, "unmapped") /\ UNCHANGED <<other, sweep>> /\ pc[c] = "loaded"
      BY <1>9 DEF DeleteEntry
    <2> QED
      BY <2>1, MoveFrame
  <1>10. CASE CloseDone(c)
    <2>1. Move(c, "slot1") /\ UNCHANGED <<other, sweep>> /\ pc[c] = "unmapped"
      BY <1>10 DEF CloseDone
    <2> QED
      BY <2>1, MoveFrame
  <1>11. CASE AcquireFirst(c)
    <2>1. /\ pc[c] = "slot1" /\ UNCHANGED sweep
          /\ CloseBoth(c, "closed") \/ (Move(c, "slot2") /\ UNCHANGED other)
      BY <1>11 DEF AcquireFirst, AcquireSession
    <2> QED
      BY <2>1, MoveFrame, CloseFrame
  <1>12. CASE AcquireSecond(c)
    <2>1. /\ pc[c] = "slot2" /\ UNCHANGED sweep
          /\ CloseBoth(c, "closed") \/ (Move(c, "starting") /\ UNCHANGED other)
      BY <1>12 DEF AcquireSecond, AcquireSession
    <2> QED
      BY <2>1, MoveFrame, CloseFrame
  <1>13. CASE StartSession(c)
    <2>1. Move(c, "copying") /\ UNCHANGED <<other, sweep>> /\ pc[c] = "starting"
      BY <1>13 DEF StartSession, pairVars
    <2> QED
      BY <2>1, MoveFrame
  <1>14. CASE EndSession(c)
    <2>1. Move(c, "freeing") /\ UNCHANGED <<other, sweep>> /\ pc[c] = "copying"
      BY <1>14 DEF EndSession
    <2> QED
      BY <2>1, MoveFrame
  <1>15. CASE FreeSession(c)
    <2>1. CloseBoth(c, "closed") /\ UNCHANGED sweep /\ pc[c] = "freeing"
      BY <1>15 DEF FreeSession
    <2> QED
      BY <2>1, CloseFrame
  <1> QED
    BY <1>1, <1>2, <1>3, <1>4, <1>5, <1>6, <1>7, <1>8, <1>9, <1>10, <1>11,
       <1>12, <1>13, <1>14, <1>15 DEF PairStep

(* What the sweep and the clock leave alone: every connection, except that *)
(* closing a connection whose handler has returned drops it.               *)
SideStep ==
  \/ \E u \in Uuids : SweepVisit(u)
  \/ SweepDelete
  \/ SweepRelease
  \/ SweepClose
  \/ ServerTick

SideFrame ==
  /\ pc' \in [Conns -> ServerPC]
  /\ \A d \in Conns :
       \/ pc'[d] = pc[d] /\ req'[d] = req[d]
       \/ /\ SweepClose /\ d = sweep.conn /\ pc[d] = "handed" /\ pc'[d] = "idle"
          /\ req'[d] = None /\ claimed'[d] = 0 /\ elapsed'[d] = 0
  /\ UNCHANGED <<other, waiters, issued, limitVars>>

(* The sweep and the clock leave the variables of the gate well formed. *)
LEMMA SideKept ==
  ASSUME ServerTypeOK, GateOK, SweepOK, SideStep
  PROVE  GateOK' /\ SideFrame
  <1>1. CASE (\E u \in Uuids : SweepVisit(u)) \/ SweepDelete
    <2>1. UNCHANGED vars /\ UNCHANGED <<other, limitVars>>
      BY <1>1 DEF SweepVisit, SweepDelete, pairVars
    <2> QED
      BY <2>1 DEF vars, regVars, connVars, GateOK, SideFrame, ServerTypeOK
  <1>2. CASE SweepRelease
    <2>1. /\ sweep.conn \in Conns /\ sweep.uuid \in Uuids
          /\ Release(sweep.uuid)
          /\ claimed' = [claimed EXCEPT ![sweep.conn] = 0]
          /\ UNCHANGED <<waiters, issued, pc, req, elapsed, other, limitVars>>
      BY <1>2 DEF SweepRelease, SweepOK, pairVars
    <2>2. /\ tickets' \in [Uuids -> Ticket \cup {None}]
          /\ used' \in [Uuids -> 0..PairTimeout \cup {None}]
      BY <2>1, ReleaseTyped
    <2>3. claimed' \in [Conns -> 0..MaxTickets]
      BY <2>1, CapAssumption DEF GateOK
    <2> QED
      BY <2>1, <2>2, <2>3 DEF GateOK, SideFrame, ServerTypeOK
  <1>3. CASE SweepClose
    <2> DEFINE gone == Handed(sweep.conn)
    <2>1. /\ sweep.conn \in Conns
          /\ MoveAndDrop(None, "closed", gone)
          /\ UNCHANGED <<other, limitVars>>
      BY <1>3 DEF SweepClose, SweepOK
    <2>2. /\ gone \in SUBSET Conns
          /\ \A d \in Conns : d \in gone
                                <=> d = sweep.conn /\ pc[d] = "handed"
      BY <2>1 DEF Handed
    <2> HIDE DEF gone
    <2>3. \A d \in Conns : d = None \/ d \in gone => pc[d] # "blocked"
      BY <2>2, NoneAssumption
    <2>4. /\ GateOK'
          /\ pc' \in [Conns -> ServerPC]
          /\ \A d \in Conns : pc'[d] = IF d \in gone THEN "idle"
                                       ELSE IF d = None THEN "closed" ELSE pc[d]
          /\ \A d \in Conns : d \notin gone => req'[d] = req[d]
          /\ \A d \in gone :
               req'[d] = None /\ claimed'[d] = 0 /\ elapsed'[d] = 0
          /\ UNCHANGED regVars
      BY <2>1, <2>2, <2>3, DropFacts
    <2> QED
      BY <1>3, <2>1, <2>2, <2>4, NoneAssumption DEF SideFrame, regVars
  <1>4. CASE ServerTick
    <2>1. /\ UNCHANGED <<waiters, issued, pc, req, claimed, other, limitVars>>
          /\ Advance(WaitingPC \cup {"claimed", "parked", "expired"})
      BY <1>4 DEF ServerTick, Advance
    <2>2. tickets' \in [Uuids -> Ticket \cup {None}]
      <3>1. ASSUME NEW t \in Ticket, t.ttl > 0
            PROVE  [t EXCEPT !.ttl = @ - 1] \in Ticket
        BY <3>1, TimeAssumption DEF Ticket
      <3>2. \A u \in Uuids : tickets[u] # None => tickets[u] \in Ticket
        BY DEF GateOK
      <3> QED
        BY <2>1, <3>1, <3>2 DEF Advance
    <2>3. used' \in [Uuids -> 0..PairTimeout \cup {None}]
      BY <2>1, TimeAssumption, NoneAssumption DEF Advance, GateOK
    <2>4. elapsed' \in [Conns -> 0..(PairTimeout + 1)]
      BY <2>1, TimeAssumption DEF Advance, GateOK, Min2
    <2> QED
      BY <2>1, <2>2, <2>3, <2>4 DEF GateOK, SideFrame, ServerTypeOK
  <1> QED
    BY <1>1, <1>2, <1>3, <1>4 DEF SideStep

-----------------------------------------------------------------------------
(* The sweep knows a connection and a UUID whenever it is not at rest. *)
LEMMA SweepTyped ==
  ASSUME ServerTypeOK, GateOK, SweepOK, ServerNext
  PROVE  /\ SweepOK'
         /\ sweep' \in [at : {"rest", "visited", "deleted", "released"},
                        conn : Conns \cup {None}, uuid : Uuids \cup {None}]
  <1>1. CASE UNCHANGED sweep
    BY <1>1 DEF ServerTypeOK, SweepOK
  <1>2. ASSUME NEW u \in Uuids, SweepVisit(u)
        PROVE  /\ SweepOK'
               /\ sweep' \in [at : {"rest", "visited", "deleted", "released"},
                              conn : Conns \cup {None}, uuid : Uuids \cup {None}]
    <2>1. /\ pending[u] \in Conns
          /\ sweep' = [at |-> "visited", conn |-> pending[u], uuid |-> u]
      BY <1>2 DEF SweepVisit, ServerTypeOK
    <2> QED
      BY <2>1 DEF SweepOK
  <1>3. CASE SweepDelete \/ SweepRelease \/ SweepClose
    <2>1. /\ sweep.at # "rest"
          /\ \/ sweep' = Resting
             \/ sweep' = [sweep EXCEPT !.at = "deleted"]
             \/ sweep' = [sweep EXCEPT !.at = "released"]
      BY <1>3 DEF SweepDelete, SweepRelease, SweepClose
    <2> QED
      BY <2>1 DEF ServerTypeOK, SweepOK, Resting
  <1>4. CASE GateStep
    BY <1>1, <1>4 DEF GateStep, srvVars
  <1>5. CASE \E c \in Conns : PairStep(c)
    BY <1>1, <1>5, PairKept DEF PairFrame
  <1>6. CASE ServerTick
    BY <1>1, <1>6 DEF ServerTick
  <1> QED
    BY <1>2, <1>3, <1>4, <1>5, <1>6, StepCases

(* ActiveSessions counts the handlers that copy. *)
LEMMA SessionsKept ==
  ASSUME ServerTypeOK, GateOK, SweepOK, SessionsExact, ServerNext
  PROVE  SessionsExact'
  <1> DEFINE copying == {c \in Conns : pc[c] = "copying"}
  <1>1. IsFiniteSet(copying) /\ sessions = Cardinality(copying)
        /\ Cardinality(copying) \in Nat
    BY CountTyped DEF SessionsExact
  <1>2. CASE /\ UNCHANGED sessions
             /\ \A d \in Conns : pc'[d] = "copying" <=> pc[d] = "copying"
    <2>1. copying' = copying
      BY <1>2
    <2> QED
      BY <1>1, <1>2, <2>1 DEF SessionsExact
  <1>3. CASE GateStep
    BY <1>2, <1>3, GateStepKept
       DEF GateStep, GateMoves, srvVars, limitVars, GatePC, BeforeOutcome
  <1>4. ASSUME NEW c \in Conns, PairStep(c) PROVE SessionsExact'
    <2>1. PairFrame(c)
      BY <1>4, PairKept
    <2>2. CASE StartSession(c)
      <3>1. /\ pc[c] = "starting" /\ sessions' = sessions + 1
            /\ pc'[c] = "copying"
        BY <2>2 DEF StartSession, Move, Goto, ServerTypeOK
      <3>2. copying' = copying \cup {c} /\ c \notin copying
        BY <2>1, <3>1 DEF PairFrame
      <3> QED
        <4>1. Cardinality(copying \cup {c}) = Cardinality(copying) + 1
          BY <1>1, <3>2, FS_AddElement
        <4> QED
          BY <1>1, <3>1, <3>2, <4>1 DEF SessionsExact
    <2>3. CASE EndSession(c)
      <3>1. /\ pc[c] = "copying" /\ sessions' = sessions - 1
            /\ pc'[c] = "freeing"
        BY <2>3 DEF EndSession, Move, Goto, ServerTypeOK
      <3>2. copying' = copying \ {c} /\ c \in copying
        BY <2>1, <3>1 DEF PairFrame
      <3> QED
        BY <1>1, <3>1, <3>2, FS_RemoveElement DEF SessionsExact
    <2>4. CASE ~StartSession(c) /\ ~EndSession(c)
      <3>1. UNCHANGED sessions /\ pc[c] # "copying" /\ pc'[c] # "copying"
        BY <1>4, <2>4
           DEF PairStep, Accept, CloseRejected, Return, LoadOrStore, Paired,
               TimedOut, TimeoutDelete, TimeoutRelease, DeleteEntry, CloseDone,
               AcquireFirst, AcquireSecond, AcquireSession, FreeSession,
               CloseBoth, Move, MoveAndDrop, Goto, limitVars, ServerTypeOK
      <3> QED
        BY <1>2, <2>1, <3>1 DEF PairFrame
    <2> QED
      BY <2>2, <2>3, <2>4
  <1>5. CASE SideStep
    BY <1>2, <1>5, SideKept DEF SideFrame, limitVars
  <1> QED
    BY <1>3, <1>4, <1>5, StepCases DEF SideStep

(* The type invariant of the variables a handler beyond the gate writes. *)
PairTyped ==
  /\ pending \in [Uuids -> Conns \cup {None}]
  /\ done \in [Conns -> BOOLEAN]
  /\ sock \in [Conns -> BOOLEAN]
  /\ timer \in [Conns -> 0..PairTimeout]
  /\ other \in [Conns -> Conns \cup {None}]
  /\ connActive \in [Ips -> Nat]
  /\ sessActive \in [Ips -> Nat]
  /\ panicked \in BOOLEAN

(* A handler beyond the gate keeps the types. *)
LEMMA PairTypesKept ==
  ASSUME ServerTypeOK, GateOK, NEW c \in Conns, PairStep(c)
  PROVE  PairTyped'
  <1>0. /\ PairTyped
        /\ IpOf[c] \in Ips
        /\ \A d \in Conns : other[d] # None => other[d] \in Conns /\ IpOf[other[d]] \in Ips
        /\ pc[c] \in OwnerPC \cup {"freeing"} => other[c] \in Conns
        /\ pc[c] \in AskedPC => req[c] \in Uuids
        /\ 0 \in 0..PairTimeout
    BY IpAssumption, TimeAssumption DEF ServerTypeOK, PairTyped, GateOK
  <1>1. CASE Accept(c)
    BY <1>0, <1>1, LimiterTyped DEF Accept, PairTyped
  <1>2. CASE CloseRejected(c)
    BY <1>0, <1>2 DEF CloseRejected, PairTyped, limitVars
  <1>3. CASE Return(c)
    BY <1>0, <1>3, LimiterTyped DEF Return, PairTyped, pairVars
  <1>4. CASE LoadOrStore(c)
    <2>1. req[c] \in Uuids
      BY <1>0, <1>4 DEF LoadOrStore, AskedPC, ServerPC, GatePC
    <2> QED
      BY <1>0, <1>4, <2>1 DEF LoadOrStore, PairTyped, limitVars
  <1>5. CASE Paired(c)
    BY <1>0, <1>5 DEF Paired, PairTyped, limitVars
  <1>6. CASE TimedOut(c)
    BY <1>0, <1>6 DEF TimedOut, PairTyped, limitVars
  <1>7. CASE TimeoutDelete(c)
    BY <1>0, <1>7 DEF TimeoutDelete, PairTyped, limitVars
  <1>8. CASE TimeoutRelease(c)
    BY <1>0, <1>8 DEF TimeoutRelease, PairTyped, limitVars
  <1>9. CASE DeleteEntry(c)
    BY <1>0, <1>9 DEF DeleteEntry, PairTyped, limitVars
  <1>10. CASE CloseDone(c)
    BY <1>0, <1>10 DEF CloseDone, PairTyped, limitVars, OwnerPC
  <1>11. ASSUME NEW from \in {"slot1", "slot2"}, NEW to, NEW d \in Conns,
                AcquireSession(c, from, to, d)
         PROVE  PairTyped'
    <2>1. other[c] \in Conns /\ IpOf[d] \in Ips
      BY <1>0, <1>11, IpAssumption DEF AcquireSession, OwnerPC
    <2>2. CASE /\ sessActive' = Taken(sessActive, IpOf[d])
               /\ UNCHANGED <<sock, other>>
      BY <1>0, <1>11, <2>1, <2>2, LimiterTyped DEF AcquireSession, PairTyped
    <2>3. CASE CloseBoth(c, "closed") /\ UNCHANGED sessActive
      BY <1>0, <1>11, <2>1, <2>3 DEF AcquireSession, CloseBoth, PairTyped
    <2> QED
      BY <1>11, <2>2, <2>3 DEF AcquireSession
  <1>12. CASE AcquireFirst(c)
    <2>1. pc[c] = "slot1" /\ FirstOf(c) \in Conns
      BY <1>0, <1>12 DEF AcquireFirst, AcquireSession, FirstOf, OwnerPC
    <2> QED
      BY <1>11, <1>12, <2>1 DEF AcquireFirst
  <1>13. CASE AcquireSecond(c)
    <2>1. pc[c] = "slot2" /\ SecondOf(c) \in Conns
      BY <1>0, <1>13 DEF AcquireSecond, AcquireSession, SecondOf, OwnerPC
    <2> QED
      BY <1>11, <1>13, <2>1 DEF AcquireSecond
  <1>14. CASE StartSession(c)
    BY <1>0, <1>14 DEF StartSession, PairTyped, pairVars
  <1>15. CASE EndSession(c)
    BY <1>0, <1>15 DEF EndSession, PairTyped
  <1>16. CASE FreeSession(c)
    <2>1. other[c] \in Conns /\ IpOf[other[c]] \in Ips
      BY <1>0, <1>16, NoneAssumption DEF FreeSession
    <2>2. sessActive' \in [Ips -> Nat]
      BY <1>0, <1>16, <2>1, LimiterTyped DEF FreeSession, PairTyped
    <2> QED
      BY <1>0, <1>16, <2>1, <2>2 DEF FreeSession, CloseBoth, PairTyped
  <1> QED
    BY <1>1, <1>2, <1>3, <1>4, <1>5, <1>6, <1>7, <1>8, <1>9, <1>10, <1>12,
       <1>13, <1>14, <1>15, <1>16 DEF PairStep

(* The same of the sweep and the clock. *)
LEMMA SideTypesKept ==
  ASSUME ServerTypeOK, GateOK, SweepOK, SideStep
  PROVE  PairTyped'
  <1>0. /\ PairTyped
        /\ sweep.at # "rest" => sweep.conn \in Conns /\ sweep.uuid \in Uuids
    BY DEF ServerTypeOK, PairTyped, SweepOK
  <1>1. CASE \E u \in Uuids : SweepVisit(u)
    BY <1>0, <1>1 DEF SweepVisit, PairTyped, pairVars, limitVars
  <1>2. CASE SweepDelete
    BY <1>0, <1>2 DEF SweepDelete, PairTyped, limitVars
  <1>3. CASE SweepRelease
    BY <1>0, <1>3 DEF SweepRelease, PairTyped, pairVars, limitVars
  <1>4. CASE SweepClose
    BY <1>0, <1>4 DEF SweepClose, PairTyped, limitVars
  <1>5. CASE ServerTick
    BY <1>0, <1>5, TimeAssumption DEF ServerTick, PairTyped, limitVars, Min2
  <1> QED
    BY <1>1, <1>2, <1>3, <1>4, <1>5 DEF SideStep

(* The type invariant is kept. *)
LEMMA TypeKept ==
  ASSUME ServerTypeOK, GateOK, SweepOK, SessionsExact, ServerNext
  PROVE  ServerTypeOK' /\ GateOK' /\ SweepOK' /\ SessionsExact'
  <1>1. SessionsExact' /\ sessions' \in Nat
    <2>1. SessionsExact'
      BY SessionsKept
    <2>2. {c \in Conns : pc'[c] = "copying"} \in SUBSET Conns
      OBVIOUS
    <2> QED
      BY <2>1, <2>2, CountTyped DEF SessionsExact
  <1>2. /\ SweepOK'
        /\ sweep' \in [at : {"rest", "visited", "deleted", "released"},
                       conn : Conns \cup {None}, uuid : Uuids \cup {None}]
    BY SweepTyped
  <1>3. /\ PairTyped' /\ GateOK' /\ pc' \in [Conns -> ServerPC]
        /\ \A d \in Conns : pc'[d] \in OwnerPC \cup {"freeing"} <=> other'[d] # None
    <2>1. CASE GateStep
      <3>1. GateMoves /\ GateOK'
        BY <2>1, GateStepKept
      <3>2. UNCHANGED <<pending, done, sock, timer, other, connActive, sessActive,
                        panicked>>
        BY <2>1 DEF GateStep, srvVars, pairVars, limitVars
      <3>3. \A d \in Conns : pc'[d] \in OwnerPC \cup {"freeing"} <=> other'[d] # None
        BY <3>1, <3>2 DEF GateMoves, GatePC, BeforeOutcome, OwnerPC, ServerTypeOK
      <3> QED
        BY <3>1, <3>2, <3>3 DEF PairTyped, GateMoves, ServerTypeOK
    <2>2. ASSUME NEW c \in Conns, PairStep(c)
          PROVE  /\ PairTyped' /\ GateOK' /\ PairFrame(c)
      BY <2>2, PairTypesKept, PairKept
    <2>3. CASE SideStep
      <3>1. SideFrame /\ GateOK' /\ PairTyped'
        BY <2>3, SideKept, SideTypesKept
      <3> QED
        BY <3>1 DEF SideFrame, ServerTypeOK, OwnerPC
    <2> QED
      BY <2>1, <2>2, <2>3, StepCases DEF SideStep, PairFrame
  <1> QED
    BY <1>1, <1>2, <1>3 DEF ServerTypeOK, PairTyped

-----------------------------------------------------------------------------
(* The handlers of an address that run. *)
RunningFrom(ip) == {c \in From(ip) : Running(c)}

(* Nothing changes when no handler starts or returns. *)
LEMMA ConnLimiterSame ==
  ASSUME ConnLimiterExact, UNCHANGED connActive,
         \A d \in Conns : pc'[d] \in {"idle", "handed"} <=> pc[d] \in {"idle", "handed"}
  PROVE  ConnLimiterExact'
  <1> SUFFICES ASSUME MaxConnsIP > 0, NEW ip \in Ips
      PROVE  /\ connActive'[ip] = Cardinality(RunningFrom(ip)')
             /\ connActive'[ip] <= MaxConnsIP
    BY DEF ConnLimiterExact, RunningFrom, From, Running
  <1>1. RunningFrom(ip)' = RunningFrom(ip)
    BY DEF RunningFrom, From, Running
  <1> QED
    BY <1>1 DEF ConnLimiterExact, RunningFrom

(* A handler that starts takes a slot, if there is one. *)
LEMMA AcceptCounted ==
  ASSUME ServerTypeOK, GateOK, ConnLimiterExact, NEW c \in Conns, Accept(c)
  PROVE  ConnLimiterExact'
  <1> SUFFICES ASSUME MaxConnsIP > 0, NEW ip \in Ips
      PROVE  /\ connActive'[ip] = Cardinality(RunningFrom(ip)')
             /\ connActive'[ip] <= MaxConnsIP
    BY DEF ConnLimiterExact, RunningFrom, From, Running
  <1>1. /\ pc[c] = "idle" /\ pc'[c] = "reading"
        /\ \A d \in Conns : d # c => pc'[d] = pc[d]
        /\ connActive[IpOf[c]] < MaxConnsIP
        /\ connActive' = [connActive EXCEPT ![IpOf[c]] = @ + 1]
    BY LimitAssumption DEF Accept, Move, Goto, HasSlot, Taken, ServerTypeOK
  <1>2. /\ connActive[ip] = Cardinality(RunningFrom(ip))
        /\ connActive[ip] <= MaxConnsIP
        /\ connActive[ip] \in Nat
        /\ IsFiniteSet(RunningFrom(ip))
    <2>1. RunningFrom(ip) \in SUBSET Conns
      BY DEF RunningFrom, From
    <2> QED
      BY <2>1, CountTyped DEF ConnLimiterExact, RunningFrom, ServerTypeOK
  <1>3. CASE IpOf[c] = ip
    <2>1. RunningFrom(ip)' = RunningFrom(ip) \cup {c} /\ c \notin RunningFrom(ip)
      BY <1>1, <1>3 DEF RunningFrom, From, Running
    <2>2. Cardinality(RunningFrom(ip) \cup {c}) = Cardinality(RunningFrom(ip)) + 1
      BY <1>2, <2>1, FS_AddElement
    <2> QED
      BY <1>1, <1>2, <1>3, <2>1, <2>2, LimitAssumption DEF ServerTypeOK
  <1>4. CASE IpOf[c] # ip
    <2>1. RunningFrom(ip)' = RunningFrom(ip)
      BY <1>1, <1>4 DEF RunningFrom, From, Running
    <2> QED
      BY <1>1, <1>2, <1>4, <2>1 DEF ServerTypeOK
  <1> QED
    BY <1>3, <1>4

(* A handler that returns gives its slot back: there is one to give. *)
LEMMA ReturnCounted ==
  ASSUME ServerTypeOK, GateOK, ConnLimiterExact, NEW c \in Conns, Return(c)
  PROVE  ConnLimiterExact'
  <1> SUFFICES ASSUME MaxConnsIP > 0, NEW ip \in Ips
      PROVE  /\ connActive'[ip] = Cardinality(RunningFrom(ip)')
             /\ connActive'[ip] <= MaxConnsIP
    BY DEF ConnLimiterExact, RunningFrom, From, Running
  <1>1. /\ pc[c] = "closed" /\ pc'[c] \in {"idle", "handed"}
        /\ \A d \in Conns : d # c => pc'[d] = pc[d]
        /\ connActive' = Freed(connActive, IpOf[c])
    BY DEF Return, MoveAndDrop
  <1>2. /\ connActive[ip] = Cardinality(RunningFrom(ip))
        /\ connActive[ip] <= MaxConnsIP
        /\ connActive[ip] \in Nat
        /\ IsFiniteSet(RunningFrom(ip))
    <2>1. RunningFrom(ip) \in SUBSET Conns
      BY DEF RunningFrom, From
    <2> QED
      BY <2>1, CountTyped DEF ConnLimiterExact, RunningFrom, ServerTypeOK
  <1>3. CASE IpOf[c] = ip
    <2>1. RunningFrom(ip)' = RunningFrom(ip) \ {c} /\ c \in RunningFrom(ip)
      BY <1>1, <1>3 DEF RunningFrom, From, Running
    <2>2. Cardinality(RunningFrom(ip) \ {c}) = Cardinality(RunningFrom(ip)) - 1
      BY <1>2, <2>1, FS_RemoveElement
    <2>3. Cardinality(RunningFrom(ip)) # 0
      BY <1>2, <2>1, FS_EmptySet
    <2>4. connActive'[ip] = connActive[ip] - 1
      BY <1>1, <1>2, <1>3, <2>3, LimitAssumption DEF Freed, ServerTypeOK
    <2> QED
      BY <1>2, <2>1, <2>2, <2>4, LimitAssumption
  <1>4. CASE IpOf[c] # ip
    <2>1. RunningFrom(ip)' = RunningFrom(ip)
      BY <1>1, <1>4 DEF RunningFrom, From, Running
    <2> QED
      BY <1>1, <1>2, <1>4, <2>1 DEF ServerTypeOK, Freed
  <1> QED
    BY <1>3, <1>4

(* A slot is taken by Accept and given back by the return, once each. *)
LEMMA ConnLimiterKept ==
  ASSUME ServerTypeOK, GateOK, SweepOK, ConnLimiterExact, ServerNext
  PROVE  ConnLimiterExact'
  <1>1. CASE GateStep
    <2>1. GateMoves /\ UNCHANGED connActive
      BY <1>1, GateStepKept DEF GateStep, srvVars, limitVars
    <2> QED
      BY <2>1, ConnLimiterSame DEF GateMoves, GatePC, BeforeOutcome
  <1>2. ASSUME NEW c \in Conns, PairStep(c) PROVE ConnLimiterExact'
    <2>1. CASE Accept(c)
      BY <2>1, AcceptCounted
    <2>2. CASE Return(c)
      BY <2>2, ReturnCounted
    <2>3. CASE ~Accept(c) /\ ~Return(c)
      <3>1. PairFrame(c)
        BY <1>2, PairKept
      <3>2. /\ UNCHANGED connActive
            /\ pc[c] \notin {"idle", "handed"} /\ pc'[c] \notin {"idle", "handed"}
        <4>1. CASE FreeSession(c) \/ AcquireFirst(c) \/ AcquireSecond(c)
          <5>1. /\ UNCHANGED connActive
                /\ pc[c] \in {"slot1", "slot2", "freeing"}
                /\ CloseBoth(c, "closed") \/ Move(c, "slot2") \/ Move(c, "starting")
            BY <4>1 DEF FreeSession, AcquireFirst, AcquireSecond, AcquireSession
          <5>2. CASE CloseBoth(c, "closed")
            BY <5>1, <5>2, CloseFacts DEF OwnerPC
          <5>3. CASE Move(c, "slot2") \/ Move(c, "starting")
            BY <5>1, <5>3 DEF Move, Goto, ServerTypeOK
          <5> QED
            BY <5>1, <5>2, <5>3
        <4>2. CASE ~(FreeSession(c) \/ AcquireFirst(c) \/ AcquireSecond(c))
          BY <1>2, <2>3, <4>2
             DEF PairStep, CloseRejected, LoadOrStore, Paired,
                 TimedOut, TimeoutDelete, TimeoutRelease, DeleteEntry, CloseDone,
                 StartSession, EndSession, Move, Goto, limitVars, ServerTypeOK
        <4> QED
          BY <4>1, <4>2
      <3> QED
        BY <3>1, <3>2, ConnLimiterSame DEF PairFrame
    <2> QED
      BY <2>1, <2>2, <2>3
  <1>3. CASE SideStep
    BY <1>3, SideKept, ConnLimiterSame DEF SideFrame, limitVars
  <1> QED
    BY <1>1, <1>2, <1>3, StepCases DEF SideStep

-----------------------------------------------------------------------------
(* The handlers that hold the first, and the second, slot of their session *)
(* for an address.                                                         *)
FirstPC == {"slot2", "starting", "copying", "freeing"}
SecondPC == {"starting", "copying", "freeing"}
FirstHeld(ip) == {c \in Conns : pc[c] \in FirstPC /\ IpOf[FirstOf(c)] = ip}
SecondHeld(ip) == {c \in Conns : pc[c] \in SecondPC /\ IpOf[SecondOf(c)] = ip}

(* The slots an address holds, by the two ends of its sessions. *)
LEMMA SlotsCounted ==
  ASSUME NEW ip \in Ips
  PROVE  /\ HeldSlots(ip) = Cardinality(FirstHeld(ip)) + Cardinality(SecondHeld(ip))
         /\ IsFiniteSet(FirstHeld(ip)) /\ Cardinality(FirstHeld(ip)) \in Nat
         /\ IsFiniteSet(SecondHeld(ip)) /\ Cardinality(SecondHeld(ip)) \in Nat
  <1>1. FirstHeld(ip) \in SUBSET Conns /\ SecondHeld(ip) \in SUBSET Conns
    BY DEF FirstHeld, SecondHeld
  <1>2. HeldSlots(ip) = Cardinality(FirstHeld(ip)) + Cardinality(SecondHeld(ip))
    BY DEF HeldSlots, FirstHeld, SecondHeld, FirstPC, SecondPC
  <1> QED
    BY <1>1, <1>2, CountTyped

(* The same of the next state. *)
LEMMA SlotsCountedNext ==
  ASSUME NEW ip \in Ips
  PROVE  /\ HeldSlots(ip)' = Cardinality(FirstHeld(ip)') + Cardinality(SecondHeld(ip)')
         /\ Cardinality(FirstHeld(ip)') \in Nat
         /\ Cardinality(SecondHeld(ip)') \in Nat
  <1>1. FirstHeld(ip)' \in SUBSET Conns /\ SecondHeld(ip)' \in SUBSET Conns
    BY DEF FirstHeld, SecondHeld
  <1>2. HeldSlots(ip)' = Cardinality(FirstHeld(ip)') + Cardinality(SecondHeld(ip)')
    BY DEF HeldSlots, FirstHeld, SecondHeld, FirstPC, SecondPC
  <1> QED
    BY <1>1, <1>2, CountTyped

(* Nothing is lost when no handler takes a slot. *)
LEMMA SlotsNotTaken ==
  ASSUME ServerTypeOK, SessionLimitSound, UNCHANGED sessActive,
         \A d \in Conns : pc'[d] \in FirstPC => pc[d] \in FirstPC /\ other'[d] = other[d],
         \A d \in Conns : pc'[d] \in SecondPC => pc[d] \in SecondPC
  PROVE  SessionLimitSound'
  <1> SUFFICES ASSUME MaxConnsIP > 0, NEW ip \in Ips
      PROVE  HeldSlots(ip)' <= sessActive'[ip] /\ sessActive'[ip] <= MaxConnsIP
    BY DEF SessionLimitSound
  <1>1. /\ FirstHeld(ip)' \in SUBSET FirstHeld(ip)
        /\ SecondHeld(ip)' \in SUBSET SecondHeld(ip)
    BY DEF FirstHeld, SecondHeld, FirstPC, SecondPC, FirstOf, SecondOf
  <1>2. /\ Cardinality(FirstHeld(ip)') <= Cardinality(FirstHeld(ip))
        /\ Cardinality(SecondHeld(ip)') <= Cardinality(SecondHeld(ip))
    BY <1>1, SlotsCounted, FS_Subset
  <1>3. /\ HeldSlots(ip) <= sessActive[ip] /\ sessActive[ip] <= MaxConnsIP
        /\ sessActive[ip] \in Nat
    BY DEF SessionLimitSound, ServerTypeOK
  <1> QED
    BY <1>2, <1>3, SlotsCounted, SlotsCountedNext

(* A handler that takes the slot of one of the two addresses. *)
LEMMA SlotTaken ==
  ASSUME ServerTypeOK, SessionLimitSound, NEW c \in Conns, NEW d \in Conns,
         HasSlot(sessActive, IpOf[d]), sessActive' = Taken(sessActive, IpOf[d]),
         UNCHANGED other,
         \A e \in Conns : e # c => pc'[e] = pc[e],
         \/ pc[c] = "slot1" /\ pc'[c] = "slot2" /\ d = FirstOf(c)
         \/ pc[c] = "slot2" /\ pc'[c] = "starting" /\ d = SecondOf(c)
  PROVE  SessionLimitSound'
  <1> SUFFICES ASSUME MaxConnsIP > 0, NEW ip \in Ips
      PROVE  HeldSlots(ip)' <= sessActive'[ip] /\ sessActive'[ip] <= MaxConnsIP
    BY DEF SessionLimitSound
  <1>1. /\ HeldSlots(ip) <= sessActive[ip] /\ sessActive[ip] <= MaxConnsIP
        /\ sessActive[ip] \in Nat /\ IpOf[d] \in Ips
    BY IpAssumption DEF SessionLimitSound, ServerTypeOK
  <1>2. /\ sessActive'[ip] = IF IpOf[d] = ip THEN sessActive[ip] + 1 ELSE sessActive[ip]
        /\ IpOf[d] = ip => sessActive[ip] < MaxConnsIP
    BY <1>1, LimitAssumption DEF Taken, HasSlot, ServerTypeOK
  <1>3. \A e \in Conns : FirstOf(e)' = FirstOf(e) /\ SecondOf(e)' = SecondOf(e)
    BY DEF FirstOf, SecondOf
  <1>5. HeldSlots(ip)' \in Nat /\ HeldSlots(ip) \in Nat
    BY SlotsCounted, SlotsCountedNext
  <1>4. HeldSlots(ip)' <= HeldSlots(ip) + (IF IpOf[d] = ip THEN 1 ELSE 0)
    <2>1. CASE pc[c] = "slot1" /\ pc'[c] = "slot2" /\ d = FirstOf(c)
      <3>1. SecondHeld(ip)' = SecondHeld(ip)
        BY <1>3, <2>1 DEF SecondHeld, SecondPC
      <3>2. CASE IpOf[d] = ip
        <4>1. FirstHeld(ip)' = FirstHeld(ip) \cup {c} /\ c \notin FirstHeld(ip)
          BY <1>3, <2>1, <3>2 DEF FirstHeld, FirstPC
        <4>2. Cardinality(FirstHeld(ip)') = Cardinality(FirstHeld(ip)) + 1
          <5>1. Cardinality(FirstHeld(ip) \cup {c}) = Cardinality(FirstHeld(ip)) + 1
            BY <4>1, SlotsCounted, FS_AddElement
          <5> QED
            BY <4>1, <5>1
        <4>3. Cardinality(SecondHeld(ip)') = Cardinality(SecondHeld(ip))
          BY <3>1
        <4>4. HeldSlots(ip)' = HeldSlots(ip) + 1
          BY <4>2, <4>3, SlotsCounted, SlotsCountedNext
        <4> QED
          BY <3>2, <4>4, <1>5
      <3>3. CASE IpOf[d] # ip
        <4>1. FirstHeld(ip)' = FirstHeld(ip)
          BY <1>3, <2>1, <3>3 DEF FirstHeld, FirstPC
        <4> QED
          BY <3>1, <3>3, <4>1, SlotsCounted, SlotsCountedNext
      <3> QED
        BY <3>2, <3>3
    <2>2. CASE pc[c] = "slot2" /\ pc'[c] = "starting" /\ d = SecondOf(c)
      <3>1. FirstHeld(ip)' = FirstHeld(ip)
        BY <1>3, <2>2 DEF FirstHeld, FirstPC
      <3>2. CASE IpOf[d] = ip
        <4>1. SecondHeld(ip)' = SecondHeld(ip) \cup {c} /\ c \notin SecondHeld(ip)
          BY <1>3, <2>2, <3>2 DEF SecondHeld, SecondPC
        <4>2. Cardinality(SecondHeld(ip)') = Cardinality(SecondHeld(ip)) + 1
          <5>1. Cardinality(SecondHeld(ip) \cup {c}) = Cardinality(SecondHeld(ip)) + 1
            BY <4>1, SlotsCounted, FS_AddElement
          <5> QED
            BY <4>1, <5>1
        <4>3. Cardinality(FirstHeld(ip)') = Cardinality(FirstHeld(ip))
          BY <3>1
        <4>4. HeldSlots(ip)' = HeldSlots(ip) + 1
          BY <4>2, <4>3, SlotsCounted, SlotsCountedNext
        <4> QED
          BY <3>2, <4>4, <1>5
      <3>3. CASE IpOf[d] # ip
        <4>1. SecondHeld(ip)' = SecondHeld(ip)
          BY <1>3, <2>2, <3>3 DEF SecondHeld, SecondPC
        <4> QED
          BY <3>1, <3>3, <4>1, SlotsCounted, SlotsCountedNext
      <3> QED
        BY <3>2, <3>3
    <2> QED
      BY <2>1, <2>2
  <1> QED
    BY <1>1, <1>2, <1>4, <1>5, LimitAssumption

(* A handler that frees the slots of both addresses held both of them. *)
LEMMA SlotsFreed ==
  ASSUME ServerTypeOK, GateOK, SessionLimitSound, NEW c \in Conns, FreeSession(c)
  PROVE  SessionLimitSound'
  <1> SUFFICES ASSUME MaxConnsIP > 0, NEW ip \in Ips
      PROVE  HeldSlots(ip)' <= sessActive'[ip] /\ sessActive'[ip] <= MaxConnsIP
    BY DEF SessionLimitSound
  <1> DEFINE one(x) == IF x = ip THEN 1 ELSE 0
             a == IpOf[other[c]]
             b == IpOf[c]
  <1>1. /\ HeldSlots(ip) <= sessActive[ip] /\ sessActive[ip] <= MaxConnsIP
        /\ sessActive[ip] \in Nat
    BY DEF SessionLimitSound, ServerTypeOK
  <1>2. /\ other[c] \in Conns /\ pc[c] = "freeing"
        /\ a \in Ips /\ b \in Ips
        /\ CloseBoth(c, "closed")
        /\ sessActive' = Freed(Freed(sessActive, a), b)
    BY IpAssumption DEF FreeSession, ServerTypeOK
  <1>3. /\ sessActive'[ip] \in Nat
        /\ sessActive'[ip] <= sessActive[ip]
        /\ sessActive'[ip] >= sessActive[ip] - (one(a) + one(b))
    <2>1. ASSUME NEW f \in [Ips -> Nat], NEW x \in Ips
          PROVE  /\ Freed(f, x) \in [Ips -> Nat]
                 /\ Freed(f, x)[ip] <= f[ip]
                 /\ Freed(f, x)[ip] >= f[ip] - one(x)
      BY DEF Freed
    <2>2. sessActive \in [Ips -> Nat]
      BY DEF ServerTypeOK
    <2> HIDE DEF one, a, b
    <2>3. one(a) \in Nat /\ one(b) \in Nat
      BY DEF one
    <2>4. /\ Freed(sessActive, a) \in [Ips -> Nat]
          /\ Freed(sessActive, a)[ip] <= sessActive[ip]
          /\ Freed(sessActive, a)[ip] >= sessActive[ip] - one(a)
      BY <1>2, <2>1, <2>2
    <2>5. /\ sessActive' \in [Ips -> Nat]
          /\ sessActive'[ip] <= Freed(sessActive, a)[ip]
          /\ sessActive'[ip] >= Freed(sessActive, a)[ip] - one(b)
      BY <1>2, <2>1, <2>4
    <2> QED
      BY <2>2, <2>3, <2>4, <2>5
  <1>4. \/ IpOf[FirstOf(c)] = a /\ IpOf[SecondOf(c)] = b
        \/ IpOf[FirstOf(c)] = b /\ IpOf[SecondOf(c)] = a
    BY DEF FirstOf, SecondOf
  <1>5. /\ pc'[c] = "closed" /\ other'[c] = None
        /\ \A d \in Conns : d # c => other'[d] = other[d]
        /\ \A d \in Conns : d # c => pc'[d] = pc[d] \/ (pc[d] = "handed" /\ pc'[d] = "idle")
    BY <1>2, CloseFacts DEF OwnerPC
  <1>6. \A d \in Conns : d # c => FirstOf(d)' = FirstOf(d) /\ SecondOf(d)' = SecondOf(d)
    BY <1>5 DEF FirstOf, SecondOf
  <1>7. Cardinality(FirstHeld(ip)') = Cardinality(FirstHeld(ip)) - one(IpOf[FirstOf(c)])
    <2>1. FirstHeld(ip)' = FirstHeld(ip) \ {c}
      BY <1>5, <1>6 DEF FirstHeld, FirstPC
    <2>2. c \in FirstHeld(ip) <=> IpOf[FirstOf(c)] = ip
      BY <1>2 DEF FirstHeld, FirstPC
    <2>3. CASE c \in FirstHeld(ip)
      BY <2>1, <2>2, <2>3, SlotsCounted, FS_RemoveElement
    <2>4. CASE c \notin FirstHeld(ip)
      <3>1. FirstHeld(ip)' = FirstHeld(ip)
        BY <2>1, <2>4
      <3> QED
        BY <2>2, <2>4, <3>1, SlotsCounted
    <2> QED
      BY <2>3, <2>4
  <1>8. Cardinality(SecondHeld(ip)') = Cardinality(SecondHeld(ip)) - one(IpOf[SecondOf(c)])
    <2>1. SecondHeld(ip)' = SecondHeld(ip) \ {c}
      BY <1>5, <1>6 DEF SecondHeld, SecondPC
    <2>2. c \in SecondHeld(ip) <=> IpOf[SecondOf(c)] = ip
      BY <1>2 DEF SecondHeld, SecondPC
    <2>3. CASE c \in SecondHeld(ip)
      BY <2>1, <2>2, <2>3, SlotsCounted, FS_RemoveElement
    <2>4. CASE c \notin SecondHeld(ip)
      <3>1. SecondHeld(ip)' = SecondHeld(ip)
        BY <2>1, <2>4
      <3> QED
        BY <2>2, <2>4, <3>1, SlotsCounted
    <2> QED
      BY <2>3, <2>4
  <1>9. HeldSlots(ip)' = HeldSlots(ip) - (one(a) + one(b))
    <2>1. one(a) \in Nat /\ one(b) \in Nat
      OBVIOUS
    <2>2. \/ one(IpOf[FirstOf(c)]) = one(a) /\ one(IpOf[SecondOf(c)]) = one(b)
          \/ one(IpOf[FirstOf(c)]) = one(b) /\ one(IpOf[SecondOf(c)]) = one(a)
      BY <1>4
    <2> HIDE DEF one, a, b
    <2> QED
      BY <1>7, <1>8, <2>1, <2>2, SlotsCounted, SlotsCountedNext
  <1>10. HeldSlots(ip)' \in Nat /\ HeldSlots(ip) \in Nat
    BY SlotsCounted, SlotsCountedNext
  <1>11. one(a) \in Nat /\ one(b) \in Nat
    OBVIOUS
  <1> HIDE DEF one, a, b
  <1> QED
    BY <1>1, <1>3, <1>9, <1>10, <1>11, LimitAssumption

(* Only the two Acquire calls and the end of a session change the number *)
(* of slots.                                                             *)
LEMMA SessionLimitKept ==
  ASSUME ServerTypeOK, GateOK, SweepOK, SessionLimitSound, ServerNext
  PROVE  SessionLimitSound'
  <1>1. CASE GateStep
    <2>1. GateMoves /\ UNCHANGED <<sessActive, other>>
      BY <1>1, GateStepKept DEF GateStep, srvVars, limitVars, pairVars
    <2> QED
      BY <2>1, SlotsNotTaken DEF GateMoves, GatePC, BeforeOutcome, FirstPC, SecondPC
  <1>2. ASSUME NEW c \in Conns, PairStep(c) PROVE SessionLimitSound'
    <2>1. PairFrame(c)
      BY <1>2, PairKept
    <2>2. ASSUME UNCHANGED sessActive,
                 pc'[c] \in FirstPC => pc[c] \in FirstPC /\ other'[c] = other[c],
                 pc'[c] \in SecondPC => pc[c] \in SecondPC
          PROVE  SessionLimitSound'
      <3>1. \A d \in Conns : pc'[d] \in FirstPC => pc[d] \in FirstPC /\ other'[d] = other[d]
        BY <2>1, <2>2 DEF PairFrame, FirstPC
      <3>2. \A d \in Conns : pc'[d] \in SecondPC => pc[d] \in SecondPC
        BY <2>1, <2>2 DEF PairFrame, SecondPC
      <3> QED
        BY <2>2, <3>1, <3>2, SlotsNotTaken
    <2>3. CASE FreeSession(c)
      BY <2>3, SlotsFreed
    <2>4. CASE AcquireFirst(c) \/ AcquireSecond(c)
      <3>1. CASE CloseBoth(c, "closed") /\ UNCHANGED sessActive
        <4>1. pc'[c] = "closed"
          BY <2>4, <3>1, CloseFacts DEF AcquireFirst, AcquireSecond, AcquireSession, OwnerPC
        <4> QED
          BY <2>2, <3>1, <4>1 DEF FirstPC, SecondPC
      <3>2. CASE /\ AcquireFirst(c) /\ Move(c, "slot2") /\ UNCHANGED other
                 /\ HasSlot(sessActive, IpOf[FirstOf(c)])
                 /\ sessActive' = Taken(sessActive, IpOf[FirstOf(c)])
        <4>1. /\ pc[c] = "slot1" /\ pc'[c] = "slot2"
              /\ \A e \in Conns : e # c => pc'[e] = pc[e]
              /\ FirstOf(c) \in Conns
          BY <3>2 DEF AcquireFirst, AcquireSession, Move, Goto, ServerTypeOK, FirstOf, OwnerPC
        <4> QED
          BY <3>2, <4>1, SlotTaken
      <3>3. CASE /\ AcquireSecond(c) /\ Move(c, "starting") /\ UNCHANGED other
                 /\ HasSlot(sessActive, IpOf[SecondOf(c)])
                 /\ sessActive' = Taken(sessActive, IpOf[SecondOf(c)])
        <4>1. /\ pc[c] = "slot2" /\ pc'[c] = "starting"
              /\ \A e \in Conns : e # c => pc'[e] = pc[e]
              /\ SecondOf(c) \in Conns
          BY <3>3 DEF AcquireSecond, AcquireSession, Move, Goto, ServerTypeOK, SecondOf, OwnerPC
        <4> QED
          BY <3>3, <4>1, SlotTaken
      <3> QED
        BY <2>4, <3>1, <3>2, <3>3 DEF AcquireFirst, AcquireSecond, AcquireSession
    <2>5. CASE StartSession(c) \/ EndSession(c)
      <3>1. /\ UNCHANGED <<sessActive, other>>
            /\ pc[c] \in {"starting", "copying"}
        BY <2>5 DEF StartSession, EndSession, pairVars
      <3> QED
        BY <2>2, <3>1 DEF FirstPC, SecondPC
    <2>6. CASE ~(FreeSession(c) \/ AcquireFirst(c) \/ AcquireSecond(c)
                 \/ StartSession(c) \/ EndSession(c))
      <3>1. UNCHANGED sessActive /\ pc'[c] \notin FirstPC
        BY <1>2, <2>6
           DEF PairStep, Accept, CloseRejected, Return, LoadOrStore, Paired,
               TimedOut, TimeoutDelete, TimeoutRelease, DeleteEntry, CloseDone,
               Move, MoveAndDrop, Goto, limitVars, ServerTypeOK, FirstPC
      <3> QED
        BY <2>2, <3>1 DEF FirstPC, SecondPC
    <2> QED
      BY <2>3, <2>4, <2>5, <2>6
  <1>3. CASE SideStep
    <2>1. SideFrame
      BY <1>3, SideKept
    <2> QED
      BY <2>1, SlotsNotTaken DEF SideFrame, limitVars, FirstPC, SecondPC
  <1> QED
    BY <1>1, <1>2, <1>3, StepCases DEF SideStep

-----------------------------------------------------------------------------
(* The initial state has no connection, no session and no slot in use. *)
LEMMA CountInit == ServerInit => CountInv
  <1> SUFFICES ASSUME ServerInit PROVE CountInv
    OBVIOUS
  <1>1. /\ pc = [c \in Conns |-> "idle"] /\ other = [c \in Conns |-> None]
        /\ sweep = Resting
        /\ connActive = [ip \in Ips |-> 0] /\ sessActive = [ip \in Ips |-> 0]
        /\ sessions = 0
    BY DEF ServerInit, InitAt
  <1>2. ServerTypeOK
    <2>1. pc \in [Conns -> ServerPC]
      BY <1>1 DEF ServerPC
    <2>2. /\ pending \in [Uuids -> Conns \cup {None}]
          /\ done \in [Conns -> BOOLEAN]
          /\ sock \in [Conns -> BOOLEAN]
          /\ timer \in [Conns -> 0..PairTimeout]
      BY TimeAssumption DEF ServerInit
    <2>6. panicked \in BOOLEAN
      BY Zenon DEF ServerInit
    <2>3. /\ other \in [Conns -> Conns \cup {None}]
          /\ \A c \in Conns : pc[c] \in OwnerPC \cup {"freeing"} <=> other[c] # None
      BY <1>1 DEF OwnerPC
    <2>4. sweep \in [at : {"rest", "visited", "deleted", "released"},
                    conn : Conns \cup {None}, uuid : Uuids \cup {None}]
      BY <1>1 DEF Resting
    <2>5. connActive \in [Ips -> Nat] /\ sessActive \in [Ips -> Nat] /\ sessions \in Nat
      BY <1>1
    <2> QED
      BY <2>1, <2>2, <2>3, <2>4, <2>5, <2>6 DEF ServerTypeOK
  <1>3. GateOK
    BY TimeAssumption, CapAssumption DEF ServerInit, InitAt, GateOK, AskedPC
  <1>4. SweepOK
    BY <1>1 DEF SweepOK, Resting
  <1>5. SessionsExact
    <2>1. {c \in Conns : pc[c] = "copying"} = {}
      BY <1>1
    <2> QED
      BY <1>1, <2>1, FS_EmptySet DEF SessionsExact
  <1>6. ConnLimiterExact
    <2>1. \A ip \in Ips : {c \in From(ip) : Running(c)} = {}
      BY <1>1 DEF From, Running
    <2> QED
      BY <1>1, <2>1, FS_EmptySet, LimitAssumption DEF ConnLimiterExact
  <1>7. SessionLimitSound
    <2>1. \A ip \in Ips : FirstHeld(ip) = {} /\ SecondHeld(ip) = {}
      BY <1>1 DEF FirstHeld, SecondHeld, FirstPC, SecondPC
    <2>2. \A ip \in Ips : HeldSlots(ip) = 0
      BY <2>1, SlotsCounted, FS_EmptySet
    <2> QED
      BY <1>1, <2>2, LimitAssumption DEF SessionLimitSound
  <1> QED
    BY <1>2, <1>3, <1>4, <1>5, <1>6, <1>7 DEF CountInv

(* Stuttering changes nothing the invariants speak of. *)
LEMMA CountStep == CountInv /\ [ServerNext]_allVars => CountInv'
  <1> SUFFICES ASSUME CountInv, [ServerNext]_allVars PROVE CountInv'
    OBVIOUS
  <1>1. CASE ServerNext
    BY <1>1, TypeKept, ConnLimiterKept, SessionLimitKept DEF CountInv
  <1>2. CASE UNCHANGED allVars
    <2>1. /\ UNCHANGED <<tickets, used, waiters, issued, pc, req, elapsed, claimed>>
          /\ UNCHANGED <<pending, done, sock, timer, other, sweep, panicked>>
          /\ UNCHANGED <<connActive, sessActive, sessions>>
      BY <1>2 DEF allVars, vars, regVars, connVars, srvVars, pairVars, limitVars
    <2>2. ServerTypeOK' /\ GateOK' /\ SweepOK'
      BY <2>1 DEF CountInv, ServerTypeOK, GateOK, SweepOK
    <2>3. SessionsExact'
      BY <2>1 DEF CountInv, SessionsExact
    <2>4. ConnLimiterExact'
      BY <2>1, ConnLimiterSame DEF CountInv
    <2>5. SessionLimitSound'
      BY <2>1, SlotsNotTaken DEF CountInv
    <2> QED
      BY <2>2, <2>3, <2>4, <2>5 DEF CountInv
  <1> QED
    BY <1>1, <1>2

(* The first invariant holds always. *)
LEMMA CountAlways == ServerSpec => []CountInv
  BY CountInit, CountStep, PTL DEF ServerSpec

(* The variables of the relay server keep their types: a timer never runs  *)
(* past the pairing timeout, ActiveSessions (server.go) never goes below   *)
(* zero, and a handler has picked up a connection exactly between the      *)
(* Load that found it and the release of its session.                      *)
THEOREM ServerTypeCorrect == ServerSpec => []ServerTypeOK
  <1>1. CountInv => ServerTypeOK
    BY DEF CountInv
  <1> QED
    BY <1>1, CountAlways, PTL

(* Every way out of handleConn and handleWSRelayUpgrade gives back the     *)
(* connection slot its Acquire took, exactly once: for any number of       *)
(* addresses the limiter counts the running handlers and no others.        *)
THEOREM ConnLimiterCorrect == ServerSpec => []ConnLimiterExact
  <1>1. CountInv => ConnLimiterExact
    BY DEF CountInv
  <1> QED
    BY <1>1, CountAlways, PTL

(* The session limiter of startRelay, startWSRelay and startMixedRelay     *)
(* never lets an address have more sessions than RelayMaxConnsIP, whatever *)
(* the transports of the pair and the order in which the slots are taken.  *)
THEOREM SessionLimitCorrect == ServerSpec => []SessionLimitSound
  <1>1. CountInv => SessionLimitSound
    BY DEF CountInv
  <1> QED
    BY <1>1, CountAlways, PTL

-----------------------------------------------------------------------------
(***************************************************************************)
(* Which goroutines know a connection.                                     *)
(***************************************************************************)

(* Where a connection can be that a goroutine other than its own knows. *)
RefPC == {"parked", "expired", "undone", "closed", "handed", "idle"}
AtMap == {"parked", "expired"}
Lapsed == AtMap \cup {"undone"}

(* A connection in the pending map is parked under its own UUID, and       *)
(* nobody has closed its done channel.                                     *)
PendingOK ==
  \A u \in Uuids, c \in Conns :
    pending[u] = c => pc[c] \in AtMap /\ req[c] = u /\ ~done[c]

(* A handler that has picked up a connection knows one that does not       *)
(* itself pick up another; once it has taken it out of the map it does not *)
(* come back.                                                              *)
OwnerOK ==
  \A c, d \in Conns :
    other[d] = c =>
      /\ pc[c] \in RefPC
      /\ pc[d] = "loaded" /\ pc[c] \in AtMap => req[d] = req[c]
      /\ pc[d] # "loaded" => \A u \in Uuids : pending[u] # c

(* The same of the connection the sweep holds. *)
SweepRefOK ==
  \A c \in Conns :
    sweep.conn = c /\ sweep.at # "rest" =>
      /\ pc[c] \in RefPC
      /\ pc[c] \in Lapsed => req[c] = sweep.uuid
      /\ sweep.at # "visited" => \A u \in Uuids : pending[u] # c

(* Before pairing the done channel of a connection is open. *)
FreshOK == \A c \in Conns : pc[c] \in GatePC => ~done[c]

ReferencesOK == PendingOK /\ OwnerOK /\ SweepRefOK /\ FreshOK

(* A step that adds no reference: nothing enters the pending map, no       *)
(* handler picks up a connection, and who takes one out of the map has     *)
(* deleted its entry.                                                      *)
NoNewReference ==
  /\ \A u \in Uuids, d \in Conns : pending'[u] = d =>
       pending[u] = d /\ pc'[d] \in AtMap /\ req'[d] = req[d] /\ ~done'[d]
  /\ \A d \in Conns : other'[d] # None =>
       /\ other'[d] = other[d] /\ req'[d] = req[d]
       /\ pc'[d] = "loaded" => pc[d] = "loaded"
       /\ pc'[d] # "loaded" /\ pc[d] = "loaded" => pending'[req[d]] = None
  /\ \A d \in Conns : pc[d] \in RefPC =>
       /\ pc'[d] \in RefPC
       /\ pc'[d] \in AtMap => pc[d] \in AtMap /\ req'[d] = req[d]
       /\ pc'[d] \in Lapsed => pc[d] \in Lapsed /\ req'[d] = req[d]
  /\ sweep'.at # "rest" =>
       /\ sweep.at # "rest" /\ sweep'.conn = sweep.conn /\ sweep'.uuid = sweep.uuid
       /\ sweep'.at # "visited" /\ sweep.at = "visited" => pending'[sweep.uuid] = None
  /\ \A d \in Conns : pc'[d] \in GatePC => pc[d] \in GatePC /\ done'[d] = done[d]

(* A step that adds no reference to a connection keeps what is known of *)
(* the references.                                                      *)
LEMMA ReferencesSame ==
  ASSUME ServerTypeOK, GateOK, SweepOK, ReferencesOK, NoNewReference
  PROVE  ReferencesOK'
  <1>1. PendingOK'
    BY DEF ReferencesOK, PendingOK, NoNewReference
  <1>2. OwnerOK'
    <2> SUFFICES ASSUME NEW c \in Conns, NEW d \in Conns, other'[d] = c
        PROVE  /\ pc'[c] \in RefPC
               /\ pc'[d] = "loaded" /\ pc'[c] \in AtMap => req'[d] = req'[c]
               /\ pc'[d] # "loaded" => \A u \in Uuids : pending'[u] # c
      BY DEF OwnerOK
    <2>1. other[d] = c /\ other'[d] # None
      BY NoneAssumption DEF NoNewReference
    <2>2. pc[c] \in RefPC /\ pc'[c] \in RefPC
      BY <2>1 DEF ReferencesOK, OwnerOK, NoNewReference
    <2>3. pc'[d] = "loaded" /\ pc'[c] \in AtMap => req'[d] = req'[c]
      BY <2>1, <2>2 DEF ReferencesOK, OwnerOK, NoNewReference
    <2>4. ASSUME pc'[d] # "loaded", NEW u \in Uuids, pending'[u] = c PROVE FALSE
      <3>1. pending[u] = c /\ pc[c] \in AtMap /\ req[c] = u
        BY <2>4 DEF ReferencesOK, PendingOK, NoNewReference
      <3>2. CASE pc[d] = "loaded"
        <4>1. req[d] = req[c] /\ pending'[req[d]] = None
          BY <2>1, <2>4, <3>1, <3>2 DEF ReferencesOK, OwnerOK, NoNewReference
        <4> QED
          BY <2>4, <3>1, <4>1, NoneAssumption
      <3>3. CASE pc[d] # "loaded"
        BY <2>1, <3>1, <3>3 DEF ReferencesOK, OwnerOK
      <3> QED
        BY <3>2, <3>3
    <2> QED
      BY <2>2, <2>3, <2>4
  <1>3. SweepRefOK'
    <2> SUFFICES ASSUME NEW c \in Conns, sweep'.conn = c, sweep'.at # "rest"
        PROVE  /\ pc'[c] \in RefPC
               /\ pc'[c] \in Lapsed => req'[c] = sweep'.uuid
               /\ sweep'.at # "visited" => \A u \in Uuids : pending'[u] # c
      BY DEF SweepRefOK
    <2>1. sweep.conn = c /\ sweep.at # "rest" /\ sweep'.uuid = sweep.uuid
      BY DEF NoNewReference
    <2>2. pc[c] \in RefPC /\ pc'[c] \in RefPC
      BY <2>1 DEF ReferencesOK, SweepRefOK, NoNewReference
    <2>3. pc'[c] \in Lapsed => req'[c] = sweep'.uuid
      BY <2>1, <2>2 DEF ReferencesOK, SweepRefOK, NoNewReference
    <2>4. ASSUME sweep'.at # "visited", NEW u \in Uuids, pending'[u] = c PROVE FALSE
      <3>1. pending[u] = c /\ pc[c] \in Lapsed /\ req[c] = u
        BY <2>4 DEF ReferencesOK, PendingOK, NoNewReference, Lapsed
      <3>2. CASE sweep.at = "visited"
        <4>1. u = sweep.uuid /\ pending'[sweep.uuid] = None
          BY <2>1, <2>4, <3>1, <3>2 DEF ReferencesOK, SweepRefOK, NoNewReference
        <4> QED
          BY <2>4, <4>1, NoneAssumption
      <3>3. CASE sweep.at # "visited"
        BY <2>1, <3>1, <3>3 DEF ReferencesOK, SweepRefOK
      <3> QED
        BY <3>2, <3>3
    <2> QED
      BY <2>2, <2>3, <2>4
  <1>4. FreshOK'
    BY DEF ReferencesOK, FreshOK, NoNewReference
  <1> QED
    BY <1>1, <1>2, <1>3, <1>4 DEF ReferencesOK

(* What the handler of c has to show. *)
LEMMA PairAddsNone ==
  ASSUME ServerTypeOK, GateOK, SweepOK, ReferencesOK, NEW c \in Conns, PairFrame(c),
         pc'[c] \notin GatePC,
         \A u \in Uuids, d \in Conns : pending'[u] = d =>
           pending[u] = d /\ ~done'[d] /\ (d = c => pc'[c] \in AtMap /\ req'[c] = req[c]),
         \A d \in Conns : pc[d] \in GatePC => done'[d] = done[d],
         other'[c] # None =>
           /\ other'[c] = other[c] /\ req'[c] = req[c]
           /\ pc'[c] = "loaded" => pc[c] = "loaded"
           /\ pc'[c] # "loaded" /\ pc[c] = "loaded" => pending'[req[c]] = None,
         pc[c] \in RefPC =>
           /\ pc'[c] \in RefPC
           /\ pc'[c] \in AtMap => pc[c] \in AtMap /\ req'[c] = req[c]
           /\ pc'[c] \in Lapsed => pc[c] \in Lapsed /\ req'[c] = req[c]
  PROVE  NoNewReference
  <1>1. \A u \in Uuids, d \in Conns : pending'[u] = d =>
          pending[u] = d /\ pc'[d] \in AtMap /\ req'[d] = req[d] /\ ~done'[d]
    <2> SUFFICES ASSUME NEW u \in Uuids, NEW d \in Conns, pending'[u] = d
        PROVE  pending[u] = d /\ pc'[d] \in AtMap /\ req'[d] = req[d] /\ ~done'[d]
      OBVIOUS
    <2>1. pending[u] = d /\ pc[d] \in AtMap /\ ~done'[d]
      BY DEF ReferencesOK, PendingOK
    <2> QED
      BY <2>1 DEF PairFrame, AtMap
  <1>2. \A d \in Conns : other'[d] # None =>
          /\ other'[d] = other[d] /\ req'[d] = req[d]
          /\ pc'[d] = "loaded" => pc[d] = "loaded"
          /\ pc'[d] # "loaded" /\ pc[d] = "loaded" => pending'[req[d]] = None
    <2> SUFFICES ASSUME NEW d \in Conns, d # c, other'[d] # None
        PROVE  other'[d] = other[d] /\ req'[d] = req[d] /\ pc'[d] = pc[d]
      OBVIOUS
    <2>1. other'[d] = other[d] /\ pc[d] # "handed"
      BY DEF PairFrame, ServerTypeOK, OwnerPC
    <2> QED
      BY <2>1 DEF PairFrame
  <1>3. \A d \in Conns : pc[d] \in RefPC =>
          /\ pc'[d] \in RefPC
          /\ pc'[d] \in AtMap => pc[d] \in AtMap /\ req'[d] = req[d]
          /\ pc'[d] \in Lapsed => pc[d] \in Lapsed /\ req'[d] = req[d]
    <2> SUFFICES ASSUME NEW d \in Conns, d # c, pc[d] \in RefPC
        PROVE  /\ pc'[d] \in RefPC
               /\ pc'[d] \in AtMap => pc[d] \in AtMap /\ req'[d] = req[d]
               /\ pc'[d] \in Lapsed => pc[d] \in Lapsed /\ req'[d] = req[d]
      OBVIOUS
    <2> QED
      BY DEF PairFrame, RefPC, AtMap, Lapsed
  <1>4. \A d \in Conns : pc'[d] \in GatePC => pc[d] \in GatePC /\ done'[d] = done[d]
    BY DEF PairFrame, GatePC
  <1>5. UNCHANGED sweep
    BY DEF PairFrame
  <1> QED
    BY <1>1, <1>2, <1>3, <1>4, <1>5 DEF NoNewReference

(* A step of the gate adds no reference: nobody knows a connection there. *)
LEMMA GateAddsNone ==
  ASSUME ServerTypeOK, GateOK, SweepOK, ReferencesOK, GateStep
  PROVE  NoNewReference
  <1>1. GateMoves /\ UNCHANGED <<pending, done, other, sweep>>
    BY GateStepKept DEF GateStep, srvVars, pairVars
  <1>2. \A d \in Conns : pc[d] \notin BeforeOutcome => pc'[d] = pc[d] /\ req'[d] = req[d]
    BY <1>1 DEF GateMoves, BeforeOutcome, GatePC
  <1>3. \A u \in Uuids, d \in Conns : pending'[u] = d =>
          pending[u] = d /\ pc'[d] \in AtMap /\ req'[d] = req[d] /\ ~done'[d]
    BY <1>1, <1>2 DEF ReferencesOK, PendingOK, AtMap, BeforeOutcome, GatePC
  <1>4. \A d \in Conns : other'[d] # None =>
          other'[d] = other[d] /\ req'[d] = req[d] /\ pc'[d] = pc[d]
    BY <1>1, <1>2 DEF ServerTypeOK, OwnerPC, BeforeOutcome, GatePC
  <1>5. \A d \in Conns : pc[d] \in RefPC => pc'[d] = pc[d] /\ req'[d] = req[d]
    BY <1>2 DEF RefPC, BeforeOutcome, GatePC
  <1>6. \A d \in Conns : pc'[d] \in GatePC => pc[d] \in GatePC /\ done'[d] = done[d]
    BY <1>1 DEF GateMoves, BeforeOutcome
  <1> QED
    BY <1>1, <1>3, <1>4, <1>5, <1>6 DEF NoNewReference

(* The handlers beyond the gate that neither accept nor pair. *)
LEMMA HandlerAddsNone ==
  ASSUME ServerTypeOK, GateOK, SweepOK, ReferencesOK, NEW c \in Conns, PairStep(c),
         ~Accept(c), ~LoadOrStore(c)
  PROVE  NoNewReference
  <1>0. PairFrame(c)
    BY PairKept
  <1>1. /\ \A u \in Uuids, d \in Conns : pending[u] = d =>
             pc[d] \in AtMap /\ req[d] = u /\ ~done[d]
        /\ pc[c] \in AskedPC => req[c] \in Uuids
        /\ pc[c] \notin AtMap => \A u \in Uuids : pending[u] # c
    BY DEF ReferencesOK, PendingOK, GateOK
  <1> USE DEF AtMap, Lapsed, RefPC, GatePC, OwnerPC
  <1>2. CASE CloseRejected(c)
    <2>1. /\ pc[c] = "rejected" /\ pc'[c] = "closed"
          /\ UNCHANGED <<pending, done, other, req>>
      BY <1>2 DEF CloseRejected, Move, Goto, ServerTypeOK
    <2> QED
      BY <1>0, <1>1, <2>1, PairAddsNone DEF ServerTypeOK
  <1>3. CASE Return(c)
    <2>1. /\ pc[c] = "closed" /\ pc'[c] \in {"idle", "handed"}
          /\ UNCHANGED <<pending, done, other>> /\ other[c] = None
      BY <1>3 DEF Return, MoveAndDrop, pairVars, ServerTypeOK
    <2> QED
      BY <1>0, <1>1, <2>1, PairAddsNone
  <1>4. CASE Paired(c)
    <2>1. /\ pc[c] = "parked" /\ pc'[c] = "closed" /\ done[c]
          /\ UNCHANGED <<pending, done, other, req>> /\ other[c] = None
      BY <1>4 DEF Paired, Move, Goto, ServerTypeOK
    <2> QED
      BY <1>0, <1>1, <2>1, PairAddsNone
  <1>5. CASE TimedOut(c)
    <2>1. /\ pc[c] = "parked"
          /\ pc'[c] = IF pending[req[c]] = c THEN "expired" ELSE "closed"
          /\ UNCHANGED <<pending, done, other, req>> /\ other[c] = None
      BY <1>5 DEF TimedOut, Move, Goto, ServerTypeOK
    <2> QED
      BY <1>0, <1>1, <2>1, PairAddsNone
  <1>6. CASE TimeoutDelete(c)
    <2>1. /\ pc[c] = "expired" /\ pc'[c] = "undone" /\ other[c] = None
          /\ pending' = [pending EXCEPT ![req[c]] = None]
          /\ UNCHANGED <<done, other, req>>
      BY <1>6 DEF TimeoutDelete, Move, Goto, ServerTypeOK
    <2>2. \A u \in Uuids, d \in Conns : pending'[u] = d =>
            pending[u] = d /\ ~done'[d] /\ d # c
      BY <1>1, <2>1, NoneAssumption DEF ServerTypeOK
    <2> QED
      BY <1>0, <2>1, <2>2, PairAddsNone
  <1>7. CASE TimeoutRelease(c)
    <2>1. /\ pc[c] = "undone" /\ pc'[c] = "closed" /\ other[c] = None
          /\ UNCHANGED <<pending, done, other, req>>
      BY <1>7 DEF TimeoutRelease, Goto, ServerTypeOK
    <2> QED
      BY <1>0, <1>1, <2>1, PairAddsNone
  <1>8. CASE DeleteEntry(c)
    <2>1. /\ pc[c] = "loaded" /\ pc'[c] = "unmapped" /\ req[c] \in Uuids
          /\ pending' = [pending EXCEPT ![req[c]] = None]
          /\ UNCHANGED <<done, other, req>>
      BY <1>1, <1>8 DEF DeleteEntry, Move, Goto, ServerTypeOK, AskedPC, ServerPC
    <2>2. /\ pending'[req[c]] = None
          /\ \A u \in Uuids, d \in Conns : pending'[u] = d =>
               pending[u] = d /\ ~done'[d] /\ d # c
      BY <1>1, <2>1, NoneAssumption DEF ServerTypeOK
    <2> QED
      BY <1>0, <2>1, <2>2, PairAddsNone
  <1>9. CASE CloseDone(c)
    <2>1. /\ pc[c] = "unmapped" /\ pc'[c] = "slot1" /\ other[c] \in Conns
          /\ done' = [done EXCEPT ![other[c]] = TRUE]
          /\ UNCHANGED <<pending, other, req>>
      BY <1>9 DEF CloseDone, Move, Goto, ServerTypeOK
    <2>2. pc[other[c]] \in RefPC /\ \A u \in Uuids : pending[u] # other[c]
      BY <2>1 DEF ReferencesOK, OwnerOK
    <2>3. \A d \in Conns : d # other[c] => done'[d] = done[d]
      BY <2>1 DEF ServerTypeOK
    <2>4. \A u \in Uuids, d \in Conns : pending'[u] = d =>
            pending[u] = d /\ ~done'[d] /\ d # c
      BY <1>1, <2>1, <2>2, <2>3
    <2>5. \A d \in Conns : pc[d] \in GatePC => done'[d] = done[d]
      BY <2>2, <2>3
    <2> QED
      BY <1>0, <2>1, <2>4, <2>5, PairAddsNone
  <1>10. CASE AcquireFirst(c) \/ AcquireSecond(c) \/ FreeSession(c)
    <2>1. /\ pc[c] \in {"slot1", "slot2", "freeing"}
          /\ UNCHANGED <<pending, done>>
          /\ CloseBoth(c, "closed")
             \/ (Move(c, "slot2") /\ UNCHANGED other)
             \/ (Move(c, "starting") /\ UNCHANGED other)
      BY <1>10 DEF AcquireFirst, AcquireSecond, AcquireSession, FreeSession
    <2>2. CASE CloseBoth(c, "closed")
      <3>1. pc'[c] = "closed" /\ other'[c] = None /\ req'[c] = req[c]
        BY <2>1, <2>2, CloseFacts
      <3> QED
        BY <1>0, <1>1, <2>1, <3>1, PairAddsNone
    <2>3. CASE (Move(c, "slot2") \/ Move(c, "starting")) /\ UNCHANGED other
      <3>1. pc'[c] \in {"slot2", "starting"} /\ req'[c] = req[c]
        BY <2>3 DEF Move, Goto, ServerTypeOK
      <3> QED
        BY <1>0, <1>1, <2>1, <2>3, <3>1, PairAddsNone
    <2> QED
      BY <2>1, <2>2, <2>3
  <1>11. CASE StartSession(c) \/ EndSession(c)
    <2>1. /\ pc[c] \in {"starting", "copying"} /\ pc'[c] \in {"copying", "freeing"}
          /\ UNCHANGED <<pending, done, other, req>>
      BY <1>11 DEF StartSession, EndSession, pairVars, Move, Goto, ServerTypeOK
    <2> QED
      BY <1>0, <1>1, <2>1, PairAddsNone
  <1> QED
    BY <1>2, <1>3, <1>4, <1>5, <1>6, <1>7, <1>8, <1>9, <1>10, <1>11 DEF PairStep

(* The sweep once it has an entry, and the clock. *)
LEMMA SideAddsNone ==
  ASSUME ServerTypeOK, GateOK, SweepOK, ReferencesOK,
         SweepDelete \/ SweepRelease \/ SweepClose \/ ServerTick
  PROVE  NoNewReference
  <1>0. SideFrame
    BY SideKept DEF SideStep
  <1>1. ASSUME \A u \in Uuids, d \in Conns : pending'[u] = d => pending[u] = d /\ ~done'[d],
               \A d \in Conns : pc[d] \in GatePC => done'[d] = done[d],
               sweep'.at # "rest" =>
                 /\ sweep.at # "rest" /\ sweep'.conn = sweep.conn /\ sweep'.uuid = sweep.uuid
                 /\ sweep'.at # "visited" /\ sweep.at = "visited" =>
                      pending'[sweep.uuid] = None
        PROVE  NoNewReference
    <2>1. \A u \in Uuids, d \in Conns : pending'[u] = d =>
            pending[u] = d /\ pc'[d] \in AtMap /\ req'[d] = req[d] /\ ~done'[d]
      BY <1>0, <1>1 DEF SideFrame, ReferencesOK, PendingOK, AtMap
    <2>2. \A d \in Conns : other'[d] # None =>
            other'[d] = other[d] /\ req'[d] = req[d] /\ pc'[d] = pc[d]
      BY <1>0 DEF SideFrame, ServerTypeOK, OwnerPC
    <2>3. \A d \in Conns : pc[d] \in RefPC =>
            /\ pc'[d] \in RefPC
            /\ pc'[d] \in AtMap => pc[d] \in AtMap /\ req'[d] = req[d]
            /\ pc'[d] \in Lapsed => pc[d] \in Lapsed /\ req'[d] = req[d]
      BY <1>0 DEF SideFrame, RefPC, AtMap, Lapsed
    <2>4. \A d \in Conns : pc'[d] \in GatePC => pc[d] \in GatePC /\ done'[d] = done[d]
      BY <1>0, <1>1 DEF SideFrame, GatePC
    <2> QED
      BY <1>1, <2>1, <2>2, <2>3, <2>4 DEF NoNewReference
  <1>2. \A u \in Uuids, d \in Conns : pending[u] = d => ~done[d]
    BY DEF ReferencesOK, PendingOK
  <1>3. CASE SweepDelete
    <2>1. sweep.conn \in Conns /\ sweep.uuid \in Uuids /\ UNCHANGED done
          /\ sweep.at = "visited"
      BY <1>3 DEF SweepDelete, SweepOK
    <2>2. CASE /\ pending' = [pending EXCEPT ![sweep.uuid] = None]
               /\ sweep' = [sweep EXCEPT !.at = "deleted"]
      <3>1. /\ pending'[sweep.uuid] = None
            /\ \A u \in Uuids, d \in Conns : pending'[u] = d => pending[u] = d
        BY <2>1, <2>2, NoneAssumption DEF ServerTypeOK
      <3>2. sweep'.conn = sweep.conn /\ sweep'.uuid = sweep.uuid
        BY <2>2 DEF ServerTypeOK
      <3> QED
        BY <1>1, <1>2, <2>1, <3>1, <3>2
    <2>3. CASE sweep' = Resting /\ UNCHANGED pending
      BY <1>1, <1>2, <2>1, <2>3 DEF Resting
    <2> QED
      BY <1>3, <2>2, <2>3 DEF SweepDelete
  <1>4. CASE SweepRelease
    <2>1. /\ sweep.at = "deleted" /\ UNCHANGED <<pending, done>>
          /\ sweep'.conn = sweep.conn /\ sweep'.uuid = sweep.uuid
      BY <1>4 DEF SweepRelease, pairVars, ServerTypeOK
    <2> QED
      BY <1>1, <1>2, <2>1
  <1>5. CASE SweepClose
    <2>1. /\ sweep.at = "released" /\ sweep.conn \in Conns
          /\ UNCHANGED pending /\ sweep'.at = "rest"
          /\ done' = [done EXCEPT ![sweep.conn] = TRUE]
      BY <1>5 DEF SweepClose, SweepOK, Resting
    <2>2. pc[sweep.conn] \in RefPC /\ \A u \in Uuids : pending[u] # sweep.conn
      BY <2>1 DEF ReferencesOK, SweepRefOK
    <2>3. \A d \in Conns : d # sweep.conn => done'[d] = done[d]
      BY <2>1 DEF ServerTypeOK
    <2>4. \A d \in Conns : pc[d] \in GatePC => done'[d] = done[d]
      BY <2>2, <2>3 DEF RefPC, GatePC
    <2> QED
      BY <1>1, <1>2, <2>1, <2>2, <2>3, <2>4
  <1>6. CASE ServerTick
    <2>1. UNCHANGED <<pending, done, sweep>>
      BY <1>6 DEF ServerTick
    <2> QED
      BY <1>1, <1>2, <2>1
  <1> QED
    BY <1>3, <1>4, <1>5, <1>6

(* A new connection uses a slot nobody knows. *)
LEMMA AcceptAddsNone ==
  ASSUME ServerTypeOK, GateOK, SweepOK, ReferencesOK, NEW c \in Conns, Accept(c)
  PROVE  ReferencesOK'
  <1>1. /\ pc[c] = "idle" /\ pc'[c] = "reading"
        /\ \A d \in Conns : d # c => pc'[d] = pc[d] /\ done'[d] = done[d]
        /\ ~done'[c]
        /\ UNCHANGED <<req, pending, other, sweep>>
    BY DEF Accept, Move, Goto, ServerTypeOK
  <1>2. /\ sweep.conn # c
        /\ \A d \in Conns : other[d] # c
        /\ \A u \in Uuids : pending[u] # c
    BY DEF Accept, Unreferenced
  <1>3. PendingOK'
    BY <1>1, <1>2 DEF ReferencesOK, PendingOK
  <1>4. OwnerOK'
    <2> SUFFICES ASSUME NEW x \in Conns, NEW d \in Conns, other'[d] = x
        PROVE  /\ pc'[x] \in RefPC
               /\ pc'[d] = "loaded" /\ pc'[x] \in AtMap => req'[d] = req'[x]
               /\ pc'[d] # "loaded" => \A u \in Uuids : pending'[u] # x
      BY DEF OwnerOK
    <2>1. other[d] = x /\ x # c /\ d # c
      BY <1>1, <1>2, NoneAssumption DEF ServerTypeOK, OwnerPC
    <2> QED
      BY <1>1, <2>1 DEF ReferencesOK, OwnerOK
  <1>5. SweepRefOK'
    BY <1>1, <1>2 DEF ReferencesOK, SweepRefOK
  <1>6. FreshOK'
    BY <1>1 DEF ReferencesOK, FreshOK
  <1> QED
    BY <1>3, <1>4, <1>5, <1>6 DEF ReferencesOK

(* Pairing: the first connection is parked, the second one picks it up. *)
LEMMA LoadOrStoreRefs ==
  ASSUME ServerTypeOK, GateOK, SweepOK, ReferencesOK, NEW c \in Conns, LoadOrStore(c)
  PROVE  ReferencesOK'
  <1>1. /\ pc[c] = "claimed" /\ req[c] \in Uuids /\ other[c] = None /\ ~done[c]
        /\ UNCHANGED <<req, done, sweep>>
        /\ \A d \in Conns : d # c => pc'[d] = pc[d]
    BY SMTT(30) DEF LoadOrStore, Move, Goto, ServerTypeOK, GateOK, AskedPC, ServerPC, GatePC,
           OwnerPC, ReferencesOK, FreshOK
  <1>2. /\ \A u \in Uuids : pending[u] # c
        /\ \A d \in Conns : other[d] # c
        /\ sweep.at # "rest" => sweep.conn # c
    BY <1>1 DEF ReferencesOK, PendingOK, OwnerOK, SweepRefOK, RefPC, AtMap
  <1>3. pc'[c] \notin GatePC
    BY DEF LoadOrStore, Move, Goto, ServerTypeOK, GatePC
  <1>4. FreshOK'
    BY <1>1, <1>3 DEF ReferencesOK, FreshOK
  <1>5. CASE /\ pending' = [pending EXCEPT ![req[c]] = c] /\ pending[req[c]] = None
             /\ pc'[c] = "parked" /\ UNCHANGED other
    <2>1. PendingOK'
      BY <1>1, <1>2, <1>5 DEF ReferencesOK, PendingOK, AtMap, ServerTypeOK
    <2>2. OwnerOK'
      BY <1>1, <1>2, <1>5 DEF ReferencesOK, OwnerOK, ServerTypeOK
    <2>3. SweepRefOK'
      BY <1>1, <1>2, <1>5 DEF ReferencesOK, SweepRefOK, ServerTypeOK
    <2> QED
      BY <1>4, <2>1, <2>2, <2>3 DEF ReferencesOK
  <1>6. CASE /\ other' = [other EXCEPT ![c] = pending[req[c]]] /\ pending[req[c]] # None
             /\ pc'[c] = "loaded" /\ UNCHANGED pending
    <2>1. PendingOK'
      BY <1>1, <1>2, <1>6 DEF ReferencesOK, PendingOK
    <2>2. OwnerOK'
      <3> SUFFICES ASSUME NEW x \in Conns, NEW d \in Conns, other'[d] = x
          PROVE  /\ pc'[x] \in RefPC
                 /\ pc'[d] = "loaded" /\ pc'[x] \in AtMap => req'[d] = req'[x]
                 /\ pc'[d] # "loaded" => \A u \in Uuids : pending'[u] # x
        BY DEF OwnerOK
      <3>1. CASE d = c
        <4>1. x = pending[req[c]] /\ x # c
          BY <1>1, <1>2, <1>6, <3>1 DEF ServerTypeOK
        <4>2. pc[x] \in AtMap /\ req[x] = req[c]
          BY <1>1, <4>1 DEF ReferencesOK, PendingOK
        <4> QED
          BY <1>1, <1>6, <3>1, <4>1, <4>2 DEF RefPC, AtMap
      <3>2. CASE d # c
        <4>1. other[d] = x /\ x # c
          BY <1>2, <1>6, <3>2 DEF ServerTypeOK
        <4> QED
          BY <1>1, <1>6, <3>2, <4>1 DEF ReferencesOK, OwnerOK
      <3> QED
        BY <3>1, <3>2
    <2>3. SweepRefOK'
      BY <1>1, <1>2, <1>6 DEF ReferencesOK, SweepRefOK
    <2> QED
      BY <1>4, <2>1, <2>2, <2>3 DEF ReferencesOK
  <1> QED
    BY <1>5, <1>6 DEF LoadOrStore, Move, Goto, ServerTypeOK

(* The sweep takes an entry that is parked under the UUID it came by. *)
LEMMA SweepVisitRefs ==
  ASSUME ServerTypeOK, GateOK, SweepOK, ReferencesOK, NEW u \in Uuids, SweepVisit(u)
  PROVE  ReferencesOK'
  <1>1. /\ pending[u] \in Conns /\ UNCHANGED <<pc, req, pending, done, other>>
        /\ sweep' = [at |-> "visited", conn |-> pending[u], uuid |-> u]
    BY DEF SweepVisit, vars, connVars, pairVars, ServerTypeOK
  <1>2. pc[pending[u]] \in AtMap /\ req[pending[u]] = u
    BY <1>1 DEF ReferencesOK, PendingOK
  <1>3. SweepRefOK'
    BY <1>1, <1>2 DEF SweepRefOK, RefPC, AtMap
  <1>4. PendingOK' /\ OwnerOK' /\ FreshOK'
    BY <1>1 DEF ReferencesOK, PendingOK, OwnerOK, FreshOK
  <1> QED
    BY <1>3, <1>4 DEF ReferencesOK

(* One case per kind of step. *)
LEMMA ReferencesKept ==
  ASSUME ServerTypeOK, GateOK, SweepOK, ReferencesOK, ServerNext
  PROVE  ReferencesOK'
  <1>1. CASE GateStep
    BY <1>1, GateAddsNone, ReferencesSame
  <1>2. ASSUME NEW c \in Conns, PairStep(c) PROVE ReferencesOK'
    BY <1>2, AcceptAddsNone, LoadOrStoreRefs, HandlerAddsNone, ReferencesSame
  <1>3. CASE \E u \in Uuids : SweepVisit(u)
    BY <1>3, SweepVisitRefs
  <1>4. CASE SweepDelete \/ SweepRelease \/ SweepClose \/ ServerTick
    BY <1>4, SideAddsNone, ReferencesSame
  <1> QED
    BY <1>1, <1>2, <1>3, <1>4, StepCases

(* The second inductive invariant. *)
ServerInv == CountInv /\ ReferencesOK

(* Nobody refers to a connection at the start. *)
LEMMA ServerInvInit == ServerInit => ServerInv
  <1> SUFFICES ASSUME ServerInit PROVE ReferencesOK
    BY CountInit DEF ServerInv
  <1>1. /\ pending = [u \in Uuids |-> None] /\ other = [c \in Conns |-> None]
        /\ pc = [c \in Conns |-> "idle"] /\ sweep.at = "rest"
    BY DEF ServerInit, InitAt, Resting
  <1> QED
    BY <1>1, NoneAssumption
       DEF ReferencesOK, PendingOK, OwnerOK, SweepRefOK, FreshOK, GatePC

(* The second invariant is inductive. *)
LEMMA ServerInvStep == ServerInv /\ [ServerNext]_allVars => ServerInv'
  <1> SUFFICES ASSUME ServerInv, [ServerNext]_allVars PROVE ServerInv'
    OBVIOUS
  <1>1. CountInv'
    BY CountStep DEF ServerInv
  <1>2. CASE ServerNext
    BY <1>1, <1>2, ReferencesKept DEF ServerInv, CountInv
  <1>3. CASE UNCHANGED allVars
    <2>1. UNCHANGED <<pc, req, pending, done, other, sweep>>
      BY <1>3 DEF allVars, vars, connVars, srvVars, pairVars
    <2> QED
      BY <1>1, <2>1 DEF ServerInv, ReferencesOK, PendingOK, OwnerOK, SweepRefOK, FreshOK
  <1> QED
    BY <1>2, <1>3

(* The second invariant holds always. *)
LEMMA ServerInvAlways == ServerSpec => []ServerInv
  BY ServerInvInit, ServerInvStep, PTL DEF ServerSpec

(* A connection found in the pending map (pairIncomingConn) is one whose   *)
(* handler sits in its select, or has left it since: it never runs a       *)
(* session of its own, however many handlers found it.                     *)
PartnerPassive ==
  \A c, d \in Conns : other[c] = d => c # d /\ other[d] = None

(* This is the half of SessionExclusive that no assumption on signal is    *)
(* needed for.                                                             *)
THEOREM PartnerIsPassive == ServerSpec => []PartnerPassive
  <1>1. ServerInv => PartnerPassive
    <2> SUFFICES ASSUME ServerInv, NEW c \in Conns, NEW d \in Conns, other[c] = d
        PROVE  c # d /\ other[d] = None
      BY DEF PartnerPassive
    <2>1. pc[d] \in RefPC
      BY DEF ServerInv, ReferencesOK, OwnerOK
    <2>2. other[d] = None
      BY <2>1 DEF ServerInv, CountInv, ServerTypeOK, OwnerPC, RefPC
    <2> QED
      BY <2>2, NoneAssumption
  <1> QED
    BY <1>1, ServerInvAlways, PTL

-----------------------------------------------------------------------------
(***************************************************************************)
(* Who holds a claim, when signal authorizes each UUID once.               *)
(***************************************************************************)

(* The connections that hold a claim of the ticket of u. *)
Holders(u) == {c \in Conns : req[c] = u /\ claimed[c] # 0}

UnclaimedPC == {"idle", "reading", "claiming", "acquiring", "checking", "blocked",
                "woken", "reclaiming", "leaving_no", "rejected"}
ClaimedPC == {"leaving_ok", "claimed", "freeing"} \cup OwnerPC

(* A handler holds a claim from Claim until it is done with its session; a *)
(* parked one may lose it to the sweep.                                    *)
ClaimsOK ==
  \A c \in Conns :
    /\ pc[c] \in UnclaimedPC => claimed[c] = 0
    /\ pc[c] \in ClaimedPC => claimed[c] # 0
    /\ \A u \in Uuids : pending[u] = c => claimed[c] # 0
    /\ pc[c] \in {"idle", "reading", "claiming"} => elapsed[c] = 0

(* A claim is of a ticket that was issued. *)
IssuedOK ==
  /\ \A u \in Uuids : issued[u] = 0 => tickets[u] = None
  /\ \A c \in Conns :
       claimed[c] # 0 \/ pc[c] \in Lapsed => req[c] \in Uuids /\ issued[req[c]] > 0
  /\ sweep.at # "rest" => issued[sweep.uuid] > 0

(* A connection that has waited long enough to be swept, or has been, has  *)
(* outlived its ticket.                                                    *)
TimedPC == {"claimed", "parked", "expired"}
OutlivedOK ==
  /\ \A c \in Conns : pc[c] \in TimedPC /\ ~Dead(req[c]) =>
       elapsed[c] + tickets[req[c]].ttl <= PairTimeout
  /\ sweep.at # "rest" => Dead(sweep.uuid)
  /\ \A c \in Conns : pc[c] \in Lapsed /\ claimed[c] = 0 => Dead(req[c])

(* A ticket counts its holders. *)
HoldersCounted ==
  \A u \in Uuids :
    /\ ~Dead(u) => Cardinality(Holders(u)) <= tickets[u].claims
    /\ Cardinality(Holders(u)) <= 2

(* No parked connection is picked up twice. *)
PickedOnce ==
  \A c, d \in Conns : other[c] # None /\ other[c] = other[d] => c = d

(* The third inductive invariant, for MaxTickets = 1. *)
OnceInv ==
  /\ ClaimsOK
  /\ IssuedOK
  /\ OutlivedOK
  /\ HoldersCounted
  /\ PickedOnce

(* A step that issues no ticket and gives no claim. *)
QuietRegistry ==
  /\ UNCHANGED issued
  /\ \A u \in Uuids :
       /\ tickets[u] = None => tickets'[u] = None
       /\ Dead(u) => Dead(u)'
       /\ ~Dead(u)' => /\ tickets'[u].claims = tickets[u].claims
                       /\ tickets'[u].ttl <= tickets[u].ttl

(* The holders of a ticket can be counted. *)
LEMMA HoldersTyped ==
  ASSUME NEW u
  PROVE  /\ IsFiniteSet(Holders(u)) /\ Cardinality(Holders(u)) \in Nat
         /\ IsFiniteSet(Holders(u)') /\ Cardinality(Holders(u)') \in Nat
  <1>1. Holders(u) \in SUBSET Conns /\ Holders(u)' \in SUBSET Conns
    BY DEF Holders
  <1> QED
    BY <1>1, CountTyped

(* Pruning is quiet. *)
LEMMA PruneQuiet ==
  ASSUME GateOK, tickets' = tickets \/ tickets' = PrunedTickets, UNCHANGED issued
  PROVE  QuietRegistry
  <1>1. \A u \in Uuids : tickets[u] # None => tickets[u].ttl \in Nat
    BY DEF GateOK, Ticket
  <1>2. CASE tickets' = tickets
    BY <1>1, <1>2 DEF QuietRegistry, Dead
  <1>3. CASE tickets' = PrunedTickets
    <2>1. \A u \in Uuids :
            /\ tickets'[u] # None => tickets'[u] = tickets[u] /\ tickets[u].ttl > 0
            /\ tickets'[u] = None <=> Dead(u)
      BY <1>3, PruneTyped
    <2> QED
      BY <1>1, <2>1 DEF QuietRegistry, Dead
  <1> QED
    BY <1>2, <1>3

(* A quiet step adds no holder. *)
LEMMA QuietHolders ==
  ASSUME GateOK, HoldersCounted, QuietRegistry,
         \A d \in Conns : claimed'[d] # 0 => claimed[d] # 0 /\ req'[d] = req[d]
  PROVE  HoldersCounted'
  <1> SUFFICES ASSUME NEW u \in Uuids
      PROVE  /\ ~Dead(u)' => Cardinality(Holders(u)') <= tickets'[u].claims
             /\ Cardinality(Holders(u)') <= 2
    BY DEF HoldersCounted, Holders
  <1>1. Holders(u)' \in SUBSET Holders(u)
    BY DEF Holders
  <1>2. Cardinality(Holders(u)') <= Cardinality(Holders(u))
    BY <1>1, HoldersTyped, FS_Subset
  <1>3. /\ Cardinality(Holders(u)) \in Nat /\ Cardinality(Holders(u)') \in Nat
        /\ Cardinality(Holders(u)) <= 2
        /\ ~Dead(u) => tickets[u].claims \in Nat
                       /\ Cardinality(Holders(u)) <= tickets[u].claims
    BY HoldersTyped DEF HoldersCounted, GateOK, Ticket, Dead
  <1>4. ~Dead(u)' => ~Dead(u) /\ tickets'[u].claims = tickets[u].claims
    BY DEF QuietRegistry
  <1> QED
    BY <1>2, <1>3, <1>4

(* The steps of the gate: a claim, a new ticket, or neither. *)
GateQuiet ==
  /\ QuietRegistry
  /\ \A d \in Conns :
       /\ claimed'[d] = claimed[d]
       /\ req'[d] = req[d] \/ pc[d] = "reading"
       /\ \/ pc'[d] = pc[d] /\ elapsed'[d] = elapsed[d]
          \/ /\ pc[d] \in UnclaimedPC \ {"idle"}
             /\ pc'[d] \in UnclaimedPC \ {"idle", "reading", "claiming"}
          \/ pc[d] = "reading" /\ pc'[d] = "claiming" /\ elapsed'[d] = elapsed[d]
          \/ pc[d] = "leaving_ok" /\ pc'[d] = "claimed" /\ elapsed'[d] = 0

ClaimStep(c) ==
  /\ req[c] \in Uuids /\ CanClaim(req[c]) /\ Claim(req[c])
  /\ \/ pc[c] = "claiming" /\ pc'[c] = "claimed"
     \/ pc[c] = "reclaiming" /\ pc'[c] = "leaving_ok"
  /\ claimed'[c] # 0
  /\ \A d \in Conns : d # c => pc'[d] = pc[d] /\ claimed'[d] = claimed[d]
  /\ UNCHANGED <<req, elapsed, issued>>

IssueStep(u) ==
  /\ issued[u] = 0 /\ issued'[u] = 1
  /\ tickets'[u].ttl = PairTimeout /\ tickets'[u].claims = 0 /\ tickets'[u] # None
  /\ \A v \in Uuids : v # u => tickets'[v] = PrunedTickets[v] /\ issued'[v] = issued[v]
  /\ UNCHANGED <<req, elapsed, claimed>>
  /\ \A d \in Conns : pc'[d] = pc[d] \/ (pc[d] = "blocked" /\ pc'[d] = "woken")

(* A handler that moves within the gate without a claim. *)
LEMMA GotoQuiet ==
  ASSUME ServerTypeOK, QuietRegistry, NEW c \in Conns, NEW label, Goto(c, label),
         UNCHANGED <<claimed, req>>,
         \A d \in Conns : d # c => elapsed'[d] = elapsed[d],
         \/ /\ pc[c] \in UnclaimedPC \ {"idle"}
            /\ label \in UnclaimedPC \ {"idle", "reading", "claiming"}
         \/ pc[c] = "leaving_ok" /\ label = "claimed" /\ elapsed'[c] = 0
  PROVE  GateQuiet
  <1>1. pc'[c] = label /\ \A d \in Conns : d # c => pc'[d] = pc[d]
    BY DEF Goto, ServerTypeOK
  <1> QED
    BY <1>1 DEF GateQuiet

(* A step of the gate is quiet, claims a ticket or issues one. *)
LEMMA GateClassified ==
  ASSUME MaxTickets = 1, ServerTypeOK, GateOK, GateStep
  PROVE  \/ GateQuiet
         \/ \E c \in Conns : ClaimStep(c)
         \/ \E u \in Uuids : IssueStep(u)
  <1> USE DEF UnclaimedPC
  <1>1. ASSUME NEW c \in Conns, Gate(c)
        PROVE  GateQuiet \/ ClaimStep(c)
    <2>1. ASSUME NEW ok \in {"claimed", "leaving_ok"},
                 (pc[c] = "claiming" /\ ok = "claimed") \/ (pc[c] = "reclaiming" /\ ok = "leaving_ok"),
                 CanClaim(req[c]), Claim(req[c]), Goto(c, ok),
                 claimed' = [claimed EXCEPT ![c] = PrunedTickets[req[c]].serial],
                 UNCHANGED <<req, elapsed, issued>>
          PROVE  ClaimStep(c)
      <3>1. req[c] \in Uuids
        BY <2>1 DEF GateOK, AskedPC, ServerPC, GatePC
      <3>2. PrunedTickets[req[c]].serial \in 1..MaxTickets
        BY <2>1, <3>1, ClaimTyped
      <3>3. claimed'[c] # 0 /\ \A d \in Conns : d # c => claimed'[d] = claimed[d]
        BY <2>1, <3>2 DEF GateOK
      <3>4. pc'[c] = ok /\ \A d \in Conns : d # c => pc'[d] = pc[d]
        BY <2>1 DEF Goto, ServerTypeOK
      <3> QED
        BY <2>1, <3>1, <3>3, <3>4 DEF ClaimStep
    <2>2. CASE FirstClaim(c)
      <3>1. CASE PruneOnly /\ Goto(c, "acquiring") /\ UNCHANGED claimed
        <4>1. QuietRegistry /\ UNCHANGED <<req, elapsed>> /\ pc[c] = "claiming"
          BY <2>2, <3>1, PruneQuiet DEF FirstClaim, PruneOnly
        <4> QED
          BY <3>1, <4>1, GotoQuiet
      <3> QED
        BY <2>1, <2>2, <3>1 DEF FirstClaim
    <2>3. CASE SecondClaim(c)
      <3>1. CASE PruneOnly /\ Goto(c, "leaving_no") /\ UNCHANGED claimed
        <4>1. QuietRegistry /\ UNCHANGED <<req, elapsed>> /\ pc[c] = "reclaiming"
          BY <2>3, <3>1, PruneQuiet DEF SecondClaim, PruneOnly
        <4> QED
          BY <3>1, <4>1, GotoQuiet
      <3> QED
        BY <2>1, <2>3, <3>1 DEF SecondClaim
    <2>4. CASE AcquireWait(c)
      <3>1. /\ QuietRegistry /\ UNCHANGED <<req, claimed>> /\ pc[c] = "acquiring"
            /\ Goto(c, "checking") \/ Goto(c, "rejected")
            /\ \A d \in Conns : d # c => elapsed'[d] = elapsed[d]
        BY <2>4, PruneQuiet DEF AcquireWait, regVars, GateOK
      <3> QED
        BY <3>1, GotoQuiet
    <2>5. CASE CheckWait(c)
      <3>1. /\ QuietRegistry /\ UNCHANGED <<req, claimed, elapsed>> /\ pc[c] = "checking"
            /\ Goto(c, "leaving_no") \/ Goto(c, "reclaiming") \/ Goto(c, "blocked")
        BY <2>5, PruneQuiet DEF CheckWait, PruneOnly
      <3> QED
        BY <3>1, GotoQuiet
    <2>6. CASE Wake(c)
      <3>1. /\ QuietRegistry /\ UNCHANGED <<req, claimed, elapsed>> /\ pc[c] = "woken"
            /\ Goto(c, "checking")
        BY <2>6, PruneQuiet DEF Wake, regVars
      <3> QED
        BY <3>1, GotoQuiet
    <2>7. CASE WaitExpires(c)
      <3>1. /\ QuietRegistry /\ UNCHANGED <<req, claimed, elapsed>>
            /\ pc[c] \in {"blocked", "woken"} /\ Goto(c, "leaving_no")
        BY <2>7, PruneQuiet DEF WaitExpires
      <3> QED
        BY <3>1, GotoQuiet
    <2>8. CASE LeaveWait(c)
      <3>1. /\ QuietRegistry /\ UNCHANGED <<req, claimed>>
            /\ \/ pc[c] = "leaving_ok" /\ Goto(c, "claimed")
               \/ pc[c] = "leaving_no" /\ Goto(c, "rejected")
            /\ elapsed'[c] = 0 /\ \A d \in Conns : d # c => elapsed'[d] = elapsed[d]
        BY <2>8, PruneQuiet DEF LeaveWait, regVars, GateOK
      <3> QED
        BY <3>1, GotoQuiet
    <2> QED
      BY <1>1, <2>2, <2>3, <2>4, <2>5, <2>6, <2>7, <2>8 DEF Gate
  <1>2. ASSUME NEW u \in Uuids, NEW pair \in Pairs, Authorize(u, pair)
        PROVE  GateQuiet \/ IssueStep(u)
    <2>1. UNCHANGED <<req, elapsed, claimed>>
      BY <1>2 DEF Authorize
    <2>2. CASE tickets' = PrunedTickets /\ UNCHANGED <<issued, pc>>
      <3>1. QuietRegistry
        BY <2>2, PruneQuiet
      <3> QED
        BY <2>1, <2>2, <3>1 DEF GateQuiet
    <2>3. CASE /\ issued[u] < MaxTickets
               /\ tickets' = [PrunedTickets EXCEPT ![u] =
                    [initiator |-> pair[1], target |-> pair[2],
                     ttl |-> PairTimeout, claims |-> 0, serial |-> issued[u] + 1]]
               /\ issued' = [issued EXCEPT ![u] = @ + 1]
               /\ SignalWaiters({u})
      <3>1. issued[u] = 0 /\ issued'[u] = 1
            /\ \A v \in Uuids : v # u => issued'[v] = issued[v]
        BY <2>3 DEF GateOK
      <3>2. /\ tickets'[u] = [initiator |-> pair[1], target |-> pair[2],
                     ttl |-> PairTimeout, claims |-> 0, serial |-> issued[u] + 1]
            /\ \A v \in Uuids : v # u => tickets'[v] = PrunedTickets[v]
        BY <2>3, PruneTyped
      <3>3. tickets'[u] # None
        <4>1. pair[1] \in Peers /\ pair[2] \in Peers
          BY PairAssumption
        <4>2. tickets'[u] \in Ticket
          BY <3>1, <3>2, <4>1, TimeAssumption DEF Ticket
        <4> QED
          BY <4>2, NoneAssumption
      <3>4. \A d \in Conns : pc'[d] = pc[d] \/ (pc[d] = "blocked" /\ pc'[d] = "woken")
        <4>1. {u} \in SUBSET Uuids
          OBVIOUS
        <4> QED
          BY <2>3, <4>1, SignalMoves
      <3> QED
        BY <2>1, <3>1, <3>2, <3>3, <3>4 DEF IssueStep
    <2> QED
      BY <1>2, <2>2, <2>3 DEF Authorize
  <1>3. ASSUME NEW p \in Peers, RevokeForPeer(p)
        PROVE  GateQuiet
    <2> DEFINE gone == {u \in Uuids : Involves(PrunedTickets[u], p)}
    <2>1. /\ UNCHANGED <<req, elapsed, claimed, issued>> /\ SignalWaiters(gone)
          /\ tickets' = [u \in Uuids |-> IF u \in gone THEN None ELSE PrunedTickets[u]]
      BY <1>3 DEF RevokeForPeer
    <2>2. gone \in SUBSET Uuids
      OBVIOUS
    <2> HIDE DEF gone
    <2>3. \A d \in Conns : pc'[d] = pc[d] \/ (pc[d] = "blocked" /\ pc'[d] = "woken")
      BY <2>1, <2>2, SignalMoves
    <2>4. QuietRegistry
      <3>1. \A u \in Uuids : tickets'[u] # None =>
              tickets'[u] = tickets[u] /\ tickets[u].ttl > 0 /\ ~Dead(u)
                /\ tickets[u].ttl \in Nat
        BY <2>1, PruneTyped DEF GateOK, Ticket
      <3> QED
        BY <2>1, <3>1 DEF QuietRegistry, Dead
    <2> QED
      BY <2>1, <2>3, <2>4 DEF GateQuiet
  <1>4. ASSUME NEW c \in Conns, NEW u \in Uuids, Request(c, u)
        PROVE  GateQuiet
    <2>1. /\ QuietRegistry /\ UNCHANGED <<elapsed, claimed>>
          /\ pc[c] = "reading" /\ pc'[c] = "claiming"
          /\ \A d \in Conns : d # c => pc'[d] = pc[d] /\ req'[d] = req[d]
      BY <1>4, PruneQuiet DEF Request, regVars, Goto, ServerTypeOK, GateOK
    <2> QED
      BY <2>1 DEF GateQuiet
  <1>5. ASSUME NEW c \in Conns, BadRequest(c)
        PROVE  GateQuiet
    <2>1. /\ QuietRegistry /\ UNCHANGED <<elapsed, claimed, req>>
          /\ pc[c] = "reading" /\ Goto(c, "rejected")
      BY <1>5, PruneQuiet DEF BadRequest, regVars
    <2> QED
      BY <2>1, GotoQuiet
  <1>6. CASE Stop
    <2>1. QuietRegistry /\ UNCHANGED <<pc, req, elapsed, claimed>>
      BY <1>6, PruneQuiet DEF Stop, regVars, connVars
    <2> QED
      BY <2>1 DEF GateQuiet
  <1> QED
    BY <1>1, <1>2, <1>3, <1>4, <1>5, <1>6 DEF GateStep

(* A quiet step of the gate keeps the third invariant. *)
LEMMA GateQuietOnce ==
  ASSUME ServerInv, OnceInv, GateOK', GateQuiet, UNCHANGED <<pending, other, sweep>>
  PROVE  OnceInv'
  <1>0. /\ ServerTypeOK /\ GateOK /\ SweepOK /\ PendingOK
        /\ ClaimsOK /\ IssuedOK /\ OutlivedOK /\ HoldersCounted /\ PickedOnce
        /\ QuietRegistry
    BY DEF ServerInv, CountInv, OnceInv, ReferencesOK, GateQuiet
  <1> USE DEF UnclaimedPC, ClaimedPC, OwnerPC, TimedPC, Lapsed, AtMap
  <1>1. ClaimsOK'
    <2> SUFFICES ASSUME NEW c \in Conns
        PROVE  /\ pc'[c] \in UnclaimedPC => claimed'[c] = 0
               /\ pc'[c] \in ClaimedPC => claimed'[c] # 0
               /\ \A u \in Uuids : pending'[u] = c => claimed'[c] # 0
               /\ pc'[c] \in {"idle", "reading", "claiming"} => elapsed'[c] = 0
      BY DEF ClaimsOK
    <2> QED
      BY <1>0 DEF ClaimsOK, GateQuiet
  <1>2. \A d \in Conns : claimed'[d] # 0 => claimed[d] # 0 /\ req'[d] = req[d]
    BY <1>0 DEF ClaimsOK, GateQuiet
  <1>3. IssuedOK'
    <2>1. \A u \in Uuids : issued'[u] = 0 => tickets'[u] = None
      BY <1>0 DEF IssuedOK, QuietRegistry
    <2>2. ASSUME NEW c \in Conns, claimed'[c] # 0 \/ pc'[c] \in Lapsed
          PROVE  req'[c] \in Uuids /\ issued'[req'[c]] > 0
      <3>1. req'[c] = req[c] /\ (claimed[c] # 0 \/ pc[c] \in Lapsed)
        BY <1>2, <2>2 DEF GateQuiet
      <3> QED
        BY <1>0, <3>1 DEF IssuedOK, QuietRegistry
    <2>3. sweep'.at # "rest" => issued'[sweep'.uuid] > 0
      BY <1>0 DEF IssuedOK, QuietRegistry
    <2> QED
      BY <2>1, <2>2, <2>3 DEF IssuedOK
  <1>4. OutlivedOK'
    <2>1. ASSUME NEW c \in Conns, pc'[c] \in TimedPC, ~Dead(req[c])', req'[c] = req[c]
          PROVE  elapsed'[c] + tickets'[req[c]].ttl <= PairTimeout
      <3>1. req[c] \in Uuids
        BY <1>0, <2>1 DEF GateOK, AskedPC, ServerPC, GatePC, GateQuiet
      <3>2. /\ ~Dead(req[c]) /\ tickets'[req[c]].ttl <= tickets[req[c]].ttl
            /\ tickets[req[c]].ttl \in 0..PairTimeout
            /\ tickets'[req[c]].ttl \in 0..PairTimeout
        BY <1>0, <2>1, <3>1 DEF QuietRegistry, Dead, GateOK, Ticket
      <3>3. CASE pc'[c] = pc[c] /\ elapsed'[c] = elapsed[c]
        <4>1. elapsed[c] + tickets[req[c]].ttl <= PairTimeout /\ elapsed[c] \in Nat
          BY <1>0, <2>1, <3>2, <3>3 DEF OutlivedOK, GateOK
        <4> QED
          BY <3>2, <3>3, <4>1, TimeAssumption
      <3>4. CASE elapsed'[c] = 0
        BY <3>2, <3>4, TimeAssumption
      <3> QED
        BY <2>1, <3>3, <3>4 DEF GateQuiet
    <2>2. \A c \in Conns : pc'[c] \in TimedPC \cup Lapsed => req'[c] = req[c]
      BY DEF GateQuiet
    <2>3. sweep'.at # "rest" => Dead(sweep.uuid)'
      BY <1>0 DEF OutlivedOK, QuietRegistry, SweepOK, Dead
    <2>4. ASSUME NEW c \in Conns, pc'[c] \in Lapsed, claimed'[c] = 0
          PROVE  Dead(req[c])'
      <3>1. pc[c] \in Lapsed /\ claimed[c] = 0 /\ req'[c] = req[c] /\ req[c] \in Uuids
        BY <1>0, <2>4, SMTT(30) DEF GateQuiet, GateOK, AskedPC, ServerPC, GatePC
      <3>2. Dead(req[c])
        BY <1>0, <3>1 DEF OutlivedOK
      <3> QED
        BY <1>0, <3>1, <3>2 DEF QuietRegistry, Dead
    <2> QED
      BY <2>1, <2>2, <2>3, <2>4 DEF OutlivedOK, Dead
  <1>5. HoldersCounted'
    BY <1>0, <1>2, QuietHolders
  <1>6. PickedOnce'
    BY <1>0 DEF PickedOnce
  <1> QED
    BY <1>1, <1>3, <1>4, <1>5, <1>6 DEF OnceInv

(* A claim counts the new holder, or consumes the ticket. *)
LEMMA ClaimEffect ==
  ASSUME GateOK, NEW u \in Uuids, CanClaim(u), Claim(u)
  PROVE  /\ ~Dead(u) /\ tickets[u].claims \in 0..1
         /\ ~Dead(u)' => /\ tickets'[u].claims = tickets[u].claims + 1
                         /\ tickets'[u].ttl = tickets[u].ttl
         /\ \A v \in Uuids : v # u => tickets'[v] = PrunedTickets[v]
  <1>1. /\ ~Dead(u) /\ PrunedTickets[u] = tickets[u] /\ tickets[u] \in Ticket
        /\ DOMAIN PrunedTickets = Uuids
    BY PruneTyped DEF CanClaim
  <1>2. tickets[u].claims \in 0..1
    BY <1>1 DEF Ticket
  <1>3. CASE tickets[u].claims + 1 = 2
    BY <1>1, <1>2, <1>3, PruneTyped DEF Claim, Dead
  <1>4. CASE tickets[u].claims + 1 # 2
    <2>1. tickets' = [PrunedTickets EXCEPT ![u] =
                        [tickets[u] EXCEPT !.claims = tickets[u].claims + 1]]
      BY <1>1, <1>4, PruneTyped DEF Claim
    <2>2. tickets'[u] = [tickets[u] EXCEPT !.claims = tickets[u].claims + 1]
      BY <1>1, <2>1
    <2>3. /\ tickets'[u].claims = tickets[u].claims + 1
          /\ tickets'[u].ttl = tickets[u].ttl
      BY <1>1, <2>2 DEF Ticket
    <2> QED
      BY <1>1, <1>2, <2>1, <2>3
  <1> QED
    BY <1>3, <1>4

(* Whatever else happens to a ticket, one that was not issued is not there *)
(* and one that is over stays so.                                          *)
TicketsOnlyAge ==
  \A u \in Uuids :
    /\ tickets[u] = None => tickets'[u] = None
    /\ Dead(u) => Dead(u)'
    /\ ~Dead(u)' => tickets'[u].ttl <= tickets[u].ttl

(* A claim leaves the time to live of every ticket as the prune left it. *)
LEMMA ClaimAges ==
  ASSUME GateOK, NEW u \in Uuids, CanClaim(u), Claim(u)
  PROVE  TicketsOnlyAge
  <1>1. \A v \in Uuids : tickets[v] # None => tickets[v].ttl \in Nat
    BY DEF GateOK, Ticket
  <1>2. \A v \in Uuids : v # u =>
          /\ tickets'[v] # None => tickets'[v] = tickets[v] /\ tickets[v].ttl > 0
          /\ tickets'[v] = None <=> Dead(v)
    BY ClaimEffect, PruneTyped
  <1> QED
    BY <1>1, <1>2, ClaimEffect DEF TicketsOnlyAge, Dead

(* A claim makes one more holder and uses one more claim. *)
LEMMA ClaimOnce ==
  ASSUME ServerInv, OnceInv, GateOK', NEW c \in Conns, ClaimStep(c),
         UNCHANGED <<pending, other, sweep>>
  PROVE  OnceInv'
  <1>0. /\ ServerTypeOK /\ GateOK /\ SweepOK /\ PendingOK
        /\ ClaimsOK /\ IssuedOK /\ OutlivedOK /\ HoldersCounted /\ PickedOnce
    BY DEF ServerInv, CountInv, OnceInv, ReferencesOK
  <1> USE DEF UnclaimedPC, ClaimedPC, OwnerPC, TimedPC, Lapsed, AtMap
  <1>1. /\ req[c] \in Uuids /\ CanClaim(req[c]) /\ Claim(req[c])
        /\ \/ pc[c] = "claiming" /\ pc'[c] = "claimed"
           \/ pc[c] = "reclaiming" /\ pc'[c] = "leaving_ok"
        /\ claimed[c] = 0 /\ claimed'[c] # 0
        /\ \A d \in Conns : d # c => pc'[d] = pc[d] /\ claimed'[d] = claimed[d]
        /\ UNCHANGED <<req, elapsed, issued>>
    BY <1>0 DEF ClaimStep, ClaimsOK
  <1>2. TicketsOnlyAge /\ ~Dead(req[c])
    BY <1>0, <1>1, ClaimAges, ClaimEffect
  <1>3. issued[req[c]] \in Nat /\ issued[req[c]] > 0
    BY <1>0, <1>1, <1>2, CapAssumption DEF IssuedOK, Dead, GateOK
  <1>4. ClaimsOK'
    <2> SUFFICES ASSUME NEW d \in Conns
        PROVE  /\ pc'[d] \in UnclaimedPC => claimed'[d] = 0
               /\ pc'[d] \in ClaimedPC => claimed'[d] # 0
               /\ \A u \in Uuids : pending'[u] = d => claimed'[d] # 0
               /\ pc'[d] \in {"idle", "reading", "claiming"} => elapsed'[d] = 0
      BY DEF ClaimsOK
    <2>1. CASE d = c
      BY <1>1, <2>1
    <2>2. CASE d # c
      BY <1>0, <1>1, <2>2 DEF ClaimsOK
    <2> QED
      BY <2>1, <2>2
  <1>5. IssuedOK'
    <2>1. \A u \in Uuids : issued'[u] = 0 => tickets'[u] = None
      BY <1>0, <1>1, <1>2 DEF IssuedOK, TicketsOnlyAge
    <2>2. ASSUME NEW d \in Conns, claimed'[d] # 0 \/ pc'[d] \in Lapsed
          PROVE  req'[d] \in Uuids /\ issued'[req'[d]] > 0
      <3>1. CASE d = c
        BY <1>1, <1>3, <3>1
      <3>2. CASE d # c
        BY <1>0, <1>1, <2>2, <3>2 DEF IssuedOK
      <3> QED
        BY <3>1, <3>2
    <2>3. sweep'.at # "rest" => issued'[sweep'.uuid] > 0
      BY <1>0, <1>1 DEF IssuedOK
    <2> QED
      BY <2>1, <2>2, <2>3 DEF IssuedOK
  <1>6. OutlivedOK'
    <2>1. ASSUME NEW d \in Conns, pc'[d] \in TimedPC, ~Dead(req[d])'
          PROVE  elapsed'[d] + tickets'[req'[d]].ttl <= PairTimeout
      <3>1. req'[d] = req[d] /\ req[d] \in Uuids
        BY <1>0, <1>1, <2>1 DEF GateOK, AskedPC, ServerPC, GatePC
      <3>2. /\ ~Dead(req[d]) /\ tickets'[req[d]].ttl <= tickets[req[d]].ttl
            /\ tickets[req[d]].ttl \in 0..PairTimeout
            /\ tickets'[req[d]].ttl \in 0..PairTimeout
        BY <1>0, <1>2, <2>1, <3>1 DEF TicketsOnlyAge, Dead, GateOK, Ticket
      <3>3. CASE d = c
        <4>1. pc[c] = "claiming" /\ elapsed[c] = 0
          BY <1>0, <1>1, <2>1, <3>3 DEF ClaimsOK
        <4> QED
          BY <1>1, <3>1, <3>2, <3>3, <4>1, TimeAssumption
      <3>4. CASE d # c
        <4>1. elapsed[d] + tickets[req[d]].ttl <= PairTimeout /\ elapsed[d] \in Nat
          BY <1>0, <1>1, <2>1, <3>2, <3>4 DEF OutlivedOK, GateOK
        <4> QED
          BY <1>1, <3>1, <3>2, <4>1, TimeAssumption
      <3> QED
        BY <3>3, <3>4
    <2>2. sweep'.at # "rest" => Dead(sweep.uuid)'
      BY <1>0, <1>2 DEF OutlivedOK, TicketsOnlyAge, SweepOK, Dead
    <2>3. ASSUME NEW d \in Conns, pc'[d] \in Lapsed, claimed'[d] = 0
          PROVE  Dead(req[d])'
      <3>1. pc[d] \in Lapsed /\ claimed[d] = 0 /\ req'[d] = req[d] /\ req[d] \in Uuids
        BY <1>0, <1>1, <2>3 DEF GateOK, AskedPC, ServerPC, GatePC
      <3>2. Dead(req[d])
        BY <1>0, <3>1 DEF OutlivedOK
      <3> QED
        BY <1>2, <3>1, <3>2 DEF TicketsOnlyAge, Dead
    <2> QED
      BY <2>1, <2>2, <2>3 DEF OutlivedOK
  <1>7. HoldersCounted'
    <2> SUFFICES ASSUME NEW u \in Uuids
        PROVE  /\ ~Dead(u)' => Cardinality(Holders(u)') <= tickets'[u].claims
               /\ Cardinality(Holders(u)') <= 2
      BY DEF HoldersCounted, Holders
    <2>1. /\ Cardinality(Holders(u)) \in Nat /\ IsFiniteSet(Holders(u))
          /\ Cardinality(Holders(u)) <= 2
          /\ ~Dead(u) => Cardinality(Holders(u)) <= tickets[u].claims
                         /\ tickets[u].claims \in 0..1
      BY <1>0, HoldersTyped DEF HoldersCounted, GateOK, Ticket, Dead
    <2>2. CASE u = req[c]
      <3>1. Holders(u)' = Holders(u) \cup {c} /\ c \notin Holders(u)
        BY <1>1, <2>2 DEF Holders
      <3>2. Cardinality(Holders(u) \cup {c}) = Cardinality(Holders(u)) + 1
        BY <2>1, <3>1, FS_AddElement
      <3>3. Cardinality(Holders(u)') = Cardinality(Holders(u)) + 1
        BY <3>1, <3>2
      <3>4. ~Dead(u)' => tickets'[u].claims = tickets[u].claims + 1
        BY <1>0, <1>1, <2>2, ClaimEffect
      <3> QED
        BY <1>2, <2>1, <2>2, <3>3, <3>4
    <2>3. CASE u # req[c]
      <3>1. Holders(u)' = Holders(u)
        BY <1>1, <2>3 DEF Holders
      <3>2. ~Dead(u)' => ~Dead(u) /\ tickets'[u] = tickets[u]
        BY <1>0, <1>1, <2>3, ClaimEffect, PruneTyped DEF Dead
      <3> QED
        BY <2>1, <3>1, <3>2
    <2> QED
      BY <2>2, <2>3
  <1>8. PickedOnce'
    BY <1>0 DEF PickedOnce
  <1> QED
    BY <1>4, <1>5, <1>6, <1>7, <1>8 DEF OnceInv

(* A new ticket has no holder: the UUID had none before. *)
LEMMA IssueOnce ==
  ASSUME ServerInv, OnceInv, GateOK', NEW u \in Uuids, IssueStep(u),
         UNCHANGED <<pending, other, sweep>>
  PROVE  OnceInv'
  <1>0. /\ ServerTypeOK /\ GateOK /\ SweepOK /\ PendingOK
        /\ ClaimsOK /\ IssuedOK /\ OutlivedOK /\ HoldersCounted /\ PickedOnce
    BY DEF ServerInv, CountInv, OnceInv, ReferencesOK
  <1> USE DEF UnclaimedPC, ClaimedPC, OwnerPC, TimedPC, Lapsed, AtMap
  <1>1. /\ issued[u] = 0 /\ issued'[u] = 1
        /\ \A v \in Uuids : v # u => issued'[v] = issued[v]
        /\ UNCHANGED <<req, elapsed, claimed>>
        /\ \A d \in Conns : pc'[d] = pc[d] \/ (pc[d] = "blocked" /\ pc'[d] = "woken")
    BY DEF IssueStep
  <1>2. \A v \in Uuids : v # u =>
          /\ tickets'[v] # None => tickets'[v] = tickets[v] /\ tickets[v].ttl > 0
          /\ tickets'[v] = None <=> Dead(v)
    BY <1>0, PruneTyped DEF IssueStep
  <1>3. /\ \A d \in Conns : claimed[d] # 0 \/ pc[d] \in Lapsed \cup TimedPC => req[d] # u
        /\ sweep.at # "rest" => sweep.uuid # u
    BY <1>0, <1>1 DEF IssuedOK, ClaimsOK
  <1>4. ClaimsOK'
    <2> SUFFICES ASSUME NEW d \in Conns
        PROVE  /\ pc'[d] \in UnclaimedPC => claimed'[d] = 0
               /\ pc'[d] \in ClaimedPC => claimed'[d] # 0
               /\ \A v \in Uuids : pending'[v] = d => claimed'[d] # 0
               /\ pc'[d] \in {"idle", "reading", "claiming"} => elapsed'[d] = 0
      BY DEF ClaimsOK
    <2> QED
      BY <1>0, <1>1 DEF ClaimsOK
  <1>5. IssuedOK'
    <2>1. \A v \in Uuids : issued'[v] = 0 => tickets'[v] = None
      BY <1>0, <1>1, <1>2 DEF IssuedOK, Dead
    <2>2. ASSUME NEW d \in Conns, claimed'[d] # 0 \/ pc'[d] \in Lapsed
          PROVE  req'[d] \in Uuids /\ issued'[req'[d]] > 0
      BY <1>0, <1>1, <1>3, <2>2 DEF IssuedOK
    <2>3. sweep'.at # "rest" => issued'[sweep'.uuid] > 0
      BY <1>0, <1>1, <1>3 DEF IssuedOK, SweepOK
    <2> QED
      BY <2>1, <2>2, <2>3 DEF IssuedOK
  <1>6. OutlivedOK'
    <2>1. ASSUME NEW d \in Conns, pc'[d] \in TimedPC, ~Dead(req[d])'
          PROVE  elapsed'[d] + tickets'[req'[d]].ttl <= PairTimeout
      <3>1. req'[d] = req[d] /\ req[d] \in Uuids /\ pc[d] \in TimedPC /\ req[d] # u
        BY <1>0, <1>1, <1>3, <2>1 DEF GateOK, AskedPC, ServerPC, GatePC
      <3>2. ~Dead(req[d]) /\ tickets'[req[d]] = tickets[req[d]]
        BY <1>2, <2>1, <3>1 DEF Dead
      <3> QED
        BY <1>0, <1>1, <3>1, <3>2 DEF OutlivedOK
    <2>2. sweep'.at # "rest" => Dead(sweep.uuid)'
      BY <1>0, <1>2, <1>3 DEF OutlivedOK, SweepOK, Dead
    <2>3. ASSUME NEW d \in Conns, pc'[d] \in Lapsed, claimed'[d] = 0
          PROVE  Dead(req[d])'
      <3>1. pc[d] \in Lapsed /\ claimed[d] = 0 /\ req'[d] = req[d] /\ req[d] \in Uuids
            /\ req[d] # u
        BY <1>0, <1>1, <1>3, <2>3 DEF GateOK, AskedPC, ServerPC, GatePC
      <3>2. Dead(req[d])
        BY <1>0, <3>1 DEF OutlivedOK
      <3> QED
        BY <1>2, <3>1, <3>2 DEF Dead
    <2> QED
      BY <2>1, <2>2, <2>3 DEF OutlivedOK
  <1>7. HoldersCounted'
    <2> SUFFICES ASSUME NEW v \in Uuids
        PROVE  /\ ~Dead(v)' => Cardinality(Holders(v)') <= tickets'[v].claims
               /\ Cardinality(Holders(v)') <= 2
      BY DEF HoldersCounted, Holders
    <2>1. Holders(v)' = Holders(v)
      BY <1>1 DEF Holders
    <2>2. CASE v = u
      <3>1. Holders(v) = {}
        BY <1>3, <2>2 DEF Holders
      <3>2. Cardinality(Holders(v)') = 0
        BY <2>1, <3>1, FS_EmptySet
      <3> QED
        BY <2>2, <3>2 DEF IssueStep
    <2>3. CASE v # u
      <3>1. ~Dead(v)' => ~Dead(v) /\ tickets'[v] = tickets[v]
        BY <1>2, <2>3 DEF Dead
      <3> QED
        BY <1>0, <2>1, <3>1 DEF HoldersCounted
    <2> QED
      BY <2>2, <2>3
  <1>8. PickedOnce'
    BY <1>0 DEF PickedOnce
  <1> QED
    BY <1>4, <1>5, <1>6, <1>7, <1>8 DEF OnceInv

(* A handler beyond the gate that leaves the registry alone. *)
LEMMA PairOnce ==
  ASSUME ServerInv, OnceInv, GateOK', PendingOK', NEW c \in Conns, PairFrame(c),
         UNCHANGED tickets,
         \/ claimed'[c] = claimed[c] /\ elapsed'[c] = elapsed[c] /\ req'[c] = req[c]
         \/ pc'[c] = "idle" /\ claimed'[c] = 0 /\ elapsed'[c] = 0,
         pc'[c] \in UnclaimedPC => claimed'[c] = 0,
         pc'[c] \in ClaimedPC => pc[c] \in ClaimedPC,
         pc'[c] \in {"idle", "reading", "claiming"} => elapsed'[c] = 0,
         pc'[c] \in TimedPC => pc[c] \in TimedPC,
         pc'[c] \in Lapsed => pc[c] \in Lapsed \/ claimed[c] # 0,
         \A u \in Uuids, d \in Conns :
           pending'[u] = d => pending[u] = d \/ (d = c /\ claimed[c] # 0),
         PickedOnce'
  PROVE  OnceInv'
  <1>0. /\ ServerTypeOK /\ GateOK /\ SweepOK /\ PendingOK
        /\ ClaimsOK /\ IssuedOK /\ OutlivedOK /\ HoldersCounted /\ PickedOnce
    BY DEF ServerInv, CountInv, OnceInv, ReferencesOK
  <1> DEFINE same(d) == claimed'[d] = claimed[d] /\ elapsed'[d] = elapsed[d] /\ req'[d] = req[d]
             dropped(d) == pc'[d] = "idle" /\ claimed'[d] = 0 /\ elapsed'[d] = 0
  <1>1. /\ \A d \in Conns : same(d) \/ dropped(d)
        /\ \A d \in Conns : d # c => (same(d) /\ pc'[d] = pc[d]) \/ dropped(d)
        /\ UNCHANGED <<sweep, issued>>
    BY DEF PairFrame
  <1> USE DEF UnclaimedPC, ClaimedPC, OwnerPC, TimedPC, Lapsed, AtMap
  <1>2. QuietRegistry
    BY <1>0, <1>1, PruneQuiet
  <1>3. ClaimsOK'
    <2> SUFFICES ASSUME NEW d \in Conns
        PROVE  /\ pc'[d] \in UnclaimedPC => claimed'[d] = 0
               /\ pc'[d] \in ClaimedPC => claimed'[d] # 0
               /\ \A u \in Uuids : pending'[u] = d => claimed'[d] # 0
               /\ pc'[d] \in {"idle", "reading", "claiming"} => elapsed'[d] = 0
      BY DEF ClaimsOK
    <2>1. \A u \in Uuids : pending'[u] = d => claimed'[d] # 0
      <3> SUFFICES ASSUME NEW u \in Uuids, pending'[u] = d PROVE claimed'[d] # 0
        OBVIOUS
      <3>1. pc'[d] # "idle"
        BY DEF PendingOK
      <3>2. claimed'[d] = claimed[d]
        BY <1>1, <3>1
      <3>3. claimed[d] # 0
        BY <1>0 DEF ClaimsOK
      <3> QED
        BY <3>2, <3>3
    <2>2. CASE d = c
      <3>1. pc'[c] \in ClaimedPC => claimed'[c] # 0
        BY <1>0, <1>1 DEF ClaimsOK
      <3> QED
        BY <2>1, <2>2, <3>1
    <2>3. CASE d # c
      BY <1>0, <1>1, <2>1, <2>3 DEF ClaimsOK
    <2> QED
      BY <2>2, <2>3
  <1>4. IssuedOK'
    <2>1. \A u \in Uuids : issued'[u] = 0 => tickets'[u] = None
      BY <1>0, <1>2 DEF IssuedOK, QuietRegistry
    <2>2. ASSUME NEW d \in Conns, claimed'[d] # 0 \/ pc'[d] \in Lapsed
          PROVE  req'[d] \in Uuids /\ issued'[req'[d]] > 0
      <3>1. req'[d] = req[d] /\ (claimed[d] # 0 \/ pc[d] \in Lapsed)
        BY <1>1, <2>2
      <3> QED
        BY <1>0, <1>1, <3>1 DEF IssuedOK
    <2>3. sweep'.at # "rest" => issued'[sweep'.uuid] > 0
      BY <1>0, <1>1 DEF IssuedOK
    <2> QED
      BY <2>1, <2>2, <2>3 DEF IssuedOK
  <1>5. OutlivedOK'
    <2>1. ASSUME NEW d \in Conns, pc'[d] \in TimedPC, ~Dead(req[d])'
          PROVE  elapsed'[d] + tickets'[req'[d]].ttl <= PairTimeout
      <3>1. same(d) /\ pc[d] \in TimedPC
        BY <1>1, <2>1
      <3> QED
        BY <1>0, <2>1, <3>1 DEF OutlivedOK, Dead
    <2>2. sweep'.at # "rest" => Dead(sweep.uuid)'
      BY <1>0, <1>1 DEF OutlivedOK, Dead
    <2>3. ASSUME NEW d \in Conns, pc'[d] \in Lapsed, claimed'[d] = 0
          PROVE  Dead(req[d])'
      <3>1. same(d) /\ pc[d] \in Lapsed /\ claimed[d] = 0
        BY <1>1, <2>3
      <3> QED
        BY <1>0, <3>1 DEF OutlivedOK, Dead
    <2> QED
      BY <2>1, <2>2, <2>3 DEF OutlivedOK
  <1>6. HoldersCounted'
    <2>1. \A d \in Conns : claimed'[d] # 0 => claimed[d] # 0 /\ req'[d] = req[d]
      BY <1>1
    <2> QED
      BY <1>0, <1>2, <2>1, QuietHolders
  <1> QED
    BY <1>3, <1>4, <1>5, <1>6 DEF OnceInv

(* The release of a timed out connection: its claim, if it still has one,  *)
(* goes back to the ticket.                                                *)
LEMMA ReleaseEffect ==
  ASSUME GateOK, NEW u \in Uuids, Release(u)
  PROVE  /\ TicketsOnlyAge
         /\ \A v \in Uuids : v # u /\ ~Dead(v)' => tickets'[v].claims = tickets[v].claims
         /\ ~Dead(u)' => tickets'[u].claims =
                           IF tickets[u].claims > 0 THEN tickets[u].claims - 1 ELSE 0
  <1>1. /\ DOMAIN PrunedTickets = Uuids
        /\ \A v \in Uuids :
             /\ PrunedTickets[v] # None =>
                  /\ PrunedTickets[v] = tickets[v] /\ tickets[v].ttl > 0
                  /\ tickets[v] \in Ticket /\ tickets[v].ttl \in Nat
                  /\ tickets[v].claims \in 0..1
             /\ PrunedTickets[v] = None <=> Dead(v)
    BY PruneTyped DEF Ticket
  <1>2. CASE PrunedTickets[u] # None /\ PrunedTickets[u].claims > 0
    <2>1. tickets' = [PrunedTickets EXCEPT ![u] =
                        [tickets[u] EXCEPT !.claims = tickets[u].claims - 1]]
      BY <1>1, <1>2 DEF Release
    <2>2. tickets'[u] = [tickets[u] EXCEPT !.claims = tickets[u].claims - 1]
      BY <1>1, <2>1
    <2>3. /\ tickets'[u].claims = tickets[u].claims - 1
          /\ tickets'[u].ttl = tickets[u].ttl
          /\ tickets[u] # None
      BY <1>1, <1>2, <2>2, NoneAssumption DEF Ticket
    <2>4. \A v \in Uuids : v # u => tickets'[v] = PrunedTickets[v]
      BY <1>1, <2>1
    <2>5. TicketsOnlyAge
      BY <1>1, <1>2, <2>3, <2>4 DEF TicketsOnlyAge, Dead
    <2> QED
      BY <1>1, <1>2, <2>3, <2>4, <2>5 DEF Dead
  <1>3. CASE ~(PrunedTickets[u] # None /\ PrunedTickets[u].claims > 0)
    <2>1. tickets' = PrunedTickets
      BY <1>3 DEF Release
    <2>2. TicketsOnlyAge
      BY <1>1, <2>1 DEF TicketsOnlyAge, Dead
    <2> QED
      BY <1>1, <1>3, <2>1, <2>2 DEF Dead
  <1> QED
    BY <1>2, <1>3

(* A handler that times out gives its claim back and is no holder any *)
(* more.                                                              *)
LEMMA TimeoutOnce ==
  ASSUME ServerInv, OnceInv, GateOK', NEW c \in Conns, TimeoutRelease(c)
  PROVE  OnceInv'
  <1>0. /\ ServerTypeOK /\ GateOK /\ SweepOK /\ PendingOK
        /\ ClaimsOK /\ IssuedOK /\ OutlivedOK /\ HoldersCounted /\ PickedOnce
    BY DEF ServerInv, CountInv, OnceInv, ReferencesOK
  <1> USE DEF UnclaimedPC, ClaimedPC, OwnerPC, TimedPC, Lapsed, AtMap
  <1>1. /\ pc[c] = "undone" /\ pc'[c] = "closed" /\ Release(req[c])
        /\ claimed'[c] = 0
        /\ \A d \in Conns : d # c => pc'[d] = pc[d] /\ claimed'[d] = claimed[d]
        /\ UNCHANGED <<req, elapsed, issued, pending, other, sweep>>
    BY <1>0 DEF TimeoutRelease, Goto, ServerTypeOK, GateOK
  <1>2. req[c] \in Uuids
    BY <1>0, <1>1 DEF GateOK, AskedPC, ServerPC
  <1>3. TicketsOnlyAge
    BY <1>0, <1>1, <1>2, ReleaseEffect
  <1>4. ClaimsOK'
    <2> SUFFICES ASSUME NEW d \in Conns
        PROVE  /\ pc'[d] \in UnclaimedPC => claimed'[d] = 0
               /\ pc'[d] \in ClaimedPC => claimed'[d] # 0
               /\ \A u \in Uuids : pending'[u] = d => claimed'[d] # 0
               /\ pc'[d] \in {"idle", "reading", "claiming"} => elapsed'[d] = 0
      BY DEF ClaimsOK
    <2>1. CASE d = c
      BY <1>0, <1>1, <2>1 DEF PendingOK
    <2>2. CASE d # c
      BY <1>0, <1>1, <2>2 DEF ClaimsOK
    <2> QED
      BY <2>1, <2>2
  <1>5. IssuedOK'
    <2>1. \A u \in Uuids : issued'[u] = 0 => tickets'[u] = None
      BY <1>0, <1>1, <1>3 DEF IssuedOK, TicketsOnlyAge
    <2>2. ASSUME NEW d \in Conns, claimed'[d] # 0 \/ pc'[d] \in Lapsed
          PROVE  req'[d] \in Uuids /\ issued'[req'[d]] > 0
      BY <1>0, <1>1, <2>2 DEF IssuedOK
    <2>3. sweep'.at # "rest" => issued'[sweep'.uuid] > 0
      BY <1>0, <1>1 DEF IssuedOK
    <2> QED
      BY <2>1, <2>2, <2>3 DEF IssuedOK
  <1>6. OutlivedOK'
    <2>1. ASSUME NEW d \in Conns, pc'[d] \in TimedPC, ~Dead(req[d])'
          PROVE  elapsed'[d] + tickets'[req'[d]].ttl <= PairTimeout
      <3>1. /\ d # c /\ pc[d] \in TimedPC /\ req[d] \in Uuids
            /\ elapsed[d] \in Nat
        BY <1>0, <1>1, <2>1 DEF GateOK, AskedPC, ServerPC, GatePC
      <3>2. /\ ~Dead(req[d]) /\ tickets'[req[d]].ttl <= tickets[req[d]].ttl
            /\ tickets[req[d]].ttl \in 0..PairTimeout
            /\ tickets'[req[d]].ttl \in 0..PairTimeout
        BY <1>0, <1>1, <1>3, <2>1, <3>1 DEF TicketsOnlyAge, Dead, GateOK, Ticket
      <3>3. elapsed[d] + tickets[req[d]].ttl <= PairTimeout
        BY <1>0, <3>1, <3>2 DEF OutlivedOK
      <3> QED
        BY <1>1, <3>1, <3>2, <3>3, TimeAssumption
    <2>2. sweep'.at # "rest" => Dead(sweep.uuid)'
      BY <1>0, <1>1, <1>3 DEF OutlivedOK, TicketsOnlyAge, SweepOK, Dead
    <2>3. ASSUME NEW d \in Conns, pc'[d] \in Lapsed, claimed'[d] = 0
          PROVE  Dead(req[d])'
      <3>1. pc[d] \in Lapsed /\ claimed[d] = 0 /\ req[d] \in Uuids
        BY <1>0, <1>1, <2>3 DEF GateOK, AskedPC, ServerPC
      <3>2. Dead(req[d])
        BY <1>0, <3>1 DEF OutlivedOK
      <3> QED
        BY <1>1, <1>3, <3>1, <3>2 DEF TicketsOnlyAge, Dead
    <2> QED
      BY <2>1, <2>2, <2>3 DEF OutlivedOK
  <1>7. HoldersCounted'
    <2> SUFFICES ASSUME NEW u \in Uuids
        PROVE  /\ ~Dead(u)' => Cardinality(Holders(u)') <= tickets'[u].claims
               /\ Cardinality(Holders(u)') <= 2
      BY DEF HoldersCounted, Holders
    <2>1. /\ Cardinality(Holders(u)) \in Nat /\ IsFiniteSet(Holders(u))
          /\ Cardinality(Holders(u)) <= 2
          /\ ~Dead(u) => Cardinality(Holders(u)) <= tickets[u].claims
                         /\ tickets[u].claims \in 0..1
          /\ ~Dead(u)' => ~Dead(u)
      BY <1>0, <1>3, HoldersTyped DEF HoldersCounted, GateOK, Ticket, Dead, TicketsOnlyAge
    <2>2. CASE c \in Holders(u)
      <3>1. u = req[c] /\ Holders(u)' = Holders(u) \ {c}
        BY <1>1, <2>2 DEF Holders
      <3>2. Cardinality(Holders(u) \ {c}) = Cardinality(Holders(u)) - 1
        BY <2>1, <2>2, FS_RemoveElement
      <3>3. Cardinality(Holders(u)') = Cardinality(Holders(u)) - 1
        BY <3>1, <3>2
      <3>4. Cardinality(Holders(u)) # 0
        BY <2>1, <2>2, FS_EmptySet
      <3>5. ~Dead(u)' => tickets'[u].claims =
                           IF tickets[u].claims > 0 THEN tickets[u].claims - 1 ELSE 0
        BY <1>0, <1>1, <3>1, ReleaseEffect
      <3> QED
        BY <2>1, <3>3, <3>4, <3>5
    <2>3. CASE c \notin Holders(u)
      <3>1. Holders(u)' = Holders(u)
        BY <1>1, <2>3 DEF Holders
      <3>2. CASE u = req[c]
        <4>1. claimed[c] = 0
          BY <2>3, <3>2 DEF Holders
        <4>2. Dead(u)'
          BY <1>0, <1>1, <1>2, <1>3, <3>2, <4>1 DEF OutlivedOK, TicketsOnlyAge
        <4> QED
          BY <2>1, <3>1, <4>2
      <3>3. CASE u # req[c]
        <4>1. ~Dead(u)' => tickets'[u].claims = tickets[u].claims
          BY <1>0, <1>1, <1>2, <3>3, ReleaseEffect
        <4> QED
          BY <2>1, <3>1, <4>1
      <3> QED
        BY <3>2, <3>3
    <2> QED
      BY <2>2, <2>3
  <1>8. PickedOnce'
    BY <1>0, <1>1 DEF PickedOnce
  <1> QED
    BY <1>4, <1>5, <1>6, <1>7, <1>8 DEF OnceInv

(* Pairing: a third handler would be a third holder. *)
LEMMA PickedOnceKept ==
  ASSUME ServerInv, OnceInv, NEW c \in Conns, LoadOrStore(c)
  PROVE  PickedOnce'
  <1>0. /\ ServerTypeOK /\ GateOK /\ PendingOK /\ OwnerOK
        /\ ClaimsOK /\ HoldersCounted /\ PickedOnce
    BY DEF ServerInv, CountInv, OnceInv, ReferencesOK
  <1>1. CASE UNCHANGED other
    BY <1>0, <1>1 DEF PickedOnce
  <1>2. CASE /\ other' = [other EXCEPT ![c] = pending[req[c]]] /\ pending[req[c]] # None
    <2>1. pc[c] = "claimed" /\ req[c] \in Uuids /\ other[c] = None
      BY <1>0, SMTT(30) DEF LoadOrStore, ServerTypeOK, GateOK, AskedPC, ServerPC, GatePC, OwnerPC
    <2>2. PICK x \in Conns : x = pending[req[c]]
      BY <1>0, <1>2, <2>1 DEF ServerTypeOK
    <2>3. pc[x] \in AtMap /\ req[x] = req[c] /\ claimed[x] # 0 /\ claimed[c] # 0
      BY <1>0, <2>1, <2>2 DEF PendingOK, ClaimsOK, ClaimedPC
    <2>4. ASSUME NEW d \in Conns, other[d] = x PROVE FALSE
      <3>1. pc[d] = "loaded" /\ req[d] = req[x] /\ claimed[d] # 0
        BY <1>0, <2>1, <2>2, <2>3, <2>4 DEF OwnerOK, ClaimsOK, ClaimedPC, OwnerPC
      <3>2. c # d /\ c # x /\ d # x
        BY <2>1, <2>3, <3>1 DEF AtMap
      <3>3. {c, d, x} \in SUBSET Holders(req[c])
        BY <2>3, <3>1 DEF Holders
      <3>4. Cardinality({c, d, x}) = 3
        <4>1. IsFiniteSet({c}) /\ Cardinality({c}) = 1
          BY FS_Singleton
        <4>2. IsFiniteSet({c} \cup {d}) /\ Cardinality({c} \cup {d}) = 2
          BY <3>2, <4>1, FS_AddElement
        <4>3. Cardinality(({c} \cup {d}) \cup {x}) = 3
          <5> DEFINE two == {c} \cup {d}
          <5>1. IsFiniteSet(two) /\ Cardinality(two) = 2 /\ x \notin two
            BY <3>2, <4>2
          <5> HIDE DEF two
          <5>2. Cardinality(two \cup {x}) = 3
            BY <5>1, FS_AddElement
          <5> QED
            BY <5>2 DEF two
        <4>4. ({c} \cup {d}) \cup {x} = {c, d, x}
          OBVIOUS
        <4> QED
          BY <4>3, <4>4
      <3>5. /\ Cardinality({c, d, x}) <= Cardinality(Holders(req[c]))
            /\ Cardinality(Holders(req[c])) \in Nat
        BY <3>3, HoldersTyped, FS_Subset
      <3>6. Cardinality(Holders(req[c])) <= 2
        BY <1>0, <2>1 DEF HoldersCounted
      <3> QED
        BY <3>4, <3>5, <3>6
    <2>5. other'[c] = x /\ \A d \in Conns : d # c => other'[d] = other[d]
      BY <1>0, <1>2, <2>2 DEF ServerTypeOK
    <2> QED
      BY <1>0, <2>4, <2>5 DEF PickedOnce
  <1> QED
    BY <1>1, <1>2 DEF LoadOrStore

(* A handler beyond the gate: one case per action. *)
LEMMA PairStepOnce ==
  ASSUME ServerInv, OnceInv, GateOK', PendingOK', NEW c \in Conns, PairStep(c)
  PROVE  OnceInv'
  <1>0. /\ ServerTypeOK /\ GateOK /\ SweepOK /\ PendingOK
        /\ ClaimsOK /\ PickedOnce /\ PairFrame(c)
    <2>1. ServerTypeOK /\ GateOK /\ SweepOK /\ PendingOK /\ ClaimsOK /\ PickedOnce
      BY DEF ServerInv, CountInv, OnceInv, ReferencesOK
    <2> QED
      BY <2>1, PairKept
  <1> USE DEF UnclaimedPC, ClaimedPC, OwnerPC, TimedPC, Lapsed, AtMap
  <1>1. ASSUME \A u \in Uuids, d \in Conns : pending'[u] = d => pending[u] = d,
               other'[c] = other[c] \/ other'[c] = None,
               UNCHANGED tickets,
               \/ claimed'[c] = claimed[c] /\ elapsed'[c] = elapsed[c] /\ req'[c] = req[c]
               \/ pc'[c] = "idle" /\ claimed'[c] = 0 /\ elapsed'[c] = 0,
               pc'[c] \in UnclaimedPC => claimed'[c] = 0,
               pc'[c] \in ClaimedPC => pc[c] \in ClaimedPC,
               pc'[c] \in {"idle", "reading", "claiming"} => elapsed'[c] = 0,
               pc'[c] \in TimedPC => pc[c] \in TimedPC,
               pc'[c] \in Lapsed => pc[c] \in Lapsed
        PROVE  OnceInv'
    <2>1. PickedOnce'
      BY <1>0, <1>1 DEF PairFrame, PickedOnce
    <2> QED
      BY <1>0, <1>1, <2>1, PairOnce
  <1>2. CASE TimeoutRelease(c)
    BY <1>2, TimeoutOnce
  <1>3. CASE LoadOrStore(c)
    <2>1. /\ pc[c] = "claimed" /\ pc'[c] \in {"parked", "loaded"}
          /\ UNCHANGED <<tickets, claimed, elapsed, req>>
          /\ pc[c] = "claimed" => claimed[c] # 0
      BY <1>0, <1>3 DEF LoadOrStore, Move, Goto, ServerTypeOK, regVars, ClaimsOK
    <2>2. \A u \in Uuids, d \in Conns :
            pending'[u] = d => pending[u] = d \/ (d = c /\ claimed[c] # 0)
      BY <1>0, <1>3, <2>1 DEF LoadOrStore, ServerTypeOK
    <2>3. PickedOnce'
      BY <1>3, PickedOnceKept
    <2> QED
      BY <1>0, <2>1, <2>2, <2>3, PairOnce
  <1>4. CASE Accept(c)
    <2>1. /\ pc[c] = "idle" /\ pc'[c] = "reading"
          /\ UNCHANGED <<pending, other, tickets, claimed, elapsed, req>>
      BY <1>0, <1>4 DEF Accept, Move, Goto, ServerTypeOK, regVars
    <2>2. claimed[c] = 0 /\ elapsed[c] = 0
      BY <1>0, <2>1 DEF ClaimsOK
    <2> QED
      BY <1>1, <2>1, <2>2
  <1>5. CASE Return(c)
    <2>1. /\ pc[c] = "closed" /\ UNCHANGED <<pending, other, tickets>>
          /\ \/ /\ pc'[c] = "handed" /\ claimed'[c] = claimed[c]
                /\ elapsed'[c] = elapsed[c] /\ req'[c] = req[c]
             \/ pc'[c] = "idle" /\ claimed'[c] = 0 /\ elapsed'[c] = 0
      BY <1>5 DEF Return, MoveAndDrop, pairVars, regVars
    <2> QED
      BY <1>1, <2>1
  <1>6. CASE AcquireFirst(c) \/ AcquireSecond(c) \/ FreeSession(c)
    <2>1. /\ pc[c] \in {"slot1", "slot2", "freeing"} /\ UNCHANGED pending
          /\ CloseBoth(c, "closed")
             \/ (Move(c, "slot2") /\ UNCHANGED other)
             \/ (Move(c, "starting") /\ UNCHANGED other)
      BY <1>6 DEF AcquireFirst, AcquireSecond, AcquireSession, FreeSession
    <2>2. CASE CloseBoth(c, "closed")
      <3>1. /\ pc'[c] = "closed" /\ other'[c] = None /\ req'[c] = req[c]
            /\ claimed'[c] = claimed[c] /\ elapsed'[c] = elapsed[c] /\ UNCHANGED tickets
        BY <1>0, <2>1, <2>2, CloseFacts DEF regVars
      <3> QED
        BY <1>1, <2>1, <3>1
    <2>3. CASE (Move(c, "slot2") \/ Move(c, "starting")) /\ UNCHANGED other
      <3>1. /\ pc'[c] \in {"slot2", "starting"}
            /\ UNCHANGED <<req, claimed, elapsed, tickets>>
        BY <1>0, <2>3 DEF Move, Goto, ServerTypeOK, regVars
      <3> QED
        BY <1>1, <2>1, <2>3, <3>1
    <2> QED
      BY <2>1, <2>2, <2>3
  <1>7. CASE CloseRejected(c) \/ Paired(c) \/ CloseDone(c) \/ StartSession(c)
             \/ EndSession(c)
    <2>1. /\ UNCHANGED <<pending, other, tickets, claimed, elapsed, req>>
          /\ \/ pc[c] \in {"rejected", "parked"} /\ pc'[c] = "closed"
             \/ pc[c] = "unmapped" /\ pc'[c] = "slot1"
             \/ pc[c] = "starting" /\ pc'[c] = "copying"
             \/ pc[c] = "copying" /\ pc'[c] = "freeing"
      BY <1>0, <1>7
         DEF CloseRejected, Paired, CloseDone, StartSession, EndSession, pairVars,
             Move, Goto, ServerTypeOK, regVars
    <2> QED
      BY <1>1, <2>1
  <1>8. CASE TimedOut(c)
    <2>1. /\ UNCHANGED <<pending, other, tickets, claimed, elapsed, req>>
          /\ pc[c] = "parked" /\ pc'[c] \in {"expired", "closed"}
      BY <1>0, <1>8 DEF TimedOut, Move, Goto, ServerTypeOK, regVars
    <2> QED
      BY <1>1, <2>1
  <1>9. CASE TimeoutDelete(c) \/ DeleteEntry(c)
    <2>1. /\ UNCHANGED <<other, tickets, claimed, elapsed, req>>
          /\ \/ pc[c] = "expired" /\ pc'[c] = "undone"
             \/ pc[c] = "loaded" /\ pc'[c] = "unmapped"
          /\ pending' = [pending EXCEPT ![req[c]] = None]
      BY <1>0, <1>9 DEF TimeoutDelete, DeleteEntry, Move, Goto, ServerTypeOK, regVars
    <2>2. \A u \in Uuids, d \in Conns : pending'[u] = d => pending[u] = d
      BY <1>0, <2>1, NoneAssumption DEF ServerTypeOK
    <2> QED
      BY <1>1, <2>1, <2>2
  <1> QED
    BY <1>2, <1>3, <1>4, <1>5, <1>6, <1>7, <1>8, <1>9 DEF PairStep

(* The sweep: what it visits has outlived its ticket, so that its release  *)
(* gives nothing back.                                                     *)
LEMMA SweepOnce ==
  ASSUME ServerInv, OnceInv, GateOK', PendingOK',
         (\E u \in Uuids : SweepVisit(u)) \/ SweepDelete \/ SweepRelease \/ SweepClose
  PROVE  OnceInv'
  <1>0. /\ ServerTypeOK /\ GateOK /\ SweepOK /\ PendingOK /\ SweepRefOK
        /\ ClaimsOK /\ IssuedOK /\ OutlivedOK /\ HoldersCounted /\ PickedOnce
    BY DEF ServerInv, CountInv, OnceInv, ReferencesOK
  <1> USE DEF UnclaimedPC, ClaimedPC, OwnerPC, TimedPC, Lapsed, AtMap
  <1> DEFINE same(d) == /\ pc'[d] = pc[d] /\ elapsed'[d] = elapsed[d] /\ req'[d] = req[d]
             lost(d) == d = sweep.conn /\ sweep.at # "rest" /\ claimed'[d] = 0
             dropped(d) == pc'[d] = "idle" /\ claimed'[d] = 0 /\ elapsed'[d] = 0
  <1>1. ASSUME QuietRegistry, UNCHANGED other,
               \A u \in Uuids, d \in Conns : pending'[u] = d => pending[u] = d,
               \A d \in Conns : \/ same(d) /\ (claimed'[d] = claimed[d] \/ lost(d))
                                \/ dropped(d),
               sweep.at # "visited" \/ UNCHANGED claimed,
               sweep'.at # "rest" =>
                 /\ sweep'.uuid \in Uuids
                 /\ Dead(sweep'.uuid) /\ issued[sweep'.uuid] > 0
        PROVE  OnceInv'
    <2>1. \A d \in Conns : claimed'[d] # 0 =>
            claimed[d] = claimed'[d] /\ req'[d] = req[d]
      BY <1>1
    <2>2. ClaimsOK'
      <3> SUFFICES ASSUME NEW d \in Conns
          PROVE  /\ pc'[d] \in UnclaimedPC => claimed'[d] = 0
                 /\ pc'[d] \in ClaimedPC => claimed'[d] # 0
                 /\ \A u \in Uuids : pending'[u] = d => claimed'[d] # 0
                 /\ pc'[d] \in {"idle", "reading", "claiming"} => elapsed'[d] = 0
        BY DEF ClaimsOK
      <3>1. CASE dropped(d)
        <4>1. \A u \in Uuids : pending'[u] # d
          BY <3>1 DEF PendingOK
        <4> QED
          BY <3>1, <4>1
      <3>2. CASE same(d) /\ claimed'[d] = claimed[d]
        BY <1>0, <1>1, <3>2 DEF ClaimsOK
      <3>3. CASE same(d) /\ lost(d) /\ claimed'[d] # claimed[d]
        <4>1. pc[d] \in RefPC /\ \A u \in Uuids : pending[u] # d
          BY <1>0, <1>1, <3>3 DEF SweepRefOK
        <4> QED
          BY <1>0, <1>1, <3>3, <4>1 DEF RefPC, ClaimsOK
      <3> QED
        BY <1>1, <3>1, <3>2, <3>3
    <2>3. IssuedOK'
      <3>1. \A u \in Uuids : issued'[u] = 0 => tickets'[u] = None
        BY <1>0, <1>1 DEF IssuedOK, QuietRegistry
      <3>2. ASSUME NEW d \in Conns, claimed'[d] # 0 \/ pc'[d] \in Lapsed
            PROVE  req'[d] \in Uuids /\ issued'[req'[d]] > 0
        <4>1. req'[d] = req[d] /\ (claimed[d] # 0 \/ pc[d] \in Lapsed)
          BY <1>1, <2>1, <3>2
        <4> QED
          BY <1>0, <1>1, <4>1 DEF IssuedOK, QuietRegistry
      <3>3. sweep'.at # "rest" => issued'[sweep'.uuid] > 0
        BY <1>1 DEF QuietRegistry
      <3> QED
        BY <3>1, <3>2, <3>3 DEF IssuedOK
    <2>4. OutlivedOK'
      <3>1. ASSUME NEW d \in Conns, pc'[d] \in TimedPC, ~Dead(req[d])'
            PROVE  elapsed'[d] + tickets'[req'[d]].ttl <= PairTimeout
        <4>1. /\ same(d) /\ pc[d] \in TimedPC /\ req[d] \in Uuids
              /\ elapsed[d] \in Nat
          BY <1>0, <1>1, <3>1 DEF GateOK, AskedPC, ServerPC, GatePC
        <4>2. /\ ~Dead(req[d]) /\ tickets'[req[d]].ttl <= tickets[req[d]].ttl
              /\ tickets[req[d]].ttl \in 0..PairTimeout
              /\ tickets'[req[d]].ttl \in 0..PairTimeout
          BY <1>0, <1>1, <3>1, <4>1 DEF QuietRegistry, Dead, GateOK, Ticket
        <4>3. elapsed[d] + tickets[req[d]].ttl <= PairTimeout
          BY <1>0, <4>1, <4>2 DEF OutlivedOK
        <4> QED
          BY <4>1, <4>2, <4>3, TimeAssumption
      <3>2. sweep'.at # "rest" => Dead(sweep.uuid)'
        BY <1>1 DEF QuietRegistry, Dead
      <3>3. ASSUME NEW d \in Conns, pc'[d] \in Lapsed, claimed'[d] = 0
            PROVE  Dead(req[d])'
        <4>1. same(d) /\ pc[d] \in Lapsed /\ req[d] \in Uuids
          BY <1>0, <1>1, <3>3 DEF GateOK, AskedPC, ServerPC
        <4>2. CASE claimed[d] = 0
          <5>1. Dead(req[d])
            BY <1>0, <4>1, <4>2 DEF OutlivedOK
          <5> QED
            BY <1>1, <4>1, <5>1 DEF QuietRegistry, Dead
        <4>3. CASE claimed[d] # 0
          <5>1. d = sweep.conn /\ sweep.at # "rest"
            BY <1>1, <3>3, <4>1, <4>3
          <5>2. req[d] = sweep.uuid /\ Dead(sweep.uuid)
            BY <1>0, <4>1, <5>1 DEF SweepRefOK, OutlivedOK
          <5> QED
            BY <1>1, <4>1, <5>2 DEF QuietRegistry, Dead
        <4> QED
          BY <4>2, <4>3
      <3> QED
        BY <3>1, <3>2, <3>3 DEF OutlivedOK
    <2>5. HoldersCounted'
      BY <1>0, <1>1, <2>1, QuietHolders
    <2>6. PickedOnce'
      BY <1>0, <1>1 DEF PickedOnce
    <2> QED
      BY <2>2, <2>3, <2>4, <2>5, <2>6 DEF OnceInv
  <1>2. ASSUME NEW u \in Uuids, SweepVisit(u) PROVE OnceInv'
    <2>1. /\ UNCHANGED <<tickets, issued, pc, req, elapsed, claimed, pending, other>>
          /\ pending[u] \in Conns /\ sweep.at # "visited"
          /\ elapsed[pending[u]] >= PairTimeout
          /\ sweep' = [at |-> "visited", conn |-> pending[u], uuid |-> u]
      BY <1>0, <1>2
         DEF SweepVisit, vars, regVars, connVars, pairVars, ServerTypeOK, Stale, Resting
    <2>2. /\ pc[pending[u]] \in AtMap /\ req[pending[u]] = u
          /\ claimed[pending[u]] # 0
      BY <1>0, <2>1 DEF PendingOK, ClaimsOK
    <2>3. issued[u] > 0
      BY <1>0, <2>1, <2>2 DEF IssuedOK
    <2>4. Dead(u)
      <3> SUFFICES ASSUME ~Dead(u) PROVE FALSE
        OBVIOUS
      <3>1. elapsed[pending[u]] + tickets[u].ttl <= PairTimeout
        BY <1>0, <2>1, <2>2 DEF OutlivedOK
      <3>2. tickets[u].ttl \in 0..PairTimeout /\ tickets[u].ttl # 0
            /\ elapsed[pending[u]] \in Nat
        BY <1>0, <2>1 DEF Dead, GateOK, Ticket
      <3> QED
        BY <2>1, <3>1, <3>2, TimeAssumption
    <2>5. QuietRegistry
      BY <1>0, <2>1, PruneQuiet
    <2> QED
      BY <1>1, <2>1, <2>3, <2>4, <2>5
  <1>3. CASE SweepDelete
    <2>1. /\ UNCHANGED <<tickets, issued, pc, req, elapsed, claimed, other>>
          /\ sweep.at = "visited" /\ sweep.uuid \in Uuids
          /\ \/ pending' = [pending EXCEPT ![sweep.uuid] = None]
                  /\ sweep' = [sweep EXCEPT !.at = "deleted"]
             \/ UNCHANGED pending /\ sweep' = Resting
      BY <1>0, <1>3 DEF SweepDelete, vars, regVars, connVars, SweepOK
    <2>2. \A u \in Uuids, d \in Conns : pending'[u] = d => pending[u] = d
      BY <1>0, <2>1, NoneAssumption DEF ServerTypeOK
    <2>3. QuietRegistry
      BY <1>0, <2>1, PruneQuiet
    <2>4. sweep'.at # "rest" =>
            sweep'.uuid \in Uuids /\ Dead(sweep'.uuid) /\ issued[sweep'.uuid] > 0
      <3>1. sweep'.at # "rest" => sweep'.uuid = sweep.uuid
        BY <1>0, <2>1 DEF ServerTypeOK, Resting
      <3> QED
        BY <1>0, <2>1, <3>1 DEF OutlivedOK, IssuedOK
    <2> QED
      BY <1>1, <2>1, <2>2, <2>3, <2>4
  <1>4. CASE SweepRelease
    <2>1. /\ UNCHANGED <<issued, pc, req, elapsed, other, pending>>
          /\ sweep.at = "deleted" /\ sweep.uuid \in Uuids /\ sweep.conn \in Conns
          /\ Release(sweep.uuid)
          /\ claimed' = [claimed EXCEPT ![sweep.conn] = 0]
          /\ sweep'.uuid = sweep.uuid
      BY <1>0, <1>4 DEF SweepRelease, pairVars, SweepOK, ServerTypeOK
    <2>2. Dead(sweep.uuid) /\ issued[sweep.uuid] > 0
      BY <1>0, <2>1 DEF OutlivedOK, IssuedOK
    <2>3. QuietRegistry
      <3>1. /\ TicketsOnlyAge
            /\ \A v \in Uuids : v # sweep.uuid /\ ~Dead(v)' =>
                 tickets'[v].claims = tickets[v].claims
        <4>1. PICK w \in Uuids : w = sweep.uuid
          BY <2>1
        <4> QED
          BY <1>0, <2>1, <4>1, ReleaseEffect
      <3> QED
        BY <2>1, <2>2, <3>1 DEF QuietRegistry, TicketsOnlyAge
    <2>4. \A d \in Conns : claimed'[d] = claimed[d] \/ lost(d)
      BY <1>0, <2>1 DEF GateOK
    <2> QED
      BY <1>1, <2>1, <2>2, <2>3, <2>4
  <1>5. CASE SweepClose
    <2>1. /\ sweep.at = "released" /\ sweep'.at = "rest"
          /\ UNCHANGED <<tickets, issued, pending, other>>
          /\ MoveAndDrop(None, "closed", Handed(sweep.conn))
      BY <1>5 DEF SweepClose, Resting, MoveAndDrop, regVars
    <2>2. \A d \in Conns : (same(d) /\ claimed'[d] = claimed[d]) \/ dropped(d)
      BY <2>1, NoneAssumption DEF MoveAndDrop
    <2>3. QuietRegistry
      BY <1>0, <2>1, PruneQuiet
    <2> QED
      BY <1>1, <2>1, <2>2, <2>3
  <1> QED
    BY <1>2, <1>3, <1>4, <1>5

(* The clock: a ticket loses what a waiting connection gains. *)
LEMMA TickOnce ==
  ASSUME ServerInv, OnceInv, GateOK', ServerTick
  PROVE  OnceInv'
  <1>0. /\ ServerTypeOK /\ GateOK /\ SweepOK
        /\ ClaimsOK /\ IssuedOK /\ OutlivedOK /\ HoldersCounted /\ PickedOnce
    BY DEF ServerInv, CountInv, OnceInv
  <1> USE DEF UnclaimedPC, ClaimedPC, OwnerPC, TimedPC, Lapsed, AtMap
  <1>1. /\ UNCHANGED <<issued, pc, req, claimed, pending, other, sweep>>
        /\ tickets' = [u \in Uuids |->
             IF tickets[u] # None /\ tickets[u].ttl > 0
               THEN [tickets[u] EXCEPT !.ttl = @ - 1] ELSE tickets[u]]
        /\ elapsed' = [c \in Conns |->
             IF pc[c] \in WaitingPC \cup {"claimed", "parked", "expired"}
               THEN Min2(elapsed[c] + 1, PairTimeout + 1) ELSE elapsed[c]]
    BY DEF ServerTick, Advance
  <1>2. \A u \in Uuids : ~Dead(u) =>
          /\ tickets'[u].ttl = tickets[u].ttl - 1
          /\ tickets'[u].claims = tickets[u].claims
          /\ tickets[u].ttl \in 0..PairTimeout
    <2> SUFFICES ASSUME NEW u \in Uuids, ~Dead(u)
        PROVE  /\ tickets'[u].ttl = tickets[u].ttl - 1
               /\ tickets'[u].claims = tickets[u].claims
               /\ tickets[u].ttl \in 0..PairTimeout
      OBVIOUS
    <2>1. tickets[u] \in Ticket /\ tickets[u].ttl \in 0..PairTimeout /\ tickets[u].ttl > 0
      BY <1>0 DEF GateOK, Dead, Ticket
    <2>2. tickets'[u] = [tickets[u] EXCEPT !.ttl = @ - 1]
      BY <1>1, <2>1, NoneAssumption
    <2> QED
      BY <2>1, <2>2 DEF Ticket
  <1>3. \A u \in Uuids : Dead(u) => tickets'[u] = tickets[u]
    BY <1>1 DEF Dead
  <1>4. QuietRegistry
    <2>1. \A u \in Uuids : Dead(u) => Dead(u)'
      BY <1>3 DEF Dead
    <2>2. \A u \in Uuids : tickets[u] = None => tickets'[u] = None
      BY <1>3 DEF Dead
    <2> QED
      BY <1>1, <1>2, <2>1, <2>2, TimeAssumption DEF QuietRegistry
  <1>5. ClaimsOK'
    <2>1. \A c \in Conns : pc[c] \in {"idle", "reading", "claiming"} => elapsed'[c] = elapsed[c]
      BY <1>1 DEF WaitingPC
    <2> QED
      BY <1>0, <1>1, <2>1 DEF ClaimsOK
  <1>6. IssuedOK'
    BY <1>0, <1>1, <1>4 DEF IssuedOK, QuietRegistry
  <1>7. OutlivedOK'
    <2>1. ASSUME NEW c \in Conns, pc'[c] \in TimedPC, ~Dead(req[c])'
          PROVE  elapsed'[c] + tickets'[req'[c]].ttl <= PairTimeout
      <3>1. req[c] \in Uuids /\ pc[c] \in TimedPC /\ elapsed[c] \in 0..(PairTimeout + 1)
        BY <1>0, <1>1, <2>1 DEF GateOK, AskedPC, ServerPC, GatePC
      <3>2. ~Dead(req[c])
        BY <1>1, <1>4, <2>1, <3>1 DEF QuietRegistry
      <3>3. elapsed[c] + tickets[req[c]].ttl <= PairTimeout
        BY <1>0, <3>1, <3>2 DEF OutlivedOK
      <3>4. elapsed'[c] \in Nat /\ elapsed'[c] <= elapsed[c] + 1
        BY <1>1, <3>1, TimeAssumption DEF Min2
      <3>5. /\ tickets'[req[c]].ttl = tickets[req[c]].ttl - 1
            /\ tickets[req[c]].ttl \in 0..PairTimeout
        BY <1>2, <3>1, <3>2
      <3> QED
        BY <1>1, <3>1, <3>3, <3>4, <3>5, TimeAssumption
    <2>2. sweep'.at # "rest" => Dead(sweep.uuid)'
      BY <1>0, <1>1, <1>4 DEF OutlivedOK, QuietRegistry, SweepOK, Dead
    <2>3. ASSUME NEW c \in Conns, pc'[c] \in Lapsed, claimed'[c] = 0
          PROVE  Dead(req[c])'
      <3>1. pc[c] \in Lapsed /\ claimed[c] = 0 /\ req[c] \in Uuids
        BY <1>0, <1>1, <2>3 DEF GateOK, AskedPC, ServerPC
      <3>2. Dead(req[c])
        BY <1>0, <3>1 DEF OutlivedOK
      <3> QED
        BY <1>1, <1>4, <3>1, <3>2 DEF QuietRegistry, Dead
    <2> QED
      BY <2>1, <2>2, <2>3 DEF OutlivedOK
  <1>8. HoldersCounted'
    BY <1>0, <1>1, <1>4, QuietHolders
  <1>9. PickedOnce'
    BY <1>0, <1>1 DEF PickedOnce
  <1> QED
    BY <1>5, <1>6, <1>7, <1>8, <1>9 DEF OnceInv

-----------------------------------------------------------------------------
(* No ticket is issued at the start. *)
LEMMA OnceInit == ServerInit => OnceInv
  <1> SUFFICES ASSUME ServerInit PROVE OnceInv
    OBVIOUS
  <1>1. /\ tickets = [u \in Uuids |-> None] /\ issued = [u \in Uuids |-> 0]
        /\ pc = [c \in Conns |-> "idle"] /\ claimed = [c \in Conns |-> 0]
        /\ elapsed = [c \in Conns |-> 0] /\ other = [c \in Conns |-> None]
        /\ pending = [u \in Uuids |-> None] /\ sweep.at = "rest"
    BY DEF ServerInit, InitAt, Resting
  <1>2. \A u \in Uuids : Dead(u) /\ Cardinality(Holders(u)) = 0
    <2>1. \A u \in Uuids : Holders(u) = {}
      BY <1>1 DEF Holders
    <2> QED
      BY <1>1, <2>1, FS_EmptySet DEF Dead
  <1>3. ClaimsOK
    BY <1>1, NoneAssumption DEF ClaimsOK, UnclaimedPC, ClaimedPC, OwnerPC
  <1>4. IssuedOK /\ OutlivedOK
    BY <1>1 DEF IssuedOK, OutlivedOK, Lapsed, AtMap, TimedPC
  <1>5. HoldersCounted
    BY <1>2 DEF HoldersCounted
  <1>6. PickedOnce
    BY <1>1 DEF PickedOnce
  <1> QED
    BY <1>3, <1>4, <1>5, <1>6 DEF OnceInv

(* The third invariant is inductive when a UUID is issued once. *)
LEMMA OnceStep ==
  ASSUME MaxTickets = 1, ServerInv, OnceInv, [ServerNext]_allVars
  PROVE  OnceInv'
  <1>1. ServerInv' /\ GateOK' /\ PendingOK'
    BY ServerInvStep DEF ServerInv, CountInv, ReferencesOK
  <1>2. ServerTypeOK /\ GateOK
    BY DEF ServerInv, CountInv
  <1>3. CASE UNCHANGED allVars
    <2>1. UNCHANGED <<tickets, issued, pc, req, elapsed, claimed, pending, other, sweep>>
      BY <1>3 DEF allVars, vars, regVars, connVars, srvVars, pairVars
    <2>2. QuietRegistry
      BY <1>2, <2>1, PruneQuiet
    <2>3. GateQuiet
      BY <2>1, <2>2 DEF GateQuiet
    <2> QED
      BY <1>1, <2>1, <2>3, GateQuietOnce
  <1>4. CASE GateStep
    <2>1. UNCHANGED <<pending, other, sweep>>
      BY <1>4 DEF GateStep, srvVars, pairVars
    <2> QED
      BY <1>1, <1>2, <1>4, <2>1, GateClassified, GateQuietOnce, ClaimOnce, IssueOnce
  <1>5. CASE \E c \in Conns : PairStep(c)
    BY <1>1, <1>5, PairStepOnce
  <1>6. CASE (\E u \in Uuids : SweepVisit(u)) \/ SweepDelete \/ SweepRelease \/ SweepClose
    BY <1>1, <1>6, SweepOnce
  <1>7. CASE ServerTick
    BY <1>1, <1>7, TickOnce
  <1> QED
    BY <1>3, <1>4, <1>5, <1>6, <1>7, StepCases

(* The third invariant holds always when a UUID is issued once. *)
LEMMA OnceAlways ==
  ASSUME MaxTickets = 1
  PROVE  ServerSpec => [](ServerInv /\ OnceInv)
  <1>1. ServerInv /\ OnceInv /\ [ServerNext]_allVars => ServerInv' /\ OnceInv'
    BY OnceStep, ServerInvStep
  <1> QED
    BY <1>1, OnceInit, ServerInvInit, PTL DEF ServerSpec

(* Claim "reserves one of the two connections needed for an authorized     *)
(* relay pair" (authorization.go): while signal authorizes a UUID once, no *)
(* schedule of handlers, timeouts and the sweep gives its ticket a third   *)
(* holder, even though the sweep and a timed out handler may both release  *)
(* the claim of one connection.                                            *)
THEOREM TicketHeldByTwo ==
  ASSUME MaxTickets = 1
  PROVE  ServerSpec => []AtMostTwoHolders
  <1>1. ServerInv /\ OnceInv => AtMostTwoHolders
    <2> SUFFICES ASSUME ServerInv, OnceInv, NEW u \in Uuids, NEW s \in 1..MaxTickets
        PROVE  Cardinality({c \in Conns : req[c] = u /\ claimed[c] = s}) <= 2
      BY DEF AtMostTwoHolders
    <2> DEFINE held == {c \in Conns : req[c] = u /\ claimed[c] = s}
    <2>1. held \in SUBSET Holders(u) /\ held \in SUBSET Conns
      BY DEF Holders
    <2> HIDE DEF held
    <2>2. /\ Cardinality(held) <= Cardinality(Holders(u))
          /\ Cardinality(held) \in Nat /\ Cardinality(Holders(u)) \in Nat
      BY <2>1, HoldersTyped, CountTyped, FS_Subset
    <2>3. Cardinality(Holders(u)) <= 2
      BY DEF OnceInv, HoldersCounted
    <2>4. Cardinality(held) <= 2
      BY <2>2, <2>3
    <2> QED
      BY <2>4 DEF held
  <1> QED
    BY <1>1, OnceAlways, PTL

(* LoadOrStore, Delete and close of pairIncomingConn are three steps: a    *)
(* third handler that came between them would share the parked connection. *)
(* While signal authorizes a UUID once there is no third handler, and a    *)
(* connection is in at most one session.                                   *)
THEOREM SessionIsExclusive ==
  ASSUME MaxTickets = 1
  PROVE  ServerSpec => []SessionExclusive
  <1>1. ServerInv /\ OnceInv => SessionExclusive
    <2> SUFFICES ASSUME ServerInv, OnceInv, NEW c \in Conns, NEW d \in Conns
        PROVE  /\ other[c] # None /\ other[c] = other[d] => c = d
               /\ other[c] = d => other[d] = None
      BY DEF SessionExclusive
    <2>1. other[c] # None /\ other[c] = other[d] => c = d
      BY DEF OnceInv, PickedOnce
    <2>2. other[c] = d => other[d] = None
      BY DEF ServerInv, CountInv, ServerTypeOK, ReferencesOK, OwnerOK, OwnerPC, RefPC
    <2> QED
      BY <2>1, <2>2
  <1> QED
    BY <1>1, OnceAlways, PTL

-----------------------------------------------------------------------------
(***************************************************************************)
(* Who closes a connection, when no goroutine is left waiting a tick.      *)
(***************************************************************************)

(* A handler that holds a claim and has yet to look into the pending map. *)
ComingPC == {"leaving_ok", "claimed"}

(* No connection will come for u any more: its ticket is used up or has    *)
(* run out, and every handler that claimed it is past its LoadOrStore.     *)
Settled(u) ==
  /\ issued[u] > 0
  /\ Dead(u)
  /\ \A d \in Conns : pc[d] \in ComingPC => req[d] # u

(* A UUID is settled as soon as its parked connection has been picked up,  *)
(* is visited by the sweep, or has been taken out of the map.              *)
SettledOK ==
  /\ \A d \in Conns : pc[d] = "loaded" => Settled(req[d])
  /\ sweep.at # "rest" => Settled(sweep.uuid)
  /\ \A c \in Conns : pc[c] \in AtMap /\ pending[req[c]] # c => Settled(req[c])

(* Each of the three that delete an entry by its UUID finds the connection *)
(* it means, or nothing.                                                   *)
OwnEntry ==
  /\ \A d \in Conns : pc[d] = "loaded" => pending[req[d]] \in {other[d], None}
  /\ \A c \in Conns : pc[c] \in AtMap => pending[req[c]] \in {c, None}
  /\ sweep.at = "visited" => pending[sweep.uuid] \in {sweep.conn, None}

(* A parked connection that is being paired is too young for the sweep: no *)
(* time has passed since its partner claimed a ticket that was alive.      *)
YoungOK ==
  /\ \A c \in Conns : pc[c] = "claimed" => elapsed[c] = 0
  /\ \A c, d \in Conns :
       pc[c] \in AtMap /\ pc[d] \in ComingPC \cup {"loaded"} /\ req[c] = req[d] =>
         elapsed[c] < PairTimeout

(* Whoever is about to close a done channel is alone with it, and it is    *)
(* open.                                                                   *)
NotDone ==
  /\ \A c, d \in Conns :
       other[d] = c /\ pc[d] \in {"loaded", "unmapped"} => ~done[c]
  /\ sweep.at # "rest" =>
       ~done[sweep.conn] /\ \A d \in Conns : other[d] # sweep.conn

(* A goroutine other than its own handler will close the socket of c. *)
Owned(c) ==
  \/ \E d \in Conns : other[d] = c
  \/ sweep.conn = c /\ sweep.at \in {"deleted", "released"}

(* A handler leaves an open socket only to such a goroutine. *)
SocketsOwned ==
  \A c \in Conns : sock[c] =>
    /\ done[c] => Owned(c)
    /\ pc[c] = "parked" /\ pending[req[c]] # c => Owned(c)
    /\ pc[c] \in {"closed", "handed", "idle"} => Owned(c)

(* The fourth inductive invariant, for MaxTickets = 1 and Prompt. *)
PromptInv ==
  /\ SettledOK
  /\ OwnEntry
  /\ YoungOK
  /\ NotDone
  /\ SocketsOwned
  /\ ~panicked

(* A step that lets nobody pick up, park or visit a connection, and no     *)
(* time pass.                                                              *)
Calm ==
  /\ \A u \in Uuids : pending'[u] \in {pending[u], None}
  /\ \A d \in Conns : other'[d] # None =>
       /\ other'[d] = other[d] /\ req'[d] = req[d]
       /\ pc'[d] = "loaded" => pc[d] = "loaded"
       /\ pc'[d] = "unmapped" => pc[d] \in {"loaded", "unmapped"}
  /\ \A d \in Conns : pc'[d] \in AtMap =>
       pc[d] \in AtMap /\ req'[d] = req[d] /\ elapsed'[d] = elapsed[d]
  /\ \A d \in Conns : pc'[d] \in ComingPC =>
       req'[d] = req[d] /\ (pc[d] \in ComingPC \/ ~Dead(req[d]))
  /\ \A d \in Conns : pc'[d] = "claimed" => elapsed'[d] = 0
  /\ sweep'.at # "rest" =>
       /\ sweep.at # "rest" /\ sweep'.conn = sweep.conn /\ sweep'.uuid = sweep.uuid
       /\ sweep'.at = "visited" => sweep.at = "visited"
  /\ \A u \in Uuids : issued[u] > 0 => issued'[u] > 0 /\ (Dead(u) => Dead(u)')

(* An entry goes only when its UUID is settled, or with its own handler. *)
TakenOut ==
  \A u \in Uuids, c \in Conns :
    pending[u] = c /\ pending'[u] # c /\ pc'[c] \in AtMap => Settled(u)

(* The UUIDs the handlers and the sweep use. *)
LEMMA AskedTyped ==
  ASSUME GateOK
  PROVE  \A d \in Conns :
           pc[d] \in AtMap \cup ComingPC \cup {"loaded"} => req[d] \in Uuids
  BY DEF GateOK, AskedPC, ServerPC, GatePC, AtMap, ComingPC

(* A settled UUID stays settled. *)
LEMMA SettledStays ==
  ASSUME Calm, NEW u \in Uuids, Settled(u)
  PROVE  Settled(u)'
  BY DEF Calm, Settled

(* A calm step keeps what is known of settled UUIDs, entries and ages. *)
LEMMA CalmKeeps ==
  ASSUME ServerInv, OnceInv, ServerTypeOK', GateOK', SweepOK', PromptInv, Calm, TakenOut
  PROVE  SettledOK' /\ OwnEntry' /\ YoungOK'
  <1>0. /\ ServerTypeOK /\ GateOK /\ SweepOK /\ PendingOK /\ OutlivedOK
        /\ SettledOK /\ OwnEntry /\ YoungOK
    BY DEF ServerInv, CountInv, OnceInv, ReferencesOK, PromptInv
  <1>1. \A d \in Conns : pc'[d] = "loaded" =>
          /\ pc[d] = "loaded" /\ other'[d] = other[d] /\ req'[d] = req[d]
          /\ req[d] \in Uuids
    <2>1. \A d \in Conns : pc'[d] = "loaded" => other'[d] # None
      BY DEF ServerTypeOK, OwnerPC
    <2> QED
      BY <1>0, <2>1, AskedTyped DEF Calm
  <1>2. \A d \in Conns : pc'[d] \in AtMap =>
          /\ pc[d] \in AtMap /\ req'[d] = req[d] /\ elapsed'[d] = elapsed[d]
          /\ req[d] \in Uuids
    BY <1>0, AskedTyped DEF Calm
  <1>3. sweep'.at # "rest" =>
          /\ sweep.at # "rest" /\ sweep'.conn = sweep.conn /\ sweep'.uuid = sweep.uuid
          /\ sweep'.at = "visited" => sweep.at = "visited"
          /\ sweep.uuid \in Uuids
    BY <1>0 DEF Calm, SweepOK
  <1>4. SettledOK'
    <2>1. ASSUME NEW d \in Conns, pc'[d] = "loaded" PROVE Settled(req[d])'
      <3>1. PICK u \in Uuids : u = req[d] /\ u = req'[d] /\ Settled(u)
        BY <1>0, <1>1, <2>1 DEF SettledOK
      <3>2. Settled(u)'
        BY <3>1, SettledStays
      <3> QED
        BY <3>1, <3>2 DEF Settled, Dead
    <2>2. ASSUME sweep'.at # "rest" PROVE Settled(sweep.uuid)'
      <3>1. PICK u \in Uuids : u = sweep.uuid /\ u = sweep'.uuid /\ Settled(u)
        BY <1>0, <1>3, <2>2 DEF SettledOK
      <3>2. Settled(u)'
        BY <3>1, SettledStays
      <3> QED
        BY <3>1, <3>2 DEF Settled, Dead
    <2>3. ASSUME NEW c \in Conns, pc'[c] \in AtMap, pending'[req'[c]] # c
          PROVE  Settled(req[c])'
      <3>1. PICK u \in Uuids : u = req[c] /\ u = req'[c] /\ pc[c] \in AtMap
        BY <1>2, <2>3
      <3>2. Settled(u)
        <4>1. CASE pending[u] # c
          BY <1>0, <3>1, <4>1 DEF SettledOK
        <4>2. CASE pending[u] = c
          BY <2>3, <3>1, <4>2 DEF TakenOut
        <4> QED
          BY <4>1, <4>2
      <3>3. Settled(u)'
        BY <3>2, SettledStays
      <3> QED
        BY <3>1, <3>3 DEF Settled, Dead
    <2> QED
      BY <2>1, <2>2, <2>3 DEF SettledOK
  <1>5. OwnEntry'
    <2>1. \A u \in Uuids : pending'[u] \in {pending[u], None}
      BY DEF Calm
    <2>2. \A d \in Conns : pc'[d] = "loaded" => pending'[req'[d]] \in {other'[d], None}
      BY <1>0, <1>1, <2>1 DEF OwnEntry
    <2>3. \A c \in Conns : pc'[c] \in AtMap => pending'[req'[c]] \in {c, None}
      BY <1>0, <1>2, <2>1 DEF OwnEntry
    <2>4. sweep'.at = "visited" => pending'[sweep'.uuid] \in {sweep'.conn, None}
      BY <1>0, <1>3, <2>1 DEF OwnEntry
    <2> QED
      BY <2>2, <2>3, <2>4 DEF OwnEntry
  <1>6. YoungOK'
    <2>1. \A c \in Conns : pc'[c] = "claimed" => elapsed'[c] = 0
      BY DEF Calm
    <2>2. ASSUME NEW c \in Conns, NEW d \in Conns, pc'[c] \in AtMap,
                 pc'[d] \in ComingPC \cup {"loaded"}, req'[c] = req'[d]
          PROVE  elapsed'[c] < PairTimeout
      <3>1. /\ pc[c] \in AtMap /\ req[c] = req[d] /\ elapsed'[c] = elapsed[c]
            /\ req[c] \in Uuids
            /\ pc[d] \in ComingPC \cup {"loaded"} \/ ~Dead(req[d])
        BY <1>1, <1>2, <2>2 DEF Calm
      <3>2. CASE pc[d] \in ComingPC \cup {"loaded"}
        BY <1>0, <3>1, <3>2 DEF YoungOK
      <3>3. CASE ~Dead(req[c])
        <4>1. elapsed[c] + tickets[req[c]].ttl <= PairTimeout
          BY <1>0, <3>1, <3>3 DEF OutlivedOK, TimedPC, AtMap
        <4>2. tickets[req[c]].ttl \in 1..PairTimeout /\ elapsed[c] \in Nat
          BY <1>0, <3>1, <3>3 DEF Dead, GateOK, Ticket
        <4> QED
          BY <3>1, <4>1, <4>2, TimeAssumption
      <3> QED
        BY <3>1, <3>2, <3>3
    <2> QED
      BY <2>1, <2>2 DEF YoungOK
  <1> QED
    BY <1>4, <1>5, <1>6

(* A step of the gate is calm: a claim is of a ticket that is alive. *)
LEMMA GateCalm ==
  ASSUME MaxTickets = 1, ServerInv, OnceInv, YoungOK, GateStep
  PROVE  Calm /\ TakenOut
  <1>0. ServerTypeOK /\ GateOK /\ ClaimsOK /\ YoungOK
    BY DEF ServerInv, CountInv, OnceInv
  <1>1. UNCHANGED <<pending, other, sweep>>
    BY DEF GateStep, srvVars, pairVars
  <1> USE DEF UnclaimedPC, AtMap, ComingPC
  <1>2. TakenOut
    BY <1>1 DEF TakenOut
  <1>3. \A d \in Conns : other[d] # None => pc[d] \in OwnerPC \cup {"freeing"}
    BY <1>0 DEF ServerTypeOK
  <1>4. CASE GateQuiet
    <2>1. \A u \in Uuids : issued[u] > 0 => issued'[u] > 0 /\ (Dead(u) => Dead(u)')
      BY <1>4 DEF GateQuiet, QuietRegistry
    <2>2. \A d \in Conns : other'[d] # None =>
            other'[d] = other[d] /\ req'[d] = req[d] /\ pc'[d] = pc[d]
      BY <1>1, <1>3, <1>4 DEF GateQuiet, OwnerPC
    <2>3. \A d \in Conns : pc'[d] \in AtMap =>
            pc[d] \in AtMap /\ req'[d] = req[d] /\ elapsed'[d] = elapsed[d]
      BY <1>4 DEF GateQuiet
    <2>4. \A d \in Conns : pc'[d] \in ComingPC => req'[d] = req[d] /\ pc[d] \in ComingPC
      BY <1>4 DEF GateQuiet
    <2>5. \A d \in Conns : pc'[d] = "claimed" => elapsed'[d] = 0
      BY <1>0, <1>4 DEF GateQuiet, YoungOK
    <2>6. Calm
      BY <1>1, <2>1, <2>2, <2>3, <2>4, <2>5 DEF Calm
    <2> QED
      BY <1>2, <2>6
  <1>5. ASSUME NEW c \in Conns, ClaimStep(c) PROVE Calm /\ TakenOut
    <2>1. /\ req[c] \in Uuids /\ CanClaim(req[c]) /\ Claim(req[c])
          /\ \/ pc[c] = "claiming" /\ pc'[c] = "claimed"
             \/ pc[c] = "reclaiming" /\ pc'[c] = "leaving_ok"
          /\ \A d \in Conns : d # c => pc'[d] = pc[d]
          /\ UNCHANGED <<req, elapsed, issued>>
      BY <1>5 DEF ClaimStep
    <2>2. ~Dead(req[c])
      BY <1>0, <2>1, ClaimEffect
    <2>3. TicketsOnlyAge
      BY <1>0, <2>1, ClaimAges
    <2>4. \A u \in Uuids : issued[u] > 0 => issued'[u] > 0 /\ (Dead(u) => Dead(u)')
      BY <2>1, <2>3 DEF TicketsOnlyAge
    <2>5. \A d \in Conns : other'[d] # None =>
            other'[d] = other[d] /\ req'[d] = req[d] /\ pc'[d] = pc[d]
      BY <1>1, <1>3, <2>1 DEF OwnerPC
    <2>6. \A d \in Conns : pc'[d] \in AtMap =>
            pc[d] \in AtMap /\ req'[d] = req[d] /\ elapsed'[d] = elapsed[d]
      BY <2>1
    <2>7. \A d \in Conns : pc'[d] \in ComingPC =>
            req'[d] = req[d] /\ (pc[d] \in ComingPC \/ ~Dead(req[d]))
      BY <2>1, <2>2
    <2>8. \A d \in Conns : pc'[d] = "claimed" => elapsed'[d] = 0
      BY <1>0, <2>1 DEF YoungOK, ClaimsOK
    <2>9. Calm
      BY <1>1, <2>4, <2>5, <2>6, <2>7, <2>8 DEF Calm
    <2> QED
      BY <1>2, <2>9
  <1>6. ASSUME NEW u \in Uuids, IssueStep(u) PROVE Calm /\ TakenOut
    <2>1. \A v \in Uuids : issued[v] > 0 => issued'[v] > 0 /\ (Dead(v) => Dead(v)')
      <3>1. \A v \in Uuids : issued[v] > 0 =>
              tickets'[v] = PrunedTickets[v] /\ issued'[v] = issued[v]
        BY <1>6 DEF IssueStep
      <3> QED
        BY <1>0, <3>1, PruneTyped DEF Dead
    <2>2. /\ UNCHANGED <<req, elapsed>>
          /\ \A d \in Conns : pc'[d] = pc[d] \/ (pc[d] = "blocked" /\ pc'[d] = "woken")
      BY <1>6 DEF IssueStep
    <2>3. \A d \in Conns : other'[d] # None =>
            other'[d] = other[d] /\ req'[d] = req[d] /\ pc'[d] = pc[d]
      BY <1>1, <1>3, <2>2 DEF OwnerPC
    <2>4. \A d \in Conns : pc'[d] = "claimed" => elapsed'[d] = 0
      BY <1>0, <2>2 DEF YoungOK
    <2>5. Calm
      BY <1>1, <2>1, <2>2, <2>3, <2>4 DEF Calm
    <2> QED
      BY <1>2, <2>5
  <1> QED
    BY <1>0, <1>4, <1>5, <1>6, GateClassified

(* A step of the gate touches no socket and no done channel. *)
LEMMA GatePrompt ==
  ASSUME MaxTickets = 1, ServerInv, OnceInv, ServerInv', PromptInv, GateStep
  PROVE  PromptInv'
  <1>0. /\ ServerTypeOK /\ GateOK /\ NotDone /\ SocketsOwned /\ YoungOK /\ ~panicked
        /\ ServerTypeOK' /\ GateOK' /\ SweepOK'
    BY DEF ServerInv, CountInv, PromptInv
  <1>1. UNCHANGED <<pending, done, sock, other, sweep, panicked>>
    BY DEF GateStep, srvVars, pairVars
  <1>2. SettledOK' /\ OwnEntry' /\ YoungOK'
    BY <1>0, GateCalm, CalmKeeps
  <1>3. \A d \in Conns : pc[d] \notin BeforeOutcome \/ pc'[d] \notin GatePC =>
          pc'[d] = pc[d] /\ (req'[d] = req[d] \/ pc[d] = "reading")
    BY <1>0, GateStepKept DEF GateMoves
  <1>4. \A d \in Conns : pc'[d] \notin GatePC => pc'[d] = pc[d] /\ req'[d] = req[d]
    BY <1>3 DEF GatePC
  <1>5. NotDone'
    BY <1>0, <1>1, <1>4 DEF NotDone, GatePC
  <1>6. SocketsOwned'
    <2> SUFFICES ASSUME NEW c \in Conns, sock'[c]
        PROVE  /\ done'[c] => Owned(c)'
               /\ pc'[c] = "parked" /\ pending'[req'[c]] # c => Owned(c)'
               /\ pc'[c] \in {"closed", "handed", "idle"} => Owned(c)'
      BY DEF SocketsOwned
    <2>1. Owned(c) => Owned(c)'
      BY <1>1 DEF Owned
    <2> QED
      BY <1>0, <1>1, <1>4, <2>1 DEF SocketsOwned, GatePC
  <1> QED
    BY <1>0, <1>1, <1>2, <1>5, <1>6 DEF PromptInv

(* A calm step that closes no done channel. *)
LEMMA NotDoneKept ==
  ASSUME ServerTypeOK, ServerTypeOK', SweepOK', NotDone, Calm,
         \A c \in Conns : done'[c] => done[c]
  PROVE  NotDone'
  <1>1. ASSUME NEW c \in Conns, NEW d \in Conns, other'[d] = c,
               pc'[d] \in {"loaded", "unmapped"}
        PROVE  ~done'[c]
    <2>1. other[d] = c /\ pc[d] \in {"loaded", "unmapped"}
      BY <1>1, NoneAssumption DEF Calm
    <2> QED
      BY <2>1 DEF NotDone
  <1>2. ASSUME sweep'.at # "rest"
        PROVE  ~done'[sweep'.conn] /\ \A d \in Conns : other'[d] # sweep'.conn
    <2>1. sweep.at # "rest" /\ sweep'.conn = sweep.conn /\ sweep.conn \in Conns
      BY <1>2 DEF Calm, SweepOK
    <2>2. \A d \in Conns : other'[d] = other[d] \/ other'[d] = None
      BY DEF Calm
    <2> QED
      BY <2>1, <2>2, NoneAssumption DEF NotDone
  <1> QED
    BY <1>1, <1>2 DEF NotDone

(* A step that leaves an open socket with whoever has it. *)
LEMMA SocketsKept ==
  ASSUME SocketsOwned,
         \A c \in Conns : sock'[c] =>
           /\ sock[c]
           /\ Owned(c) => Owned(c)'
           /\ done'[c] => done[c] \/ Owned(c)'
           /\ pc'[c] = "parked" /\ pending'[req'[c]] # c =>
                (pc[c] = "parked" /\ pending[req[c]] # c) \/ Owned(c)'
           /\ pc'[c] \in {"closed", "handed", "idle"} =>
                pc[c] \in {"closed", "handed", "idle"} \/ Owned(c)'
  PROVE  SocketsOwned'
  BY DEF SocketsOwned

(* The clock passes only when nobody is between two steps. *)
LEMMA TickPrompt ==
  ASSUME Prompt = TRUE, ServerInv, OnceInv, PromptInv, ServerTick
  PROVE  PromptInv'
  <1>0. /\ ServerTypeOK /\ GateOK /\ SettledOK /\ OwnEntry /\ NotDone /\ SocketsOwned
        /\ ~panicked
    BY DEF ServerInv, CountInv, PromptInv
  <1>1. /\ UNCHANGED <<issued, pc, req, pending, done, sock, other, sweep, panicked>>
        /\ sweep = Resting /\ \A c \in Conns : Waits(c)
        /\ tickets' = [u \in Uuids |->
             IF tickets[u] # None /\ tickets[u].ttl > 0
               THEN [tickets[u] EXCEPT !.ttl = @ - 1] ELSE tickets[u]]
    BY DEF ServerTick, Advance
  <1>2. \A c \in Conns : pc[c] \notin ComingPC \cup {"loaded", "unmapped", "claimed"}
    BY <1>1 DEF Waits, ComingPC
  <1>3. \A u \in Uuids : Dead(u) => Dead(u)'
    BY <1>0, <1>1 DEF Dead, GateOK, Ticket
  <1>4. SettledOK'
    <2>1. ASSUME NEW c \in Conns, pc'[c] \in AtMap, pending'[req'[c]] # c
          PROVE  Settled(req[c])'
      <3>1. Settled(req[c]) /\ req[c] \in Uuids
        BY <1>0, <1>1, <2>1, AskedTyped DEF SettledOK
      <3> QED
        BY <1>1, <1>3, <3>1 DEF Settled, Dead
    <2> QED
      BY <1>1, <1>2, <2>1 DEF SettledOK, Resting
  <1>5. OwnEntry'
    BY <1>0, <1>1 DEF OwnEntry
  <1>6. YoungOK'
    BY <1>1, <1>2 DEF YoungOK, ComingPC
  <1>7. NotDone'
    BY <1>0, <1>1 DEF NotDone
  <1>8. SocketsOwned'
    BY <1>0, <1>1 DEF SocketsOwned, Owned
  <1> QED
    BY <1>0, <1>1, <1>4, <1>5, <1>6, <1>7, <1>8 DEF PromptInv

(* What the sweep visits is too old to be paired. *)
LEMMA VisitPrompt ==
  ASSUME ServerInv, OnceInv, OnceInv', PromptInv, NEW u \in Uuids, SweepVisit(u)
  PROVE  PromptInv'
  <1>0. /\ ServerTypeOK /\ GateOK /\ PendingOK /\ OwnerOK
        /\ SettledOK /\ OwnEntry /\ YoungOK /\ NotDone /\ SocketsOwned /\ ~panicked
    BY DEF ServerInv, CountInv, ReferencesOK, PromptInv
  <1>1. /\ UNCHANGED <<tickets, issued, pc, req, elapsed>>
        /\ UNCHANGED <<pending, done, sock, other, panicked>>
        /\ sweep = Resting /\ pending[u] # None /\ elapsed[pending[u]] >= PairTimeout
        /\ sweep' = [at |-> "visited", conn |-> pending[u], uuid |-> u]
    BY DEF SweepVisit, vars, regVars, connVars, pairVars, Stale
  <1>2. PICK x \in Conns : x = pending[u]
    BY <1>0, <1>1 DEF ServerTypeOK
  <1>3. pc[x] \in AtMap /\ req[x] = u /\ ~done[x] /\ elapsed[x] >= PairTimeout
    BY <1>0, <1>1, <1>2 DEF PendingOK
  <1>4. sweep'.at = "visited" /\ sweep'.conn = x /\ sweep'.uuid = u
    BY <1>1, <1>2
  <1>5. \A d \in Conns : pc[d] \in ComingPC \cup {"loaded"} => req[d] # u
    <2> SUFFICES ASSUME NEW d \in Conns, pc[d] \in ComingPC \cup {"loaded"}, req[d] = u
        PROVE  FALSE
      OBVIOUS
    <2>1. elapsed[x] < PairTimeout
      BY <1>0, <1>3 DEF YoungOK
    <2>2. elapsed[x] \in Int /\ PairTimeout \in Int
      BY <1>0, TimeAssumption DEF GateOK
    <2> QED
      BY <1>3, <2>1, <2>2
  <1>6. Settled(u)
    <2>1. issued[u] > 0 /\ Dead(u)
      <3>1. issued'[sweep'.uuid] > 0 /\ Dead(sweep.uuid)'
        BY <1>4 DEF OnceInv, IssuedOK, OutlivedOK
      <3> QED
        BY <1>1, <1>4, <3>1 DEF Dead
    <2> QED
      BY <1>5, <2>1 DEF Settled
  <1>7. \A d \in Conns : other[d] # x
    <2> SUFFICES ASSUME NEW d \in Conns, other[d] = x PROVE FALSE
      OBVIOUS
    <2>1. pc[d] = "loaded" /\ req[d] = req[x]
      BY <1>0, <1>2, <1>3 DEF OwnerOK
    <2> QED
      BY <1>3, <1>5, <2>1
  <1>8. SettledOK'
    BY <1>0, <1>1, <1>4, <1>6 DEF SettledOK, Settled, Dead
  <1>9. OwnEntry' /\ YoungOK'
    BY <1>0, <1>1, <1>2, <1>4 DEF OwnEntry, YoungOK
  <1>10. NotDone'
    BY <1>0, <1>1, <1>3, <1>4, <1>7 DEF NotDone
  <1>11. SocketsOwned'
    <2>1. \A c \in Conns : Owned(c) => Owned(c)'
      BY <1>1 DEF Owned, Resting
    <2> QED
      BY <1>0, <1>1, <2>1 DEF SocketsOwned
  <1> QED
    BY <1>0, <1>1, <1>8, <1>9, <1>10, <1>11 DEF PromptInv

(* The three steps of the sweep: it takes out, releases and closes the *)
(* connection it visited, and nobody else holds that one.              *)
LEMMA SweepPrompt ==
  ASSUME ServerInv, OnceInv, ServerInv', PromptInv,
         SweepDelete \/ SweepRelease \/ SweepClose
  PROVE  PromptInv'
  <1>0. /\ ServerTypeOK /\ GateOK /\ SweepOK /\ PendingOK
        /\ SettledOK /\ OwnEntry /\ YoungOK /\ NotDone /\ SocketsOwned /\ ~panicked
        /\ ServerTypeOK' /\ GateOK' /\ SweepOK'
    BY DEF ServerInv, CountInv, ReferencesOK, PromptInv
  <1>1. sweep.at # "rest" /\ sweep.conn \in Conns /\ sweep.uuid \in Uuids
    BY <1>0 DEF SweepDelete, SweepRelease, SweepClose, SweepOK
  <1>2. CASE SweepDelete
    <2>1. /\ UNCHANGED <<tickets, issued, pc, req, elapsed>>
          /\ UNCHANGED <<done, sock, other, panicked>>
          /\ sweep.at = "visited"
          /\ \/ /\ pending' = [pending EXCEPT ![sweep.uuid] = None]
                /\ sweep' = [sweep EXCEPT !.at = "deleted"]
             \/ UNCHANGED pending /\ sweep' = Resting
      BY <1>2 DEF SweepDelete, vars, regVars, connVars
    <2>2. sweep'.at # "rest" =>
            sweep'.at = "deleted" /\ sweep'.conn = sweep.conn /\ sweep'.uuid = sweep.uuid
      BY <1>0, <2>1 DEF ServerTypeOK, Resting
    <2>3. \A u \in Uuids :
            /\ pending'[u] \in {pending[u], None}
            /\ pending'[u] # pending[u] => u = sweep.uuid /\ sweep'.at = "deleted"
      <3>1. CASE UNCHANGED pending
        BY <3>1
      <3>2. CASE /\ pending' = [pending EXCEPT ![sweep.uuid] = None]
                 /\ sweep' = [sweep EXCEPT !.at = "deleted"]
        BY <1>0, <3>2 DEF ServerTypeOK
      <3> QED
        BY <2>1, <3>1, <3>2
    <2>4. Calm
      BY <1>0, <1>1, <2>1, <2>2, <2>3 DEF Calm, YoungOK, Dead
    <2>5. TakenOut
      BY <1>0, <1>1, <2>3 DEF TakenOut, SettledOK
    <2>6. SettledOK' /\ OwnEntry' /\ YoungOK'
      BY <1>0, <2>4, <2>5, CalmKeeps
    <2>7. NotDone'
      BY <1>0, <2>1, <2>4, NotDoneKept
    <2>8. SocketsOwned'
      <3> SUFFICES ASSUME NEW c \in Conns, sock'[c]
          PROVE  /\ Owned(c) => Owned(c)'
                 /\ pc'[c] = "parked" /\ pending'[req'[c]] # c =>
                      (pc[c] = "parked" /\ pending[req[c]] # c) \/ Owned(c)'
        BY <1>0, <2>1, SocketsKept
      <3>1. Owned(c) => Owned(c)'
        BY <2>1 DEF Owned
      <3>2. ASSUME pc[c] = "parked", pending[req[c]] = c, pending'[req[c]] # c
            PROVE  Owned(c)'
        <4>1. req[c] \in Uuids
          BY <1>0, <3>2, AskedTyped DEF AtMap
        <4>2. req[c] = sweep.uuid /\ sweep'.at = "deleted" /\ sweep'.conn = sweep.conn
          BY <2>2, <2>3, <3>2, <4>1
        <4>3. sweep.conn = c
          BY <1>0, <2>1, <3>2, <4>2, NoneAssumption DEF OwnEntry
        <4> QED
          BY <4>2, <4>3 DEF Owned
      <3> QED
        BY <2>1, <3>1, <3>2
    <2> QED
      BY <1>0, <2>1, <2>6, <2>7, <2>8 DEF PromptInv
  <1>3. CASE SweepRelease
    <2>1. /\ UNCHANGED <<issued, pc, req, elapsed>>
          /\ UNCHANGED <<pending, done, sock, other, panicked>>
          /\ sweep.at = "deleted" /\ Release(sweep.uuid)
          /\ sweep' = [sweep EXCEPT !.at = "released"]
      BY <1>3 DEF SweepRelease, pairVars
    <2>2. sweep'.at = "released" /\ sweep'.conn = sweep.conn /\ sweep'.uuid = sweep.uuid
      BY <1>0, <2>1 DEF ServerTypeOK
    <2>3. \A u \in Uuids : Dead(u) => Dead(u)'
      <3>1. PICK w \in Uuids : w = sweep.uuid
        BY <1>1
      <3>2. TicketsOnlyAge
        BY <1>0, <2>1, <3>1, ReleaseEffect
      <3> QED
        BY <3>2 DEF TicketsOnlyAge
    <2>4. Calm /\ TakenOut
      BY <1>0, <1>1, <2>1, <2>2, <2>3 DEF Calm, TakenOut, YoungOK
    <2>5. SettledOK' /\ OwnEntry' /\ YoungOK'
      BY <1>0, <2>4, CalmKeeps
    <2>6. NotDone'
      BY <1>0, <2>1, <2>4, NotDoneKept
    <2>7. SocketsOwned'
      <3>1. \A c \in Conns : Owned(c) => Owned(c)'
        BY <2>1, <2>2 DEF Owned
      <3> QED
        BY <1>0, <2>1, <3>1, SocketsKept
    <2> QED
      BY <1>0, <2>1, <2>5, <2>6, <2>7 DEF PromptInv
  <1>4. CASE SweepClose
    <2>1. /\ MoveAndDrop(None, "closed", Handed(sweep.conn))
          /\ UNCHANGED <<pending, other>>
          /\ sock' = [sock EXCEPT ![sweep.conn] = FALSE]
          /\ done' = [done EXCEPT ![sweep.conn] = TRUE]
          /\ panicked' = done[sweep.conn]
          /\ sweep' = Resting
      BY <1>4 DEF SweepClose
    <2>2. /\ UNCHANGED <<tickets, issued>>
          /\ \A d \in Conns :
               \/ /\ pc'[d] = pc[d] /\ req'[d] = req[d] /\ elapsed'[d] = elapsed[d]
               \/ d = sweep.conn /\ pc[d] = "handed" /\ pc'[d] = "idle"
      BY <2>1, NoneAssumption DEF MoveAndDrop, Handed, regVars
    <2>3. sweep'.at = "rest"
      BY <2>1 DEF Resting
    <2>4. \A d \in Conns : other[d] # None => pc[d] # "handed"
      BY <1>0 DEF ServerTypeOK, OwnerPC
    <2>5. Calm /\ TakenOut
      <3>1. /\ \A d \in Conns : other'[d] # None => req'[d] = req[d] /\ pc'[d] = pc[d]
            /\ \A d \in Conns : pc'[d] \in AtMap \cup ComingPC =>
                 pc'[d] = pc[d] /\ req'[d] = req[d] /\ elapsed'[d] = elapsed[d]
        BY <2>1, <2>2, <2>4 DEF AtMap, ComingPC
      <3> QED
        BY <1>0, <2>1, <2>2, <2>3, <3>1 DEF Calm, TakenOut, YoungOK, Dead, ComingPC
    <2>6. SettledOK' /\ OwnEntry' /\ YoungOK'
      BY <1>0, <2>5, CalmKeeps
    <2>7. ~done[sweep.conn] /\ \A d \in Conns : other[d] # sweep.conn
      BY <1>0, <1>1 DEF NotDone
    <2>8. NotDone'
      <3> SUFFICES ASSUME NEW c \in Conns, NEW d \in Conns, other'[d] = c,
                          pc'[d] \in {"loaded", "unmapped"}
          PROVE  ~done'[c]
        BY <2>3 DEF NotDone
      <3>1. other[d] = c /\ pc[d] \in {"loaded", "unmapped"} /\ c # sweep.conn
        BY <2>1, <2>2, <2>7
      <3> QED
        BY <1>0, <2>1, <3>1 DEF NotDone, ServerTypeOK
    <2>9. SocketsOwned'
      <3>1. ASSUME NEW c \in Conns, sock'[c]
            PROVE  /\ c # sweep.conn /\ sock[c] /\ done'[c] = done[c]
                   /\ pc'[c] = pc[c] /\ req'[c] = req[c]
        BY <1>0, <1>1, <2>1, <2>2, <3>1, ZenonT(60) DEF ServerTypeOK
      <3>2. \A c \in Conns : sock'[c] /\ Owned(c) => Owned(c)'
        BY <2>1, <3>1 DEF Owned
      <3> QED
        BY <1>0, <2>1, <3>1, <3>2, SocketsKept
    <2> QED
      BY <2>1, <2>6, <2>7, <2>8, <2>9 DEF PromptInv
  <1> QED
    BY <1>2, <1>3, <1>4

(* Two holders use up a ticket, and there is no third. *)
LEMMA TwoHolders ==
  ASSUME GateOK, HoldersCounted, NEW u \in Uuids,
         NEW a \in Holders(u), NEW b \in Holders(u), a # b
  PROVE  Dead(u) /\ Holders(u) = {a, b}
  <1>1. IsFiniteSet(Holders(u)) /\ Cardinality(Holders(u)) \in Nat
    BY HoldersTyped
  <1>2. IsFiniteSet({a, b}) /\ Cardinality({a, b}) = 2
    <2>1. IsFiniteSet({a}) /\ Cardinality({a}) = 1
      BY FS_Singleton
    <2>2. IsFiniteSet({a} \cup {b}) /\ Cardinality({a} \cup {b}) = 2
      BY <2>1, FS_AddElement
    <2>3. {a} \cup {b} = {a, b}
      OBVIOUS
    <2> QED
      BY <2>2, <2>3
  <1>3. {a, b} \in SUBSET Holders(u)
    OBVIOUS
  <1>4. /\ Cardinality({a, b}) <= Cardinality(Holders(u))
        /\ Cardinality({a, b}) = Cardinality(Holders(u)) => {a, b} = Holders(u)
    BY <1>1, <1>3, FS_Subset
  <1>5. Cardinality(Holders(u)) = 2 /\ Holders(u) = {a, b}
    BY <1>1, <1>2, <1>4 DEF HoldersCounted
  <1>6. ~Dead(u) => tickets[u].claims \in 0..1
    BY DEF Dead, GateOK, Ticket
  <1> QED
    BY <1>5, <1>6 DEF HoldersCounted

(* A handler beyond the gate that neither parks nor picks up is calm. *)
LEMMA PairCalm ==
  ASSUME ServerInv, ServerInv', PromptInv, NEW c \in Conns, PairFrame(c),
         \A u \in Uuids : pending'[u] \in {pending[u], None},
         \A u \in Uuids : Dead(u) => Dead(u)',
         other'[c] # None =>
           /\ other'[c] = other[c] /\ req'[c] = req[c]
           /\ pc'[c] = "loaded" => pc[c] = "loaded"
           /\ pc'[c] = "unmapped" => pc[c] \in {"loaded", "unmapped"},
         pc'[c] \in AtMap => pc[c] \in AtMap /\ req'[c] = req[c] /\ elapsed'[c] = elapsed[c],
         pc'[c] \notin ComingPC
  PROVE  Calm
  <1> DEFINE same(d) == pc'[d] = pc[d] /\ req'[d] = req[d] /\ elapsed'[d] = elapsed[d]
  <1>1. /\ \A d \in Conns : d # c => other'[d] = other[d] /\ (same(d) \/ pc'[d] = "idle")
        /\ UNCHANGED <<sweep, issued>>
    BY DEF PairFrame
  <1>2. \A d \in Conns : d # c /\ other'[d] # None => same(d)
    BY <1>1 DEF PairFrame, OwnerPC
  <1>3. \A d \in Conns : d # c /\ pc'[d] \in AtMap \cup ComingPC => same(d)
    BY <1>1 DEF AtMap, ComingPC
  <1>4. \A d \in Conns : other'[d] # None =>
          /\ other'[d] = other[d] /\ req'[d] = req[d]
          /\ pc'[d] = "loaded" => pc[d] = "loaded"
          /\ pc'[d] = "unmapped" => pc[d] \in {"loaded", "unmapped"}
    BY <1>1, <1>2
  <1>5. \A d \in Conns : pc'[d] = "claimed" => elapsed'[d] = 0
    BY <1>3 DEF PromptInv, YoungOK, ComingPC
  <1> QED
    BY <1>1, <1>3, <1>4, <1>5 DEF Calm

(* Pairing.  A connection that parks is the only one that can come for its *)
(* UUID; one that picks up another is the second and last.                 *)
LEMMA LoadOrStorePrompt ==
  ASSUME ServerInv, OnceInv, ServerInv', PromptInv, NEW c \in Conns, LoadOrStore(c)
  PROVE  PromptInv'
  <1>0. /\ ServerTypeOK /\ GateOK /\ SweepOK /\ PendingOK /\ SweepRefOK /\ FreshOK
        /\ ClaimsOK /\ IssuedOK /\ HoldersCounted
        /\ SettledOK /\ OwnEntry /\ YoungOK /\ NotDone /\ SocketsOwned /\ ~panicked
    BY DEF ServerInv, CountInv, ReferencesOK, OnceInv, PromptInv
  <1>1. /\ pc[c] = "claimed" /\ req[c] \in Uuids
        /\ UNCHANGED <<tickets, issued, req, elapsed, claimed, done, sock, sweep, panicked>>
        /\ \/ /\ pending[req[c]] = None
              /\ pending' = [pending EXCEPT ![req[c]] = c]
              /\ Goto(c, "parked") /\ UNCHANGED other
           \/ /\ pending[req[c]] # None
              /\ other' = [other EXCEPT ![c] = pending[req[c]]]
              /\ Goto(c, "loaded") /\ UNCHANGED pending
    BY <1>0, AskedTyped DEF LoadOrStore, Move, regVars, ComingPC
  <1>2. PICK u \in Uuids : u = req[c]
    BY <1>1
  <1>3. ~Settled(u) /\ ~done[c] /\ elapsed[c] = 0
    BY <1>0, <1>1, <1>2 DEF Settled, ComingPC, FreshOK, GatePC, YoungOK
  <1>4. /\ pc'[c] \in {"parked", "loaded"} /\ \A d \in Conns : d # c => pc'[d] = pc[d]
        /\ other[c] = None
    BY <1>0, <1>1 DEF Goto, ServerTypeOK, OwnerPC
  <1>5. \A v \in Uuids : Settled(v) => Settled(v)'
    BY <1>1, <1>4 DEF Settled, Dead, ComingPC
  <1>6. CASE /\ pending[u] = None /\ pending' = [pending EXCEPT ![u] = c]
             /\ pc'[c] = "parked" /\ UNCHANGED other
    <2>1. pending'[u] = c /\ \A v \in Uuids : v # u => pending'[v] = pending[v]
      BY <1>0, <1>6 DEF ServerTypeOK
    <2>2. \A d \in Conns : d # c /\ pc[d] \in AtMap \cup {"loaded"} =>
            req[d] \in Uuids /\ req[d] # u
      BY <1>0, <1>3, <1>6, AskedTyped, NoneAssumption DEF SettledOK
    <2>3. sweep.at # "rest" => sweep.uuid \in Uuids /\ sweep.uuid # u
      BY <1>0, <1>3 DEF SettledOK, SweepOK
    <2>4. SettledOK'
      <3>1. ASSUME NEW d \in Conns, pc'[d] = "loaded" PROVE Settled(req[d])'
        <4>1. PICK v \in Uuids : v = req[d] /\ v = req'[d] /\ Settled(v)
          BY <1>0, <1>1, <1>4, <1>6, <2>2, <3>1 DEF SettledOK
        <4> QED
          BY <1>5, <4>1 DEF Settled, Dead
      <3>2. ASSUME sweep'.at # "rest" PROVE Settled(sweep.uuid)'
        <4>1. PICK v \in Uuids : v = sweep.uuid /\ v = sweep'.uuid /\ Settled(v)
          BY <1>0, <1>1, <2>3, <3>2 DEF SettledOK
        <4> QED
          BY <1>5, <4>1 DEF Settled, Dead
      <3>3. ASSUME NEW d \in Conns, pc'[d] \in AtMap, pending'[req'[d]] # d
            PROVE  Settled(req[d])'
        <4>1. d # c
          BY <1>1, <1>2, <2>1, <3>3
        <4>2. PICK v \in Uuids : v = req[d] /\ v = req'[d] /\ Settled(v)
          BY <1>0, <1>1, <1>4, <2>1, <2>2, <3>3, <4>1 DEF SettledOK
        <4> QED
          BY <1>5, <4>2 DEF Settled, Dead
      <3> QED
        BY <3>1, <3>2, <3>3 DEF SettledOK
    <2>5. OwnEntry'
      <3>1. ASSUME NEW d \in Conns, pc'[d] = "loaded"
            PROVE  pending'[req'[d]] \in {other'[d], None}
        BY <1>0, <1>1, <1>4, <1>6, <2>1, <2>2, <3>1 DEF OwnEntry
      <3>2. ASSUME NEW d \in Conns, pc'[d] \in AtMap
            PROVE  pending'[req'[d]] \in {d, None}
        BY <1>0, <1>1, <1>2, <1>4, <2>1, <2>2, <3>2 DEF OwnEntry
      <3>3. sweep'.at = "visited" => pending'[sweep'.uuid] \in {sweep'.conn, None}
        BY <1>0, <1>1, <2>1, <2>3 DEF OwnEntry
      <3> QED
        BY <3>1, <3>2, <3>3 DEF OwnEntry
    <2>6. YoungOK'
      BY <1>0, <1>1, <1>3, <1>4, <1>6, TimeAssumption DEF YoungOK, AtMap, ComingPC
    <2>7. NotDone'
      BY <1>0, <1>1, <1>4, <1>6 DEF NotDone
    <2>8. SocketsOwned'
      <3> SUFFICES ASSUME NEW d \in Conns, sock'[d]
          PROVE  /\ done'[d] => Owned(d)'
                 /\ pc'[d] = "parked" /\ pending'[req'[d]] # d => Owned(d)'
                 /\ pc'[d] \in {"closed", "handed", "idle"} => Owned(d)'
        BY DEF SocketsOwned
      <3>1. Owned(d) => Owned(d)'
        BY <1>1, <1>6 DEF Owned
      <3>2. CASE d = c
        BY <1>1, <1>2, <1>3, <1>6, <2>1, <3>2
      <3>3. CASE d # c
        <4>1. pc'[d] = "parked" => pending'[req'[d]] = pending[req[d]]
          BY <1>1, <1>4, <2>1, <2>2, <3>3 DEF AtMap
        <4> QED
          BY <1>0, <1>1, <1>4, <3>1, <3>3, <4>1 DEF SocketsOwned
      <3> QED
        BY <3>2, <3>3
    <2> QED
      BY <1>0, <1>1, <2>4, <2>5, <2>6, <2>7, <2>8 DEF PromptInv
  <1>7. CASE /\ pending[u] # None /\ other' = [other EXCEPT ![c] = pending[u]]
             /\ pc'[c] = "loaded" /\ UNCHANGED pending
    <2>1. PICK x \in Conns : x = pending[u]
      BY <1>0, <1>7 DEF ServerTypeOK
    <2>2. /\ pc[x] \in AtMap /\ req[x] = u /\ ~done[x] /\ claimed[x] # 0
          /\ claimed[c] # 0 /\ x # c
      BY <1>0, <1>1, <2>1 DEF PendingOK, ClaimsOK, ClaimedPC, AtMap
    <2>3. other'[c] = x /\ \A d \in Conns : d # c => other'[d] = other[d]
      BY <1>0, <1>7, <2>1 DEF ServerTypeOK
    <2>4. Dead(u) /\ Holders(u) = {c, x}
      <3>1. c \in Holders(u) /\ x \in Holders(u)
        BY <1>2, <2>2 DEF Holders
      <3> QED
        BY <1>0, <2>2, <3>1, TwoHolders
    <2>5. Settled(u)'
      <3>1. \A d \in Conns : d # c /\ pc[d] \in ComingPC => req[d] # u
        <4> SUFFICES ASSUME NEW d \in Conns, d # c, pc[d] \in ComingPC, req[d] = u
            PROVE  FALSE
          OBVIOUS
        <4>1. d \in Holders(u) /\ d # x
          BY <1>0, <2>2 DEF Holders, ClaimsOK, ClaimedPC, ComingPC, AtMap
        <4> QED
          BY <2>4, <4>1
      <3>2. issued[u] > 0
        BY <1>0, <1>2, <2>2 DEF IssuedOK
      <3> QED
        BY <1>1, <1>4, <1>7, <2>4, <3>1, <3>2 DEF Settled, Dead, ComingPC
    <2>6. SettledOK'
      <3>1. ASSUME NEW d \in Conns, pc'[d] = "loaded" PROVE Settled(req[d])'
        <4>1. PICK v \in Uuids : v = req[d] /\ v = req'[d] /\ Settled(v)'
          <5>1. CASE d = c
            BY <1>1, <1>2, <2>5, <5>1
          <5>2. CASE d # c
            <6>1. req[d] \in Uuids /\ Settled(req[d])
              BY <1>0, <1>4, <3>1, <5>2, AskedTyped DEF SettledOK
            <6> QED
              BY <1>1, <1>5, <6>1
          <5> QED
            BY <5>1, <5>2
        <4> QED
          BY <4>1 DEF Settled, Dead
      <3>2. ASSUME sweep'.at # "rest" PROVE Settled(sweep.uuid)'
        <4>1. PICK v \in Uuids : v = sweep.uuid /\ v = sweep'.uuid /\ Settled(v)
          BY <1>0, <1>1, <3>2 DEF SettledOK, SweepOK
        <4> QED
          BY <1>5, <4>1 DEF Settled, Dead
      <3>3. ASSUME NEW d \in Conns, pc'[d] \in AtMap, pending'[req'[d]] # d
            PROVE  Settled(req[d])'
        <4>1. d # c /\ pc[d] \in AtMap
          BY <1>4, <1>7, <3>3 DEF AtMap
        <4>2. PICK v \in Uuids : v = req[d] /\ v = req'[d] /\ Settled(v)
          BY <1>0, <1>1, <1>7, <3>3, <4>1, AskedTyped DEF SettledOK
        <4> QED
          BY <1>5, <4>2 DEF Settled, Dead
      <3> QED
        BY <3>1, <3>2, <3>3 DEF SettledOK
    <2>7. OwnEntry'
      <3>1. \A d \in Conns : pc'[d] = "loaded" => pending'[req'[d]] \in {other'[d], None}
        BY <1>0, <1>1, <1>2, <1>4, <1>7, <2>1, <2>3 DEF OwnEntry
      <3>2. \A d \in Conns : pc'[d] \in AtMap => pending'[req'[d]] \in {d, None}
        BY <1>0, <1>1, <1>4, <1>7 DEF OwnEntry, AtMap
      <3> QED
        BY <1>0, <1>1, <1>7, <3>1, <3>2 DEF OwnEntry
    <2>8. YoungOK'
      BY <1>0, <1>1, <1>4, <1>7 DEF YoungOK, AtMap, ComingPC
    <2>9. NotDone'
      <3>1. ASSUME NEW d \in Conns, NEW e \in Conns, other'[e] = d,
                   pc'[e] \in {"loaded", "unmapped"}
            PROVE  ~done'[d]
        BY <1>0, <1>1, <1>4, <2>2, <2>3, <3>1 DEF NotDone
      <3>2. ASSUME sweep.at # "rest" PROVE x # sweep.conn
        <4>1. x = sweep.conn => sweep.uuid = u
          BY <1>0, <2>2, <3>2 DEF SweepRefOK, Lapsed
        <4> QED
          BY <1>0, <1>3, <3>2, <4>1 DEF SettledOK
      <3> QED
        BY <1>0, <1>1, <2>3, <3>1, <3>2 DEF NotDone
    <2>10. SocketsOwned'
      <3> SUFFICES ASSUME NEW d \in Conns, sock'[d]
          PROVE  /\ done'[d] => Owned(d)'
                 /\ pc'[d] = "parked" /\ pending'[req'[d]] # d => Owned(d)'
                 /\ pc'[d] \in {"closed", "handed", "idle"} => Owned(d)'
        BY DEF SocketsOwned
      <3>1. Owned(d) => Owned(d)'
        BY <1>1, <1>4, <2>3, NoneAssumption DEF Owned
      <3> QED
        BY <1>0, <1>1, <1>3, <1>4, <1>7, <3>1 DEF SocketsOwned
    <2> QED
      BY <1>0, <1>1, <2>6, <2>7, <2>8, <2>9, <2>10 DEF PromptInv
  <1> QED
    <2>1. pc' = [pc EXCEPT ![c] = "parked"] => pc'[c] = "parked"
      BY <1>0 DEF ServerTypeOK
    <2>2. pc' = [pc EXCEPT ![c] = "loaded"] => pc'[c] = "loaded"
      BY <1>0 DEF ServerTypeOK
    <2> QED
      BY <1>1, <1>2, <1>6, <1>7, <2>1, <2>2 DEF Goto

(* A handler that only moves on: it may close its own socket, and it is    *)
(* done only when somebody else has its socket.                            *)
LEMMA MovePrompt ==
  ASSUME ServerInv, OnceInv, ServerInv', PromptInv, NEW c \in Conns, PairFrame(c),
         UNCHANGED <<pending, done, panicked>>,
         \A u \in Uuids : Dead(u) => Dead(u)',
         other'[c] # None =>
           /\ other'[c] = other[c] /\ req'[c] = req[c]
           /\ pc'[c] \notin {"loaded", "unmapped"},
         pc'[c] \in AtMap => pc[c] \in AtMap /\ req'[c] = req[c] /\ elapsed'[c] = elapsed[c],
         pc'[c] \notin ComingPC \cup {"parked"},
         \A d \in Conns : sock'[d] => sock[d] /\ (Owned(d) => Owned(d)'),
         sock'[c] /\ pc'[c] \in {"closed", "handed", "idle"} =>
           pc[c] \in {"closed", "handed", "idle"} \/ Owned(c)'
  PROVE  PromptInv'
  <1>0. /\ ServerTypeOK /\ GateOK /\ NotDone /\ SocketsOwned /\ ~panicked
        /\ ServerTypeOK' /\ GateOK' /\ SweepOK'
    BY DEF ServerInv, CountInv, PromptInv
  <1>1. Calm
    BY PairCalm
  <1>2. TakenOut
    BY DEF TakenOut
  <1>3. SettledOK' /\ OwnEntry' /\ YoungOK'
    BY <1>0, <1>1, <1>2, CalmKeeps
  <1>4. NotDone'
    BY <1>0, <1>1, NotDoneKept
  <1>5. SocketsOwned'
    <2>1. \A d \in Conns : d # c =>
            \/ pc'[d] = pc[d] /\ req'[d] = req[d]
            \/ pc[d] = "handed" /\ pc'[d] = "idle"
      BY DEF PairFrame
    <2> QED
      BY <1>0, <2>1, SocketsKept
  <1> QED
    BY <1>0, <1>3, <1>4, <1>5 DEF PromptInv

(* A new connection: nobody knows it yet. *)
LEMMA AcceptPrompt ==
  ASSUME ServerInv, OnceInv, ServerInv', PromptInv, NEW c \in Conns, PairFrame(c), Accept(c)
  PROVE  PromptInv'
  <1>0. /\ ServerTypeOK /\ GateOK /\ NotDone /\ SocketsOwned /\ ~panicked
        /\ ServerTypeOK' /\ GateOK' /\ SweepOK'
    BY DEF ServerInv, CountInv, PromptInv
  <1>1. /\ pc[c] = "idle" /\ pc'[c] = "reading"
        /\ \A d \in Conns : d # c => pc'[d] = pc[d]
        /\ UNCHANGED <<tickets, req, pending, other, sweep, panicked>>
        /\ done' = [done EXCEPT ![c] = FALSE] /\ sock' = [sock EXCEPT ![c] = TRUE]
    BY <1>0 DEF Accept, Move, Goto, ServerTypeOK, regVars
  <1>2. Calm
    <2>1. other'[c] = None
      BY <1>0, <1>1 DEF ServerTypeOK, OwnerPC
    <2>2. \A u \in Uuids : pending'[u] \in {pending[u], None} /\ (Dead(u) => Dead(u)')
      BY <1>1 DEF Dead
    <2> QED
      BY <1>1, <2>1, <2>2, PairCalm DEF AtMap, ComingPC
  <1>3. TakenOut
    BY <1>1 DEF TakenOut
  <1>4. SettledOK' /\ OwnEntry' /\ YoungOK'
    BY <1>0, <1>2, <1>3, CalmKeeps
  <1>5. NotDone'
    <2>1. \A d \in Conns : done'[d] => done[d]
      BY <1>0, <1>1 DEF ServerTypeOK
    <2> QED
      BY <1>0, <1>2, <2>1, NotDoneKept
  <1>6. SocketsOwned'
    <2>1. \A d \in Conns : d # c => sock'[d] = sock[d] /\ done'[d] = done[d]
      BY <1>0, <1>1 DEF ServerTypeOK
    <2>2. \A d \in Conns : Owned(d) => Owned(d)'
      BY <1>1 DEF Owned
    <2>3. ~done'[c]
      BY <1>0, <1>1 DEF ServerTypeOK
    <2> QED
      BY <1>0, <1>1, <2>1, <2>2, <2>3 DEF SocketsOwned
  <1> QED
    BY <1>0, <1>1, <1>4, <1>5, <1>6 DEF PromptInv

(* The two deletions by UUID: each takes out the connection it means. *)
LEMMA DeletePrompt ==
  ASSUME ServerInv, OnceInv, ServerInv', PromptInv, NEW c \in Conns, PairFrame(c),
         TimeoutDelete(c) \/ DeleteEntry(c)
  PROVE  PromptInv'
  <1>0. /\ ServerTypeOK /\ GateOK /\ SettledOK /\ OwnEntry /\ NotDone /\ SocketsOwned
        /\ ~panicked /\ ServerTypeOK' /\ GateOK' /\ SweepOK'
    BY DEF ServerInv, CountInv, PromptInv
  <1>1. /\ UNCHANGED <<tickets, req, elapsed, done, sock, other, sweep, panicked>>
        /\ \/ pc[c] = "expired" /\ pc'[c] = "undone"
           \/ pc[c] = "loaded" /\ pc'[c] = "unmapped"
        /\ \A d \in Conns : d # c => pc'[d] = pc[d]
        /\ pending' = [pending EXCEPT ![req[c]] = None]
    BY <1>0 DEF TimeoutDelete, DeleteEntry, Move, Goto, ServerTypeOK, regVars
  <1>2. PICK u \in Uuids : u = req[c]
    BY <1>0, <1>1, AskedTyped DEF AtMap
  <1>3. pending'[u] = None /\ \A v \in Uuids : v # u => pending'[v] = pending[v]
    BY <1>0, <1>1, <1>2 DEF ServerTypeOK
  <1>4. /\ pc[c] = "expired" => pending[u] \in {c, None}
        /\ pc[c] = "loaded" => pending[u] \in {other[c], None} /\ Settled(u)
    BY <1>0, <1>2 DEF OwnEntry, SettledOK, AtMap
  <1>5. Calm
    <2>1. \A v \in Uuids : pending'[v] \in {pending[v], None} /\ (Dead(v) => Dead(v)')
      BY <1>1, <1>3 DEF Dead
    <2> QED
      BY <1>1, <2>1, PairCalm DEF AtMap, ComingPC
  <1>6. TakenOut
    <2> SUFFICES ASSUME NEW v \in Uuids, NEW d \in Conns, pending[v] = d,
                        pending'[v] # d, pc'[d] \in AtMap
        PROVE  Settled(v)
      BY DEF TakenOut
    <2>1. v = u
      BY <1>3
    <2>2. d # c
      BY <1>1 DEF AtMap
    <2> QED
      BY <1>1, <1>4, <2>1, <2>2, NoneAssumption
  <1>7. SettledOK' /\ OwnEntry' /\ YoungOK'
    BY <1>0, <1>5, <1>6, CalmKeeps
  <1>8. NotDone'
    BY <1>0, <1>1, <1>5, NotDoneKept
  <1>9. SocketsOwned'
    <2> SUFFICES ASSUME NEW d \in Conns, sock'[d]
        PROVE  /\ Owned(d) => Owned(d)'
               /\ pc'[d] = "parked" /\ pending'[req'[d]] # d =>
                    (pc[d] = "parked" /\ pending[req[d]] # d) \/ Owned(d)'
               /\ pc'[d] \in {"closed", "handed", "idle"} => pc'[d] = pc[d]
      BY <1>0, <1>1, SocketsKept
    <2>1. Owned(d) => Owned(d)'
      BY <1>1 DEF Owned
    <2>2. ASSUME pc'[d] = "parked", pending[req[d]] = d, pending'[req[d]] # d
          PROVE  Owned(d)'
      <3>1. d # c /\ pc[d] = "parked" /\ req[d] \in Uuids
        BY <1>0, <1>1, <2>2, AskedTyped DEF AtMap
      <3>2. req[d] = u
        BY <1>3, <2>2, <3>1
      <3>3. other[c] = d
        BY <1>1, <1>4, <2>2, <3>1, <3>2, NoneAssumption
      <3> QED
        BY <1>1, <3>3 DEF Owned
    <2>3. pc'[d] \in {"parked", "closed", "handed", "idle"} => pc'[d] = pc[d]
      BY <1>1
    <2> QED
      BY <1>1, <2>1, <2>2, <2>3
  <1> QED
    BY <1>0, <1>1, <1>7, <1>8, <1>9 DEF PromptInv

(* Closing the done channel of the connection that was picked up: it was   *)
(* open, and nobody else is about to close it.                             *)
LEMMA CloseDonePrompt ==
  ASSUME ServerInv, OnceInv, ServerInv', PromptInv, NEW c \in Conns, PairFrame(c),
         CloseDone(c)
  PROVE  PromptInv'
  <1>0. /\ ServerTypeOK /\ GateOK /\ PickedOnce /\ NotDone /\ SocketsOwned
        /\ ServerTypeOK' /\ GateOK' /\ SweepOK' /\ SweepOK
    BY DEF ServerInv, CountInv, OnceInv, PromptInv
  <1>1. /\ UNCHANGED <<tickets, req, elapsed, pending, sock, other, sweep>>
        /\ pc[c] = "unmapped" /\ pc'[c] = "slot1"
        /\ \A d \in Conns : d # c => pc'[d] = pc[d]
        /\ panicked' = done[other[c]] /\ done' = [done EXCEPT ![other[c]] = TRUE]
    BY <1>0 DEF CloseDone, Move, Goto, ServerTypeOK, regVars
  <1>2. PICK x \in Conns : x = other[c]
    BY <1>0, <1>1 DEF ServerTypeOK, OwnerPC
  <1>3. ~done[x] /\ \A d \in Conns : d # x => done'[d] = done[d]
    BY <1>0, <1>1, <1>2 DEF NotDone, ServerTypeOK
  <1>4. Calm
    <2>1. \A v \in Uuids : pending'[v] \in {pending[v], None} /\ (Dead(v) => Dead(v)')
      BY <1>1 DEF Dead
    <2> QED
      BY <1>1, <2>1, PairCalm DEF AtMap, ComingPC
  <1>5. TakenOut
    BY <1>1 DEF TakenOut
  <1>6. SettledOK' /\ OwnEntry' /\ YoungOK'
    BY <1>0, <1>4, <1>5, CalmKeeps
  <1>7. NotDone'
    <2>1. ASSUME NEW e \in Conns, NEW d \in Conns, other'[d] = e,
                 pc'[d] \in {"loaded", "unmapped"}
          PROVE  ~done'[e]
      <3>1. d # c /\ other[d] = e /\ pc[d] \in {"loaded", "unmapped"}
        BY <1>1, <2>1
      <3>2. e # x
        BY <1>0, <1>2, <3>1, NoneAssumption DEF PickedOnce
      <3> QED
        BY <1>0, <1>3, <3>1, <3>2 DEF NotDone
    <2>2. sweep.at # "rest" => sweep.conn # x /\ sweep.conn \in Conns
      BY <1>0, <1>2 DEF NotDone, SweepOK
    <2> QED
      BY <1>0, <1>1, <1>3, <2>1, <2>2 DEF NotDone
  <1>8. SocketsOwned'
    <2>1. \A d \in Conns : Owned(d) => Owned(d)'
      BY <1>1 DEF Owned
    <2>2. Owned(x)'
      BY <1>1, <1>2 DEF Owned
    <2> QED
      BY <1>0, <1>1, <1>3, <2>1, <2>2, SocketsKept
  <1> QED
    BY <1>1, <1>2, <1>3, <1>6, <1>7, <1>8 DEF PromptInv

(* A handler beyond the gate: one case per action. *)
LEMMA PairPrompt ==
  ASSUME ServerInv, OnceInv, ServerInv', PromptInv, NEW c \in Conns, PairStep(c)
  PROVE  PromptInv'
  <1>0. /\ ServerTypeOK /\ GateOK /\ SocketsOwned /\ ServerTypeOK'
    BY DEF ServerInv, CountInv, PromptInv
  <1>1. PairFrame(c)
    BY <1>0, PairKept
  <1> USE DEF AtMap, ComingPC, OwnerPC
  <1>2. ASSUME UNCHANGED <<other, sweep>>, NEW d \in Conns, Owned(d) PROVE Owned(d)'
    BY <1>2 DEF Owned
  <1>3. CASE Accept(c)
    BY <1>1, <1>3, AcceptPrompt
  <1>4. CASE LoadOrStore(c)
    BY <1>4, LoadOrStorePrompt
  <1>5. CASE TimeoutDelete(c) \/ DeleteEntry(c)
    BY <1>1, <1>5, DeletePrompt
  <1>6. CASE CloseDone(c)
    BY <1>1, <1>6, CloseDonePrompt
  <1>7. CASE CloseRejected(c)
    <2>1. /\ pc[c] = "rejected" /\ pc'[c] = "closed" /\ ~sock'[c]
          /\ \A d \in Conns : sock'[d] => sock[d]
          /\ UNCHANGED <<pending, done, other, sweep, panicked, tickets, req>>
      BY <1>0, <1>7 DEF CloseRejected, Move, Goto, ServerTypeOK, regVars
    <2>2. \A u \in Uuids : Dead(u) => Dead(u)'
      BY <2>1 DEF Dead
    <2> QED
      BY <1>1, <1>2, <2>1, <2>2, MovePrompt
  <1>8. CASE Return(c)
    <2>1. /\ pc[c] = "closed" /\ pc'[c] \in {"handed", "idle"}
          /\ UNCHANGED <<pending, done, sock, other, sweep, panicked, tickets>>
          /\ other'[c] = None
      BY <1>0, <1>8 DEF Return, MoveAndDrop, pairVars, regVars, ServerTypeOK
    <2>2. \A u \in Uuids : Dead(u) => Dead(u)'
      BY <2>1 DEF Dead
    <2> QED
      BY <1>1, <1>2, <2>1, <2>2, MovePrompt
  <1>9. CASE Paired(c) \/ TimedOut(c)
    <2>1. /\ pc[c] = "parked" /\ pc'[c] \in {"closed", "expired"}
          /\ pc'[c] = "closed" => done[c] \/ pending[req[c]] # c
          /\ UNCHANGED <<pending, done, sock, other, sweep, panicked, tickets, req, elapsed>>
          /\ other'[c] = None
      BY <1>0, <1>9 DEF Paired, TimedOut, Move, Goto, regVars, ServerTypeOK
    <2>2. \A u \in Uuids : Dead(u) => Dead(u)'
      BY <2>1 DEF Dead
    <2>3. sock'[c] /\ pc'[c] = "closed" => Owned(c)'
      BY <1>0, <1>2, <2>1 DEF SocketsOwned
    <2> QED
      BY <1>1, <1>2, <2>1, <2>2, <2>3, MovePrompt
  <1>10. CASE TimeoutRelease(c)
    <2>1. /\ pc[c] = "undone" /\ pc'[c] = "closed" /\ ~sock'[c] /\ Release(req[c])
          /\ \A d \in Conns : sock'[d] => sock[d]
          /\ UNCHANGED <<pending, done, other, sweep, panicked, req>>
          /\ other'[c] = None
      BY <1>0, <1>10 DEF TimeoutRelease, Goto, ServerTypeOK
    <2>2. \A u \in Uuids : Dead(u) => Dead(u)'
      <3>1. req[c] \in Uuids
        BY <1>0, <2>1 DEF GateOK, AskedPC, ServerPC
      <3>2. PICK w \in Uuids : w = req[c]
        BY <3>1
      <3>3. TicketsOnlyAge
        BY <1>0, <2>1, <3>2, ReleaseEffect
      <3> QED
        BY <3>3 DEF TicketsOnlyAge
    <2> QED
      BY <1>1, <1>2, <2>1, <2>2, MovePrompt
  <1>11. CASE StartSession(c) \/ EndSession(c)
    <2>1. /\ pc[c] \in {"starting", "copying"} /\ pc'[c] \in {"copying", "freeing"}
          /\ UNCHANGED <<pending, done, other, sweep, panicked, tickets, req>>
          /\ \A d \in Conns : sock'[d] => sock[d]
      BY <1>0, <1>11, NoneAssumption
         DEF StartSession, EndSession, Move, Goto, pairVars, regVars, ServerTypeOK
    <2>2. \A u \in Uuids : Dead(u) => Dead(u)'
      BY <2>1 DEF Dead
    <2> QED
      BY <1>1, <1>2, <2>1, <2>2, MovePrompt
  <1>12. CASE AcquireFirst(c) \/ AcquireSecond(c) \/ FreeSession(c)
    <2>1. /\ pc[c] \in {"slot1", "slot2", "freeing"}
          /\ UNCHANGED <<pending, done, sweep, panicked>>
          /\ \/ CloseBoth(c, "closed")
             \/ (Move(c, "slot2") \/ Move(c, "starting")) /\ UNCHANGED <<sock, other>>
      BY <1>12 DEF AcquireFirst, AcquireSecond, AcquireSession, FreeSession
    <2>2. CASE CloseBoth(c, "closed")
      <3>1. /\ pc'[c] = "closed" /\ other'[c] = None /\ other[c] \in Conns
            /\ \A d \in Conns : d # c => other'[d] = other[d]
            /\ UNCHANGED tickets
        BY <1>0, <2>1, <2>2, CloseFacts DEF regVars
      <3>2. /\ ~sock'[c] /\ ~sock'[other[c]]
            /\ \A d \in Conns : sock'[d] => sock[d]
        BY <1>0, <2>2, <3>1 DEF CloseBoth, ServerTypeOK
      <3>3. \A u \in Uuids : Dead(u) => Dead(u)'
        BY <3>1 DEF Dead
      <3>4. ASSUME NEW d \in Conns, sock'[d], Owned(d) PROVE Owned(d)'
        <4>1. d # other[c]
          BY <3>2, <3>4
        <4> QED
          BY <2>1, <3>1, <3>4, <4>1 DEF Owned
      <3> QED
        BY <1>1, <2>1, <3>1, <3>2, <3>3, <3>4, MovePrompt
    <2>3. CASE (Move(c, "slot2") \/ Move(c, "starting")) /\ UNCHANGED <<sock, other>>
      <3>1. pc'[c] \in {"slot2", "starting"} /\ UNCHANGED <<tickets, req>>
        BY <1>0, <2>3 DEF Move, Goto, ServerTypeOK, regVars
      <3>2. \A u \in Uuids : Dead(u) => Dead(u)'
        BY <3>1 DEF Dead
      <3> QED
        BY <1>1, <1>2, <2>1, <2>3, <3>1, <3>2, MovePrompt
    <2> QED
      BY <2>1, <2>2, <2>3
  <1> QED
    BY <1>3, <1>4, <1>5, <1>6, <1>7, <1>8, <1>9, <1>10, <1>11, <1>12 DEF PairStep

(* At the start no connection is there. *)
LEMMA PromptInit == ServerInit => PromptInv
  <1> SUFFICES ASSUME ServerInit PROVE PromptInv
    OBVIOUS
  <1>1. /\ pc = [c \in Conns |-> "idle"] /\ sock = [c \in Conns |-> FALSE]
        /\ sweep.at = "rest" /\ panicked = FALSE /\ other = [c \in Conns |-> None]
    BY DEF ServerInit, InitAt, Resting
  <1>2. SettledOK /\ OwnEntry
    BY <1>1 DEF SettledOK, OwnEntry, AtMap
  <1>3. YoungOK /\ NotDone /\ SocketsOwned
    BY <1>1, NoneAssumption DEF YoungOK, NotDone, SocketsOwned, AtMap
  <1> QED
    BY <1>1, <1>2, <1>3 DEF PromptInv

(* The fourth invariant is inductive when a UUID is issued once and no     *)
(* goroutine that can run is left waiting a tick.                          *)
LEMMA PromptStep ==
  ASSUME MaxTickets = 1, Prompt = TRUE, ServerInv, OnceInv, PromptInv,
         [ServerNext]_allVars
  PROVE  PromptInv'
  <1>1. ServerInv' /\ OnceInv'
    BY ServerInvStep, OnceStep
  <1>2. CASE UNCHANGED allVars
    <2>1. /\ UNCHANGED <<tickets, issued, pc, req, elapsed>>
          /\ UNCHANGED <<pending, done, sock, other, sweep, panicked>>
      BY <1>2 DEF allVars, vars, regVars, connVars, srvVars, pairVars
    <2> QED
      BY <2>1 DEF PromptInv, SettledOK, Settled, Dead, OwnEntry, YoungOK, NotDone,
                  SocketsOwned, Owned
  <1>3. CASE GateStep
    BY <1>1, <1>3, GatePrompt
  <1>4. CASE \E c \in Conns : PairStep(c)
    BY <1>1, <1>4, PairPrompt
  <1>5. CASE \E u \in Uuids : SweepVisit(u)
    BY <1>1, <1>5, VisitPrompt
  <1>6. CASE SweepDelete \/ SweepRelease \/ SweepClose
    BY <1>1, <1>6, SweepPrompt
  <1>7. CASE ServerTick
    BY <1>7, TickPrompt
  <1> QED
    BY <1>2, <1>3, <1>4, <1>5, <1>6, <1>7, StepCases

(* The fourth invariant holds always under the same conditions. *)
LEMMA PromptAlways ==
  ASSUME MaxTickets = 1, Prompt = TRUE
  PROVE  ServerSpec => [](ServerInv /\ PromptInv)
  <1>1. ServerInv /\ OnceInv /\ PromptInv /\ [ServerNext]_allVars =>
          ServerInv' /\ OnceInv' /\ PromptInv'
    BY OnceStep, ServerInvStep, PromptStep
  <1> QED
    BY <1>1, OnceInit, ServerInvInit, PromptInit, PTL DEF ServerSpec

(* "done chan struct{} // closed when paired or timed out" (server.go):    *)
(* the handler that pairs a connection and the sweep both close its done   *)
(* channel without looking.  While signal authorizes a UUID once and no    *)
(* runnable goroutine is left waiting as long as a tick, they never close  *)
(* the same one: a connection old enough to be swept has outlived every    *)
(* claim that could pair it.  Without promptness the property fails (the   *)
(* run pairing_double_close).                                              *)
THEOREM DoneClosedOnce ==
  ASSUME MaxTickets = 1, Prompt = TRUE
  PROVE  ServerSpec => []NoDoubleClose
  <1>1. PromptInv => NoDoubleClose
    BY DEF PromptInv, NoDoubleClose
  <1> QED
    BY <1>1, PromptAlways, PTL

(* A handler that returns leaves an open socket only to the session that   *)
(* picked it up or to the sweep that is about to close it: neither the     *)
(* deletions by UUID of pairIncomingConn nor the LoadAndDelete of the      *)
(* sweep take out a connection that nobody closes then.                    *)
THEOREM SocketsNotStranded ==
  ASSUME MaxTickets = 1, Prompt = TRUE
  PROVE  ServerSpec => []NoStrandedSocket
  <1>1. ServerInv /\ PromptInv => NoStrandedSocket
    <2> SUFFICES ASSUME ServerInv, PromptInv, NEW c \in Conns, sock[c], ~Running(c)
        PROVE  \/ \E d \in Conns : other[d] = c
               \/ sweep.conn = c /\ sweep.at # "visited"
      BY DEF NoStrandedSocket
    <2>1. Owned(c)
      BY DEF PromptInv, SocketsOwned, Running
    <2> QED
      BY <2>1 DEF Owned
  <1> QED
    BY <1>1, PromptAlways, PTL

=============================================================================
