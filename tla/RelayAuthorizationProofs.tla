---------------------- MODULE RelayAuthorizationProofs ----------------------
(***************************************************************************)
(* Proofs about RelayAuthorization, for every set of connections, UUIDs,   *)
(* addresses and peers and every timeout and capacity.                     *)
(***************************************************************************)
EXTENDS RelayAuthorization, FiniteSetTheorems, TLAPS

(* The inductive invariant of the registry and the gate. *)
RegistryInv ==
  /\ TypeOK
  /\ TicketXorTombstone
  /\ WindowCovered
  /\ RegisteredWaitersTold

(* Pruning keeps the maps well typed, and drops only what has run out. *)
LEMMA PruneFacts ==
  ASSUME TypeOK
  PROVE  /\ PrunedTickets \in [Uuids -> Ticket \cup {None}]
         /\ PrunedUsed \in [Uuids -> 0..PairTimeout \cup {None}]
         /\ \A u \in Uuids :
              /\ PrunedTickets[u] # None =>
                   PrunedTickets[u] = tickets[u] /\ tickets[u].ttl > 0
              /\ PrunedUsed[u] # None => PrunedUsed[u] = used[u]
              /\ PrunedTickets[u] = None =>
                   tickets[u] = None \/ tickets[u].ttl = 0
              /\ PrunedUsed[u] = None => used[u] = None \/ used[u] = 0
  BY NoneAssumption, TimeAssumption
     DEF TypeOK, PrunedTickets, PrunedUsed, Ticket

(* A pruned map still satisfies what the window and exclusion ask. *)
LEMMA PruneKeeps ==
  ASSUME RegistryInv
  PROVE  \A u \in Uuids :
           /\ PrunedTickets[u] = None \/ PrunedUsed[u] = None
           /\ PrunedTickets[u] # None =>
                /\ PrunedTickets[u] \in Ticket
                /\ PrunedTickets[u].ttl + age[u] = PairTimeout
           /\ PrunedUsed[u] # None => PrunedUsed[u] + age[u] = PairTimeout
           /\ PrunedTickets[u] = None /\ PrunedUsed[u] = None =>
                age[u] = PairTimeout
           /\ PrunedTickets[u] # None => waiters[u] = {}
  <1> SUFFICES ASSUME NEW u \in Uuids
      PROVE  /\ PrunedTickets[u] = None \/ PrunedUsed[u] = None
             /\ PrunedTickets[u] # None =>
                  /\ PrunedTickets[u] \in Ticket
                  /\ PrunedTickets[u].ttl + age[u] = PairTimeout
             /\ PrunedUsed[u] # None => PrunedUsed[u] + age[u] = PairTimeout
             /\ PrunedTickets[u] = None /\ PrunedUsed[u] = None =>
                  age[u] = PairTimeout
             /\ PrunedTickets[u] # None => waiters[u] = {}
    OBVIOUS
  <1>1. /\ tickets[u] \in Ticket \cup {None}
        /\ used[u] \in 0..PairTimeout \cup {None}
        /\ age[u] \in 0..PairTimeout
    BY DEF RegistryInv, TypeOK
  <1>2. QED
    BY <1>1, PruneFacts, NoneAssumption, TimeAssumption
       DEF RegistryInv, TicketXorTombstone, WindowCovered,
           RegisteredWaitersTold, Ticket
-----------------------------------------------------------------------------
(* The initial state has no tickets, no tombstones and no waiters. *)
LEMMA RegistryInit == Init => RegistryInv
  <1> SUFFICES ASSUME Init PROVE RegistryInv
    OBVIOUS
  <1>1. TypeOK
    <2>1. /\ tickets \in [Uuids -> Ticket \cup {None}]
          /\ used \in [Uuids -> 0..PairTimeout \cup {None}]
          /\ waiters \in [Uuids -> SUBSET Conns]
          /\ issued \in [Uuids -> 0..MaxTickets]
          /\ age \in [Uuids -> 0..PairTimeout]
      BY TimeAssumption, CapAssumption DEF Init, InitAt
    <2>2. /\ pc \in [Conns -> GatePC]
          /\ req \in [Conns -> Uuids \cup {None}]
          /\ \A c \in Conns : pc[c] \notin {"reading", "rejected"} =>
                                req[c] # None
      BY DEF Init, InitAt, GatePC
    <2>3. /\ elapsed \in [Conns -> 0..(PairTimeout + 1)]
          /\ claimed \in [Conns -> 0..MaxTickets]
          /\ waitTotal \in Int
          /\ waitByIP \in [Ips -> Nat]
      BY TimeAssumption, CapAssumption DEF Init, InitAt
    <2>4. stopping \in BOOLEAN
      BY DEF Init, InitAt
    <2>5. QED
      BY <2>1, <2>2, <2>3, <2>4 DEF TypeOK
  <1>2. TicketXorTombstone /\ WindowCovered
    BY DEF Init, InitAt, TicketXorTombstone, WindowCovered
  <1>3. RegisteredWaitersTold
    BY DEF Init, InitAt, RegisteredWaitersTold
  <1>4. QED
    BY <1>1, <1>2, <1>3 DEF RegistryInv

(* Authorize issues a ticket only where neither map has an entry, and      *)
(* tells whoever is on the registered channel.                             *)
LEMMA AuthorizeKeeps ==
  ASSUME RegistryInv, NEW u \in Uuids, NEW pair \in Pairs, Authorize(u, pair)
  PROVE  RegistryInv'
  <1>1. CASE PrunedUsed[u] # None \/ PrunedTickets[u] # None
    <2>1. /\ tickets' = PrunedTickets /\ used' = PrunedUsed
          /\ UNCHANGED <<waiters, issued, age, pc, req, elapsed, claimed,
                         waitTotal, waitByIP, stopping>>
      BY <1>1 DEF Authorize, capVars
    <2>2. TypeOK'
      BY <2>1, PruneFacts DEF RegistryInv, TypeOK
    <2>3. TicketXorTombstone' /\ WindowCovered' /\ RegisteredWaitersTold'
      BY <2>1, PruneKeeps DEF TicketXorTombstone, WindowCovered,
         RegisteredWaitersTold, RegistryInv
    <2>4. QED
      BY <2>2, <2>3 DEF RegistryInv
  <1>2. CASE PrunedUsed[u] = None /\ PrunedTickets[u] = None
    <2> DEFINE t == [initiator |-> pair[1], target |-> pair[2],
                     ttl |-> PairTimeout, claims |-> 0,
                     serial |-> issued[u] + 1]
    <2>1. /\ tickets' = [PrunedTickets EXCEPT ![u] = t]
          /\ used' = PrunedUsed
          /\ issued[u] < MaxTickets
          /\ issued' = [issued EXCEPT ![u] = @ + 1]
          /\ age' = [age EXCEPT ![u] = 0]
          /\ waiters' = [v \in Uuids |-> IF v = u THEN {} ELSE waiters[v]]
          /\ pc' = [c \in Conns |-> IF c \in waiters[u] THEN "woken"
                                    ELSE pc[c]]
          /\ UNCHANGED <<req, elapsed, claimed, waitTotal, waitByIP, stopping>>
      BY <1>2 DEF Authorize, SignalWaiters, capVars
    <2>2. t \in Ticket
      BY <2>1, PairAssumption, TimeAssumption, CapAssumption
         DEF RegistryInv, TypeOK, Ticket
    <2>3. TypeOK'
      <3>1. tickets' \in [Uuids -> Ticket \cup {None}]
        BY <2>1, <2>2, PruneFacts DEF RegistryInv
      <3>2. used' \in [Uuids -> 0..PairTimeout \cup {None}]
        BY <2>1, PruneFacts DEF RegistryInv
      <3>3. issued' \in [Uuids -> 0..MaxTickets] /\ age' \in [Uuids -> 0..PairTimeout]
        BY <2>1, CapAssumption, TimeAssumption DEF RegistryInv, TypeOK
      <3>4. /\ pc' \in [Conns -> GatePC]
            /\ \A c \in Conns : pc'[c] \notin {"reading", "rejected"} =>
                                  req'[c] # None
        BY <2>1, NoneAssumption
           DEF RegistryInv, TypeOK, GatePC, RegisteredWaitersTold
      <3>5. waiters' \in [Uuids -> SUBSET Conns]
        BY <2>1 DEF RegistryInv, TypeOK
      <3>6. QED
        BY <2>1, <3>1, <3>2, <3>3, <3>4, <3>5 DEF RegistryInv, TypeOK
    <2>4. TicketXorTombstone'
      BY <1>2, <2>1, PruneKeeps, PruneFacts DEF TicketXorTombstone, RegistryInv
    <2>5. WindowCovered'
      <3> SUFFICES ASSUME NEW v \in Uuids
          PROVE  /\ tickets'[v] # None => tickets'[v].ttl + age'[v] = PairTimeout
                 /\ used'[v] # None => used'[v] + age'[v] = PairTimeout
                 /\ tickets'[v] = None /\ used'[v] = None =>
                      age'[v] = PairTimeout
        BY DEF WindowCovered
      <3>1. CASE v = u
        BY <3>1, <1>2, <2>1, <2>2, PruneFacts, NoneAssumption, TimeAssumption
           DEF RegistryInv, TypeOK
      <3>2. CASE v # u
        BY <3>2, <2>1, PruneKeeps, PruneFacts DEF RegistryInv, TypeOK
      <3>3. QED
        BY <3>1, <3>2
    <2>6. RegisteredWaitersTold'
      <3> SUFFICES ASSUME NEW v \in Uuids
          PROVE  /\ \A c \in waiters'[v] : pc'[c] = "blocked" /\ req'[c] = v
                 /\ tickets'[v] # None => waiters'[v] = {}
        BY DEF RegisteredWaitersTold
      <3>1. CASE v = u
        BY <3>1, <2>1
      <3>2. CASE v # u
        <4>1. waiters'[v] = waiters[v] /\ waiters[v] \subseteq Conns
          BY <3>2, <2>1 DEF RegistryInv, TypeOK
        <4>2. \A c \in waiters[v] : pc[c] = "blocked" /\ req[c] = v
                                    /\ c \notin waiters[u]
          BY <3>2 DEF RegistryInv, RegisteredWaitersTold
        <4>3. tickets'[v] = PrunedTickets[v]
          BY <3>2, <2>1, PruneFacts DEF RegistryInv
        <4>4. QED
          BY <4>1, <4>2, <4>3, <2>1, PruneKeeps
      <3>3. QED
        BY <3>1, <3>2
    <2>7. QED
      BY <2>3, <2>4, <2>5, <2>6 DEF RegistryInv
  <1>3. QED
    BY <1>1, <1>2

(* RevokeForPeer turns tickets into tombstones of the same expiry. *)
LEMMA RevokeKeeps ==
  ASSUME RegistryInv, NEW p \in Peers, RevokeForPeer(p)
  PROVE  RegistryInv'
  <1> DEFINE gone == {u \in Uuids : Involves(PrunedTickets[u], p)}
  <1>1. /\ tickets' = [u \in Uuids |-> IF u \in gone THEN None
                                       ELSE PrunedTickets[u]]
        /\ used' = [u \in Uuids |-> IF u \in gone THEN PrunedTickets[u].ttl
                                    ELSE PrunedUsed[u]]
        /\ waiters' = [u \in Uuids |-> IF u \in gone THEN {} ELSE waiters[u]]
        /\ pc' = [c \in Conns |-> IF \E u \in gone : c \in waiters[u]
                                    THEN "woken" ELSE pc[c]]
        /\ UNCHANGED <<issued, age, req, elapsed, claimed, waitTotal,
                       waitByIP, stopping>>
    BY DEF RevokeForPeer, SignalWaiters, capVars
  <1>2. \A u \in gone : PrunedTickets[u] # None
    BY DEF Involves
  <1>3. \A u \in gone : waiters[u] = {}
    BY <1>2, PruneKeeps
  <1>4. pc' = pc
    BY <1>1, <1>3 DEF RegistryInv, TypeOK
  <1>5. TypeOK'
    <2>1. tickets' \in [Uuids -> Ticket \cup {None}]
      BY <1>1, PruneFacts DEF RegistryInv
    <2>2. used' \in [Uuids -> 0..PairTimeout \cup {None}]
      BY <1>1, <1>2, PruneKeeps, PruneFacts DEF RegistryInv, Ticket
    <2>3. QED
      BY <1>1, <1>4, <2>1, <2>2 DEF RegistryInv, TypeOK
  <1>6. TicketXorTombstone'
    BY <1>1, PruneKeeps DEF TicketXorTombstone
  <1>7. WindowCovered'
    <2> SUFFICES ASSUME NEW v \in Uuids
        PROVE  /\ tickets'[v] # None => tickets'[v].ttl + age'[v] = PairTimeout
               /\ used'[v] # None => used'[v] + age'[v] = PairTimeout
               /\ tickets'[v] = None /\ used'[v] = None =>
                    age'[v] = PairTimeout
      BY DEF WindowCovered
    <2>1. CASE v \in gone
      BY <2>1, <1>1, <1>2, PruneKeeps, NoneAssumption DEF Ticket
    <2>2. CASE v \notin gone
      BY <2>2, <1>1, PruneKeeps
    <2>3. QED
      BY <2>1, <2>2
  <1>8. RegisteredWaitersTold'
    BY <1>1, <1>4, PruneKeeps DEF RegisteredWaitersTold, RegistryInv
  <1>9. QED
    BY <1>5, <1>6, <1>7, <1>8 DEF RegistryInv
-----------------------------------------------------------------------------
(* What the gate's calls into the registry must keep of the two maps. *)
MapsInv ==
  /\ tickets \in [Uuids -> Ticket \cup {None}]
  /\ used \in [Uuids -> 0..PairTimeout \cup {None}]
  /\ TicketXorTombstone
  /\ WindowCovered

(* Only Authorize adds tickets. *)
NoNewTicket == \A u \in Uuids : tickets[u] = None => tickets'[u] = None

(* An operation that only prunes. *)
LEMMA PruneOnlyMaps ==
  ASSUME RegistryInv, PruneOnly, UNCHANGED age
  PROVE  MapsInv' /\ NoNewTicket
  <1>1. tickets' = PrunedTickets /\ used' = PrunedUsed /\ age' = age
    BY DEF PruneOnly
  <1>2. NoNewTicket
    BY <1>1, PruneFacts DEF NoNewTicket, RegistryInv
  <1>3. TicketXorTombstone' /\ WindowCovered'
    BY <1>1, PruneKeeps DEF TicketXorTombstone, WindowCovered
  <1>4. QED
    BY <1>1, <1>2, <1>3, PruneFacts DEF MapsInv, RegistryInv

(* The first claim marks the ticket; the second turns it into a tombstone  *)
(* with the same time left.                                                *)
LEMMA ClaimMaps ==
  ASSUME RegistryInv, NEW u \in Uuids, CanClaim(u), Claim(u), UNCHANGED age
  PROVE  MapsInv' /\ NoNewTicket
  <1> DEFINE t == PrunedTickets[u]
  <1>1. /\ t \in Ticket /\ t # None /\ PrunedUsed[u] = None
        /\ t.ttl + age[u] = PairTimeout /\ tickets[u] # None
    BY PruneKeeps, PruneFacts DEF CanClaim, RegistryInv
  <1>2. CASE t.claims + 1 = 2
    <2>1. /\ tickets' = [PrunedTickets EXCEPT ![u] = None]
          /\ used' = [PrunedUsed EXCEPT ![u] = t.ttl]
      BY <1>2 DEF Claim
    <2>2. /\ tickets' \in [Uuids -> Ticket \cup {None}]
          /\ used' \in [Uuids -> 0..PairTimeout \cup {None}]
      BY <2>1, <1>1, PruneFacts DEF RegistryInv, Ticket
    <2>3. \A v \in Uuids : IF v = u
            THEN tickets'[v] = None /\ used'[v] = t.ttl
            ELSE tickets'[v] = PrunedTickets[v] /\ used'[v] = PrunedUsed[v]
      BY <2>1, PruneFacts DEF RegistryInv
    <2>4. NoNewTicket
      BY <2>3, PruneFacts DEF NoNewTicket, RegistryInv
    <2>5. TicketXorTombstone'
      BY <2>3, PruneKeeps DEF TicketXorTombstone
    <2>6. WindowCovered'
      BY <2>3, <1>1, PruneKeeps, NoneAssumption DEF WindowCovered, Ticket
    <2>7. QED
      BY <2>2, <2>4, <2>5, <2>6 DEF MapsInv
  <1>3. CASE t.claims + 1 # 2
    <2>1. /\ tickets' = [PrunedTickets EXCEPT ![u] =
                           [t EXCEPT !.claims = t.claims + 1]]
          /\ used' = PrunedUsed
      BY <1>3 DEF Claim
    <2>2. /\ [t EXCEPT !.claims = t.claims + 1] \in Ticket
          /\ [t EXCEPT !.claims = t.claims + 1].ttl = t.ttl
      BY <1>1, <1>3 DEF Ticket
    <2>3. \A v \in Uuids : IF v = u
            THEN /\ tickets'[v] = [t EXCEPT !.claims = t.claims + 1]
                 /\ used'[v] = None
            ELSE tickets'[v] = PrunedTickets[v] /\ used'[v] = PrunedUsed[v]
      BY <2>1, <1>1, PruneFacts DEF RegistryInv
    <2>4. NoNewTicket
      BY <2>3, <1>1, PruneFacts DEF NoNewTicket, RegistryInv
    <2>5. TicketXorTombstone'
      BY <2>3, PruneKeeps DEF TicketXorTombstone
    <2>6. WindowCovered'
      BY <2>2, <2>3, <1>1, PruneKeeps, NoneAssumption DEF WindowCovered
    <2>7. /\ tickets' \in [Uuids -> Ticket \cup {None}]
          /\ used' \in [Uuids -> 0..PairTimeout \cup {None}]
      BY <2>1, <2>2, PruneFacts DEF RegistryInv
    <2>8. QED
      BY <2>4, <2>5, <2>6, <2>7 DEF MapsInv
  <1>4. QED
    BY <1>2, <1>3

(* Release lowers a positive claim counter and nothing else. *)
LEMMA ReleaseMaps ==
  ASSUME RegistryInv, NEW u \in Uuids, Release(u), UNCHANGED age
  PROVE  MapsInv' /\ NoNewTicket
  <1> DEFINE t == PrunedTickets[u]
  <1>1. CASE t # None /\ t.claims > 0
    <2> DEFINE r == [t EXCEPT !.claims = @ - 1]
    <2>1. tickets' = [PrunedTickets EXCEPT ![u] = r] /\ used' = PrunedUsed
      BY <1>1 DEF Release
    <2>2. /\ t \in Ticket /\ PrunedUsed[u] = None /\ tickets[u] # None
          /\ t.ttl + age[u] = PairTimeout
      BY <1>1, PruneKeeps, PruneFacts DEF RegistryInv
    <2>3. r \in Ticket /\ r.ttl = t.ttl
      BY <1>1, <2>2 DEF Ticket
    <2>4. \A v \in Uuids : IF v = u
            THEN tickets'[v] = r /\ used'[v] = None
            ELSE tickets'[v] = PrunedTickets[v] /\ used'[v] = PrunedUsed[v]
      BY <2>1, <2>2, PruneFacts DEF RegistryInv
    <2>5. NoNewTicket
      BY <2>4, <2>2, PruneFacts DEF NoNewTicket, RegistryInv
    <2>6. TicketXorTombstone'
      BY <2>4, PruneKeeps DEF TicketXorTombstone
    <2>7. WindowCovered'
      BY <2>2, <2>3, <2>4, PruneKeeps, NoneAssumption DEF WindowCovered
    <2>8. /\ tickets' \in [Uuids -> Ticket \cup {None}]
          /\ used' \in [Uuids -> 0..PairTimeout \cup {None}]
      BY <2>1, <2>3, PruneFacts DEF RegistryInv
    <2>9. QED
      BY <2>5, <2>6, <2>7, <2>8 DEF MapsInv
  <1>2. CASE ~(t # None /\ t.claims > 0)
    BY <1>2, PruneOnlyMaps DEF Release, PruneOnly
  <1>3. QED
    BY <1>1, <1>2
-----------------------------------------------------------------------------
(* A connection that is neither blocked nor about to be moves to another   *)
(* point of the gate, and the maps stay good.                              *)
LEMMA MoveKeeps ==
  ASSUME RegistryInv, NEW c \in Conns, NEW l \in GatePC \ {"blocked"},
         pc[c] # "blocked", Goto(c, l), MapsInv', NoNewTicket,
         UNCHANGED <<waiters, issued, age, stopping>>,
         req' \in [Conns -> Uuids \cup {None}],
         \A d \in Conns : d # c => req'[d] = req[d],
         l \notin {"reading", "rejected"} => req'[c] # None,
         elapsed' \in [Conns -> 0..(PairTimeout + 1)],
         claimed' \in [Conns -> 0..MaxTickets],
         waitTotal' \in Int, waitByIP' \in [Ips -> Nat]
  PROVE  RegistryInv'
  <1>1. pc' = [pc EXCEPT ![c] = l] /\ pc \in [Conns -> GatePC]
    BY DEF Goto, RegistryInv, TypeOK
  <1>2. TypeOK'
    <2>1. pc' \in [Conns -> GatePC]
      BY <1>1
    <2>2. \A d \in Conns : pc'[d] \notin {"reading", "rejected"} =>
                             req'[d] # None
      BY <1>1 DEF RegistryInv, TypeOK
    <2>3. QED
      BY <2>1, <2>2 DEF MapsInv, RegistryInv, TypeOK
  <1>3. RegisteredWaitersTold'
    <2>1. \A u \in Uuids : waiters[u] \subseteq Conns /\ c \notin waiters[u]
      BY DEF RegistryInv, TypeOK, RegisteredWaitersTold
    <2>2. QED
      BY <1>1, <2>1
         DEF RegistryInv, RegisteredWaitersTold, NoNewTicket
  <1>4. QED
    BY <1>2, <1>3 DEF MapsInv, RegistryInv

(* Nothing happened to the maps. *)
LEMMA SameMaps ==
  ASSUME RegistryInv, UNCHANGED <<tickets, used, age>>
  PROVE  MapsInv' /\ NoNewTicket
  BY DEF RegistryInv, TypeOK, MapsInv, NoNewTicket, TicketXorTombstone,
         WindowCovered

(* The serial number a claim records is one of the model's. *)
LEMMA ClaimedSerial ==
  ASSUME RegistryInv, NEW c \in Conns, req[c] \in Uuids, CanClaim(req[c]),
         claimed' = [claimed EXCEPT ![c] = PrunedTickets[req[c]].serial]
  PROVE  claimed' \in [Conns -> 0..MaxTickets]
  <1>1. PrunedTickets[req[c]] \in Ticket
    BY PruneKeeps DEF CanClaim
  <1>2. PrunedTickets[req[c]].serial \in 0..MaxTickets
    BY <1>1, CapAssumption DEF Ticket
  <1>3. QED
    BY <1>2 DEF RegistryInv, TypeOK

(* The first message of a connection does not touch the registry. *)
LEMMA RequestKeeps ==
  ASSUME RegistryInv, NEW c \in Conns, NEW u \in Uuids, Request(c, u)
  PROVE  RegistryInv'
  <1>1. pc[c] = "reading" /\ Goto(c, "claiming")
    BY DEF Request
  <1>2. /\ req' = [req EXCEPT ![c] = u]
        /\ UNCHANGED <<tickets, used, waiters, issued, age, elapsed, claimed,
                       waitTotal, waitByIP, stopping>>
    BY DEF Request, regVars, capVars
  <1>3. /\ req' \in [Conns -> Uuids \cup {None}] /\ req'[c] # None
        /\ \A d \in Conns : d # c => req'[d] = req[d]
    BY <1>2, NoneAssumption DEF RegistryInv, TypeOK
  <1>4. "claiming" \in GatePC \ {"blocked"}
    BY DEF GatePC
  <1>5. QED
    BY <1>1, <1>2, <1>3, <1>4, SameMaps, MoveKeeps DEF RegistryInv, TypeOK

(* Nor does a message that is refused. *)
LEMMA BadRequestKeeps ==
  ASSUME RegistryInv, NEW c \in Conns, BadRequest(c)
  PROVE  RegistryInv'
  <1>1. pc[c] = "reading" /\ Goto(c, "rejected")
    BY DEF BadRequest
  <1>2. UNCHANGED <<tickets, used, waiters, issued, age, req, elapsed,
                    claimed, waitTotal, waitByIP, stopping>>
    BY DEF BadRequest, regVars, capVars
  <1>3. "rejected" \in GatePC \ {"blocked"}
    BY DEF GatePC
  <1>4. QED
    BY <1>1, <1>2, <1>3, SameMaps, MoveKeeps DEF RegistryInv, TypeOK

(* The immediate claim of claimRelayUUID. *)
LEMMA FirstClaimKeeps ==
  ASSUME RegistryInv, NEW c \in Conns, FirstClaim(c)
  PROVE  RegistryInv'
  <1>1. /\ pc[c] = "claiming" /\ req[c] \in Uuids
        /\ UNCHANGED <<waiters, issued, age, req, elapsed, waitTotal,
                       waitByIP, stopping>>
    BY DEF FirstClaim, capVars, RegistryInv, TypeOK
  <1>2. {"claimed", "acquiring"} \subseteq GatePC \ {"blocked"}
    BY DEF GatePC
  <1>3. CASE CanClaim(req[c])
    <2>1. Claim(req[c]) /\ Goto(c, "claimed") /\ claimed' \in [Conns -> 0..MaxTickets]
      BY <1>1, <1>3, ClaimedSerial DEF FirstClaim
    <2>2. MapsInv' /\ NoNewTicket
      BY <1>1, <1>3, <2>1, ClaimMaps
    <2>3. QED
      BY <1>1, <1>2, <2>1, <2>2, MoveKeeps DEF RegistryInv, TypeOK
  <1>4. CASE ~CanClaim(req[c])
    <2>1. PruneOnly /\ Goto(c, "acquiring") /\ UNCHANGED claimed
      BY <1>4 DEF FirstClaim
    <2>2. MapsInv' /\ NoNewTicket
      BY <1>1, <2>1, PruneOnlyMaps
    <2>3. QED
      BY <1>1, <1>2, <2>1, <2>2, MoveKeeps DEF RegistryInv, TypeOK
  <1>5. QED
    BY <1>3, <1>4

(* The claim after the wait. *)
LEMMA SecondClaimKeeps ==
  ASSUME RegistryInv, NEW c \in Conns, SecondClaim(c)
  PROVE  RegistryInv'
  <1>1. /\ pc[c] = "reclaiming" /\ req[c] \in Uuids
        /\ UNCHANGED <<waiters, issued, age, req, elapsed, waitTotal,
                       waitByIP, stopping>>
    BY DEF SecondClaim, capVars, RegistryInv, TypeOK
  <1>2. {"leaving_ok", "leaving_no"} \subseteq GatePC \ {"blocked"}
    BY DEF GatePC
  <1>3. CASE CanClaim(req[c])
    <2>1. Claim(req[c]) /\ Goto(c, "leaving_ok") /\ claimed' \in [Conns -> 0..MaxTickets]
      BY <1>1, <1>3, ClaimedSerial DEF SecondClaim
    <2>2. MapsInv' /\ NoNewTicket
      BY <1>1, <1>3, <2>1, ClaimMaps
    <2>3. QED
      BY <1>1, <1>2, <2>1, <2>2, MoveKeeps DEF RegistryInv, TypeOK
  <1>4. CASE ~CanClaim(req[c])
    <2>1. PruneOnly /\ Goto(c, "leaving_no") /\ UNCHANGED claimed
      BY <1>4 DEF SecondClaim
    <2>2. MapsInv' /\ NoNewTicket
      BY <1>1, <2>1, PruneOnlyMaps
    <2>3. QED
      BY <1>1, <1>2, <2>1, <2>2, MoveKeeps DEF RegistryInv, TypeOK
  <1>5. QED
    BY <1>3, <1>4
(* Entering the wait. *)
LEMMA AcquireWaitKeeps ==
  ASSUME RegistryInv, NEW c \in Conns, AcquireWait(c)
  PROVE  RegistryInv'
  <1>1. /\ pc[c] = "acquiring" /\ req[c] # None /\ IpOf[c] \in Ips
        /\ UNCHANGED <<tickets, used, waiters, issued, age, req, claimed,
                       stopping>>
    BY IpAssumption DEF AcquireWait, regVars, RegistryInv, TypeOK
  <1>2. {"checking", "rejected"} \subseteq GatePC \ {"blocked"}
    BY DEF GatePC
  <1>3. CASE HasWaitCapacity(IpOf[c])
    <2>1. /\ Goto(c, "checking") /\ waitTotal' = waitTotal + 1
          /\ waitByIP' = [waitByIP EXCEPT ![IpOf[c]] = @ + 1]
          /\ elapsed' = [elapsed EXCEPT ![c] = 0]
      BY <1>3 DEF AcquireWait
    <2>2. /\ waitTotal' \in Int /\ waitByIP' \in [Ips -> Nat]
          /\ elapsed' \in [Conns -> 0..(PairTimeout + 1)]
      BY <2>1, <1>1, TimeAssumption DEF RegistryInv, TypeOK
    <2>3. QED
      BY <1>1, <1>2, <2>1, <2>2, SameMaps, MoveKeeps DEF RegistryInv, TypeOK
  <1>4. CASE ~HasWaitCapacity(IpOf[c])
    <2>1. Goto(c, "rejected") /\ UNCHANGED <<waitTotal, waitByIP, elapsed>>
      BY <1>4 DEF AcquireWait, capVars
    <2>2. QED
      BY <1>1, <1>2, <2>1, SameMaps, MoveKeeps DEF RegistryInv, TypeOK
  <1>5. QED
    BY <1>3, <1>4

(* A connection joins the registered channel only when, under the same     *)
(* lock, its UUID has no ticket.                                           *)
LEMMA CheckWaitKeeps ==
  ASSUME RegistryInv, NEW c \in Conns, CheckWait(c)
  PROVE  RegistryInv'
  <1>1. /\ pc[c] = "checking" /\ req[c] \in Uuids /\ PruneOnly
        /\ UNCHANGED <<issued, age, req, elapsed, claimed, waitTotal,
                       waitByIP, stopping>>
    BY DEF CheckWait, capVars, RegistryInv, TypeOK
  <1>2. MapsInv' /\ NoNewTicket
    BY <1>1, PruneOnlyMaps
  <1>3. {"leaving_no", "reclaiming"} \subseteq GatePC \ {"blocked"}
    BY DEF GatePC
  <1>4. CASE UNCHANGED waiters /\ (Goto(c, "leaving_no") \/ Goto(c, "reclaiming"))
    BY <1>1, <1>2, <1>3, <1>4, MoveKeeps DEF RegistryInv, TypeOK
  <1>5. CASE /\ PrunedTickets[req[c]] = None
             /\ Goto(c, "blocked")
             /\ waiters' = [waiters EXCEPT ![req[c]] = @ \cup {c}]
    <2>1. pc' = [pc EXCEPT ![c] = "blocked"] /\ pc \in [Conns -> GatePC]
      BY <1>5 DEF Goto, RegistryInv, TypeOK
    <2>2. waiters' \in [Uuids -> SUBSET Conns] /\ pc' \in [Conns -> GatePC]
      BY <1>5, <1>1, <2>1 DEF RegistryInv, TypeOK, GatePC
    <2>3. \A d \in Conns : pc'[d] \notin {"reading", "rejected"} =>
                             req'[d] # None
      BY <1>1, <2>1, NoneAssumption DEF RegistryInv, TypeOK
    <2>4. TypeOK'
      BY <1>1, <1>2, <2>2, <2>3 DEF MapsInv, RegistryInv, TypeOK
    <2>5. RegisteredWaitersTold'
      <3> SUFFICES ASSUME NEW u \in Uuids
          PROVE  /\ \A d \in waiters'[u] : pc'[d] = "blocked" /\ req'[d] = u
                 /\ tickets'[u] # None => waiters'[u] = {}
        BY DEF RegisteredWaitersTold
      <3>1. tickets'[req[c]] = None
        BY <1>1, <1>5 DEF PruneOnly
      <3>2. waiters'[u] = IF u = req[c] THEN waiters[u] \cup {c} ELSE waiters[u]
        BY <1>1, <1>5 DEF RegistryInv, TypeOK
      <3>3. \A d \in waiters[u] : d \in Conns /\ pc[d] = "blocked" /\ req[d] = u
        BY DEF RegistryInv, TypeOK, RegisteredWaitersTold
      <3>4. tickets'[u] # None => waiters[u] = {}
        BY <1>2 DEF NoNewTicket, RegistryInv, RegisteredWaitersTold
      <3>5. QED
        BY <1>1, <2>1, <3>1, <3>2, <3>3, <3>4
    <2>6. QED
      BY <1>2, <2>4, <2>5 DEF MapsInv, RegistryInv
  <1>6. QED
    BY <1>4, <1>5 DEF CheckWait

(* A closed channel restarts the loop of WaitForAuthorization. *)
LEMMA WakeKeeps ==
  ASSUME RegistryInv, NEW c \in Conns, Wake(c)
  PROVE  RegistryInv'
  <1>1. /\ pc[c] = "woken" /\ Goto(c, "checking") /\ req[c] # None
        /\ UNCHANGED <<tickets, used, waiters, issued, age, req, elapsed,
                       claimed, waitTotal, waitByIP, stopping>>
    BY DEF Wake, regVars, capVars, RegistryInv, TypeOK
  <1>2. "checking" \in GatePC \ {"blocked"}
    BY DEF GatePC
  <1>3. QED
    BY <1>1, <1>2, SameMaps, MoveKeeps DEF RegistryInv, TypeOK

(* A connection that gives up leaves the registered channel, and takes     *)
(* whoever else is on it out of the map.                                   *)
LEMMA WaitExpiresKeeps ==
  ASSUME RegistryInv, NEW c \in Conns, WaitExpires(c)
  PROVE  RegistryInv'
  <1>1. /\ pc[c] \in {"blocked", "woken"} /\ req[c] \in Uuids
        /\ pc' = [pc EXCEPT ![c] = "leaving_no"]
        /\ waiters' = [waiters EXCEPT ![req[c]] = IF c \in @ THEN {} ELSE @]
        /\ UNCHANGED <<tickets, used, issued, age, req, elapsed, claimed,
                       waitTotal, waitByIP, stopping>>
    BY DEF WaitExpires, RemoveWaiter, Goto, capVars, RegistryInv, TypeOK
  <1>2. /\ waiters \in [Uuids -> SUBSET Conns] /\ pc \in [Conns -> GatePC]
        /\ req \in [Conns -> Uuids \cup {None}]
    BY DEF RegistryInv, TypeOK
  <1>3. waiters' \in [Uuids -> SUBSET Conns] /\ pc' \in [Conns -> GatePC]
    BY <1>1, <1>2 DEF GatePC
  <1>4. \A d \in Conns : pc'[d] \notin {"reading", "rejected"} =>
                           req'[d] # None
    BY <1>1, <1>2, NoneAssumption DEF RegistryInv, TypeOK
  <1>5. TypeOK'
    BY <1>1, <1>3, <1>4 DEF RegistryInv, TypeOK
  <1>6. TicketXorTombstone' /\ WindowCovered'
    BY <1>1 DEF RegistryInv, TicketXorTombstone, WindowCovered
  <1>7. RegisteredWaitersTold'
    <2> SUFFICES ASSUME NEW u \in Uuids
        PROVE  /\ \A d \in waiters'[u] : pc'[d] = "blocked" /\ req'[d] = u
               /\ tickets'[u] # None => waiters'[u] = {}
      BY DEF RegisteredWaitersTold
    <2>1. waiters'[u] \subseteq waiters[u] /\ c \notin waiters'[u]
      BY <1>1, <1>2 DEF RegistryInv, RegisteredWaitersTold
    <2>2. \A d \in waiters[u] : d \in Conns /\ pc[d] = "blocked" /\ req[d] = u
      BY <1>2 DEF RegistryInv, RegisteredWaitersTold
    <2>3. QED
      BY <1>1, <1>2, <2>1, <2>2 DEF RegistryInv, RegisteredWaitersTold
  <1>8. QED
    BY <1>5, <1>6, <1>7 DEF RegistryInv

(* Returning from the wait. *)
LEMMA LeaveWaitKeeps ==
  ASSUME RegistryInv, NEW c \in Conns, LeaveWait(c)
  PROVE  RegistryInv'
  <1> DEFINE l == IF pc[c] = "leaving_ok" THEN "claimed" ELSE "rejected"
  <1>1. /\ pc[c] \in {"leaving_ok", "leaving_no"} /\ Goto(c, l)
        /\ req[c] # None /\ elapsed' = [elapsed EXCEPT ![c] = 0]
        /\ UNCHANGED <<tickets, used, waiters, issued, age, req, claimed,
                       stopping>>
    BY DEF LeaveWait, regVars, RegistryInv, TypeOK
  <1>2. l \in GatePC \ {"blocked"} /\ pc[c] # "blocked"
    BY <1>1 DEF GatePC
  <1>3. waitTotal' \in Int /\ waitByIP' \in [Ips -> Nat]
    BY IpAssumption
       DEF LeaveWait, ReleaseWait, capVars, RegistryInv, TypeOK
  <1>4. elapsed' \in [Conns -> 0..(PairTimeout + 1)]
    BY <1>1, TimeAssumption DEF RegistryInv, TypeOK
  <1> HIDE DEF l
  <1>5. QED
    BY <1>1, <1>2, <1>3, <1>4, SameMaps, MoveKeeps DEF RegistryInv, TypeOK
(* A connection that is done with the gate starts again as a new one. *)
LEMMA FinishKeeps ==
  ASSUME RegistryInv, NEW c \in Conns, Finish(c), MapsInv', NoNewTicket,
         UNCHANGED <<waiters, issued, age, waitTotal, waitByIP, stopping>>
  PROVE  RegistryInv'
  <1>1. pc[c] # "blocked" /\ Goto(c, "reading")
    BY DEF Finish
  <1>2. /\ req' \in [Conns -> Uuids \cup {None}]
        /\ \A d \in Conns : d # c => req'[d] = req[d]
    BY DEF Finish, RegistryInv, TypeOK
  <1>3. /\ elapsed' \in [Conns -> 0..(PairTimeout + 1)]
        /\ claimed' \in [Conns -> 0..MaxTickets]
    BY TimeAssumption, CapAssumption DEF Finish, RegistryInv, TypeOK
  <1>4. "reading" \in GatePC \ {"blocked"}
    BY DEF GatePC
  <1>5. QED
    BY <1>1, <1>2, <1>3, <1>4, MoveKeeps DEF RegistryInv, TypeOK

(* A connection that keeps its claim. *)
LEMMA KeepClaimKeeps ==
  ASSUME RegistryInv, NEW c \in Conns, KeepClaim(c)
  PROVE  RegistryInv'
  BY SameMaps, FinishKeeps DEF KeepClaim, regVars, capVars

(* A connection that gives its claim back. *)
LEMMA GiveBackKeeps ==
  ASSUME RegistryInv, NEW c \in Conns, GiveBack(c)
  PROVE  RegistryInv'
  <1>1. /\ req[c] \in Uuids /\ Release(req[c]) /\ Finish(c)
        /\ UNCHANGED <<waiters, issued, age, waitTotal, waitByIP, stopping>>
    BY DEF GiveBack, capVars, RegistryInv, TypeOK
  <1>2. QED
    BY <1>1, ReleaseMaps, FinishKeeps

(* A tick takes from the time left what it adds to the age. *)
LEMMA TickKeeps ==
  ASSUME RegistryInv, Tick
  PROVE  RegistryInv'
  <1>1. /\ tickets' = [u \in Uuids |->
             IF tickets[u] # None /\ tickets[u].ttl > 0
               THEN [tickets[u] EXCEPT !.ttl = @ - 1] ELSE tickets[u]]
        /\ used' = [u \in Uuids |->
             IF used[u] # None /\ used[u] > 0 THEN used[u] - 1 ELSE used[u]]
        /\ age' = [u \in Uuids |-> Min2(age[u] + 1, PairTimeout)]
        /\ UNCHANGED <<waiters, issued, pc, req, claimed, waitTotal,
                       waitByIP, stopping>>
    BY DEF Tick, Advance, capVars
  <1>2. elapsed' \in [Conns -> 0..(PairTimeout + 1)]
    BY TimeAssumption DEF Tick, Advance, Min2, RegistryInv, TypeOK
  <1>3. \A u \in Uuids :
          /\ tickets[u] \in Ticket \cup {None}
          /\ used[u] \in 0..PairTimeout \cup {None}
          /\ age[u] \in 0..PairTimeout
    BY DEF RegistryInv, TypeOK
  <1>4. \A u \in Uuids :
          /\ tickets[u] = None => tickets'[u] = None
          /\ tickets[u] # None =>
               /\ tickets'[u] \in Ticket
               /\ tickets'[u] # None
               /\ tickets'[u].ttl = IF tickets[u].ttl > 0
                                      THEN tickets[u].ttl - 1 ELSE 0
    BY <1>1, <1>3, NoneAssumption, TimeAssumption DEF Ticket
  <1>5. \A u \in Uuids :
          /\ used[u] = None => used'[u] = None
          /\ used[u] # None =>
               /\ used'[u] \in 0..PairTimeout
               /\ used'[u] # None
               /\ used'[u] = IF used[u] > 0 THEN used[u] - 1 ELSE 0
    BY <1>1, <1>3, NoneAssumption, TimeAssumption
  <1>6. age' \in [Uuids -> 0..PairTimeout]
    BY <1>1, <1>3, TimeAssumption DEF Min2
  <1>7. TypeOK'
    <2>1. /\ tickets' \in [Uuids -> Ticket \cup {None}]
          /\ used' \in [Uuids -> 0..PairTimeout \cup {None}]
      BY <1>1, <1>4, <1>5
    <2>2. QED
      BY <1>1, <1>2, <1>6, <2>1 DEF RegistryInv, TypeOK
  <1>8. TicketXorTombstone'
    BY <1>4, <1>5 DEF RegistryInv, TicketXorTombstone
  <1>9. WindowCovered'
    <2> SUFFICES ASSUME NEW u \in Uuids
        PROVE  /\ tickets'[u] # None => tickets'[u].ttl + age'[u] = PairTimeout
               /\ used'[u] # None => used'[u] + age'[u] = PairTimeout
               /\ tickets'[u] = None /\ used'[u] = None =>
                    age'[u] = PairTimeout
      BY DEF WindowCovered
    <2>1. /\ tickets[u] # None => tickets[u].ttl + age[u] = PairTimeout
          /\ used[u] # None => used[u] + age[u] = PairTimeout
          /\ tickets[u] = None /\ used[u] = None => age[u] = PairTimeout
      BY DEF RegistryInv, WindowCovered
    <2>2. age'[u] = IF age[u] + 1 <= PairTimeout THEN age[u] + 1
                                                 ELSE PairTimeout
      BY <1>1 DEF Min2
    <2>3. QED
      BY <1>3, <1>4, <1>5, <2>1, <2>2, TimeAssumption DEF Ticket
  <1>10. RegisteredWaitersTold'
    BY <1>1, <1>4 DEF RegistryInv, RegisteredWaitersTold
  <1>11. QED
    BY <1>7, <1>8, <1>9, <1>10 DEF RegistryInv

(* Shutdown changes nothing but the context. *)
LEMMA StopKeeps ==
  ASSUME RegistryInv, Stop
  PROVE  RegistryInv'
  BY DEF Stop, regVars, connVars, capVars, RegistryInv, TypeOK,
         TicketXorTombstone, WindowCovered, RegisteredWaitersTold

(* Every step of the system keeps the invariant. *)
LEMMA RegistryStep ==
  ASSUME RegistryInv, [Next]_vars
  PROVE  RegistryInv'
  <1>1. ASSUME NEW u \in Uuids, NEW pair \in Pairs, Authorize(u, pair)
        PROVE  RegistryInv'
    BY <1>1, AuthorizeKeeps
  <1>2. ASSUME NEW p \in Peers, RevokeForPeer(p)
        PROVE  RegistryInv'
    BY <1>2, RevokeKeeps
  <1>3. ASSUME NEW c \in Conns, NEW u \in Uuids, Request(c, u)
        PROVE  RegistryInv'
    BY <1>3, RequestKeeps
  <1>4. ASSUME NEW c \in Conns, Gate(c)
        PROVE  RegistryInv'
    BY <1>4, FirstClaimKeeps, AcquireWaitKeeps, CheckWaitKeeps, WakeKeeps,
       WaitExpiresKeeps, SecondClaimKeeps, LeaveWaitKeeps DEF Gate
  <1>5. ASSUME NEW c \in Conns, BadRequest(c) \/ KeepClaim(c) \/ GiveBack(c)
        PROVE  RegistryInv'
    BY <1>5, BadRequestKeeps, KeepClaimKeeps, GiveBackKeeps
  <1>6. CASE UNCHANGED vars
    BY <1>6 DEF vars, regVars, connVars, capVars, RegistryInv, TypeOK,
       TicketXorTombstone, WindowCovered, RegisteredWaitersTold
  <1>7. QED
    BY <1>1, <1>2, <1>3, <1>4, <1>5, <1>6, TickKeeps, StopKeeps DEF Next

(* The registry and the gate keep their invariant in every behaviour. *)
THEOREM RegistryInvariant == Spec => []RegistryInv
  <1>1. RegistryInv /\ [Next]_vars => RegistryInv'
    BY RegistryStep
  <1>2. QED
    BY RegistryInit, <1>1, PTL DEF Spec

(* Type correctness of the registry and the gate. *)
THEOREM TypeCorrect == Spec => []TypeOK
  <1>1. RegistryInv => TypeOK
    BY DEF RegistryInv
  <1>2. QED
    BY RegistryInvariant, <1>1, PTL

(* A UUID is never both claimable and consumed. *)
THEOREM TicketOrTombstone == Spec => []TicketXorTombstone
  <1>1. RegistryInv => TicketXorTombstone
    BY DEF RegistryInv
  <1>2. QED
    BY RegistryInvariant, <1>1, PTL

(* Ticket and tombstone together cover the full window. *)
THEOREM WindowIsCovered == Spec => []WindowCovered
  <1>1. RegistryInv => WindowCovered
    BY DEF RegistryInv
  <1>2. QED
    BY RegistryInvariant, <1>1, PTL

(* Whoever is on the registered channel of a UUID is told. *)
THEOREM WaitersAreTold == Spec => []RegisteredWaitersTold
  <1>1. RegistryInv => RegisteredWaitersTold
    BY DEF RegistryInv
  <1>2. QED
    BY RegistryInvariant, <1>1, PTL

(* No UUID is authorized twice within PairTimeout, however claims,         *)
(* revocations, expiries and releases interleave.                          *)
THEOREM NoReplay == Spec => ReplayWindow
  <1> DEFINE Fresh == \A u \in Uuids : issued'[u] # issued[u] =>
                                         age[u] = PairTimeout
  <1>1. RegistryInv /\ [Next]_vars => [Fresh]_vars
    <2> SUFFICES ASSUME RegistryInv, Next PROVE Fresh
      OBVIOUS
    <2>1. ASSUME NEW u \in Uuids, NEW pair \in Pairs, Authorize(u, pair)
          PROVE  Fresh
      <3>1. CASE PrunedUsed[u] # None \/ PrunedTickets[u] # None
        BY <2>1, <3>1 DEF Authorize
      <3>2. CASE PrunedUsed[u] = None /\ PrunedTickets[u] = None
        <4>1. issued' = [issued EXCEPT ![u] = @ + 1] /\ age[u] = PairTimeout
          BY <2>1, <3>2, PruneKeeps DEF Authorize
        <4>2. QED
          BY <4>1 DEF RegistryInv, TypeOK
      <3>3. QED
        BY <3>1, <3>2
    <2>2. CASE UNCHANGED issued
      BY <2>2
    <2>3. QED
      BY <2>1, <2>2 DEF Next, RevokeForPeer, Request, BadRequest, Gate,
         FirstClaim, AcquireWait, CheckWait, Wake, WaitExpires, SecondClaim,
         LeaveWait, KeepClaim, GiveBack, Tick, Advance, Stop, regVars
  <1>2. QED
    BY RegistryInvariant, <1>1, PTL DEF Spec, ReplayWindow
-----------------------------------------------------------------------------
(***************************************************************************)
(* The wait limiter.                                                       *)
(***************************************************************************)
CapacityInv == AuthWaitExact /\ AuthWaitBounded

(* Cardinalities of the sets of waiting connections are numbers. *)
LEMMA WaitingFinite ==
  /\ IsFiniteSet(Waiting) /\ Cardinality(Waiting) \in Nat
  /\ \A ip \in Ips : /\ IsFiniteSet(WaitingFrom(ip))
                     /\ Cardinality(WaitingFrom(ip)) \in Nat
  <1>1. Waiting \subseteq Conns /\ \A ip \in Ips : WaitingFrom(ip) \subseteq Conns
    BY DEF Waiting, WaitingFrom
  <1>2. QED
    BY <1>1, ConnsAssumption, FS_Subset, FS_CardinalityType

(* A step that moves no connection into or out of the wait. *)
LEMMA SameWaiters ==
  ASSUME CapacityInv, Waiting' = Waiting, UNCHANGED <<waitTotal, waitByIP>>
  PROVE  CapacityInv'
  <1>1. \A ip \in Ips : WaitingFrom(ip)' = WaitingFrom(ip)
    BY DEF WaitingFrom
  <1>2. QED
    BY <1>1 DEF CapacityInv, AuthWaitExact, AuthWaitBounded

(* A connection enters the wait: only below both caps. *)
LEMMA EnterWait ==
  ASSUME RegistryInv, CapacityInv, NEW c \in Conns, AcquireWait(c),
         HasWaitCapacity(IpOf[c])
  PROVE  CapacityInv'
  <1>1. /\ pc[c] = "acquiring" /\ pc' = [pc EXCEPT ![c] = "checking"]
        /\ waitTotal' = waitTotal + 1
        /\ waitByIP' = [waitByIP EXCEPT ![IpOf[c]] = @ + 1]
    BY DEF AcquireWait, Goto
  <1>2. Waiting' = Waiting \cup {c} /\ c \notin Waiting
    BY <1>1 DEF Waiting, WaitingPC, RegistryInv, TypeOK
  <1>3. \A ip \in Ips :
          /\ ip = IpOf[c] => WaitingFrom(ip)' = WaitingFrom(ip) \cup {c}
          /\ ip # IpOf[c] => WaitingFrom(ip)' = WaitingFrom(ip)
          /\ c \notin WaitingFrom(ip)
    BY <1>2 DEF WaitingFrom
  <1>4. Cardinality(Waiting') = Cardinality(Waiting) + 1
    BY <1>2, WaitingFinite, FS_AddElement
  <1>5. \A ip \in Ips : Cardinality(WaitingFrom(ip)') =
          IF ip = IpOf[c] THEN Cardinality(WaitingFrom(ip)) + 1
                          ELSE Cardinality(WaitingFrom(ip))
    <2> TAKE ip \in Ips
    <2>1. CASE ip = IpOf[c]
      BY <2>1, <1>3, WaitingFinite, FS_AddElement
    <2>2. CASE ip # IpOf[c]
      BY <2>2, <1>3
    <2>3. QED
      BY <2>1, <2>2
  <1>6. IpOf[c] \in Ips /\ waitByIP \in [Ips -> Nat]
    BY IpAssumption DEF RegistryInv, TypeOK
  <1>7. AuthWaitExact'
    BY <1>1, <1>4, <1>5, <1>6 DEF CapacityInv, AuthWaitExact
  <1>8. AuthWaitBounded'
    BY <1>4, <1>5, <1>6, WaitingFinite, CapAssumption
       DEF CapacityInv, AuthWaitExact, AuthWaitBounded, HasWaitCapacity
  <1>9. QED
    BY <1>7, <1>8 DEF CapacityInv

(* A connection leaves the wait and gives its slot back. *)
LEMMA ExitWait ==
  ASSUME RegistryInv, CapacityInv, NEW c \in Conns, LeaveWait(c)
  PROVE  CapacityInv'
  <1>1. /\ pc[c] \in {"leaving_ok", "leaving_no"}
        /\ ReleaseWait(IpOf[c])
        /\ pc' = [pc EXCEPT ![c] = IF pc[c] = "leaving_ok" THEN "claimed"
                                   ELSE "rejected"]
    BY DEF LeaveWait, Goto
  <1>2. Waiting' = Waiting \ {c} /\ c \in Waiting
    BY <1>1 DEF Waiting, WaitingPC, RegistryInv, TypeOK
  <1>3. \A ip \in Ips :
          /\ ip = IpOf[c] => /\ WaitingFrom(ip)' = WaitingFrom(ip) \ {c}
                             /\ c \in WaitingFrom(ip)
          /\ ip # IpOf[c] => WaitingFrom(ip)' = WaitingFrom(ip)
    BY <1>2 DEF WaitingFrom
  <1>4. Cardinality(Waiting') = Cardinality(Waiting) - 1
    BY <1>2, WaitingFinite, FS_RemoveElement
  <1>5. \A ip \in Ips : Cardinality(WaitingFrom(ip)') =
          IF ip = IpOf[c] THEN Cardinality(WaitingFrom(ip)) - 1
                          ELSE Cardinality(WaitingFrom(ip))
    BY <1>3, WaitingFinite, FS_RemoveElement
  <1>6. IpOf[c] \in Ips /\ waitByIP \in [Ips -> Nat]
    BY IpAssumption DEF RegistryInv, TypeOK
  <1>7. waitByIP[IpOf[c]] # 0
    BY <1>3, <1>6, WaitingFinite, FS_EmptySet DEF CapacityInv, AuthWaitExact
  <1>8. /\ waitTotal' = waitTotal - 1
        /\ waitByIP' = [waitByIP EXCEPT ![IpOf[c]] = @ - 1]
    BY <1>1, <1>7 DEF ReleaseWait
  <1>9. AuthWaitExact'
    BY <1>4, <1>5, <1>6, <1>8 DEF CapacityInv, AuthWaitExact
  <1>10. AuthWaitBounded'
    BY <1>4, <1>5, WaitingFinite, CapAssumption
       DEF CapacityInv, AuthWaitBounded
  <1>11. QED
    BY <1>9, <1>10 DEF CapacityInv

(* Every other move stays inside the wait or outside of it. *)
LEMMA OtherMove ==
  ASSUME RegistryInv, CapacityInv, NEW c \in Conns, NEW l, Goto(c, l),
         pc[c] \in WaitingPC <=> l \in WaitingPC,
         UNCHANGED <<waitTotal, waitByIP>>
  PROVE  CapacityInv'
  <1>1. pc' = [pc EXCEPT ![c] = l] /\ pc \in [Conns -> GatePC]
    BY DEF Goto, RegistryInv, TypeOK
  <1>2. Waiting' = Waiting
    BY <1>1 DEF Waiting
  <1>3. QED
    BY <1>2, SameWaiters

(* Closing channels moves connections within the wait only. *)
LEMMA SignalStays ==
  ASSUME RegistryInv, NEW us \in SUBSET Uuids, SignalWaiters(us)
  PROVE  Waiting' = Waiting
  <1>1. \A c \in Conns : (\E u \in us : c \in waiters[u]) => pc[c] = "blocked"
    BY DEF RegistryInv, RegisteredWaitersTold
  <1>2. \A c \in Conns : pc'[c] = IF \E u \in us : c \in waiters[u]
                                    THEN "woken" ELSE pc[c]
    BY DEF SignalWaiters
  <1>3. QED
    BY <1>1, <1>2 DEF Waiting, WaitingPC

(* Every step keeps the limiter exact and within its caps. *)
LEMMA CapacityStep ==
  ASSUME RegistryInv, CapacityInv, [Next]_vars
  PROVE  CapacityInv'
  <1>1. CASE \E u \in Uuids, pair \in Pairs : Authorize(u, pair)
    <2>1. PICK u \in Uuids, pair \in Pairs : Authorize(u, pair)
      BY <1>1
    <2>2. (pc' = pc \/ SignalWaiters({u})) /\ UNCHANGED <<waitTotal, waitByIP>>
      BY <2>1 DEF Authorize, capVars
    <2>3. Waiting' = Waiting
      BY <2>2, SignalStays DEF Waiting
    <2>4. QED
      BY <2>2, <2>3, SameWaiters
  <1>2. CASE \E p \in Peers : RevokeForPeer(p)
    <2>1. /\ \E us \in SUBSET Uuids : SignalWaiters(us)
          /\ UNCHANGED <<waitTotal, waitByIP>>
      BY <1>2 DEF RevokeForPeer, capVars
    <2>2. Waiting' = Waiting
      BY <2>1, SignalStays
    <2>3. QED
      BY <2>1, <2>2, SameWaiters
  <1>3. ASSUME NEW c \in Conns,
               \/ \E u \in Uuids : Request(c, u)
               \/ BadRequest(c)
               \/ KeepClaim(c)
               \/ GiveBack(c)
        PROVE  CapacityInv'
    <2>1. \E l \in {"claiming", "rejected", "reading"} :
            /\ Goto(c, l) /\ UNCHANGED <<waitTotal, waitByIP>>
            /\ pc[c] \in {"reading", "claimed", "rejected"}
      BY <1>3 DEF Request, BadRequest, KeepClaim, GiveBack, Finish, capVars
    <2>2. QED
      BY <2>1, OtherMove DEF WaitingPC
  <1>4. ASSUME NEW c \in Conns, Gate(c)
        PROVE  CapacityInv'
    <2>1. CASE FirstClaim(c)
      <3>1. \E l \in {"claimed", "acquiring"} :
              /\ Goto(c, l) /\ UNCHANGED <<waitTotal, waitByIP>>
              /\ pc[c] = "claiming"
        BY <2>1 DEF FirstClaim, capVars
      <3>2. QED
        BY <3>1, OtherMove DEF WaitingPC
    <2>2. CASE AcquireWait(c)
      <3>1. CASE HasWaitCapacity(IpOf[c])
        BY <2>2, <3>1, EnterWait
      <3>2. CASE ~HasWaitCapacity(IpOf[c])
        <4>1. /\ Goto(c, "rejected") /\ UNCHANGED <<waitTotal, waitByIP>>
              /\ pc[c] = "acquiring"
          BY <2>2, <3>2 DEF AcquireWait, capVars
        <4>2. QED
          BY <4>1, OtherMove DEF WaitingPC
      <3>3. QED
        BY <3>1, <3>2
    <2>3. CASE CheckWait(c) \/ Wake(c) \/ WaitExpires(c) \/ SecondClaim(c)
      <3>1. \E l \in {"leaving_no", "reclaiming", "blocked", "checking",
                      "leaving_ok"} :
              /\ Goto(c, l) /\ UNCHANGED <<waitTotal, waitByIP>>
              /\ pc[c] \in {"checking", "blocked", "woken", "reclaiming"}
        BY <2>3 DEF CheckWait, Wake, WaitExpires, SecondClaim, capVars
      <3>2. QED
        BY <3>1, OtherMove DEF WaitingPC
    <2>4. CASE LeaveWait(c)
      BY <2>4, ExitWait
    <2>5. QED
      BY <1>4, <2>1, <2>2, <2>3, <2>4 DEF Gate
  <1>5. CASE Tick \/ Stop \/ UNCHANGED vars
    <2>1. pc' = pc /\ UNCHANGED <<waitTotal, waitByIP>>
      BY <1>5 DEF Tick, Advance, Stop, vars, connVars, capVars
    <2>2. QED
      BY <2>1, SameWaiters DEF Waiting
  <1>6. QED
    BY <1>1, <1>2, <1>3, <1>4, <1>5 DEF Next

(* The auth-wait limiter counts exactly the waiting connections and holds  *)
(* them within its caps, in every behaviour.                               *)
THEOREM WaitLimiterCorrect == Spec => [](AuthWaitExact /\ AuthWaitBounded)
  <1>1. Init => CapacityInv
    <2> SUFFICES ASSUME Init PROVE CapacityInv
      OBVIOUS
    <2>1. Waiting = {} /\ \A ip \in Ips : WaitingFrom(ip) = {}
      BY DEF Init, InitAt, Waiting, WaitingFrom, WaitingPC
    <2>2. /\ Cardinality(Waiting) = 0
          /\ \A ip \in Ips : Cardinality(WaitingFrom(ip)) = 0
      BY <2>1, FS_EmptySet
    <2>3. waitTotal = 0 /\ \A ip \in Ips : waitByIP[ip] = 0
      BY DEF Init, InitAt
    <2>4. QED
      BY <2>2, <2>3, CapAssumption
         DEF CapacityInv, AuthWaitExact, AuthWaitBounded
  <1>2. RegistryInv /\ CapacityInv /\ [Next]_vars => CapacityInv'
    BY CapacityStep
  <1>3. QED
    BY RegistryInvariant, <1>1, <1>2, PTL DEF Spec, CapacityInv
=============================================================================
