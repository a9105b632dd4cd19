------------------------- MODULE RelayAuthorization -------------------------
(***************************************************************************)
(* The relay authorization registry (betterdesk-server/relay/              *)
(* authorization.go) and the gate every relay connection passes through    *)
(* (claimRelayUUID and relayAuthWaitLimiter in relay/server.go).           *)
(*                                                                         *)
(* Signal issues a ticket for a UUID; each of the two peers that reach the *)
(* relay claims it; the second claim turns the ticket into a tombstone.    *)
(* A connection whose ticket is not there yet waits briefly, within a      *)
(* global and a per-address capacity, on a channel shared by all waiters   *)
(* of that UUID.                                                           *)
(*                                                                         *)
(* Every region the code runs under one mutex is one action.  Time is kept *)
(* as durations: a ticket stores the time it has left, a connection the    *)
(* time spent in its current wait, and Tick moves all of them together, so *)
(* no absolute clock has to be bounded.                                    *)
(***************************************************************************)
EXTENDS Integers, FiniteSets

CONSTANTS
  Conns,          (* connection slots; a slot is reused by later connections *)
  Uuids,          (* relay session UUIDs                                     *)
  Ips,            (* remote addresses                                        *)
  IpOf,           (* remote address of each connection                       *)
  Wants,          (* the UUIDs each connection may ask for                   *)
  Peers,          (* device ids                                              *)
  Pairs,          (* <<initiator, target>> pairs signal authorizes           *)
  PairTimeout,    (* config.RelayPairTimeout, in ticks                       *)
  AuthWait,       (* config.RelayAuthWait, in ticks                          *)
  MaxWaitGlobal,  (* maxRelayAuthWaitGlobal; 0 disables the cap              *)
  MaxWaitPerIP,   (* maxRelayAuthWaitPerIP; 0 disables the cap               *)
  MaxTickets,     (* bound of the model: tickets ever issued for a UUID      *)
  None            (* nil / absent map entry                                  *)

ASSUME ConnsAssumption == IsFiniteSet(Conns)
ASSUME IpAssumption == IpOf \in [Conns -> Ips]
ASSUME WantsAssumption == Wants \in [Conns -> SUBSET Uuids]
ASSUME PairAssumption == Pairs \subseteq Peers \X Peers
ASSUME TimeAssumption ==
  /\ PairTimeout \in Nat \ {0}
  /\ AuthWait \in Nat \ {0}
  /\ AuthWait <= PairTimeout
ASSUME CapAssumption ==
  /\ MaxWaitGlobal \in Nat
  /\ MaxWaitPerIP \in Nat
  /\ MaxTickets \in Nat

VARIABLES
  tickets,   (* r.tickets: the unconsumed ticket of a UUID                   *)
  used,      (* r.used: time left of the tombstone of a consumed UUID        *)
  waiters,   (* r.waiters: connections blocked on the registered channel     *)
  issued,    (* history: number of tickets ever issued for a UUID            *)
  age,       (* history: time since the last ticket of a UUID was issued     *)
  pc,        (* where the goroutine of a connection is                       *)
  req,       (* the UUID a connection asked for                              *)
  elapsed,   (* time spent in the current timed wait of a connection         *)
  claimed,   (* history: which ticket of its UUID a connection has claimed   *)
  waitTotal, (* relayAuthWaitLimiter.total                                   *)
  waitByIP,  (* relayAuthWaitLimiter.byIP                                    *)
  stopping   (* s.ctx is cancelled                                           *)

regVars  == <<tickets, used, waiters, issued, age>>
connVars == <<pc, req, elapsed, claimed>>
capVars  == <<waitTotal, waitByIP>>
vars     == <<regVars, connVars, capVars, stopping>>

(* A stored ticket; one claimed twice is not stored any more. *)
Ticket == [initiator : Peers, target : Peers, ttl : 0..PairTimeout,
           claims : 0..1, serial : 1..MaxTickets]

ASSUME NoneAssumption == None \notin Ticket /\ None \notin 0..PairTimeout
                         /\ None \notin Uuids /\ None \notin Conns

(* The program points of a connection's goroutine in the gate.  "reading"  *)
(* awaits the first message; "claimed" and "rejected" are its outcomes.    *)
GatePC == {"reading", "claiming", "acquiring", "checking", "blocked",
           "woken", "reclaiming", "leaving_ok", "leaving_no",
           "claimed", "rejected"}

(* The points at which a connection holds a slot of the wait limiter. *)
WaitingPC == {"checking", "blocked", "woken", "reclaiming",
              "leaving_ok", "leaving_no"}

-----------------------------------------------------------------------------
(***************************************************************************)
(* The registry.  pruneLocked runs first in every operation.               *)
(***************************************************************************)

(* Mutant of pruneLocked: every prune drops the tombstones. *)
PrunedUsedEarly == [u \in Uuids |-> None]

(* pruneLocked: tickets and tombstones whose expiry has been reached go. *)
PrunedTickets ==
  [u \in Uuids |-> IF tickets[u] # None /\ tickets[u].ttl = 0
                     THEN None ELSE tickets[u]]

PrunedUsed ==
  [u \in Uuids |-> IF used[u] = 0 THEN None ELSE used[u]]

(* An operation that finds nothing to change still leaves the maps pruned. *)
PruneOnly == tickets' = PrunedTickets /\ used' = PrunedUsed

(* signalWaitersLocked: close the registered channels of a set of UUIDs.   *)
(* Only the connections on the channel that is registered NOW wake up.     *)
SignalWaiters(us) ==
  /\ waiters' = [u \in Uuids |-> IF u \in us THEN {} ELSE waiters[u]]
  /\ pc' = [c \in Conns |-> IF \E u \in us : c \in waiters[u]
                              THEN "woken" ELSE pc[c]]

(* Mutant of Authorize: the waiters of the new ticket are not signalled. *)
AuthorizeSilently(u, pair) ==
  /\ used' = PrunedUsed
  /\ PrunedUsed[u] = None
  /\ PrunedTickets[u] = None
  /\ issued[u] < MaxTickets
  /\ tickets' = [PrunedTickets EXCEPT ![u] =
       [initiator |-> pair[1], target |-> pair[2], ttl |-> PairTimeout,
        claims |-> 0, serial |-> issued[u] + 1]]
  /\ issued' = [issued EXCEPT ![u] = @ + 1]
  /\ age' = [age EXCEPT ![u] = 0]
  /\ UNCHANGED <<waiters, connVars, capVars, stopping>>

(* Authorize: signal records the pair negotiated for a UUID.  A live       *)
(* tombstone refuses it; an existing ticket is kept as it is.              *)
Authorize(u, pair) ==
  /\ used' = PrunedUsed
  /\ IF PrunedUsed[u] # None \/ PrunedTickets[u] # None
       THEN /\ tickets' = PrunedTickets
            /\ UNCHANGED <<waiters, issued, age, pc>>
       ELSE /\ issued[u] < MaxTickets
            /\ tickets' = [PrunedTickets EXCEPT ![u] =
                 [initiator |-> pair[1], target |-> pair[2],
                  ttl |-> PairTimeout, claims |-> 0,
                  serial |-> issued[u] + 1]]
            /\ issued' = [issued EXCEPT ![u] = @ + 1]
            /\ age' = [age EXCEPT ![u] = 0]
            /\ SignalWaiters({u})
  /\ UNCHANGED <<req, elapsed, claimed, capVars, stopping>>

Involves(t, p) == t # None /\ (t.initiator = p \/ t.target = p)

(* RevokeForPeer: every unpaired ticket of a banned peer becomes a         *)
(* tombstone and its waiters are woken.                                    *)
RevokeForPeer(p) ==
  LET gone == {u \in Uuids : Involves(PrunedTickets[u], p)} IN
  /\ tickets' = [u \in Uuids |-> IF u \in gone THEN None
                                 ELSE PrunedTickets[u]]
  /\ used' = [u \in Uuids |-> IF u \in gone THEN PrunedTickets[u].ttl
                              ELSE PrunedUsed[u]]
  /\ SignalWaiters(gone)
  /\ UNCHANGED <<issued, age, req, elapsed, claimed, capVars, stopping>>

(* The condition under which Claim returns true. *)
CanClaim(u) == PrunedTickets[u] # None /\ PrunedTickets[u].claims < 2

(* Mutant of Claim: a claim is not counted. *)
ClaimUncounted(u) == PruneOnly

(* A successful Claim: the second one replaces the ticket by a tombstone   *)
(* that lives until the ticket would have expired.                         *)
Claim(u) ==
  LET t == PrunedTickets[u] IN
  IF t.claims + 1 = 2
    THEN /\ tickets' = [PrunedTickets EXCEPT ![u] = None]
         /\ used' = [PrunedUsed EXCEPT ![u] = t.ttl]
    ELSE /\ tickets' = [PrunedTickets EXCEPT ![u].claims = t.claims + 1]
         /\ used' = PrunedUsed

(* Mutant of Release: the counter is decremented without a look at it. *)
ReleaseUnchecked(u) ==
  /\ tickets' = IF PrunedTickets[u] # None
                  THEN [PrunedTickets EXCEPT ![u].claims = @ - 1]
                  ELSE PrunedTickets
  /\ used' = PrunedUsed

(* Release: give a claim back to whatever ticket the UUID has now. *)
Release(u) ==
  /\ tickets' = IF PrunedTickets[u] # None /\ PrunedTickets[u].claims > 0
                  THEN [PrunedTickets EXCEPT ![u].claims = @ - 1]
                  ELSE PrunedTickets
  /\ used' = PrunedUsed

-----------------------------------------------------------------------------
(***************************************************************************)
(* The gate: claimRelayUUID, run by the goroutine of each connection.      *)
(***************************************************************************)
Goto(c, label) == pc' = [pc EXCEPT ![c] = label]

(* The first message arrives and carries a UUID. *)
Request(c, u) ==
  /\ pc[c] = "reading"
  /\ u \in Wants[c]
  /\ Goto(c, "claiming")
  /\ req' = [req EXCEPT ![c] = u]
  /\ UNCHANGED <<regVars, elapsed, claimed, capVars, stopping>>

(* Read error or timeout, health check, other message, or empty UUID. *)
BadRequest(c) ==
  /\ pc[c] = "reading"
  /\ Goto(c, "rejected")
  /\ UNCHANGED <<regVars, req, elapsed, claimed, capVars, stopping>>

(* The immediate Claim. *)
FirstClaim(c) ==
  /\ pc[c] = "claiming"
  /\ \/ /\ CanClaim(req[c])
        /\ Claim(req[c])
        /\ Goto(c, "claimed")
        /\ claimed' = [claimed EXCEPT ![c] = PrunedTickets[req[c]].serial]
     \/ /\ ~CanClaim(req[c])
        /\ PruneOnly
        /\ Goto(c, "acquiring")
        /\ UNCHANGED claimed
  /\ UNCHANGED <<waiters, issued, age, req, elapsed, capVars, stopping>>

(* relayAuthWaitLimiter.acquire *)
HasWaitCapacity(ip) ==
  /\ MaxWaitGlobal = 0 \/ waitTotal < MaxWaitGlobal
  /\ MaxWaitPerIP = 0 \/ waitByIP[ip] < MaxWaitPerIP

AcquireWait(c) ==
  /\ pc[c] = "acquiring"
  /\ \/ /\ HasWaitCapacity(IpOf[c])
        /\ waitTotal' = waitTotal + 1
        /\ waitByIP' = [waitByIP EXCEPT ![IpOf[c]] = @ + 1]
        /\ Goto(c, "checking")
        /\ elapsed' = [elapsed EXCEPT ![c] = 0]
     \/ /\ ~HasWaitCapacity(IpOf[c])
        /\ Goto(c, "rejected")
        /\ UNCHANGED <<capVars, elapsed>>
  /\ UNCHANGED <<regVars, req, claimed, stopping>>

(* The locked part of one iteration of WaitForAuthorization: a tombstone   *)
(* ends the wait, a ticket ends it well, otherwise the connection joins    *)
(* the registered channel of the UUID (made now if there is none).         *)
CheckWait(c) ==
  LET u == req[c] IN
  /\ pc[c] = "checking"
  /\ PruneOnly
  /\ \/ /\ PrunedUsed[u] # None
        /\ Goto(c, "leaving_no")
        /\ UNCHANGED waiters
     \/ /\ PrunedUsed[u] = None
        /\ PrunedTickets[u] # None
        /\ Goto(c, "reclaiming")
        /\ UNCHANGED waiters
     \/ /\ PrunedUsed[u] = None
        /\ PrunedTickets[u] = None
        /\ Goto(c, "blocked")
        /\ waiters' = [waiters EXCEPT ![u] = @ \cup {c}]
  /\ UNCHANGED <<issued, age, req, elapsed, claimed, capVars, stopping>>

(* The select takes the closed channel and the loop starts again. *)
Wake(c) ==
  /\ pc[c] = "woken"
  /\ Goto(c, "checking")
  /\ UNCHANGED <<regVars, req, elapsed, claimed, capVars, stopping>>

(* The context of the wait is done: RelayAuthWait has passed or the server *)
(* is stopping.                                                            *)
WaitOver(c) == elapsed[c] >= AuthWait \/ stopping

(* removeWaiter: a connection that gives up deletes the map entry when it  *)
(* is still its channel, without closing the channel.                      *)
RemoveWaiter(u, c) ==
  waiters' = [waiters EXCEPT ![u] = IF c \in @ THEN {} ELSE @]

(* The select takes ctx.Done, possibly although the channel is closed too. *)
WaitExpires(c) ==
  /\ pc[c] \in {"blocked", "woken"}
  /\ WaitOver(c)
  /\ RemoveWaiter(req[c], c)
  /\ Goto(c, "leaving_no")
  /\ UNCHANGED <<tickets, used, issued, age, req, elapsed, claimed,
                 capVars, stopping>>

(* The Claim that remains mandatory after the wait. *)
SecondClaim(c) ==
  /\ pc[c] = "reclaiming"
  /\ \/ /\ CanClaim(req[c])
        /\ Claim(req[c])
        /\ Goto(c, "leaving_ok")
        /\ claimed' = [claimed EXCEPT ![c] = PrunedTickets[req[c]].serial]
     \/ /\ ~CanClaim(req[c])
        /\ PruneOnly
        /\ Goto(c, "leaving_no")
        /\ UNCHANGED claimed
  /\ UNCHANGED <<waiters, issued, age, req, elapsed, capVars, stopping>>

(* Mutant of release: the counter of the address is left alone. *)
ReleaseWaitGlobal(ip) ==
  /\ waitTotal' = waitTotal - 1
  /\ UNCHANGED waitByIP

(* relayAuthWaitLimiter.release, deferred to the return of the function. *)
ReleaseWait(ip) ==
  IF waitByIP[ip] = 0
    THEN UNCHANGED capVars
    ELSE /\ waitTotal' = waitTotal - 1
         /\ waitByIP' = [waitByIP EXCEPT ![ip] = @ - 1]

LeaveWait(c) ==
  /\ pc[c] \in {"leaving_ok", "leaving_no"}
  /\ ReleaseWait(IpOf[c])
  /\ Goto(c, IF pc[c] = "leaving_ok" THEN "claimed" ELSE "rejected")
  /\ elapsed' = [elapsed EXCEPT ![c] = 0]
  /\ UNCHANGED <<regVars, req, claimed, stopping>>

Gate(c) ==
  \/ FirstClaim(c)
  \/ AcquireWait(c)
  \/ CheckWait(c)
  \/ Wake(c)
  \/ WaitExpires(c)
  \/ SecondClaim(c)
  \/ LeaveWait(c)

-----------------------------------------------------------------------------
Min2(a, b) == IF a <= b THEN a ELSE b

(* One tick of the clock; the points in timed are the timed waits. *)
Advance(timed) ==
  /\ tickets' = [u \in Uuids |->
       IF tickets[u] # None /\ tickets[u].ttl > 0
         THEN [tickets[u] EXCEPT !.ttl = @ - 1] ELSE tickets[u]]
  /\ used' = [u \in Uuids |->
       IF used[u] # None /\ used[u] > 0 THEN used[u] - 1 ELSE used[u]]
  /\ elapsed' = [c \in Conns |->
       IF pc[c] \in timed THEN Min2(elapsed[c] + 1, PairTimeout + 1)
                          ELSE elapsed[c]]
  /\ age' = [u \in Uuids |-> Min2(age[u] + 1, PairTimeout)]
  /\ UNCHANGED <<waiters, issued, pc, req, claimed, capVars, stopping>>

Tick == Advance(WaitingPC \cup {"claimed"})

(* Server.Stop cancels the context every wait is derived from. *)
Stop ==
  /\ ~stopping
  /\ stopping' = TRUE
  /\ UNCHANGED <<regVars, connVars, capVars>>

(***************************************************************************)
(* What a connection does with its claim is the business of RelayServer;   *)
(* seen from the registry it is either kept for good or, once the pairing  *)
(* timeout has passed or the server stops, given back.                     *)
(***************************************************************************)
Finish(c) ==
  /\ pc[c] \in {"claimed", "rejected"}
  /\ Goto(c, "reading")
  /\ req' = [req EXCEPT ![c] = None]
  /\ claimed' = [claimed EXCEPT ![c] = 0]
  /\ elapsed' = [elapsed EXCEPT ![c] = 0]

KeepClaim(c) ==
  /\ Finish(c)
  /\ UNCHANGED <<regVars, capVars, stopping>>

GiveBack(c) ==
  /\ pc[c] = "claimed"
  /\ elapsed[c] >= PairTimeout \/ stopping
  /\ Release(req[c])
  /\ Finish(c)
  /\ UNCHANGED <<waiters, issued, age, capVars, stopping>>

(* Every connection starts at label, everything else empty. *)
InitAt(label) ==
  /\ tickets = [u \in Uuids |-> None]
  /\ used = [u \in Uuids |-> None]
  /\ waiters = [u \in Uuids |-> {}]
  /\ issued = [u \in Uuids |-> 0]
  /\ age = [u \in Uuids |-> PairTimeout]
  /\ pc = [c \in Conns |-> label]
  /\ req = [c \in Conns |-> None]
  /\ elapsed = [c \in Conns |-> 0]
  /\ claimed = [c \in Conns |-> 0]
  /\ waitTotal = 0
  /\ waitByIP = [ip \in Ips |-> 0]
  /\ stopping = FALSE

Init == InitAt("reading")

Next ==
  \/ \E u \in Uuids, pair \in Pairs : Authorize(u, pair)
  \/ \E p \in Peers : RevokeForPeer(p)
  \/ \E c \in Conns, u \in Uuids : Request(c, u)
  \/ \E c \in Conns : BadRequest(c)
  \/ \E c \in Conns : Gate(c)
  \/ \E c \in Conns : KeepClaim(c)
  \/ \E c \in Conns : GiveBack(c)
  \/ Tick
  \/ Stop

Spec == Init /\ [][Next]_vars

-----------------------------------------------------------------------------
(***************************************************************************)
(* Properties.                                                             *)
(***************************************************************************)

(* Type invariant of the registry, the wait limiter and the gate.  In a    *)
(* stored ticket claims is 0 or 1: the counter never wraps below zero (it  *)
(* is a uint8) and a ticket claimed twice is not kept.                     *)
TypeOK ==
  /\ tickets \in [Uuids -> Ticket \cup {None}]
  /\ used \in [Uuids -> 0..PairTimeout \cup {None}]
  /\ waiters \in [Uuids -> SUBSET Conns]
  /\ issued \in [Uuids -> 0..MaxTickets]
  /\ age \in [Uuids -> 0..PairTimeout]
  /\ pc \in [Conns -> GatePC]
  /\ req \in [Conns -> Uuids \cup {None}]
  /\ \A c \in Conns : pc[c] \notin {"reading", "rejected"} => req[c] # None
  /\ elapsed \in [Conns -> 0..(PairTimeout + 1)]
  /\ claimed \in [Conns -> 0..MaxTickets]
  /\ waitTotal \in Int
  /\ waitByIP \in [Ips -> Nat]
  /\ stopping \in BOOLEAN

(* A UUID is never both claimable and consumed: Claim and RevokeForPeer    *)
(* move it from one map to the other, and Authorize refuses while the      *)
(* tombstone is there.                                                     *)
TicketXorTombstone ==
  \A u \in Uuids : tickets[u] = None \/ used[u] = None

(* The tombstone inherits the expiry of the ticket, so ticket and          *)
(* tombstone together cover exactly PairTimeout from the moment of         *)
(* issuing, however claims, revocations and prunes interleave.             *)
WindowCovered ==
  \A u \in Uuids :
    /\ tickets[u] # None => tickets[u].ttl + age[u] = PairTimeout
    /\ used[u] # None => used[u] + age[u] = PairTimeout
    /\ tickets[u] = None /\ used[u] = None => age[u] = PairTimeout

(* No replay ("preventing relay replay", authorization.go): a new ticket   *)
(* is issued for a UUID only a full PairTimeout after the previous one.    *)
ReplayWindow ==
  [][\A u \in Uuids : issued'[u] # issued[u] => age[u] = PairTimeout]_vars

(* The registered channel of a UUID is joined only by connections blocked  *)
(* on it, and never outlives the moment its UUID gets a ticket: whoever is *)
(* on the registered channel is told.                                      *)
RegisteredWaitersTold ==
  \A u \in Uuids :
    /\ \A c \in waiters[u] : pc[c] = "blocked" /\ req[c] = u
    /\ tickets[u] # None => waiters[u] = {}

Waiting == {c \in Conns : pc[c] \in WaitingPC}
WaitingFrom(ip) == {c \in Waiting : IpOf[c] = ip}

(* The auth-wait limiter counts exactly the connections that are inside    *)
(* the wait, in total and per address, on every path in and out of it.     *)
AuthWaitExact ==
  /\ waitTotal = Cardinality(Waiting)
  /\ \A ip \in Ips : waitByIP[ip] = Cardinality(WaitingFrom(ip))

(* "this independent cap is required to prevent random UUID floods from    *)
(* consuming unbounded sockets": no more connections wait than the caps    *)
(* allow.                                                                  *)
AuthWaitBounded ==
  /\ MaxWaitGlobal > 0 => Cardinality(Waiting) <= MaxWaitGlobal
  /\ MaxWaitPerIP > 0 =>
       \A ip \in Ips : Cardinality(WaitingFrom(ip)) <= MaxWaitPerIP

(* WaitForAuthorization: "authorization cannot race with waiter            *)
(* registration and get missed": a connection that sleeps in the select    *)
(* has no ticket to pick up.  Not an invariant: one waiter that gives up   *)
(* removes the channel of all of them.                                     *)
NoMissedAuthorization ==
  \A c \in Conns : pc[c] = "blocked" => tickets[req[c]] = None

=============================================================================
