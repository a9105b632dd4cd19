---------------------------- MODULE RelayServer ----------------------------
(***************************************************************************)
(* The relay server (betterdesk-server/relay/server.go, ws.go, mixed.go):  *)
(* what happens to a connection before and after the gate modelled in      *)
(* RelayAuthorization.                                                     *)
(*                                                                         *)
(* A handler takes a per-address connection slot, passes the gate, and     *)
(* either parks its connection in the pending map or picks up the one      *)
(* parked there and runs the relay session of both.  A parked connection   *)
(* leaves when it is paired, when its timer fires or when the server       *)
(* stops; the cleanup goroutine sweeps the pending map at the same time.   *)
(* The pending map is a sync.Map: each of its operations is atomic, a      *)
(* sequence of them is not, so each is an action of its own.               *)
(***************************************************************************)
EXTENDS RelayAuthorization

CONSTANTS
  Transport,   (* relayTransport of each connection: "tcp" or "ws"          *)
  MaxConnsIP,  (* cfg.RelayMaxConnsIP: both per-address limiters; 0 = none  *)
  Prompt       (* TRUE: no goroutine that can run is left waiting a tick    *)

ASSUME TransportAssumption == Transport \in [Conns -> {"tcp", "ws"}]
ASSUME LimitAssumption == MaxConnsIP \in Nat /\ Prompt \in BOOLEAN

VARIABLES
  pending,     (* s.pending: the parked connection of a UUID                *)
  done,        (* the done channel of a connection is closed                *)
  sock,        (* the socket of a connection is open                        *)
  timer,       (* time a parked connection has spent in its select          *)
  other,       (* the connection a session's handler picked up              *)
  connActive,  (* s.connLimiter.active                                      *)
  sessActive,  (* s.sessionLimiter.active                                   *)
  sessions,    (* s.ActiveSessions                                          *)
  sweep,       (* the cleanup goroutine: where it is and what it holds      *)
  panicked     (* a closed channel was closed again                         *)

pairVars  == <<pending, done, sock, timer, other>>
limitVars == <<connActive, sessActive, sessions>>
srvVars   == <<pairVars, limitVars, sweep, panicked>>
allVars   == <<vars, srvVars>>

(* Beyond the gate.  "idle": no connection; "parked": in the select of     *)
(* pairIncomingConn; "expired".."undone": its timeout branch; "loaded"..   *)
(* "freeing": the handler that runs the session; "closed": about to        *)
(* return; "handed": returned, the socket lives on in a session.           *)
ServerPC == GatePC \cup
  {"idle", "parked", "expired", "undone", "loaded", "unmapped", "slot1",
   "slot2", "starting", "copying", "freeing", "closed", "handed"}

(* The handler of the connection runs. *)
Running(c) == pc[c] \notin {"idle", "handed"}

(* The handler of the connection has picked up another connection. *)
OwnerPC == {"loaded", "unmapped", "slot1", "slot2", "starting", "copying"}

Move(c, label) ==
  /\ Goto(c, label)
  /\ UNCHANGED <<regVars, req, elapsed, claimed, capVars, stopping>>

(* The handler of c goes to label; the connections in gone, whose handlers *)
(* have returned already, leave the model with their socket.               *)
MoveAndDrop(c, label, gone) ==
  /\ pc' = [d \in Conns |-> IF d \in gone THEN "idle"
                            ELSE IF d = c THEN label ELSE pc[d]]
  /\ req' = [d \in Conns |-> IF d \in gone THEN None ELSE req[d]]
  /\ claimed' = [d \in Conns |-> IF d \in gone THEN 0 ELSE claimed[d]]
  /\ elapsed' = [d \in Conns |-> IF d \in gone THEN 0 ELSE elapsed[d]]
  /\ UNCHANGED <<regVars, capVars, stopping>>

Handed(c) == {d \in {c} : pc[d] = "handed"}

-----------------------------------------------------------------------------
(***************************************************************************)
(* Accepting a connection and returning from its handler.                  *)
(***************************************************************************)

(* ConnLimiter.Acquire's condition; a limiter exists when MaxConnsIP > 0. *)
HasSlot(active, ip) == MaxConnsIP = 0 \/ active[ip] < MaxConnsIP

(* ConnLimiter.Release removes the entry at zero, so it never goes below. *)
Freed(active, ip) ==
  IF MaxConnsIP = 0 \/ active[ip] = 0 THEN active
                                      ELSE [active EXCEPT ![ip] = @ - 1]

Taken(active, ip) ==
  IF MaxConnsIP = 0 THEN active ELSE [active EXCEPT ![ip] = @ + 1]

(* A connection slot of the model stands for a new connection only when no *)
(* goroutine still holds a pointer to the old one.                         *)
Unreferenced(c) ==
  /\ sweep.conn # c
  /\ \A d \in Conns : other[d] # c
  /\ \A u \in Uuids : pending[u] # c

(* handleConn and handleWSRelayUpgrade up to the first read; a connection  *)
(* over the limit is closed at once.                                       *)
Accept(c) ==
  /\ pc[c] = "idle"
  /\ ~stopping
  /\ Unreferenced(c)
  /\ HasSlot(connActive, IpOf[c])
  /\ connActive' = Taken(connActive, IpOf[c])
  /\ sock' = [sock EXCEPT ![c] = TRUE]
  /\ done' = [done EXCEPT ![c] = FALSE]
  /\ Move(c, "reading")
  /\ UNCHANGED <<pending, timer, other, sessActive, sessions, sweep,
                 panicked>>

(* The read, the message kind, the UUID or the claim failed. *)
CloseRejected(c) ==
  /\ pc[c] = "rejected"
  /\ sock' = [sock EXCEPT ![c] = FALSE]
  /\ Move(c, "closed")
  /\ UNCHANGED <<pending, done, timer, other, limitVars, sweep, panicked>>

(* Mutant of returning: the slot is kept while a session has the socket. *)
ReturnKeepsSlot(c) ==
  /\ pc[c] = "closed"
  /\ connActive' = IF sock[c] THEN connActive
                              ELSE Freed(connActive, IpOf[c])
  /\ MoveAndDrop(c, "handed", IF sock[c] THEN {} ELSE {c})
  /\ UNCHANGED <<pairVars, sessActive, sessions, sweep, panicked>>

(* The handler returns: the deferred Release of its connection slot.  The  *)
(* socket is left to the session if it is still open.                      *)
Return(c) ==
  /\ pc[c] = "closed"
  /\ connActive' = Freed(connActive, IpOf[c])
  /\ MoveAndDrop(c, "handed", IF sock[c] THEN {} ELSE {c})
  /\ UNCHANGED <<pairVars, sessActive, sessions, sweep, panicked>>

-----------------------------------------------------------------------------
(***************************************************************************)
(* pairIncomingConn: the connection that comes first.                      *)
(***************************************************************************)

(* LoadOrStore(uuid, pc) *)
LoadOrStore(c) ==
  LET u == req[c] IN
  /\ pc[c] = "claimed"
  /\ \/ /\ pending[u] = None
        /\ pending' = [pending EXCEPT ![u] = c]
        /\ Move(c, "parked")
        /\ UNCHANGED other
     \/ /\ pending[u] # None
        /\ other' = [other EXCEPT ![c] = pending[u]]
        /\ Move(c, "loaded")
        /\ UNCHANGED pending
  /\ UNCHANGED <<done, sock, timer, limitVars, sweep, panicked>>

(* case <-pc.done *)
Paired(c) ==
  /\ pc[c] = "parked"
  /\ done[c]
  /\ timer' = [timer EXCEPT ![c] = 0]
  /\ Move(c, "closed")
  /\ UNCHANGED <<pending, done, sock, other, limitVars, sweep, panicked>>

(* Mutant of the select: no timer case. *)
OverOnStop(c) == stopping

(* The timer of the select has fired, or the context is done. *)
Over(c) == timer[c] >= PairTimeout \/ stopping

(* case <-timeAfter or <-s.ctx.Done: the Load.  When another connection or *)
(* none is in the map the handler just returns.                            *)
TimedOut(c) ==
  /\ pc[c] = "parked"
  /\ Over(c)
  /\ timer' = [timer EXCEPT ![c] = 0]
  /\ Move(c, IF pending[req[c]] = c THEN "expired" ELSE "closed")
  /\ UNCHANGED <<pending, done, sock, other, limitVars, sweep, panicked>>

(* s.pending.Delete(uuid): whatever is in the map by now. *)
TimeoutDelete(c) ==
  /\ pc[c] = "expired"
  /\ pending' = [pending EXCEPT ![req[c]] = None]
  /\ Move(c, "undone")
  /\ UNCHANGED <<done, sock, timer, other, limitVars, sweep, panicked>>

(* Mutants of the timeout branch: it closes the done channel too, or       *)
(* forgets to close the connection.                                        *)
TimeoutReleaseClosingDone(c) ==
  /\ pc[c] = "undone"
  /\ Release(req[c])
  /\ Goto(c, "closed")
  /\ claimed' = [claimed EXCEPT ![c] = 0]
  /\ sock' = [sock EXCEPT ![c] = FALSE]
  /\ panicked' = done[c]
  /\ done' = [done EXCEPT ![c] = TRUE]
  /\ UNCHANGED <<waiters, issued, age, req, elapsed, capVars, stopping>>
  /\ UNCHANGED <<pending, timer, other, limitVars, sweep>>

TimeoutReleaseKeepingOpen(c) ==
  /\ pc[c] = "undone"
  /\ Release(req[c])
  /\ Goto(c, "closed")
  /\ claimed' = [claimed EXCEPT ![c] = 0]
  /\ UNCHANGED <<waiters, issued, age, req, elapsed, capVars, stopping>>
  /\ UNCHANGED srvVars

(* authorizations.Release(uuid), then pc.close(). *)
TimeoutRelease(c) ==
  /\ pc[c] = "undone"
  /\ Release(req[c])
  /\ Goto(c, "closed")
  /\ claimed' = [claimed EXCEPT ![c] = 0]
  /\ sock' = [sock EXCEPT ![c] = FALSE]
  /\ UNCHANGED <<waiters, issued, age, req, elapsed, capVars, stopping>>
  /\ UNCHANGED <<pending, done, timer, other, limitVars, sweep, panicked>>

-----------------------------------------------------------------------------
(***************************************************************************)
(* pairIncomingConn and startRelay, startWSRelay, startMixedRelay: the     *)
(* connection that comes second.                                           *)
(***************************************************************************)

(* s.pending.Delete(uuid) *)
DeleteEntry(c) ==
  /\ pc[c] = "loaded"
  /\ pending' = [pending EXCEPT ![req[c]] = None]
  /\ Move(c, "unmapped")
  /\ UNCHANGED <<done, sock, timer, other, limitVars, sweep, panicked>>

(* close(existing.done): the Go runtime panics when it is closed already. *)
CloseDone(c) ==
  /\ pc[c] = "unmapped"
  /\ panicked' = done[other[c]]
  /\ done' = [done EXCEPT ![other[c]] = TRUE]
  /\ Move(c, "slot1")
  /\ UNCHANGED <<pending, sock, timer, other, limitVars, sweep>>

(* The order in which the session limiter is asked: the parked connection  *)
(* first, except that a mixed session starts with its TCP side.            *)
FirstOf(c) ==
  IF Transport[other[c]] = "ws" /\ Transport[c] = "tcp" THEN c ELSE other[c]

SecondOf(c) == IF FirstOf(c) = c THEN other[c] ELSE c

(* Closing both sockets of a session. *)
CloseBoth(c, label) ==
  /\ sock' = [sock EXCEPT ![c] = FALSE, ![other[c]] = FALSE]
  /\ other' = [other EXCEPT ![c] = None]
  /\ MoveAndDrop(c, label, Handed(other[c]))

(* Mutant of AcquireSession: a refusal is logged but not acted upon. *)
AcquireSessionUnchecked(c, from, to, d) ==
  /\ pc[c] = from
  /\ sessActive' = Taken(sessActive, IpOf[d])
  /\ Move(c, to)
  /\ UNCHANGED <<pairVars, connActive, sessions, sweep, panicked>>

(* sessionLimiter.Acquire for one of the two addresses.  On refusal both   *)
(* connections are closed and the function returns before the deferred     *)
(* Release is registered.                                                  *)
AcquireSession(c, from, to, d) ==
  /\ pc[c] = from
  /\ \/ /\ HasSlot(sessActive, IpOf[d])
        /\ sessActive' = Taken(sessActive, IpOf[d])
        /\ Move(c, to)
        /\ UNCHANGED <<sock, other>>
     \/ /\ ~HasSlot(sessActive, IpOf[d])
        /\ CloseBoth(c, "closed")
        /\ UNCHANGED sessActive
  /\ UNCHANGED <<pending, done, timer, connActive, sessions, sweep,
                 panicked>>

AcquireFirst(c) == AcquireSession(c, "slot1", "slot2", FirstOf(c))
AcquireSecond(c) == AcquireSession(c, "slot2", "starting", SecondOf(c))

(* ActiveSessions.Add(1) and onRelayStart; the copy goroutines start. *)
StartSession(c) ==
  /\ pc[c] = "starting"
  /\ sessions' = sessions + 1
  /\ Move(c, "copying")
  /\ UNCHANGED <<pairVars, connActive, sessActive, sweep, panicked>>

(* One direction of the copy has ended (close, error or idle timeout):     *)
(* onRelayEnd, both sockets, ActiveSessions.Add(-1).                       *)
EndSession(c) ==
  /\ pc[c] = "copying"
  /\ sessions' = sessions - 1
  /\ sock' = [sock EXCEPT ![c] = FALSE, ![other[c]] = FALSE]
  /\ Move(c, "freeing")
  /\ UNCHANGED <<pending, done, timer, other, connActive, sessActive,
                 sweep, panicked>>

(* The deferred sessionLimiter.Release of both addresses. *)
FreeSession(c) ==
  /\ pc[c] = "freeing"
  /\ sessActive' = Freed(Freed(sessActive, IpOf[other[c]]), IpOf[c])
  /\ CloseBoth(c, "closed")
  /\ UNCHANGED <<pending, done, timer, connActive, sessions, sweep,
                 panicked>>

-----------------------------------------------------------------------------
(***************************************************************************)
(* cleanupPending: one entry of the Range at a time.                       *)
(***************************************************************************)
Resting == [at |-> "rest", conn |-> None, uuid |-> None]

(* time.Since(pc.created) > RelayPairTimeout.  elapsed counts whole ticks: *)
(* a count of RelayPairTimeout stands for any duration from there up to    *)
(* one tick more, so the strict comparison can hold.                       *)
Stale(c) == elapsed[c] >= PairTimeout

(* Range yields an entry and its age test succeeds. *)
SweepVisit(u) ==
  /\ sweep = Resting
  /\ pending[u] # None
  /\ Stale(pending[u])
  /\ sweep' = [at |-> "visited", conn |-> pending[u], uuid |-> u]
  /\ UNCHANGED <<vars, pairVars, limitVars, panicked>>

(* LoadAndDelete(key): the entry may be another one by now, or none. *)
SweepDelete ==
  /\ sweep.at = "visited"
  /\ \/ /\ pending[sweep.uuid] # None
        /\ pending' = [pending EXCEPT ![sweep.uuid] = None]
        /\ sweep' = [sweep EXCEPT !.at = "deleted"]
     \/ /\ pending[sweep.uuid] = None
        /\ sweep' = Resting
        /\ UNCHANGED pending
  /\ UNCHANGED <<vars, done, sock, timer, other, limitVars, panicked>>

(* authorizations.Release(key) *)
SweepRelease ==
  /\ sweep.at = "deleted"
  /\ Release(sweep.uuid)
  /\ claimed' = [claimed EXCEPT ![sweep.conn] = 0]
  /\ sweep' = [sweep EXCEPT !.at = "released"]
  /\ UNCHANGED <<waiters, issued, age, pc, req, elapsed, capVars, stopping>>
  /\ UNCHANGED <<pairVars, limitVars, panicked>>

(* pc.close() and close(pc.done) of the entry Range yielded. *)
SweepClose ==
  /\ sweep.at = "released"
  /\ sock' = [sock EXCEPT ![sweep.conn] = FALSE]
  /\ panicked' = done[sweep.conn]
  /\ done' = [done EXCEPT ![sweep.conn] = TRUE]
  /\ sweep' = Resting
  /\ MoveAndDrop(None, "closed", Handed(sweep.conn))
  /\ UNCHANGED <<pending, timer, other, limitVars>>

(* The rest of an iteration of the Range. *)
SweepStep ==
  \/ SweepDelete
  \/ SweepRelease
  \/ SweepClose

-----------------------------------------------------------------------------
(* The points at which a handler waits for something that takes time. *)
Waits(c) ==
  \/ pc[c] \in {"idle", "reading", "copying", "handed"}
  \/ pc[c] = "blocked" /\ ~WaitOver(c)
  \/ pc[c] = "parked" /\ ~done[c] /\ ~Over(c)

(* A tick; with Prompt it waits for every goroutine that can run. *)
ServerTick ==
  /\ Prompt => sweep = Resting /\ \A c \in Conns : Waits(c)
  /\ Advance(WaitingPC \cup {"claimed", "parked", "expired"})
  /\ timer' = [c \in Conns |-> IF pc[c] = "parked"
                                 THEN Min2(timer[c] + 1, PairTimeout)
                                 ELSE timer[c]]
  /\ UNCHANGED <<pending, done, sock, other, limitVars, sweep, panicked>>

Handler(c) ==
  \/ Gate(c) /\ UNCHANGED srvVars
  \/ CloseRejected(c)
  \/ Return(c)
  \/ LoadOrStore(c)
  \/ Paired(c)
  \/ TimedOut(c)
  \/ TimeoutDelete(c)
  \/ TimeoutRelease(c)
  \/ DeleteEntry(c)
  \/ CloseDone(c)
  \/ AcquireFirst(c)
  \/ AcquireSecond(c)
  \/ StartSession(c)
  \/ FreeSession(c)

ServerInit ==
  /\ InitAt("idle")
  /\ pending = [u \in Uuids |-> None]
  /\ done = [c \in Conns |-> FALSE]
  /\ sock = [c \in Conns |-> FALSE]
  /\ timer = [c \in Conns |-> 0]
  /\ other = [c \in Conns |-> None]
  /\ connActive = [ip \in Ips |-> 0]
  /\ sessActive = [ip \in Ips |-> 0]
  /\ sessions = 0
  /\ sweep = Resting
  /\ panicked = FALSE

(* What signal, the clients and the operator do. *)
Environment ==
  \/ \E u \in Uuids, pair \in Pairs : Authorize(u, pair) /\ UNCHANGED srvVars
  \/ \E p \in Peers : RevokeForPeer(p) /\ UNCHANGED srvVars
  \/ \E c \in Conns : Accept(c)
  \/ \E c \in Conns, u \in Uuids : Request(c, u) /\ UNCHANGED srvVars
  \/ \E c \in Conns : BadRequest(c) /\ UNCHANGED srvVars
  \/ \E c \in Conns : EndSession(c)
  \/ \E u \in Uuids : SweepVisit(u)
  \/ Stop /\ UNCHANGED srvVars

(* A panic ends the process. *)
ServerNext ==
  \/ ~panicked /\ Environment
  \/ \E c \in Conns : ~panicked /\ Handler(c)
  \/ ~panicked /\ SweepStep
  \/ ~panicked /\ ServerTick

(* The scheduler runs every goroutine that can run, and time passes.  That *)
(* a session ends or a client writes is up to the clients; when the sweep  *)
(* comes by is up to its ticker.                                           *)
ServerFairness ==
  /\ \A c \in Conns : WF_allVars(~panicked /\ Handler(c))
  /\ WF_allVars(~panicked /\ SweepStep)
  /\ WF_allVars(~panicked /\ ServerTick)

ServerSpec == ServerInit /\ [][ServerNext]_allVars
ServerFairSpec == ServerSpec /\ ServerFairness

-----------------------------------------------------------------------------
(***************************************************************************)
(* Properties.                                                             *)
(***************************************************************************)

(* Type invariant of the server. *)
ServerTypeOK ==
  /\ pc \in [Conns -> ServerPC]
  /\ pending \in [Uuids -> Conns \cup {None}]
  /\ done \in [Conns -> BOOLEAN]
  /\ sock \in [Conns -> BOOLEAN]
  /\ timer \in [Conns -> 0..PairTimeout]
  /\ other \in [Conns -> Conns \cup {None}]
  /\ \A c \in Conns : pc[c] \in OwnerPC \cup {"freeing"} <=> other[c] # None
  /\ connActive \in [Ips -> Nat]
  /\ sessActive \in [Ips -> Nat]
  /\ sessions \in Nat
  /\ sweep \in [at : {"rest", "visited", "deleted", "released"},
                conn : Conns \cup {None}, uuid : Uuids \cup {None}]
  /\ panicked \in BOOLEAN

From(ip) == {c \in Conns : IpOf[c] = ip}

(* The connection limiter counts exactly the handlers that run, and they   *)
(* never exceed the limit: every return path releases its slot once.       *)
ConnLimiterExact ==
  MaxConnsIP > 0 =>
    \A ip \in Ips :
      /\ connActive[ip] = Cardinality({c \in From(ip) : Running(c)})
      /\ connActive[ip] <= MaxConnsIP

(* The session slots the running handlers hold for an address. *)
HeldSlots(ip) ==
  Cardinality({c \in Conns : /\ pc[c] \in {"slot2", "starting", "copying",
                                           "freeing"}
                             /\ IpOf[FirstOf(c)] = ip})
  + Cardinality({c \in Conns : /\ pc[c] \in {"starting", "copying", "freeing"}
                               /\ IpOf[SecondOf(c)] = ip})

(* No address ever has more sessions than the limit: the limiter counts at *)
(* least the slots in use.                                                 *)
SessionLimitSound ==
  MaxConnsIP > 0 =>
    \A ip \in Ips : HeldSlots(ip) <= sessActive[ip] /\ sessActive[ip] <= MaxConnsIP

(* "active paired sessions per IP (post-pair)" (server.go), and Release    *)
(* "must be called when a relay connection closes" (connlimiter.go): the   *)
(* session limiter counts the slots in use and no others.  Not an          *)
(* invariant: the slot of a pair that is refused for its second address    *)
(* is never given back.                                                    *)
SessionSlotsExact ==
  MaxConnsIP > 0 => \A ip \in Ips : sessActive[ip] = HeldSlots(ip)

(* A connection is in at most one session: two handlers never pick up the  *)
(* same parked connection, nor one that is itself running a session.       *)
SessionExclusive ==
  \A c, d \in Conns :
    /\ other[c] # None /\ other[c] = other[d] => c = d
    /\ other[c] = d => other[d] = None

(* "done chan struct{} // closed when paired or timed out" (server.go):    *)
(* whoever takes a connection out of the pending map closes its done       *)
(* channel, once.  A second close panics and ends the process.             *)
NoDoubleClose == ~panicked

(* An open socket always has an owner: its handler, the session it was     *)
(* handed to, or the sweep about to close it.                              *)
NoStrandedSocket ==
  \A c \in Conns :
    sock[c] /\ ~Running(c) =>
      \/ \E d \in Conns : other[d] = c
      \/ sweep.conn = c /\ sweep.at # "visited"

(* Claim "reserves one of the two connections needed for an authorized     *)
(* relay pair" (authorization.go): a ticket never has three holders.       *)
AtMostTwoHolders ==
  \A u \in Uuids, s \in 1..MaxTickets :
    Cardinality({c \in Conns : req[c] = u /\ claimed[c] = s}) <= 2

(* Every connection that asks for a UUID is taken care of, whatever signal *)
(* and its partner do: no wait for an authorization or for a partner goes  *)
(* on forever, it comes to be copied, handed to a session, or closed.      *)
RequestResolved ==
  \A c \in Conns :
    pc[c] = "claiming" ~> (pc[c] \in {"copying", "handed", "idle"} \/ panicked)

=============================================================================
