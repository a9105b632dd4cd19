-------------------------------- MODULE BdRelay --------------------------------
(***************************************************************************)
(* The native relay of the panel (services/bdRelay.js): sessions that pair   *)
(* an initiator's and a target's WebSocket, the signal sockets that tell     *)
(* which devices are online, and the count of sockets per address.           *)
(*                                                                          *)
(* The panel runs one callback at a time: an action is one callback, and     *)
(* handleSignalConnection is two because it awaits the check of the token.   *)
(* A WebSocket that fails emits error and then close; close() only starts    *)
(* closing and the close event follows later.  Times are told apart by what  *)
(* the code compares them with: age[s] is 0 up to SESSION_TTL_MS, then 1,    *)
(* and 2 beyond twice that.  Frames pass unchanged and are left out.         *)
(***************************************************************************)
EXTENDS Naturals, FiniteSets

CONSTANTS
  Sessions,         \* relay sessions that may be created
  Devices,          \* devices with a signal socket
  MaxSockets,       \* bound: WebSockets, numbered as they come
  IPs,              \* client addresses
  IpOf,             \* the address a socket comes from
  TargetOf,         \* the target device of a session
  MAX_RELAY_PER_IP, \* sockets one address may hold
  None              \* an empty slot

Sockets == 1..MaxSockets

ASSUME RelayAssumption ==
  /\ MaxSockets \in Nat
  /\ IpOf \in [Sockets -> IPs]
  /\ TargetOf \in [Sessions -> Devices]
  /\ MAX_RELAY_PER_IP \in Nat \ {0}

ASSUME NoneAssumption == None \notin Sockets \cup Sessions \cup Devices

Roles == {"initiator", "target"}

VARIABLES
  session,     \* activeSessions' records, kept after they leave the map
  listed,      \* the sessions in activeSessions
  age,         \* how old a session is
  invited,     \* sessions whose target was sent its token
  sock,        \* the sockets
  online,      \* onlineDevices: the signal socket of a device
  count,       \* connectionsPerIp
  expiredAway, \* history: sessions a late arrival took out of the map
  miscounted   \* history: addresses whose count went wrong

vars == <<session, listed, age, invited, sock, online, count, expiredAway, miscounted>>

NewSocket == [st |-> "new", kind |-> "none", session |-> None, role |-> "none",
              device |-> None, timer |-> FALSE]
NewSession == [status |-> "none", ws |-> [r \in Roles |-> None]]

Arrives(k) == sock[k].st = "new" /\ \A j \in Sockets : sock[j].st = "new" => k <= j
Attached(k) == sock[k].kind \in {"relay", "signal"}
Open(k) == sock[k].st = "open"

incIpCount(k) == count' = [count EXCEPT ![IpOf[k]] = @ + 1]

(* Mutant of decIpCount: the last socket is never counted down. *)
decIpCountKeepsLast(k) == count' = [count EXCEPT ![IpOf[k]] = IF @ <= 1 THEN @ ELSE @ - 1]

\* A count that would fall below zero is dropped from the map, which reads as 0.
decIpCount(k) == count' = [count EXCEPT ![IpOf[k]] = IF @ = 0 THEN 0 ELSE @ - 1]
AtLimit(k) == count[IpOf[k]] >= MAX_RELAY_PER_IP

Init ==
  /\ session = [s \in Sessions |-> NewSession]
  /\ listed = {}
  /\ age = [s \in Sessions |-> 0]
  /\ invited = {}
  /\ sock = [k \in Sockets |-> NewSocket]
  /\ online = [d \in Devices |-> None]
  /\ count = [i \in IPs |-> 0]
  /\ expiredAway = {}
  /\ miscounted = {}

-----------------------------------------------------------------------------
(* Sessions.                                                                *)

createRelaySession(s) ==
  /\ session[s].status = "none"
  /\ session' = [session EXCEPT ![s].status = "pending"]
  /\ listed' = listed \cup {s}
  /\ UNCHANGED <<age, invited, sock, online, count, expiredAway, miscounted>>

\* Time passes for a session somebody may still look at.
Age(s) ==
  /\ session[s].status = "pending"
  /\ age[s] < 2
  /\ age' = [age EXCEPT ![s] = @ + 1]
  /\ UNCHANGED <<session, listed, invited, sock, online, count, expiredAway, miscounted>>

(* Mutant of teardownSession: only the initiator is closed. *)
HoldsFirst(s, k) == session[s].ws["initiator"] = k

Holds(s, k) == \E r \in Roles : session[s].ws[r] = k

\* teardownSession, for the sessions of gone that are in the map: they leave it
\* and the sockets of both slots are closed if still open.  socks is what the
\* callback has made of the sockets before it.
Teardown(gone, socks) ==
  LET S == gone \cap listed IN
    /\ session' = [s \in Sessions |->
                     IF s \in S THEN [session[s] EXCEPT !.status = "closed"] ELSE session[s]]
    /\ listed' = listed \ S
    /\ sock' = [k \in Sockets |->
                  IF socks[k].st = "open" /\ \E s \in S : Holds(s, k)
                  THEN [socks[k] EXCEPT !.st = "closing"] ELSE socks[k]]

-----------------------------------------------------------------------------
(* /ws/bd-relay.                                                            *)

Refuse(k) == sock' = [sock EXCEPT ![k].st = "closed", ![k].device = None]

(* Mutant of handleRelayConnection: the slot is not looked at. *)
SlotIgnored(s, r) == FALSE

SlotTaken(s, r) == session[s].ws[r] # None

\* A relay socket is turned away: too many sockets of its address, no such
\* session, or a slot already taken.
RelayRefused(k, s, r) ==
  /\ Arrives(k)
  /\ r = "target" => s \in invited
  /\ \/ AtLimit(k)
     \/ s \notin listed
     \/ SlotTaken(s, r) /\ ~(session[s].status = "pending" /\ age[s] > 0)
  /\ Refuse(k)
  /\ UNCHANGED <<session, listed, age, invited, online, count, expiredAway, miscounted>>

\* It comes too late for a session nobody has joined from the other side: the
\* session leaves the map and this socket is closed.
RelayTooLate(k, s, r) ==
  /\ Arrives(k)
  /\ r = "target" => s \in invited
  /\ ~AtLimit(k)
  /\ s \in listed
  /\ session[s].status = "pending" /\ age[s] > 0
  /\ listed' = listed \ {s}
  /\ expiredAway' = expiredAway \cup {s}
  /\ Refuse(k)
  /\ UNCHANGED <<session, age, invited, online, count, miscounted>>

\* It takes its slot; the second of the two activates the session.
RelayAttach(k, s, r) ==
  /\ Arrives(k)
  /\ r = "target" => s \in invited
  /\ ~AtLimit(k)
  /\ s \in listed
  /\ ~(session[s].status = "pending" /\ age[s] > 0)
  /\ ~SlotTaken(s, r)
  /\ LET ws == [session[s].ws EXCEPT ![r] = k] IN
       session' = [session EXCEPT ![s].ws = ws,
                     ![s].status = IF \A q \in Roles : ws[q] # None THEN "active" ELSE @]
  /\ sock' = [sock EXCEPT ![k] = [@ EXCEPT !.st = "open", !.kind = "relay", !.session = s,
                                             !.role = r, !.timer = TRUE]]
  /\ incIpCount(k)
  /\ UNCHANGED <<listed, age, invited, online, expiredAway, miscounted>>

\* The timer of the waiting side, SESSION_TTL_MS after it came.
WaitTimeout(k) ==
  /\ sock[k].timer
  /\ age[sock[k].session] > 0 \/ session[sock[k].session].status # "pending"
  /\ LET s == sock[k].session
         fired == [sock EXCEPT ![k].timer = FALSE]
     IN IF session[s].status # "pending" THEN sock' = fired /\ UNCHANGED <<session, listed>>
        ELSE Teardown({s}, fired)
  /\ UNCHANGED <<age, invited, online, count, expiredAway, miscounted>>

\* IDLE_TIMEOUT_MS without a frame in either direction of an active session.
IdleTimeout(s) ==
  /\ s \in listed
  /\ session[s].status = "active"
  /\ Teardown({s}, sock)
  /\ UNCHANGED <<age, invited, online, count, expiredAway, miscounted>>

-----------------------------------------------------------------------------
(* /ws/bd-signal.                                                           *)

Checking(k) == sock[k].st \in {"checking", "lost"} /\ ~Attached(k)

SignalArrives(k, d) ==
  /\ Arrives(k)
  /\ sock' = [sock EXCEPT ![k].st = "checking", ![k].device = d]
  /\ UNCHANGED <<session, listed, age, invited, online, count, expiredAway, miscounted>>

\* The device hangs up while its token is being checked; nobody listens yet.
SignalLost(k) ==
  /\ sock[k].st = "checking"
  /\ sock' = [sock EXCEPT ![k].st = "lost"]
  /\ UNCHANGED <<session, listed, age, invited, online, count, expiredAway, miscounted>>

\* The token is wrong, or its address has too many sockets.
SignalRefused(k) ==
  /\ Checking(k)
  /\ Refuse(k)
  /\ UNCHANGED <<session, listed, age, invited, online, count, expiredAway, miscounted>>

ReplaceOlder(k, d) ==
  [j \in Sockets |-> IF j = online[d] /\ Open(j) THEN [sock[j] EXCEPT !.st = "closing"] ELSE sock[j]]

\* The token is right: the socket replaces the one the device had.
SignalAttach(k) ==
  /\ Checking(k)
  /\ ~AtLimit(k)
  /\ LET d == sock[k].device IN
       /\ sock' = [ReplaceOlder(k, d) EXCEPT
                     ![k] = [@ EXCEPT !.st = IF sock[k].st = "checking" THEN "open" ELSE "lost",
                                      !.kind = "signal"]]
       /\ online' = [online EXCEPT ![d] = k]
  /\ incIpCount(k)
  /\ miscounted' = IF sock[k].st = "lost" THEN miscounted \cup {IpOf[k]} ELSE miscounted
  /\ UNCHANGED <<session, listed, age, invited, expiredAway>>

\* handleSignalMessage: the target accepts and is sent its token ...
relay_accept(k, s) ==
  /\ Open(k) /\ sock[k].kind = "signal" /\ sock[k].device = TargetOf[s]
  /\ s \in listed
  /\ session[s].status = "pending"
  /\ invited' = invited \cup {s}
  /\ UNCHANGED <<session, listed, age, sock, online, count, expiredAway, miscounted>>

\* ... or rejects, at any time while the session is in the map.
relay_reject(k, s) ==
  /\ Open(k) /\ sock[k].kind = "signal" /\ sock[k].device = TargetOf[s]
  /\ s \in listed
  /\ Teardown({s}, sock)
  /\ UNCHANGED <<age, invited, online, count, expiredAway, miscounted>>

-----------------------------------------------------------------------------
(* The end of a socket.                                                     *)

(* Mutant of the close handler: the entry goes whoever it belongs to. *)
ForgetAnyone(k) == [online EXCEPT ![sock[k].device] = None]

Forget(k) ==
  [d \in Devices |-> IF online[d] = k THEN None ELSE online[d]]

Ended(k, after) ==
  /\ decIpCount(k)
  /\ IF sock[k].kind = "relay"
     THEN Teardown({sock[k].session}, [sock EXCEPT ![k] = after]) /\ online' = online
     ELSE /\ sock' = [sock EXCEPT ![k] = after]
          /\ online' = Forget(k)
          /\ UNCHANGED <<session, listed>>
  /\ UNCHANGED <<age, invited, expiredAway>>

SocketError(k) ==
  /\ Open(k)
  /\ Ended(k, [sock[k] EXCEPT !.st = "closing", !.timer = FALSE])
  /\ miscounted' = miscounted \cup {IpOf[k]}

SocketClose(k) ==
  /\ sock[k].st \in {"open", "closing"}
  /\ Ended(k, [sock[k] EXCEPT !.st = "closed", !.timer = FALSE, !.device = None])
  /\ UNCHANGED miscounted

\* The tick every CLEANUP_INTERVAL.
cleanupSessions ==
  /\ Teardown({s \in listed : session[s].status = "pending" /\ age[s] = 2}, sock)
  /\ online' = [d \in Devices |-> IF online[d] # None /\ Open(online[d]) THEN online[d] ELSE None]
  /\ UNCHANGED <<age, invited, count, expiredAway, miscounted>>

Next ==
  \/ \E s \in Sessions : createRelaySession(s) \/ Age(s) \/ IdleTimeout(s)
  \/ \E k \in Sockets, s \in Sessions, r \in Roles :
       RelayRefused(k, s, r) \/ RelayTooLate(k, s, r) \/ RelayAttach(k, s, r)
  \/ \E k \in Sockets, d \in Devices : SignalArrives(k, d)
  \/ \E k \in Sockets : \/ WaitTimeout(k) \/ SocketError(k) \/ SocketClose(k)
                        \/ SignalLost(k) \/ SignalRefused(k) \/ SignalAttach(k)
  \/ \E k \in Sockets, s \in Sessions : relay_accept(k, s) \/ relay_reject(k, s)
  \/ cleanupSessions

(***************************************************************************)
(* Time passes, timers fire and a closing handshake ends; nothing is assumed *)
(* of the clients.                                                           *)
(***************************************************************************)
Fairness ==
  /\ \A s \in Sessions : WF_vars(Age(s))
  /\ \A k \in Sockets : WF_vars(WaitTimeout(k)) /\ WF_vars(sock[k].st = "closing" /\ SocketClose(k))
  /\ WF_vars(cleanupSessions)

Spec == Init /\ [][Next]_vars
FairSpec == Spec /\ Fairness

-----------------------------------------------------------------------------
(* Properties.                                                              *)

Socket == [st : {"new", "checking", "lost", "open", "closing", "closed"},
           kind : {"none", "relay", "signal"},
           session : Sessions \cup {None}, role : Roles \cup {"none"},
           device : Devices \cup {None}, timer : BOOLEAN]
Session == [status : {"none", "pending", "active", "closed"},
            ws : [Roles -> Sockets \cup {None}]]

BdTypeOK ==
  /\ session \in [Sessions -> Session]
  /\ listed \subseteq Sessions
  /\ age \in [Sessions -> 0..2]
  /\ invited \subseteq Sessions
  /\ sock \in [Sockets -> Socket]
  /\ online \in [Devices -> Sockets \cup {None}]
  /\ count \in [IPs -> Nat]
  /\ expiredAway \subseteq Sessions
  /\ miscounted \subseteq IPs

\* The header says tokens are single-use: no two sockets are ever attached with
\* the same token, that is to the same session in the same role.
TokenUsedOnce ==
  \A j, k \in Sockets :
    /\ sock[j].kind = "relay" /\ sock[k].kind = "relay"
    /\ sock[j].session = sock[k].session /\ sock[j].role = sock[k].role
    => j = k

\* A relay socket that is open belongs to a session in the map, so that a timer,
\* the sweep or its partner can still close it; the one exception is a session
\* that a late arrival took out of the map without closing the side that waits.
NoStrandedRelaySocket ==
  \A k \in Sockets :
    Open(k) /\ sock[k].kind = "relay" /\ sock[k].session \notin expiredAway
      => sock[k].session \in listed

\* A device is reached over its newest socket: an open signal socket is the one
\* onlineDevices holds, whatever the order in which sockets come, are replaced,
\* fail and close.
OnlineIsNewest ==
  \A k \in Sockets :
    Open(k) /\ sock[k].kind = "signal" => online[sock[k].device] = k

\* connectionsPerIp counts the sockets of the address whose close is still to
\* come, as long as none of them failed (error and close both count down) or
\* was lost while its token was checked (nobody counts it down).
Live(i) == {k \in Sockets : IpOf[k] = i /\ Attached(k) /\ sock[k].st \in {"open", "closing"}}
IpCountExact ==
  \A i \in IPs \ miscounted : count[i] = Cardinality(Live(i))

\* A side that waits is paired or closed in the end, again except in a session
\* a late arrival took out of the map.
WaitingReleased ==
  \A k \in Sockets, s \in Sessions :
    (Open(k) /\ sock[k].session = s /\ session[s].status = "pending")
      ~> (~Open(k) \/ session[s].status = "active" \/ s \in expiredAway)

=============================================================================
