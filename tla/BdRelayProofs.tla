----------------------------- MODULE BdRelayProofs -----------------------------
(***************************************************************************)
(* Proofs about BdRelay, for every set of sessions, devices and addresses,   *)
(* every number of sockets and every limit per address.                      *)
(***************************************************************************)
EXTENDS BdRelay, FiniteSetTheorems, TLAPS

\* A socket has a kind once its handler attached it; while a signal socket can
\* still be used it knows its device, and a relay socket knows its token.
SocketStates ==
  \A k \in Sockets :
    /\ sock[k].st \in {"new", "checking"} => sock[k].kind = "none"
    /\ sock[k].st \in {"open", "closing"} => sock[k].kind # "none"
    /\ sock[k].st \in {"checking", "lost"} => sock[k].device \in Devices
    /\ sock[k].st \in {"open", "closing"} /\ sock[k].kind = "signal" => sock[k].device \in Devices
    /\ sock[k].kind = "relay" => sock[k].session \in Sessions /\ sock[k].role \in Roles
    /\ sock[k].kind # "relay" => ~sock[k].timer

\* An attached relay socket is in the slot of its token, also after its session
\* has left the map.
SlotHeld ==
  \A k \in Sockets :
    sock[k].kind = "relay" => session[sock[k].session].ws[sock[k].role] = k

BdInv ==
  /\ BdTypeOK
  /\ SocketStates
  /\ SlotHeld
  /\ NoStrandedRelaySocket
  /\ OnlineIsNewest

\* Nothing is attached at the start.
LEMMA BdInit == Init => BdInv
  <1> SUFFICES ASSUME Init PROVE BdInv
    OBVIOUS
  <1>1. BdTypeOK
    BY RelayAssumption, NoneAssumption DEF Init, BdTypeOK, NewSocket, NewSession, Roles, Socket, Session
  <1>2. SocketStates /\ SlotHeld /\ NoStrandedRelaySocket /\ OnlineIsNewest
    BY DEF Init, NewSocket, SocketStates, SlotHeld, NoStrandedRelaySocket, OnlineIsNewest, Open
  <1>3. QED
    BY <1>1, <1>2 DEF BdInv

-----------------------------------------------------------------------------
(* What steps do to the sockets.                                            *)

\* What most steps do to a socket: it keeps its token and its device, and at
\* most begins to close or is closed.
Fades(k) ==
  /\ sock'[k].kind = sock[k].kind
  /\ sock'[k].session = sock[k].session /\ sock'[k].role = sock[k].role
  /\ sock'[k].timer => sock[k].timer
  /\ \/ sock'[k].st = sock[k].st
     \/ sock[k].st = "open" /\ sock'[k].st = "closing"
     \/ sock'[k].st = "closed"
  /\ sock'[k].device = sock[k].device \/ sock'[k].st = "closed"

\* A step after which every socket is as it was or further gone keeps what its
\* state says of it.
LEMMA FadingKeeps ==
  ASSUME BdInv, \A k \in Sockets : Fades(k),
         \A s \in Sessions : session'[s].ws = session[s].ws
  PROVE  SocketStates' /\ SlotHeld'
  BY DEF BdInv, SocketStates, SlotHeld, Fades

\* teardownSession closes whatever is open in a slot of a session it takes out
\* of the map, and leaves the slots and all other sockets alone.
LEMMA TeardownFacts ==
  ASSUME BdTypeOK, NEW gone \in SUBSET Sessions, NEW socks \in [Sockets -> Socket],
         Teardown(gone, socks)
  PROVE  /\ session' \in [Sessions -> Session]
         /\ \A s \in Sessions : session'[s].ws = session[s].ws
         /\ listed' = listed \ gone
         /\ sock' \in [Sockets -> Socket]
         /\ \A k \in Sockets :
              \/ sock'[k] = socks[k]
              \/ socks[k].st = "open" /\ sock'[k] = [socks[k] EXCEPT !.st = "closing"]
         /\ \A k \in Sockets, s \in gone \cap listed : Holds(s, k) => sock'[k].st # "open"
  <1> DEFINE S == gone \cap listed
  <1>1. /\ session' = [s \in Sessions |->
                     IF s \in S THEN [session[s] EXCEPT !.status = "closed"] ELSE session[s]]
        /\ listed' = listed \ S
        /\ sock' = [k \in Sockets |->
                  IF socks[k].st = "open" /\ \E s \in S : Holds(s, k)
                  THEN [socks[k] EXCEPT !.st = "closing"] ELSE socks[k]]
    BY DEF Teardown
  <1> HIDE DEF S
  <1>2. /\ session' \in [Sessions -> Session]
        /\ \A s \in Sessions : session'[s].ws = session[s].ws
    BY <1>1 DEF BdTypeOK, Session
  <1>3. /\ sock' \in [Sockets -> Socket]
        /\ \A k \in Sockets :
              \/ sock'[k] = socks[k]
              \/ socks[k].st = "open" /\ sock'[k] = [socks[k] EXCEPT !.st = "closing"]
        /\ \A k \in Sockets, s \in S : Holds(s, k) => sock'[k].st # "open"
    BY <1>1 DEF Socket
  <1>4. QED
    BY <1>1, <1>2, <1>3 DEF S

\* A step of one socket that may tear down sessions: sockets only fade, and no
\* open relay socket stays behind in a session that left the map.
LEMMA TeardownKeeps ==
  ASSUME BdInv, NEW gone \in SUBSET Sessions, NEW socks \in [Sockets -> Socket],
         Teardown(gone, socks),
         \A k \in Sockets :
           /\ socks[k].kind = sock[k].kind
           /\ socks[k].session = sock[k].session /\ socks[k].role = sock[k].role
           /\ socks[k].timer => sock[k].timer
           /\ \/ socks[k].st = sock[k].st
              \/ sock[k].st = "open" /\ socks[k].st = "closing"
              \/ socks[k].st = "closed"
           /\ socks[k].device = sock[k].device \/ socks[k].st = "closed",
         UNCHANGED expiredAway
  PROVE  /\ session' \in [Sessions -> Session] /\ listed' \subseteq Sessions
         /\ sock' \in [Sockets -> Socket]
         /\ \A k \in Sockets : Fades(k) /\ (Open(k)' => socks[k] = sock'[k])
         /\ SocketStates' /\ SlotHeld' /\ NoStrandedRelaySocket'
  <1>1. BdTypeOK /\ SlotHeld /\ SocketStates /\ NoStrandedRelaySocket
    BY DEF BdInv
  <1>2. /\ session' \in [Sessions -> Session]
        /\ \A s \in Sessions : session'[s].ws = session[s].ws
        /\ listed' = listed \ gone
        /\ sock' \in [Sockets -> Socket]
        /\ \A k \in Sockets :
              \/ sock'[k] = socks[k]
              \/ socks[k].st = "open" /\ sock'[k] = [socks[k] EXCEPT !.st = "closing"]
        /\ \A k \in Sockets, s \in gone \cap listed : Holds(s, k) => sock'[k].st # "open"
    BY <1>1, TeardownFacts
  <1>3. \A k \in Sockets : Fades(k) /\ (Open(k)' => socks[k] = sock'[k])
    BY <1>2 DEF Fades, Socket, Open
  <1>4. SocketStates' /\ SlotHeld'
    BY <1>2, <1>3, FadingKeeps
  <1>5. NoStrandedRelaySocket'
    <2> SUFFICES ASSUME NEW k \in Sockets, Open(k)', sock'[k].kind = "relay",
                        sock'[k].session \notin expiredAway'
        PROVE sock'[k].session \in listed'
      BY DEF NoStrandedRelaySocket
    <2>1. Open(k) /\ sock[k].kind = "relay" /\ sock'[k].session = sock[k].session
      BY <1>3 DEF Fades, Open
    <2>2. sock[k].session \in listed /\ sock[k].session \in Sessions
      BY <2>1, <1>1 DEF NoStrandedRelaySocket, SocketStates
    <2>3. Holds(sock[k].session, k)
      BY <2>1, <1>1 DEF SlotHeld, Holds, SocketStates
    <2>4. sock[k].session \notin gone
      BY <2>2, <2>3, <1>2 DEF Open
    <2>5. QED
      BY <2>1, <2>2, <2>4, <1>2
  <1>6. QED
    BY <1>2, <1>3, <1>4, <1>5, <1>1 DEF BdTypeOK

-----------------------------------------------------------------------------
(* One lemma per group of actions.                                          *)

\* Creating, ageing and inviting touch no socket.
LEMMA SessionSteps ==
  ASSUME BdInv,
         \/ \E s \in Sessions : createRelaySession(s) \/ Age(s)
         \/ \E k \in Sockets, s \in Sessions : relay_accept(k, s)
  PROVE  BdInv'
  <1>1. BdTypeOK'
    <2>1. CASE \E s \in Sessions : createRelaySession(s)
      BY <2>1, SMTT(30) DEF BdInv, BdTypeOK, createRelaySession, Session
    <2>2. CASE \E s \in Sessions : Age(s)
      BY <2>2 DEF BdInv, BdTypeOK, Age
    <2>3. CASE \E k \in Sockets, s \in Sessions : relay_accept(k, s)
      BY <2>3 DEF BdInv, BdTypeOK, relay_accept
    <2>4. QED
      BY <2>1, <2>2, <2>3
  <1>2. /\ UNCHANGED <<sock, online, expiredAway>>
        /\ listed \subseteq listed'
        /\ \A s \in Sessions : session'[s].ws = session[s].ws
    BY DEF BdInv, BdTypeOK, createRelaySession, Age, relay_accept, Session
  <1>3. SocketStates' /\ SlotHeld' /\ NoStrandedRelaySocket' /\ OnlineIsNewest'
    BY <1>2 DEF BdInv, SocketStates, SlotHeld, NoStrandedRelaySocket, OnlineIsNewest, Open
  <1>4. QED
    BY <1>1, <1>3 DEF BdInv

\* A socket that is turned away is closed, and no other is touched.
LEMMA RefuseSteps ==
  ASSUME BdInv, NEW k \in Sockets, sock[k].st \in {"new", "checking", "lost"},
         sock[k].kind = "none", Refuse(k),
         UNCHANGED <<session, age, invited, online, count, miscounted>>,
         \/ UNCHANGED <<listed, expiredAway>>
         \/ \E s \in Sessions : listed' = listed \ {s} /\ expiredAway' = expiredAway \cup {s}
  PROVE  BdInv'
  <1>1. BdTypeOK'
    <2>1. /\ sock[k] \in Socket
          /\ sock' = [sock EXCEPT ![k] = [@ EXCEPT !.st = "closed", !.device = None]]
      BY DEF BdInv, BdTypeOK, Refuse
    <2>2. [sock[k] EXCEPT !.st = "closed", !.device = None] \in Socket
      BY <2>1 DEF Socket
    <2>3. sock' \in [Sockets -> Socket]
      BY <2>1, <2>2 DEF BdInv, BdTypeOK
    <2>4. QED
      BY <2>3 DEF BdInv, BdTypeOK
  <1>2. \A j \in Sockets : Fades(j)
    BY DEF BdInv, BdTypeOK, Refuse, Socket, Fades
  <1>3. SocketStates' /\ SlotHeld'
    BY <1>2, FadingKeeps
  <1>4. NoStrandedRelaySocket' /\ OnlineIsNewest'
    BY DEF BdInv, BdTypeOK, Refuse, Socket, NoStrandedRelaySocket, OnlineIsNewest, Open
  <1>5. QED
    BY <1>1, <1>3, <1>4 DEF BdInv

\* A relay socket takes the empty slot of its token.
LEMMA AttachStep ==
  ASSUME BdInv, NEW k \in Sockets, NEW s \in Sessions, NEW r \in Roles, RelayAttach(k, s, r)
  PROVE  BdInv'
  <1> DEFINE ws == [session[s].ws EXCEPT ![r] = k]
             status == IF \A q \in Roles : ws[q] # None THEN "active" ELSE session[s].status
  <1>1. /\ sock[k].st = "new" /\ session[s].ws[r] = None /\ s \in listed
        /\ session' = [session EXCEPT ![s] = [@ EXCEPT !.ws = ws, !.status = status]]
        /\ sock' = [sock EXCEPT ![k] = [@ EXCEPT !.st = "open", !.kind = "relay", !.session = s,
                                             !.role = r, !.timer = TRUE]]
        /\ count' = [count EXCEPT ![IpOf[k]] = @ + 1]
        /\ UNCHANGED <<listed, age, invited, online, expiredAway, miscounted>>
    BY DEF RelayAttach, Arrives, SlotTaken, incIpCount
  <1>2. ws \in [Roles -> Sockets \cup {None}] /\ status \in {"none", "pending", "active", "closed"}
    BY DEF BdInv, BdTypeOK, Session
  <1> HIDE DEF ws, status
  <1>3. session' \in [Sessions -> Session]
    BY <1>1, <1>2, ZenonT(30) DEF BdInv, BdTypeOK, Session
  <1>4. sock' \in [Sockets -> Socket]
    <2>1. [sock[k] EXCEPT !.st = "open", !.kind = "relay", !.session = s, !.role = r,
                          !.timer = TRUE] \in Socket
      BY ZenonT(30) DEF BdInv, BdTypeOK, Socket
    <2>2. QED
      BY <1>1, <2>1 DEF BdInv, BdTypeOK
  <1>5. BdTypeOK'
    BY <1>1, <1>3, <1>4, RelayAssumption DEF BdInv, BdTypeOK
  <1>6. SocketStates' /\ NoStrandedRelaySocket' /\ OnlineIsNewest'
    BY <1>1 DEF BdInv, BdTypeOK, Socket, SocketStates, NoStrandedRelaySocket, OnlineIsNewest, Open
  <1>7. SlotHeld'
    <2> SUFFICES ASSUME NEW j \in Sockets, sock'[j].kind = "relay"
        PROVE session'[sock'[j].session].ws[sock'[j].role] = j
      BY DEF SlotHeld
    <2>1. \A t \in Sessions : session'[t].ws = IF t = s THEN ws ELSE session[t].ws
      BY <1>1 DEF BdInv, BdTypeOK, Session
    <2>2. CASE j = k
      BY <2>1, <2>2, <1>1 DEF ws, BdInv, BdTypeOK, Session, Socket
    <2>3. CASE j # k
      <3>1. sock'[j] = sock[j] /\ session[sock[j].session].ws[sock[j].role] = j
        BY <2>3, <1>1 DEF BdInv, BdTypeOK, SlotHeld
      <3>2. sock[j].session \in Sessions /\ sock[j].role \in Roles
        BY <3>1 DEF BdInv, SocketStates
      <3>3. ~(sock[j].session = s /\ sock[j].role = r)
        BY <3>1, <1>1, NoneAssumption
      <3>4. QED
        BY <3>1, <3>2, <3>3, <2>1 DEF ws, BdInv, BdTypeOK, Session
    <2>4. QED
      BY <2>2, <2>3
  <1>8. QED
    BY <1>5, <1>6, <1>7 DEF BdInv

\* Timers, rejections and the clean-up tear sessions down.
LEMMA TimeoutSteps ==
  ASSUME BdInv,
         \/ \E k \in Sockets : WaitTimeout(k)
         \/ \E s \in Sessions : IdleTimeout(s)
         \/ \E k \in Sockets, s \in Sessions : relay_reject(k, s)
         \/ cleanupSessions
  PROVE  BdInv'
  <1>1. CASE \E k \in Sockets : WaitTimeout(k)
    <2>1. PICK k \in Sockets : WaitTimeout(k)
      BY <1>1
    <2> DEFINE socks == [sock EXCEPT ![k].timer = FALSE]
    <2>2. socks \in [Sockets -> Socket]
      <3>1. sock \in [Sockets -> Socket]
        BY DEF BdInv, BdTypeOK
      <3>2. [sock[k] EXCEPT !.timer = FALSE] \in Socket
        BY <3>1 DEF Socket
      <3> QED
        BY <3>1, <3>2
    <2>3. \A j \in Sockets :
            /\ socks[j].kind = sock[j].kind /\ socks[j].session = sock[j].session
            /\ socks[j].role = sock[j].role /\ socks[j].st = sock[j].st
            /\ socks[j].device = sock[j].device /\ (socks[j].timer => sock[j].timer)
      BY DEF BdInv, BdTypeOK, Socket
    <2>4. UNCHANGED <<age, invited, online, count, expiredAway, miscounted>>
      BY <2>1 DEF WaitTimeout
    <2>5. CASE sock' = socks /\ UNCHANGED <<session, listed>>
      <3>1. BdTypeOK'
        BY <2>2, <2>4, <2>5 DEF BdInv, BdTypeOK
      <3>2. \A j \in Sockets : Fades(j)
        BY <2>3, <2>5 DEF Fades
      <3>3. SocketStates' /\ SlotHeld'
        BY <3>2, <2>5, FadingKeeps
      <3>4. NoStrandedRelaySocket' /\ OnlineIsNewest'
        BY <2>3, <2>4, <2>5 DEF BdInv, NoStrandedRelaySocket, OnlineIsNewest, Open
      <3>5. QED
        BY <3>1, <3>3, <3>4 DEF BdInv
    <2>6. CASE Teardown({sock[k].session}, socks)
      <3>1. sock[k].session \in Sessions
        BY <2>1 DEF WaitTimeout, BdInv, SocketStates, BdTypeOK, Socket
      <3> HIDE DEF socks
      <3>2. /\ session' \in [Sessions -> Session] /\ listed' \subseteq Sessions
            /\ sock' \in [Sockets -> Socket]
            /\ \A j \in Sockets : Fades(j) /\ (Open(j)' => socks[j] = sock'[j])
            /\ SocketStates' /\ SlotHeld' /\ NoStrandedRelaySocket'
        BY <2>2, <2>3, <2>4, <2>6, <3>1, TeardownKeeps, ZenonT(30)
      <3>3. BdTypeOK'
        BY <3>2, <2>4 DEF BdInv, BdTypeOK
      <3>4. OnlineIsNewest'
        BY <3>2, <2>3, <2>4 DEF BdInv, OnlineIsNewest, Open
      <3>5. QED
        BY <3>2, <3>3, <3>4 DEF BdInv
    <2>7. QED
      BY <2>1, <2>5, <2>6 DEF WaitTimeout
  <1>2. ASSUME NEW gone \in SUBSET Sessions, Teardown(gone, sock),
               UNCHANGED <<age, invited, count, expiredAway, miscounted>>,
               online' \in [Devices -> Sockets \cup {None}],
               \A d \in Devices : online[d] \in Sockets /\ Open(online[d])
                                   => online'[d] = online[d]
        PROVE  BdInv'
    <2>1. sock \in [Sockets -> Socket]
      BY DEF BdInv, BdTypeOK
    <2>2. /\ session' \in [Sessions -> Session] /\ listed' \subseteq Sessions
          /\ sock' \in [Sockets -> Socket]
          /\ \A j \in Sockets : Fades(j) /\ (Open(j)' => sock[j] = sock'[j])
          /\ SocketStates' /\ SlotHeld' /\ NoStrandedRelaySocket'
      BY <2>1, <1>2, TeardownKeeps
    <2>3. BdTypeOK'
      BY <2>2, <1>2 DEF BdInv, BdTypeOK
    <2>4. OnlineIsNewest'
      <3> SUFFICES ASSUME NEW j \in Sockets, Open(j)', sock'[j].kind = "signal"
          PROVE online'[sock'[j].device] = j
        BY DEF OnlineIsNewest
      <3>1. Open(j) /\ sock[j].kind = "signal" /\ sock'[j].device = sock[j].device
        BY <2>2 DEF Open
      <3>2. sock[j].device \in Devices /\ online[sock[j].device] = j
        BY <3>1 DEF BdInv, OnlineIsNewest, SocketStates, Open
      <3>3. QED
        BY <3>1, <3>2, <1>2
    <2>5. QED
      BY <2>2, <2>3, <2>4 DEF BdInv
  <1>3. CASE \E s \in Sessions : IdleTimeout(s)
    BY <1>2, <1>3 DEF IdleTimeout, BdInv, BdTypeOK
  <1>4. CASE \E k \in Sockets, s \in Sessions : relay_reject(k, s)
    BY <1>2, <1>4 DEF relay_reject, BdInv, BdTypeOK
  <1>5. CASE cleanupSessions
    BY <1>2, <1>5, NoneAssumption DEF cleanupSessions, BdInv, BdTypeOK
  <1>6. QED
    BY <1>1, <1>3, <1>4, <1>5

\* A socket reports an error or closes: after is what its handler makes of it.
LEMMA EndSteps ==
  ASSUME BdInv, NEW k \in Sockets, SocketError(k) \/ SocketClose(k)
  PROVE  BdInv'
  <1>1. ASSUME NEW after \in Socket, Ended(k, after),
               sock[k].st \in {"open", "closing"},
               after.kind = sock[k].kind, after.session = sock[k].session,
               after.role = sock[k].role, after.timer = FALSE,
               \/ sock[k].st = "open" /\ after.st = "closing" /\ after.device = sock[k].device
               \/ after.st = "closed",
               miscounted' \subseteq IPs
        PROVE  BdInv'
    <2> DEFINE socks == [sock EXCEPT ![k] = after]
    <2>1. socks \in [Sockets -> Socket]
      BY DEF BdInv, BdTypeOK
    <2>2. \A j \in Sockets :
            /\ socks[j].kind = sock[j].kind
            /\ socks[j].session = sock[j].session /\ socks[j].role = sock[j].role
            /\ socks[j].timer => sock[j].timer
            /\ \/ socks[j].st = sock[j].st
               \/ sock[j].st = "open" /\ socks[j].st = "closing"
               \/ socks[j].st = "closed"
            /\ socks[j].device = sock[j].device \/ socks[j].st = "closed"
      BY <1>1 DEF BdInv, BdTypeOK
    <2>3. socks[k].st # "open" /\ \A j \in Sockets \ {k} : socks[j] = sock[j]
      BY <1>1 DEF BdInv, BdTypeOK
    <2>4. /\ UNCHANGED <<age, invited, expiredAway>>
          /\ count' \in [IPs -> Nat]
      BY <1>1, RelayAssumption DEF Ended, decIpCount, BdInv, BdTypeOK
    <2>5. CASE sock[k].kind = "relay"
      <3>1. Teardown({sock[k].session}, socks) /\ online' = online
        BY <2>5, <1>1 DEF Ended
      <3>2. {sock[k].session} \in SUBSET Sessions
        BY <2>5 DEF BdInv, SocketStates
      <3> HIDE DEF socks
      <3>3. /\ session' \in [Sessions -> Session] /\ listed' \subseteq Sessions
            /\ sock' \in [Sockets -> Socket]
            /\ \A j \in Sockets : Fades(j) /\ (Open(j)' => socks[j] = sock'[j])
            /\ SocketStates' /\ SlotHeld' /\ NoStrandedRelaySocket'
        BY <2>1, <2>2, <2>4, <3>1, <3>2, TeardownKeeps
      <3>4. BdTypeOK'
        BY <3>1, <3>3, <2>4, <1>1 DEF BdInv, BdTypeOK
      <3>5. OnlineIsNewest'
        BY <3>1, <3>3, <2>3 DEF BdInv, OnlineIsNewest, Open
      <3>6. QED
        BY <3>3, <3>4, <3>5 DEF BdInv
    <2>6. CASE sock[k].kind # "relay"
      <3>1. sock' = socks /\ online' = Forget(k) /\ UNCHANGED <<session, listed>>
        BY <2>6, <1>1 DEF Ended
      <3> HIDE DEF socks
      <3>2. \A j \in Sockets : Fades(j)
        BY <3>1, <2>2 DEF Fades
      <3>3. SocketStates' /\ SlotHeld'
        BY <3>1, <3>2, FadingKeeps
      <3>4. BdTypeOK'
        BY <3>1, <2>1, <2>4, <1>1 DEF BdInv, BdTypeOK, Forget
      <3>5. NoStrandedRelaySocket'
        BY <3>1, <2>2, <2>3, <2>4 DEF BdInv, NoStrandedRelaySocket, Open
      <3>6. OnlineIsNewest'
        <4> SUFFICES ASSUME NEW j \in Sockets, Open(j)', sock'[j].kind = "signal"
            PROVE online'[sock'[j].device] = j
          BY DEF OnlineIsNewest
        <4>1. j # k /\ sock'[j] = sock[j]
          BY <3>1, <2>3 DEF Open
        <4>2. sock[j].device \in Devices /\ online[sock[j].device] = j
          BY <4>1 DEF BdInv, OnlineIsNewest, SocketStates, Open
        <4>3. QED
          BY <4>1, <4>2, <3>1 DEF Forget
      <3>7. QED
        BY <3>3, <3>4, <3>5, <3>6 DEF BdInv
    <2>7. QED
      BY <2>5, <2>6
  <1>2. sock[k] \in Socket /\ IpOf[k] \in IPs /\ miscounted \subseteq IPs
    BY RelayAssumption DEF BdInv, BdTypeOK
  <1>3. CASE SocketError(k)
    <2> DEFINE after == [sock[k] EXCEPT !.st = "closing", !.timer = FALSE]
    <2>1. /\ after \in Socket /\ after.kind = sock[k].kind /\ after.session = sock[k].session
          /\ after.role = sock[k].role /\ after.timer = FALSE
          /\ after.st = "closing" /\ after.device = sock[k].device
      BY <1>2 DEF Socket
    <2>2. Ended(k, after) /\ sock[k].st = "open" /\ miscounted' \subseteq IPs
      BY <1>3, <1>2 DEF SocketError, Open
    <2> HIDE DEF after
    <2>3. QED
      BY <1>1, <2>1, <2>2
  <1>4. CASE SocketClose(k)
    <2> DEFINE after == [sock[k] EXCEPT !.st = "closed", !.timer = FALSE, !.device = None]
    <2>1. /\ after \in Socket /\ after.kind = sock[k].kind /\ after.session = sock[k].session
          /\ after.role = sock[k].role /\ after.timer = FALSE /\ after.st = "closed"
      BY <1>2 DEF Socket
    <2>2. Ended(k, after) /\ sock[k].st \in {"open", "closing"} /\ miscounted' \subseteq IPs
      BY <1>4, <1>2 DEF SocketClose
    <2> HIDE DEF after
    <2>3. QED
      BY <1>1, <2>1, <2>2
  <1>5. QED
    BY <1>3, <1>4

\* A signal socket comes or is lost while its token is checked.
LEMMA CheckingSteps ==
  ASSUME BdInv,
         \/ \E k \in Sockets, d \in Devices : SignalArrives(k, d)
         \/ \E k \in Sockets : SignalLost(k)
  PROVE  BdInv'
  <1>1. UNCHANGED <<session, listed, age, invited, online, count, expiredAway, miscounted>>
    BY DEF SignalArrives, SignalLost
  <1>2. PICK k \in Sockets, d \in Devices :
          /\ sock[k].kind = "none" /\ ~Open(k)
          /\ \/ sock' = [sock EXCEPT ![k] = [@ EXCEPT !.st = "checking", !.device = d]]
             \/ /\ sock[k].st = "checking"
                /\ sock' = [sock EXCEPT ![k] = [@ EXCEPT !.st = "lost"]]
    <2>1. CASE \E k \in Sockets, d \in Devices : SignalArrives(k, d)
      <3>1. PICK k \in Sockets, d \in Devices : SignalArrives(k, d)
        BY <2>1
      <3>2. sock[k].st = "new" /\ sock[k].kind = "none"
        BY <3>1 DEF SignalArrives, Arrives, BdInv, SocketStates
      <3>3. sock' = [sock EXCEPT ![k] = [@ EXCEPT !.st = "checking", !.device = d]]
        BY <3>1 DEF SignalArrives
      <3>4. QED
        BY <3>2, <3>3 DEF Open
    <2>2. CASE \E k \in Sockets : SignalLost(k)
      BY <2>2 DEF SignalLost, BdInv, SocketStates, Open
    <2>3. QED
      BY <2>1, <2>2
  <1>3. BdTypeOK'
    <2>1. sock[k] \in Socket
      BY DEF BdInv, BdTypeOK
    <2>2. /\ [sock[k] EXCEPT !.st = "checking", !.device = d] \in Socket
          /\ [sock[k] EXCEPT !.st = "lost"] \in Socket
      BY <2>1 DEF Socket
    <2>3. sock' \in [Sockets -> Socket]
      BY <1>2, <2>2 DEF BdInv, BdTypeOK
    <2>4. QED
      BY <2>3, <1>1 DEF BdInv, BdTypeOK
  <1>4. SocketStates' /\ SlotHeld' /\ NoStrandedRelaySocket' /\ OnlineIsNewest'
    <2>1. /\ \A j \in Sockets \ {k} : sock'[j] = sock[j]
          /\ sock'[k].kind = "none" /\ sock'[k].st \in {"checking", "lost"}
          /\ sock'[k].device \in Devices /\ sock'[k].timer = sock[k].timer
      <3>1. sock[k] \in Socket
        BY DEF BdInv, BdTypeOK
      <3>2. CASE sock' = [sock EXCEPT ![k] = [@ EXCEPT !.st = "checking", !.device = d]]
        BY <1>2, <3>1, <3>2 DEF BdInv, BdTypeOK, Socket
      <3>3. CASE sock[k].st = "checking" /\ sock' = [sock EXCEPT ![k] = [@ EXCEPT !.st = "lost"]]
        BY <1>2, <3>1, <3>3 DEF BdInv, BdTypeOK, Socket, SocketStates
      <3>4. QED
        BY <1>2, <3>2, <3>3
    <2>2. SocketStates'
      BY <1>2, <2>1 DEF BdInv, SocketStates
    <2>3. SlotHeld' /\ NoStrandedRelaySocket' /\ OnlineIsNewest'
      BY <1>1, <2>1 DEF BdInv, SlotHeld, NoStrandedRelaySocket, OnlineIsNewest, Open
    <2>4. QED
      BY <2>2, <2>3
  <1>5. QED
    BY <1>3, <1>4 DEF BdInv

\* A signal socket whose token is right replaces the one its device had.
LEMMA SignalAttachStep ==
  ASSUME BdInv, NEW k \in Sockets, SignalAttach(k)
  PROVE  BdInv'
  <1> DEFINE d == sock[k].device
             st == IF sock[k].st = "checking" THEN "open" ELSE "lost"
             new == [sock[k] EXCEPT !.st = st, !.kind = "signal"]
  <1>1. /\ sock[k].st \in {"checking", "lost"} /\ sock[k].kind = "none"
        /\ sock[k] \in Socket /\ d \in Devices /\ ~sock[k].timer
    BY DEF SignalAttach, Checking, Attached, BdInv, BdTypeOK, SocketStates, Socket
  <1>2. new \in Socket /\ new.st = st /\ new.kind = "signal" /\ new.device = d
        /\ new.timer = sock[k].timer
    BY <1>1 DEF Socket
  <1>3. ReplaceOlder(k, d)[k] = sock[k]
    BY <1>1 DEF ReplaceOlder, Open
  <1>4. \A j \in Sockets : [sock[j] EXCEPT !.st = "closing"] \in Socket
    BY DEF BdInv, BdTypeOK, Socket
  <1>5. ReplaceOlder(k, d) \in [Sockets -> Socket]
    BY <1>4 DEF ReplaceOlder, BdInv, BdTypeOK
  <1>6. sock' = [ReplaceOlder(k, d) EXCEPT ![k] = new]
    BY <1>3, <1>5 DEF SignalAttach
  <1>7. /\ online' = [online EXCEPT ![d] = k]
        /\ count' = [count EXCEPT ![IpOf[k]] = @ + 1]
        /\ miscounted' \subseteq miscounted \cup {IpOf[k]}
        /\ UNCHANGED <<session, listed, age, invited, expiredAway>>
    BY DEF SignalAttach, incIpCount
  <1>8. /\ sock'[k] = new
        /\ \A j \in Sockets \ {k} :
             \/ sock'[j] = sock[j] /\ ~(j = online[d] /\ Open(j))
             \/ Open(j) /\ sock'[j] = [sock[j] EXCEPT !.st = "closing"]
    BY <1>5, <1>6 DEF ReplaceOlder
  <1> HIDE DEF new, d
  <1>9. BdTypeOK'
    <2>1. sock' \in [Sockets -> Socket]
      BY <1>2, <1>5, <1>6
    <2>2. QED
      BY <2>1, <1>1, <1>7, RelayAssumption DEF BdInv, BdTypeOK
  <1>10. \A j \in Sockets \ {k} :
           /\ sock'[j].kind = sock[j].kind /\ sock'[j].session = sock[j].session
           /\ sock'[j].role = sock[j].role /\ sock'[j].timer = sock[j].timer
           /\ sock'[j].device = sock[j].device
           /\ \/ sock'[j].st = sock[j].st /\ ~(j = online[d] /\ Open(j))
              \/ sock[j].st = "open" /\ sock'[j].st = "closing"
    <2> SUFFICES ASSUME NEW j \in Sockets \ {k}
        PROVE  /\ sock'[j].kind = sock[j].kind /\ sock'[j].session = sock[j].session
               /\ sock'[j].role = sock[j].role /\ sock'[j].timer = sock[j].timer
               /\ sock'[j].device = sock[j].device
               /\ \/ sock'[j].st = sock[j].st /\ ~(j = online[d] /\ Open(j))
                  \/ sock[j].st = "open" /\ sock'[j].st = "closing"
      OBVIOUS
    <2>1. sock[j] \in Socket
      BY DEF BdInv, BdTypeOK
    <2>2. QED
      BY <2>1, <1>8 DEF Socket, Open
  <1>11. SocketStates' /\ SlotHeld' /\ NoStrandedRelaySocket'
    BY <1>1, <1>2, <1>7, <1>8, <1>10
       DEF BdInv, SocketStates, SlotHeld, NoStrandedRelaySocket, Open
  <1>12. OnlineIsNewest'
    <2> SUFFICES ASSUME NEW j \in Sockets, Open(j)', sock'[j].kind = "signal"
        PROVE online'[sock'[j].device] = j
      BY DEF OnlineIsNewest
    <2>1. CASE j = k
      BY <2>1, <1>1, <1>2, <1>7, <1>8 DEF BdInv, BdTypeOK
    <2>2. CASE j # k
      <3>1. /\ Open(j) /\ sock[j].kind = "signal" /\ sock'[j].device = sock[j].device
            /\ j # online[d]
        BY <2>2, <1>10 DEF Open
      <3>2. sock[j].device \in Devices /\ online[sock[j].device] = j
        BY <3>1 DEF BdInv, OnlineIsNewest, SocketStates, Open
      <3>3. QED
        BY <3>1, <3>2, <1>7 DEF BdInv, BdTypeOK
    <2>3. QED
      BY <2>1, <2>2
  <1>13. QED
    BY <1>9, <1>11, <1>12 DEF BdInv

\* One case per callback of bdRelay.js.
LEMMA BdStep == BdInv /\ [Next]_vars => BdInv'
  <1> SUFFICES ASSUME BdInv, [Next]_vars PROVE BdInv'
    OBVIOUS
  <1>1. CASE UNCHANGED vars
    BY <1>1 DEF vars, BdInv, BdTypeOK, SocketStates, SlotHeld, NoStrandedRelaySocket,
                OnlineIsNewest, Open
  <1>2. CASE \E s \in Sessions : createRelaySession(s) \/ Age(s)
    BY <1>2, SessionSteps
  <1>3. CASE \E k \in Sockets, s \in Sessions : relay_accept(k, s)
    BY <1>3, SessionSteps
  <1>4. CASE \E k \in Sockets, s \in Sessions, r \in Roles :
               RelayRefused(k, s, r) \/ RelayTooLate(k, s, r)
    <2>1. PICK k \in Sockets, s \in Sessions, r \in Roles :
            RelayRefused(k, s, r) \/ RelayTooLate(k, s, r)
      BY <1>4
    <2>2. sock[k].st = "new" /\ sock[k].kind = "none"
      BY <2>1 DEF RelayRefused, RelayTooLate, Arrives, BdInv, SocketStates
    <2>3. /\ Refuse(k)
          /\ UNCHANGED <<session, age, invited, online, count, miscounted>>
          /\ \/ UNCHANGED <<listed, expiredAway>>
             \/ listed' = listed \ {s} /\ expiredAway' = expiredAway \cup {s}
      BY <2>1 DEF RelayRefused, RelayTooLate
    <2>4. QED
      BY <2>2, <2>3, RefuseSteps
  <1>5. CASE \E k \in Sockets : SignalRefused(k)
    <2>1. PICK k \in Sockets : SignalRefused(k)
      BY <1>5
    <2>2. sock[k].st \in {"checking", "lost"} /\ sock[k].kind = "none"
      BY <2>1 DEF SignalRefused, Checking, Attached, BdInv, BdTypeOK, Socket
    <2>3. /\ Refuse(k)
          /\ UNCHANGED <<session, listed, age, invited, online, count, expiredAway, miscounted>>
      BY <2>1 DEF SignalRefused
    <2>4. QED
      BY <2>2, <2>3, RefuseSteps
  <1>6. CASE \E k \in Sockets, s \in Sessions, r \in Roles : RelayAttach(k, s, r)
    BY <1>6, AttachStep
  <1>7. CASE \/ \E k \in Sockets : WaitTimeout(k)
             \/ \E s \in Sessions : IdleTimeout(s)
             \/ \E k \in Sockets, s \in Sessions : relay_reject(k, s)
             \/ cleanupSessions
    BY <1>7, TimeoutSteps
  <1>8. CASE \E k \in Sockets : SocketError(k) \/ SocketClose(k)
    BY <1>8, EndSteps
  <1>9. CASE \/ \E k \in Sockets, d \in Devices : SignalArrives(k, d)
             \/ \E k \in Sockets : SignalLost(k)
    BY <1>9, CheckingSteps
  <1>10. CASE \E k \in Sockets : SignalAttach(k)
    BY <1>10, SignalAttachStep
  <1>11. QED
    BY <1>1, <1>2, <1>3, <1>4, <1>5, <1>6, <1>7, <1>8, <1>9, <1>10 DEF Next

\* The inductive invariant holds always.
LEMMA BdInvariant == Spec => []BdInv
  BY BdInit, BdStep, PTL DEF Spec

\* The maps of services/bdRelay.js keep their types and the history its own.
THEOREM BdTypeCorrect == Spec => []BdTypeOK
  <1>1. BdInv => BdTypeOK
    BY DEF BdInv
  <1>2. QED
    BY <1>1, BdInvariant, PTL

\* Tokens are single-use (the header of bdRelay.js): no two sockets are ever
\* attached with one token, since each of them would have to be in its slot,
\* and a slot is filled once and never emptied.
THEOREM TokenSingleUse == Spec => []TokenUsedOnce
  <1>1. BdInv => TokenUsedOnce
    BY DEF BdInv, SlotHeld, TokenUsedOnce
  <1>2. QED
    BY <1>1, BdInvariant, PTL

\* Teardown leaves no relay socket open outside the map, except in a session
\* that handleRelayConnection took out for a late arrival.
THEOREM RelaySocketsReachable == Spec => []NoStrandedRelaySocket
  <1>1. BdInv => NoStrandedRelaySocket
    BY DEF BdInv
  <1>2. QED
    BY <1>1, BdInvariant, PTL

\* onlineDevices holds the newest open signal socket of a device: the close of a
\* replaced socket never removes the entry of the one that replaced it.
THEOREM NewestSocketOnline == Spec => []OnlineIsNewest
  <1>1. BdInv => OnlineIsNewest
    BY DEF BdInv
  <1>2. QED
    BY <1>1, BdInvariant, PTL

-----------------------------------------------------------------------------
(* connectionsPerIp.                                                        *)

\* A socket whose close is still to come, and will be counted down.
LiveSocket(k) == Attached(k) /\ sock[k].st \in {"open", "closing"}

\* The sockets of an address can be counted.
LEMMA LiveFinite == \A i \in IPs : IsFiniteSet(Live(i))
  <1>1. IsFiniteSet(Sockets)
    BY RelayAssumption, FS_Interval DEF Sockets
  <1>2. QED
    BY <1>1, FS_Subset DEF Live

\* A step that neither counts nor makes a socket live or dead keeps the count.
LEMMA CountKept ==
  ASSUME BdTypeOK, IpCountExact, miscounted \subseteq miscounted',
         \A j \in Sockets : LiveSocket(j)' = LiveSocket(j),
         \A i \in IPs \ miscounted' : count'[i] = count[i]
  PROVE  IpCountExact'
  <1>1. \A i \in IPs : Live(i)' = Live(i)
    BY DEF Live, LiveSocket
  <1>2. QED
    BY <1>1 DEF IpCountExact

\* A socket is attached: one more is live and one more is counted.
LEMMA CountUp ==
  ASSUME BdTypeOK, IpCountExact, UNCHANGED miscounted, NEW k \in Sockets,
         ~LiveSocket(k), LiveSocket(k)', incIpCount(k),
         \A j \in Sockets \ {k} : LiveSocket(j)' = LiveSocket(j)
  PROVE  IpCountExact'
  <1> SUFFICES ASSUME NEW i \in IPs \ miscounted PROVE count'[i] = Cardinality(Live(i)')
    BY DEF IpCountExact
  <1>1. count[i] = Cardinality(Live(i)) /\ IsFiniteSet(Live(i))
    BY LiveFinite DEF IpCountExact
  <1>2. CASE i = IpOf[k]
    <2>1. Live(i)' = Live(i) \cup {k} /\ k \notin Live(i)
      BY <1>2 DEF Live, LiveSocket
    <2>2. Cardinality(Live(i)') = Cardinality(Live(i)) + 1
      BY <2>1, <1>1, FS_AddElement
    <2>3. QED
      BY <2>2, <1>1, <1>2 DEF incIpCount, BdTypeOK
  <1>3. CASE i # IpOf[k]
    <2>1. Live(i)' = Live(i)
      BY <1>3 DEF Live, LiveSocket
    <2>2. QED
      BY <2>1, <1>1, <1>3 DEF incIpCount, BdTypeOK
  <1>4. QED
    BY <1>2, <1>3

\* A socket is closed: it was counted, so the count does not stop at zero.
LEMMA CountDown ==
  ASSUME BdTypeOK, IpCountExact, UNCHANGED miscounted, NEW k \in Sockets,
         LiveSocket(k), ~LiveSocket(k)', decIpCount(k),
         \A j \in Sockets \ {k} : LiveSocket(j)' = LiveSocket(j)
  PROVE  IpCountExact'
  <1> SUFFICES ASSUME NEW i \in IPs \ miscounted PROVE count'[i] = Cardinality(Live(i)')
    BY DEF IpCountExact
  <1>1. count[i] = Cardinality(Live(i)) /\ IsFiniteSet(Live(i)) /\ count[i] \in Nat
    BY LiveFinite DEF IpCountExact, BdTypeOK
  <1>2. CASE i = IpOf[k]
    <2>1. Live(i)' = Live(i) \ {k} /\ k \in Live(i)
      BY <1>2 DEF Live, LiveSocket
    <2>2. Cardinality(Live(i)') = Cardinality(Live(i)) - 1
      BY <2>1, <1>1, FS_RemoveElement
    <2>3. Cardinality(Live(i)) # 0
      BY <2>1, <1>1, FS_EmptySet
    <2>4. QED
      BY <2>2, <2>3, <1>1, <1>2 DEF decIpCount, BdTypeOK
  <1>3. CASE i # IpOf[k]
    <2>1. Live(i)' = Live(i)
      BY <1>3 DEF Live, LiveSocket
    <2>2. QED
      BY <2>1, <1>1, <1>3 DEF decIpCount, BdTypeOK
  <1>4. QED
    BY <1>2, <1>3

\* Tearing down closes sockets, but their close events are still to come.
LEMMA TeardownLive ==
  ASSUME BdInv, NEW gone \in SUBSET Sessions, NEW socks \in [Sockets -> Socket],
         Teardown(gone, socks), NEW j \in Sockets, socks[j].kind = sock[j].kind
  PROVE  LiveSocket(j)' = (Attached(j) /\ socks[j].st \in {"open", "closing"})
  <1>1. /\ BdTypeOK /\ socks[j] \in Socket
        /\ \/ sock'[j] = socks[j]
           \/ socks[j].st = "open" /\ sock'[j] = [socks[j] EXCEPT !.st = "closing"]
    BY TeardownFacts DEF BdInv
  <1>2. sock'[j].kind = socks[j].kind
    BY <1>1 DEF Socket
  <1>3. sock'[j].st \in {"open", "closing"} <=> socks[j].st \in {"open", "closing"}
    BY <1>1 DEF Socket
  <1>4. QED
    BY <1>2, <1>3 DEF LiveSocket, Attached

\* Only the arrival and the end of a socket change the count, by one each.
LEMMA CountStep == BdInv /\ IpCountExact /\ [Next]_vars => IpCountExact'
  <1> SUFFICES ASSUME BdInv, IpCountExact, [Next]_vars PROVE IpCountExact'
    OBVIOUS
  <1>1. BdTypeOK /\ SocketStates /\ sock \in [Sockets -> Socket]
    BY DEF BdInv, BdTypeOK
  <1>2. CASE UNCHANGED <<count, miscounted, sock>>
    BY <1>1, <1>2, CountKept DEF LiveSocket, Attached
  <1>3. CASE /\ UNCHANGED <<count, miscounted>>
             /\ \E k \in Sockets, t \in {"checking", "lost", "closed"}, d \in Devices \cup {None} :
                  /\ ~LiveSocket(k)
                  /\ sock' = [sock EXCEPT ![k].st = t, ![k].device = d]
    <2>1. \A j \in Sockets : LiveSocket(j)' = LiveSocket(j)
      BY <1>1, <1>3 DEF LiveSocket, Attached, Socket
    <2>2. QED
      BY <2>1, <1>1, <1>3, CountKept
  <1>4. ASSUME NEW k \in Sockets, NEW s \in Sessions, NEW r \in Roles, RelayAttach(k, s, r)
        PROVE  IpCountExact'
    <2>1. ~LiveSocket(k) /\ UNCHANGED miscounted /\ incIpCount(k)
      BY <1>4 DEF RelayAttach, Arrives, LiveSocket
    <2>2. LiveSocket(k)' /\ \A j \in Sockets \ {k} : LiveSocket(j)' = LiveSocket(j)
      BY <1>1, <1>4 DEF RelayAttach, LiveSocket, Attached, Socket
    <2>3. QED
      BY <2>1, <2>2, <1>1, CountUp
  <1>5. ASSUME NEW k \in Sockets, SignalAttach(k) PROVE IpCountExact'
    <2>1. /\ sock[k].st \in {"checking", "lost"} /\ incIpCount(k) /\ ~LiveSocket(k)
          /\ sock[k] \in Socket
      BY <1>5, <1>1 DEF SignalAttach, Checking, LiveSocket
    <2>2. \A j \in Sockets \ {k} : LiveSocket(j)' = LiveSocket(j)
      <3> SUFFICES ASSUME NEW j \in Sockets \ {k} PROVE LiveSocket(j)' = LiveSocket(j)
        OBVIOUS
      <3>1. \/ sock'[j] = sock[j]
            \/ sock[j].st = "open" /\ sock'[j] = [sock[j] EXCEPT !.st = "closing"]
        BY <1>5 DEF SignalAttach, ReplaceOlder, Open
      <3>2. sock[j] \in Socket
        BY <1>1
      <3>3. QED
        BY <3>1, <3>2 DEF LiveSocket, Attached, Socket
    <2>3. /\ sock'[k].kind = "signal"
          /\ sock'[k].st = IF sock[k].st = "checking" THEN "open" ELSE "lost"
      <3>1. ReplaceOlder(k, sock[k].device)[k] = sock[k]
        BY <2>1 DEF ReplaceOlder, Open
      <3>2. k \in DOMAIN ReplaceOlder(k, sock[k].device)
        BY DEF ReplaceOlder
      <3>3. sock'[k] = [sock[k] EXCEPT !.st = IF sock[k].st = "checking" THEN "open" ELSE "lost",
                                       !.kind = "signal"]
        BY <3>1, <3>2, <1>5 DEF SignalAttach
      <3>4. QED
        BY <3>3, <2>1 DEF Socket
    <2>4. CASE sock[k].st = "checking"
      BY <2>1, <2>2, <2>3, <2>4, <1>1, <1>5, CountUp DEF SignalAttach, LiveSocket, Attached
    <2>5. CASE sock[k].st = "lost"
      <3>1. LiveSocket(k)' = LiveSocket(k)
        BY <2>3, <2>5, <2>1 DEF LiveSocket
      <3>2. miscounted' = miscounted \cup {IpOf[k]}
        BY <1>5, <2>5 DEF SignalAttach
      <3>3. \A i \in IPs \ miscounted' : count'[i] = count[i]
        BY <3>2, <2>1, <1>1 DEF incIpCount, BdTypeOK
      <3>4. QED
        BY <3>1, <3>2, <3>3, <2>2, <1>1, CountKept
    <2>6. QED
      BY <2>1, <2>4, <2>5
  <1>6. ASSUME NEW gone \in SUBSET Sessions, NEW socks \in [Sockets -> Socket],
               Teardown(gone, socks), UNCHANGED <<count, miscounted>>,
               \A j \in Sockets : socks[j].kind = sock[j].kind /\ socks[j].st = sock[j].st
        PROVE  IpCountExact'
    <2>1. \A j \in Sockets : LiveSocket(j)' = LiveSocket(j)
      BY <1>6, TeardownLive DEF LiveSocket
    <2>2. QED
      BY <2>1, <1>1, <1>6, CountKept
  <1>7. ASSUME NEW k \in Sockets, WaitTimeout(k) PROVE IpCountExact'
    <2> DEFINE socks == [sock EXCEPT ![k].timer = FALSE]
    <2>1. /\ socks \in [Sockets -> Socket]
          /\ \A j \in Sockets : socks[j].kind = sock[j].kind /\ socks[j].st = sock[j].st
      <3>1. PICK x \in Socket : x = sock[k]
        BY <1>1
      <3>2. PICK y : y = [x EXCEPT !.timer = FALSE]
        OBVIOUS
      <3>3. y \in Socket /\ y.kind = x.kind /\ y.st = x.st
        BY <3>2 DEF Socket
      <3>4. socks = [sock EXCEPT ![k] = y]
        BY <3>1, <3>2
      <3> QED
        BY <1>1, <3>1, <3>3, <3>4
    <2>2. {sock[k].session} \in SUBSET Sessions
      BY <1>1, <1>7 DEF WaitTimeout, SocketStates, Socket
    <2>3. UNCHANGED <<count, miscounted>> /\ (sock' = socks \/ Teardown({sock[k].session}, socks))
      BY <1>7 DEF WaitTimeout
    <2> HIDE DEF socks
    <2>4. CASE sock' = socks
      BY <2>1, <2>3, <2>4, <1>1, CountKept DEF LiveSocket, Attached
    <2>5. CASE Teardown({sock[k].session}, socks)
      BY <2>1, <2>2, <2>3, <2>5, <1>6
    <2>6. QED
      BY <2>3, <2>4, <2>5
  <1>8. ASSUME NEW k \in Sockets, SocketError(k) \/ SocketClose(k) PROVE IpCountExact'
    <2>1. ASSUME NEW after \in Socket, Ended(k, after), after.kind = sock[k].kind
          PROVE  /\ LiveSocket(k)' = (Attached(k) /\ after.st \in {"open", "closing"})
                 /\ \A j \in Sockets \ {k} : LiveSocket(j)' = LiveSocket(j)
      <3> DEFINE socks == [sock EXCEPT ![k] = after]
      <3>1. /\ socks \in [Sockets -> Socket] /\ socks[k] = after
            /\ \A j \in Sockets \ {k} : socks[j] = sock[j]
            /\ \A j \in Sockets : socks[j].kind = sock[j].kind
        BY <1>1, <2>1
      <3>2. CASE sock[k].kind = "relay"
        <4>1. Teardown({sock[k].session}, socks) /\ {sock[k].session} \in SUBSET Sessions
          BY <3>2, <2>1, <1>1 DEF Ended, SocketStates
        <4> HIDE DEF socks
        <4>2. \A j \in Sockets : LiveSocket(j)' = (Attached(j) /\ socks[j].st \in {"open", "closing"})
          BY <4>1, <3>1, TeardownLive
        <4>3. QED
          BY <4>2, <3>1 DEF LiveSocket
      <3>3. CASE sock[k].kind # "relay"
        <4>1. sock' = socks
          BY <3>3, <2>1 DEF Ended
        <4> HIDE DEF socks
        <4>2. QED
          BY <4>1, <3>1 DEF LiveSocket, Attached
      <3>4. QED
        BY <3>2, <3>3
    <2>2. sock[k] \in Socket /\ IpOf[k] \in IPs
      BY <1>1, RelayAssumption
    <2>3. Open(k) \/ sock[k].st = "closing" => LiveSocket(k)
      BY <1>1 DEF LiveSocket, Attached, SocketStates, Open, Socket
    <2>4. CASE SocketError(k)
      <3> DEFINE after == [sock[k] EXCEPT !.st = "closing", !.timer = FALSE]
      <3>1. after \in Socket /\ after.kind = sock[k].kind /\ after.st = "closing"
        BY <2>2 DEF Socket
      <3>2. Ended(k, after) /\ Open(k) /\ miscounted' = miscounted \cup {IpOf[k]}
        BY <2>4 DEF SocketError
      <3> HIDE DEF after
      <3>3. \A j \in Sockets : LiveSocket(j)' = LiveSocket(j)
        BY <3>1, <3>2, <2>1, <2>3 DEF LiveSocket
      <3>4. \A i \in IPs \ miscounted' : count'[i] = count[i]
        BY <3>2, <1>1 DEF Ended, decIpCount, BdTypeOK
      <3>5. QED
        BY <3>2, <3>3, <3>4, <1>1, CountKept
    <2>5. CASE SocketClose(k)
      <3> DEFINE after == [sock[k] EXCEPT !.st = "closed", !.timer = FALSE, !.device = None]
      <3>1. after \in Socket /\ after.kind = sock[k].kind /\ after.st = "closed"
        BY <2>2 DEF Socket
      <3>2. Ended(k, after) /\ UNCHANGED miscounted
        BY <2>5 DEF SocketClose
      <3>3. LiveSocket(k)
        BY <2>3, <2>5 DEF SocketClose, Open
      <3> HIDE DEF after
      <3>4. ~LiveSocket(k)' /\ \A j \in Sockets \ {k} : LiveSocket(j)' = LiveSocket(j)
        BY <3>1, <3>2, <2>1
      <3>5. decIpCount(k)
        BY <3>2 DEF Ended
      <3>6. QED
        BY <3>2, <3>3, <3>4, <3>5, <1>1, CountDown
    <2>6. QED
      BY <1>8, <2>4, <2>5
  <1>9. CASE UNCHANGED vars
    BY <1>2, <1>9 DEF vars
  <1>10. CASE \/ \E s \in Sessions : createRelaySession(s) \/ Age(s)
              \/ \E k \in Sockets, s \in Sessions : relay_accept(k, s)
    BY <1>2, <1>10 DEF createRelaySession, Age, relay_accept
  <1>11. CASE \/ \E s \in Sessions : IdleTimeout(s)
              \/ \E k \in Sockets, s \in Sessions : relay_reject(k, s)
              \/ cleanupSessions
    BY <1>1, <1>6, <1>11 DEF IdleTimeout, relay_reject, cleanupSessions, BdTypeOK
  <1>12. CASE \/ \E k \in Sockets, s \in Sessions, r \in Roles :
                   RelayRefused(k, s, r) \/ RelayTooLate(k, s, r)
              \/ \E k \in Sockets : SignalRefused(k)
    BY <1>3, <1>12, ZenonT(30) DEF RelayRefused, RelayTooLate, SignalRefused, Refuse, Arrives, Checking, LiveSocket
  <1>13. CASE \E k \in Sockets, d \in Devices : SignalArrives(k, d)
    BY <1>3, <1>13 DEF SignalArrives, Arrives, LiveSocket
  <1>14. CASE \E k \in Sockets : SignalLost(k)
    <2>1. PICK k \in Sockets : SignalLost(k)
      BY <1>14
    <2>2. \A j \in Sockets : LiveSocket(j)' = LiveSocket(j)
      BY <2>1, <1>1 DEF SignalLost, LiveSocket, Attached, Socket
    <2>3. QED
      BY <2>1, <2>2, <1>1, CountKept DEF SignalLost
  <1>15. QED
    BY <1>4, <1>5, <1>7, <1>8, <1>9, <1>10, <1>11, <1>12, <1>13, <1>14 DEF Next

\* connectionsPerIp is exact for every address none of whose sockets failed or
\* was lost while its token was checked: no order of arrivals, replacements,
\* teardowns and closes makes the limit per address drift.
THEOREM AddressCountExact == Spec => []IpCountExact
  <1>1. Init => IpCountExact
    <2> SUFFICES ASSUME Init, NEW i \in IPs PROVE count[i] = Cardinality(Live(i))
      BY DEF IpCountExact
    <2>1. Live(i) = {}
      BY DEF Live, Init, NewSocket, Attached
    <2>2. QED
      BY <2>1, FS_EmptySet DEF Init
  <1>2. QED
    BY <1>1, CountStep, BdInvariant, PTL DEF Spec

=============================================================================
