---------------------------- MODULE GuestBridge ----------------------------
(***************************************************************************)
(* The panel's WebSocket bridge for guests (web-nodejs/services/wsRelay.js *)
(* and the DELETE route of routes/guest.routes.js) as a client of one      *)
(* Guest Access Link.  The server's side of every API call is a step of    *)
(* GuestLink, which GuestGrant implements.                                 *)
(*                                                                         *)
(* The panel is one event loop: what runs between two awaits is one        *)
(* action.  An API call is three steps, the call, the server's decision    *)
(* and the reply, and other events come between them.  A promise is the    *)
(* index of its POST in the sequence posts.  All sockets of the model come *)
(* from one address; panel and server agree on the time.                   *)
(***************************************************************************)
EXTENDS GuestLink, Sequences, FiniteSets

CONSTANTS
  Sockets,      (* browser WebSockets, each used once                       *)
  Sessions,     (* guest_session values                                     *)
  SessionOf,    (* the guest_session of each socket                         *)
  OnRelay,      (* the sockets on /ws/relay; the rest are on /ws/rendezvous *)
  MaxConns,     (* MAX_CONNECTIONS_PER_IP                                   *)
  MaxMsgs,      (* bound of the model: messages each socket sends           *)
  Unreliable    (* whether an API call may fail at the panel                *)

ASSUME BridgeAssumption ==
  /\ SessionOf \in [Sockets -> Sessions]
  /\ OnRelay \subseteq Sockets
  /\ MaxConns \in Nat
  /\ MaxMsgs \in [Sockets -> Nat]
  /\ Unreliable \in BOOLEAN

VARIABLES
  expired,     (* the grant's expires_at has passed                         *)
  phase,       (* life of a socket                                          *)
  check,       (* its validate call: idle, asked, or the server's answer    *)
  timer,       (* guestValidationTimer is set                               *)
  received,    (* messages received from the browser                        *)
  validated,   (* guestRelayValidated                                       *)
  consumed,    (* guestSessionConsumed                                      *)
  waiting,     (* message handlers that await a promise: <<number, promise>> *)
  written,     (* messages written to the TCP side, in any order:            *)
               (* <<number, what the bridge took it for>>                   *)
  cause,       (* cleanupCause                                              *)
  posts,       (* consume calls made: session and state                     *)
  entry,       (* guestSessionStates: the promise kept for a session, or 0  *)
  forget,      (* sessions whose entry a lifetime timer will delete         *)
  revoking,    (* the DELETE request of this panel: idle, asked, revoked    *)
  charged,     (* history: uses the server took for a session               *)
  misled,      (* history: uses taken whose reply the panel never saw       *)
  invalidated  (* history: invalidateGuestGrant has run                     *)

sockVars == <<phase, check, timer, received, validated, consumed, waiting,
              written, cause>>
useVars  == <<posts, entry, forget, charged, misled>>
vars     == <<linkVars, expired, sockVars, useVars, revoking, invalidated>>

Kinds == {"opening", "data", "part", "bad"}

(* What the bridge took a message it wrote for. *)
Written == {"opening", "plain", "uninspected"}

Causes == {"none", "hangup", "target-mismatch", "use-rejected", "grant-invalid",
           "grant-expired", "grant-revoked"}

(* The bridges in activeGuestBridges, and in connectionsPerIp: a bridge is *)
(* registered and counted when it opens and until cleanup.                 *)
Open == {w \in Sockets : phase[w] = "open"}

Init ==
  /\ LinkInit
  /\ expired = FALSE
  /\ phase = [w \in Sockets |-> "new"]
  /\ check = [w \in Sockets |-> "idle"]
  /\ timer = [w \in Sockets |-> FALSE]
  /\ received = [w \in Sockets |-> 0]
  /\ validated = [w \in Sockets |-> FALSE]
  /\ consumed = [w \in Sockets |-> FALSE]
  /\ waiting = [w \in Sockets |-> {}]
  /\ written = [w \in Sockets |-> {}]
  /\ cause = [w \in Sockets |-> "none"]
  /\ posts = <<>>
  /\ entry = [s \in Sessions |-> 0]
  /\ forget = {}
  /\ revoking = "idle"
  /\ charged = [s \in Sessions |-> 0]
  /\ misled = [s \in Sessions |-> 0]
  /\ invalidated = FALSE

Create ==
  /\ LinkCreate
  /\ UNCHANGED <<expired, sockVars, useVars, revoking, invalidated>>

Expire ==
  /\ ~expired
  /\ expired' = TRUE
  /\ UNCHANGED <<linkVars, sockVars, useVars, revoking, invalidated>>

(* cleanup of a set of bridges: it runs once for each, clears its timers,  *)
(* unregisters it and closes both sides.                                   *)
Cleanup(ws, why) ==
  /\ phase' = [w \in Sockets |-> IF w \in ws THEN "closed" ELSE phase[w]]
  /\ check' = [w \in Sockets |-> IF w \in ws THEN "idle" ELSE check[w]]
  /\ timer' = [w \in Sockets |-> timer[w] /\ w \notin ws]
  /\ waiting' = [w \in Sockets |-> IF w \in ws THEN {} ELSE waiting[w]]
  /\ cause' = [w \in Sockets |-> IF w \in ws THEN why ELSE cause[w]]

-----------------------------------------------------------------------------
(***************************************************************************)
(* Validation: at the upgrade, on opening, and every 15 s after that.      *)
(***************************************************************************)

(* The upgrade handler asks the server about the token and the peer. *)
Upgrade(w) ==
  /\ phase[w] = "new"
  /\ status # "absent"
  /\ phase' = [phase EXCEPT ![w] = "upgrading"]
  /\ check' = [check EXCEPT ![w] = "asked"]
  /\ UNCHANGED <<linkVars, expired, timer, received, validated, consumed,
                 waiting, written, cause, useVars, revoking, invalidated>>

(* handleGuestAccessValidate at the server; an expired live row is dropped. *)
Decide(w) ==
  /\ check[w] = "asked"
  /\ check' = [check EXCEPT ![w] =
       IF status = "live" /\ ~expired /\ BelowLimit(uses)
         THEN "valid" ELSE "invalid"]
  /\ IF status = "live" /\ expired THEN LinkDrop ELSE UNCHANGED linkVars
  /\ UNCHANGED <<expired, phase, timer, received, validated, consumed,
                 waiting, written, cause, useVars, revoking, invalidated>>

(* The upgrade is answered: the bridge opens, is registered, and starts    *)
(* its first revalidation at once, unless it is refused.                   *)
Upgraded(w) ==
  /\ phase[w] = "upgrading"
  /\ check[w] # "idle"
  /\ \/ /\ check[w] = "valid"
        /\ Cardinality(Open) < MaxConns
        /\ phase' = [phase EXCEPT ![w] = "open"]
        /\ check' = [check EXCEPT ![w] = "asked"]
     \/ /\ \/ check[w] = "invalid"
           \/ check[w] = "valid" /\ Cardinality(Open) >= MaxConns
           \/ Unreliable
        /\ phase' = [phase EXCEPT ![w] = "refused"]
        /\ check' = [check EXCEPT ![w] = "idle"]
  /\ UNCHANGED <<linkVars, expired, timer, received, validated, consumed,
                 waiting, written, cause, useVars, revoking, invalidated>>

(* Mutant of revalidateGuestGrant: a failed call is not tried again. *)
RevalidatedOnce(w) ==
  /\ phase[w] = "open"
  /\ check[w] # "idle"
  /\ \/ check[w] = "invalid" /\ Cleanup({w}, "grant-invalid")
     \/ /\ check[w] = "valid" \/ Unreliable
        /\ ~expired
        /\ check' = [check EXCEPT ![w] = "idle"]
        /\ timer' = [timer EXCEPT ![w] = check[w] = "valid"]
        /\ UNCHANGED <<phase, waiting, cause>>
  /\ UNCHANGED <<linkVars, expired, received, validated, consumed, written,
                 useVars, revoking, invalidated>>

(* revalidateGuestGrant after its await: an invalid grant closes the       *)
(* bridge; a failed call proves nothing and is tried again until expiry.   *)
Revalidated(w) ==
  /\ phase[w] = "open"
  /\ check[w] # "idle"
  /\ \/ check[w] = "invalid" /\ Cleanup({w}, "grant-invalid")
     \/ /\ check[w] = "valid" \/ Unreliable
        /\ expired
        /\ Cleanup({w}, "grant-expired")
     \/ /\ check[w] = "valid" \/ Unreliable
        /\ ~expired
        /\ check' = [check EXCEPT ![w] = "idle"]
        /\ timer' = [timer EXCEPT ![w] = TRUE]
        /\ UNCHANGED <<phase, waiting, cause>>
  /\ UNCHANGED <<linkVars, expired, received, validated, consumed, written,
                 useVars, revoking, invalidated>>

TimerFires(w) ==
  /\ timer[w]
  /\ timer' = [timer EXCEPT ![w] = FALSE]
  /\ check' = [check EXCEPT ![w] = "asked"]
  /\ UNCHANGED <<linkVars, expired, phase, received, validated, consumed,
                 waiting, written, cause, useVars, revoking, invalidated>>

-----------------------------------------------------------------------------
(***************************************************************************)
(* Messages from the browser                                               *)
(***************************************************************************)

(* Mutant of consumeGuestSession: a kept promise is not looked up. *)
ConsumeAlways(w, n) ==
  /\ posts' = Append(posts, [session |-> SessionOf[w], state |-> "posted"])
  /\ entry' = [entry EXCEPT ![SessionOf[w]] = Len(posts) + 1]
  /\ waiting' = [waiting EXCEPT ![w] = @ \cup {<<n, Len(posts) + 1>>}]
  /\ UNCHANGED <<consumed, written>>

(* consumeGuestSession and the handler's await of it: go on at once if the *)
(* session's promise has resolved, join it if it is pending, or post and   *)
(* keep a new one.                                                         *)
Consume(w, n) ==
  LET k == entry[SessionOf[w]] IN
  \/ /\ k # 0 /\ posts[k].state = "done"
     /\ consumed' = [consumed EXCEPT ![w] = TRUE]
     /\ written' = [written EXCEPT ![w] = @ \cup {<<n, "opening">>}]
     /\ UNCHANGED <<posts, entry, waiting>>
  \/ /\ k # 0 /\ posts[k].state # "done"
     /\ waiting' = [waiting EXCEPT ![w] = @ \cup {<<n, k>>}]
     /\ UNCHANGED <<posts, entry, consumed, written>>
  \/ /\ k = 0
     /\ posts' = Append(posts, [session |-> SessionOf[w], state |-> "posted"])
     /\ entry' = [entry EXCEPT ![SessionOf[w]] = Len(posts) + 1]
     /\ waiting' = [waiting EXCEPT ![w] = @ \cup {<<n, Len(posts) + 1>>}]
     /\ UNCHANGED <<consumed, written>>

(* The message handler refuses a message for another target. *)
Refused(w) ==
  /\ Cleanup({w}, "target-mismatch")
  /\ UNCHANGED <<validated, consumed, written, posts, entry>>

(* The handler reaches tcp.write without waiting; as is what it took the   *)
(* message for.                                                            *)
WriteNow(w, as) ==
  /\ written' = [written EXCEPT ![w] = @ \cup {<<received[w] + 1, as>>}]
  /\ UNCHANGED <<phase, check, timer, validated, consumed, waiting, cause,
                 posts, entry>>

(* The handler waits for the session's use to be consumed. *)
WriteLater(w) ==
  /\ Consume(w, received[w] + 1)
  /\ UNCHANGED <<phase, check, timer, cause>>

(* A frame on the rendezvous bridge: every decoded message must be for the *)
(* guest's peer; one that opens a session waits for its use.  The first    *)
(* part of a message decodes to nothing and is forwarded at once.          *)
RendezvousMessage(w, kind) ==
  \/ kind = "bad" /\ Refused(w)
  \/ kind \in {"data", "part"} /\ WriteNow(w, "plain")
  \/ kind = "opening" /\ consumed[w] /\ WriteNow(w, "opening")
  \/ kind = "opening" /\ ~consumed[w] /\ WriteLater(w) /\ UNCHANGED validated

(* A frame on the relay bridge: until a RequestRelay has been decoded it   *)
(* is buffered and goes no further.  After that every frame, of whatever   *)
(* kind, is written without a look, also while the use that the first one  *)
(* asked for is still undecided.                                           *)
RelayMessage(w, kind) ==
  \/ validated[w] /\ WriteNow(w, "uninspected")
  \/ ~validated[w] /\ kind \in {"bad", "data"} /\ Refused(w)
  \/ /\ ~validated[w] /\ kind = "part"
     /\ UNCHANGED <<phase, check, timer, validated, consumed, waiting, written,
                    cause, posts, entry>>
  \/ /\ ~validated[w] /\ kind = "opening"
     /\ WriteLater(w)
     /\ validated' = [validated EXCEPT ![w] = TRUE]

Message(w, kind) ==
  /\ phase[w] = "open"
  /\ received[w] < MaxMsgs[w]
  /\ received' = [received EXCEPT ![w] = @ + 1]
  /\ IF w \in OnRelay THEN RelayMessage(w, kind) ELSE RendezvousMessage(w, kind)
  /\ UNCHANGED <<linkVars, expired, forget, charged, misled, revoking,
                 invalidated>>

(* handleGuestAccessConsume at the server; the panel may have given the    *)
(* call up in the meantime.                                                *)
Charge(k) ==
  LET s == posts[k].session
      ok == status = "live" /\ ~expired /\ BelowLimit(uses)
      given == posts[k].state = "abandoned"
  IN
  /\ posts[k].state \in {"posted", "abandoned"}
  /\ posts' = [posts EXCEPT ![k].state =
                 IF given THEN "failed" ELSE IF ok THEN "charged" ELSE "denied"]
  /\ charged' = [charged EXCEPT ![s] = IF ok THEN @ + 1 ELSE @]
  /\ misled' = [misled EXCEPT ![s] = IF ok /\ given THEN @ + 1 ELSE @]
  /\ IF ok THEN LinkUse ELSE UNCHANGED linkVars
  /\ UNCHANGED <<expired, sockVars, entry, forget, revoking, invalidated>>

WaitsOn(w, k) == \E x \in waiting[w] : x[2] = k

(* The handlers of w that wait on k, as messages to write. *)
Resumed(w, k) == {<<x[1], "opening">> : x \in {y \in waiting[w] : y[2] = k}}

(* The promise resolves: its lifetime timer starts and every handler that  *)
(* awaits it on an open bridge writes its message.                         *)
Resolve(k) ==
  /\ posts[k].state = "charged"
  /\ posts' = [posts EXCEPT ![k].state = "done"]
  /\ forget' = forget \cup {posts[k].session}
  /\ consumed' = [w \in Sockets |-> consumed[w] \/ WaitsOn(w, k)]
  /\ written' = [w \in Sockets |-> written[w] \cup Resumed(w, k)]
  /\ waiting' = [w \in Sockets |-> {x \in waiting[w] : x[2] # k}]
  /\ UNCHANGED <<linkVars, expired, phase, check, timer, received, validated,
                 cause, entry, charged, misled, revoking, invalidated>>

(* Mutant of the message handler: a rejected use is only logged. *)
RejectLogged(k) ==
  /\ posts[k].state = "denied"
  /\ posts' = [posts EXCEPT ![k].state = "failed"]
  /\ entry' = [entry EXCEPT ![posts[k].session] = 0]
  /\ written' = [w \in Sockets |-> written[w] \cup Resumed(w, k)]
  /\ waiting' = [w \in Sockets |-> {x \in waiting[w] : x[2] # k}]
  /\ UNCHANGED <<linkVars, expired, phase, check, timer, received, validated,
                 consumed, cause, forget, charged, misled, revoking,
                 invalidated>>

(* Mutant of the message handler: the error is swallowed. *)
RejectSwallowed(k) ==
  /\ posts[k].state = "denied"
  /\ posts' = [posts EXCEPT ![k].state = "failed"]
  /\ entry' = [entry EXCEPT ![posts[k].session] = 0]
  /\ UNCHANGED <<linkVars, expired, sockVars, forget, charged, misled,
                 revoking, invalidated>>

(* The promise rejects, because the server denied the use or because the   *)
(* call failed on the way: the entry of the session is deleted, whichever  *)
(* promise it holds, and every bridge that awaits it is closed.            *)
Reject(k) ==
  LET s == posts[k].session IN
  /\ \/ posts[k].state = "denied"
     \/ Unreliable /\ posts[k].state \in {"posted", "charged"}
  /\ posts' = [posts EXCEPT ![k].state =
                 IF @ = "posted" THEN "abandoned" ELSE "failed"]
  /\ misled' = [misled EXCEPT ![s] =
                  IF posts[k].state = "charged" THEN @ + 1 ELSE @]
  /\ entry' = [entry EXCEPT ![s] = 0]
  /\ Cleanup({w \in Sockets : WaitsOn(w, k)}, "use-rejected")
  /\ UNCHANGED <<linkVars, expired, received, validated, consumed, written,
                 forget, charged, revoking, invalidated>>

(* The lifetime timer of a consumed session. *)
Forget(s) ==
  /\ s \in forget
  /\ expired
  /\ forget' = forget \ {s}
  /\ entry' = [entry EXCEPT ![s] = 0]
  /\ UNCHANGED <<linkVars, expired, sockVars, posts, charged, misled,
                 revoking, invalidated>>

-----------------------------------------------------------------------------
(***************************************************************************)
(* The ends of a bridge                                                    *)
(***************************************************************************)

(* The browser or the TCP side closes or fails, or the bridge is idle. *)
Hangup(w) ==
  /\ phase[w] = "open"
  /\ Cleanup({w}, "hangup")
  /\ UNCHANGED <<linkVars, expired, received, validated, consumed, written,
                 useVars, revoking, invalidated>>

(* An operator of this panel asks the server to revoke the grant. *)
AskRevoke ==
  /\ revoking = "idle"
  /\ status # "absent"
  /\ revoking' = "asked"
  /\ UNCHANGED <<linkVars, expired, sockVars, useVars, invalidated>>

(* handleGuestAccessRevoke for this panel; revoking again is answered in   *)
(* the same way.                                                           *)
RevokeHere ==
  /\ revoking = "asked"
  /\ LinkRevoke \/ (status = "revoked" /\ UNCHANGED linkVars)
  /\ revoking' = "revoked"
  /\ UNCHANGED <<expired, sockVars, useVars, invalidated>>

(* The same for another panel process, which cannot close bridges here. *)
RevokeElsewhere ==
  /\ LinkRevoke
  /\ UNCHANGED <<expired, sockVars, useVars, revoking, invalidated>>

(* Mutant of invalidateGuestGrant: the session states are kept. *)
InvalidateBridges ==
  /\ revoking = "revoked"
  /\ revoking' = "idle"
  /\ invalidated' = TRUE
  /\ Cleanup(Open, "grant-revoked")
  /\ UNCHANGED <<linkVars, expired, received, validated, consumed, written,
                 useVars>>

(* invalidateGuestGrant, when the reply of the DELETE arrives. *)
Invalidate ==
  /\ revoking = "revoked"
  /\ revoking' = "idle"
  /\ invalidated' = TRUE
  /\ entry' = [s \in Sessions |-> 0]
  /\ Cleanup(Open, "grant-revoked")
  /\ UNCHANGED <<linkVars, expired, received, validated, consumed, written,
                 posts, forget, charged, misled>>

(* The DELETE request fails at the panel, or the row is gone: nothing is   *)
(* invalidated here.                                                       *)
RevokeFails ==
  /\ \/ revoking # "idle" /\ Unreliable
     \/ revoking = "asked" /\ status = "dropped"
  /\ revoking' = "idle"
  /\ UNCHANGED <<linkVars, expired, sockVars, useVars, invalidated>>

-----------------------------------------------------------------------------
Server ==
  \/ \E w \in Sockets : Decide(w)
  \/ \E k \in DOMAIN posts : Charge(k)

Panel ==
  \/ \E w \in Sockets : Upgraded(w) \/ Revalidated(w) \/ TimerFires(w)
  \/ \E k \in DOMAIN posts : Resolve(k) \/ Reject(k)
  \/ \E s \in Sessions : Forget(s)
  \/ Invalidate

Environment ==
  \/ \E w \in Sockets : Upgrade(w) \/ Hangup(w)
  \/ \E w \in Sockets, kind \in Kinds : Message(w, kind)
  \/ AskRevoke \/ RevokeHere \/ RevokeElsewhere \/ RevokeFails

Next == Create \/ Expire \/ Server \/ Panel \/ Environment

Spec == Init /\ [][Next]_vars

(* Time passes, the server answers, timers fire and replies are handled.   *)
(* Nobody has to open, use, close or revoke anything.                      *)
FairSpec ==
  /\ Spec
  /\ WF_vars(Expire)
  /\ \A w \in Sockets : WF_vars(Decide(w))
                        /\ WF_vars(Revalidated(w))
                        /\ WF_vars(TimerFires(w))
  /\ WF_vars(\E k \in DOMAIN posts : Charge(k) \/ Resolve(k) \/ Reject(k))

-----------------------------------------------------------------------------
(***************************************************************************)
(* Properties                                                              *)
(***************************************************************************)

Post == [session : Sessions,
         state : {"posted", "charged", "denied", "done", "failed", "abandoned"}]

BridgeTypeOK ==
  /\ LinkTypeOK
  /\ expired \in BOOLEAN /\ invalidated \in BOOLEAN
  /\ phase \in [Sockets -> {"new", "upgrading", "open", "closed", "refused"}]
  /\ check \in [Sockets -> {"idle", "asked", "valid", "invalid"}]
  /\ timer \in [Sockets -> BOOLEAN]
  /\ received \in [Sockets -> Nat]
  /\ validated \in [Sockets -> BOOLEAN] /\ consumed \in [Sockets -> BOOLEAN]
  /\ posts \in Seq(Post)
  /\ waiting \in [Sockets -> SUBSET (Nat \X DOMAIN posts)]
  /\ written \in [Sockets -> SUBSET (Nat \X Written)]
  /\ cause \in [Sockets -> Causes]
  /\ entry \in [Sessions -> 0..Len(posts)]
  /\ forget \subseteq Sessions
  /\ revoking \in {"idle", "asked", "revoked"}
  /\ charged \in [Sessions -> Nat] /\ misled \in [Sessions -> Nat]
  /\ \A w \in Sockets :
       /\ received[w] <= MaxMsgs[w]
       /\ timer[w] => phase[w] = "open" /\ check[w] = "idle"
       /\ waiting[w] # {} => phase[w] = "open"
       /\ \A x \in waiting[w] \cup written[w] : x[1] \in 1..received[w]

(* What the bridge recognised as opening a session, and what it wrote      *)
(* without a look and that may be anything, another RequestRelay included. *)
Openings(w) == {x \in written[w] : x[2] = "opening"}
Uninspected(w) == {x \in written[w] : x[2] = "uninspected"}

(* Behind every message recognised as an opening is a use. *)
RecognisedCharged ==
  \A w \in Sockets : Openings(w) # {} => charged[SessionOf[w]] > 0

(* Frames are written unseen on a relay bridge only, behind its first      *)
(* RequestRelay; while it is open it has its use or waits for it.          *)
UninspectedBacked ==
  \A w \in Sockets :
    /\ Uninspected(w) # {} => w \in OnRelay /\ validated[w]
    /\ validated[w] /\ phase[w] = "open" => consumed[w] \/ waiting[w] # {}

(* No message that the bridge recognises as opening a session is written   *)
(* unless the server has taken a use of the link for that session.  What   *)
(* it writes unseen has no such guarantee: it comes from a relay bridge    *)
(* that has validated its first message, and as long as that bridge is     *)
(* open it has its use or a handler that still waits for one.              *)
OpeningCharged == RecognisedCharged /\ UninspectedBacked

(* The rendezvous and the relay socket of one guest session, and all their *)
(* messages, cost one use between them; only a reply that never reached    *)
(* the panel can cost another.                                             *)
ChargedOnce == \A s \in Sessions : charged[s] <= 1 + misled[s]

(* Once this panel has invalidated the grant no message recognised as an   *)
(* opening is written, also by a bridge that was validated before the      *)
(* revocation and opened after it; and what is still written unseen is     *)
(* written while a use is awaited, never on the strength of an old one.    *)
SilentAfterInvalidation ==
  [][invalidated => \A w \in Sockets :
       /\ Openings(w)' = Openings(w)
       /\ Uninspected(w)' # Uninspected(w) => ~consumed[w] /\ waiting[w] # {}]_vars

(* A revocation reaches every open bridge, also one made by another panel  *)
(* process and also when the API fails: then the grant's expiry does.      *)
RevocationReaches ==
  \A w \in Sockets : status = "revoked" /\ phase[w] = "open" ~> phase[w] = "closed"

(* No message handler waits in vain: the call whose promise it awaits is   *)
(* still under way, and the promise kept for a session has been fulfilled  *)
(* or will be settled, so nobody can join one that has failed.             *)
NoHandlerForgotten ==
  LET underWay == {k \in DOMAIN posts :
                     posts[k].state \in {"posted", "charged", "denied"}}
  IN
  /\ \A w \in Sockets : \A x \in waiting[w] : x[2] \in underWay
  /\ \A s \in Sessions :
       entry[s] # 0 => entry[s] \in underWay \/ posts[entry[s]].state = "done"

(* "TTL and revocation apply to active bridges." (GUEST_ACCESS_LINKS.md):  *)
(* a bridge is closed as invalid only when its grant is over.  Not an      *)
(* invariant: revalidation also closes the session that took the last use. *)
InvalidMeansEnded ==
  \A w \in Sockets : cause[w] = "grant-invalid" => status # "live" \/ expired
=============================================================================
