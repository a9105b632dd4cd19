----------------------------- MODULE PunchExchange -----------------------------
(***************************************************************************)
(* The deferred answers of the signal server (betterdesk-server/signal): a   *)
(* request of an initiator for a peer is forwarded to the peer and answered  *)
(* later, by what the peer sends or by a fallback timer.  "punch" is the     *)
(* P2P-first path (schedulePunchFallback, handlePunchHoleSent), "lan" the    *)
(* exchange of local addresses (beginLANExchange, completeLANAddr).          *)
(*                                                                          *)
(* One initiator address and one peer: each path has one key, slot[k] is     *)
(* what pendingPunches or pendingLANs holds under it.  The requests of an    *)
(* initiator are handled one after another; timers, messages of the peer and *)
(* the sweep run beside them.  Every access to a sync.Map or to fired is a   *)
(* step of its own.  A timer that finds fired set does nothing, so stopping  *)
(* one is the same as having set fired.                                      *)
(***************************************************************************)
EXTENDS Naturals, FiniteSets

CONSTANTS
  MaxRequests,   \* bound: requests of the initiator
  MaxMessages,   \* bound: messages of the peer
  None

ASSUME ExchangeAssumption == MaxRequests \in Nat /\ MaxMessages \in Nat /\ None \notin Nat

Requests == 1..MaxRequests
Messages == 1..MaxMessages
Kinds == {"punch", "lan"}

VARIABLES
  req,      \* the pendingPunch or pendingLAN of a request
  slot,     \* pendingPunches and pendingLANs
  handler,  \* the goroutine that handles the initiator's requests
  peer,     \* the goroutine of each message of the peer: the entry p it loaded
            \* and the entry old it took out of the map
  sweep,    \* the entry the sweep is looking at
  asked,    \* requests forwarded to the peer
  waiting,  \* requests made since the initiator was last answered
  answers,  \* history: answers sent on account of a request
  sent,     \* history: answers sent on account of LAN requests
  dropped,  \* history: requests taken out of the map by an older timer
  silenced  \* history: requests that lost their fallback and got no answer for it

told == <<answers, sent>>
vars == <<req, slot, handler, peer, sweep, asked, waiting, told, dropped, silenced>>
history == <<dropped, silenced>>

Idle == [pc |-> "idle", n |-> None, old |-> None]
Finished == [pc |-> "idle", p |-> None, old |-> None]

Init ==
  /\ req = [n \in Requests |-> [kind |-> "none", timer |-> "none", fired |-> FALSE]]
  /\ slot = [k \in Kinds |-> None]
  /\ handler = Idle
  /\ peer = [m \in Messages |-> [Finished EXCEPT !.pc = "new"]]
  /\ sweep = None
  /\ asked = {}
  /\ waiting = {}
  /\ answers = [n \in Requests |-> 0] /\ sent = 0
  /\ dropped = {} /\ silenced = {}

\* The initiator is sent an answer: it no longer waits.
Answer(n) ==
  /\ waiting' = {}
  /\ answers' = [answers EXCEPT ![n] = @ + 1]
  /\ sent' = IF req[n].kind = "lan" THEN sent + 1 ELSE sent

NoAnswer == UNCHANGED <<waiting, told>>

(* Mutant of Claim: the flag is not set. *)
Look(n) == req

\* fired.Swap(true); fired.Store(true) when the result is not used.
Claim(n) == [req EXCEPT ![n].fired = TRUE]

Store(k, n) == [slot EXCEPT ![k] = n]

-----------------------------------------------------------------------------
(* The handler of the initiator's requests.                                 *)

\* The peer is told to punch before the fallback is scheduled.
Punch(n) ==
  /\ handler.pc = "idle"
  /\ \A i \in Requests : i < n <=> req[i].kind # "none"
  /\ req' = [req EXCEPT ![n].kind = "punch"]
  /\ handler' = [handler EXCEPT !.pc = "schedule", !.n = n]
  /\ asked' = asked \cup {n}
  /\ waiting' = waiting \cup {n}
  /\ UNCHANGED <<slot, peer, sweep, told, history>>

\* schedulePunchFallback: the timer runs before the entry is in the map.
schedulePunchFallback ==
  /\ handler.pc = "schedule"
  /\ req' = [req EXCEPT ![handler.n].timer = "armed"]
  /\ handler' = [handler EXCEPT !.pc = "swap"]
  /\ UNCHANGED <<slot, peer, sweep, asked, waiting, told, history>>

PunchSwap ==
  /\ handler.pc = "swap"
  /\ slot' = Store("punch", handler.n)
  /\ handler' = IF slot["punch"] = None THEN Idle
                ELSE [handler EXCEPT !.pc = "replace", !.old = slot["punch"]]
  /\ UNCHANGED <<req, peer, sweep, asked, waiting, told, history>>

PunchReplace ==
  /\ handler.pc = "replace"
  /\ req' = Claim(handler.old)
  /\ handler' = Idle
  /\ UNCHANGED <<slot, peer, sweep, asked, waiting, told, history>>

beginLANExchange(n) ==
  /\ handler.pc = "idle"
  /\ \A i \in Requests : i < n <=> req[i].kind # "none"
  /\ req' = [req EXCEPT ![n] = [@ EXCEPT !.kind = "lan", !.timer = "armed"]]
  /\ handler' = [handler EXCEPT !.pc = "store", !.n = n]
  /\ waiting' = waiting \cup {n}
  /\ UNCHANGED <<slot, peer, sweep, asked, told, history>>

\* LoadOrStore, and Store once an older entry has been cancelled.
LANStore ==
  /\ handler.pc \in {"store", "overwrite"}
  /\ IF handler.pc = "store" /\ slot["lan"] # None
     THEN handler' = [handler EXCEPT !.pc = "cancel"] /\ UNCHANGED slot
     ELSE /\ slot' = Store("lan", handler.n)
          /\ handler' = [handler EXCEPT !.pc = "send"]
  /\ UNCHANGED <<req, peer, sweep, asked, waiting, told, history>>

\* cancelPendingLAN(key), the first half: whatever is in the map is taken out.
LANCancelTake ==
  /\ handler.pc \in {"cancel", "failed"}
  /\ slot' = [slot EXCEPT !["lan"] = None]
  /\ handler' = [handler EXCEPT !.old = slot["lan"],
                                !.pc = IF @ = "cancel" THEN "cancel2" ELSE "failed2"]
  /\ UNCHANGED <<req, peer, sweep, asked, waiting, told, history>>

\* The second half; a request that could not be forwarded is answered at once,
\* whether or not its own entry was the one cancelled.
LANCancelClaim ==
  /\ handler.pc \in {"cancel2", "failed2"}
  /\ req' = IF handler.old = None THEN req ELSE Claim(handler.old)
  /\ IF handler.pc = "cancel2"
     THEN handler' = [handler EXCEPT !.pc = "overwrite", !.old = None] /\ NoAnswer
     ELSE handler' = Idle /\ Answer(handler.n)
  /\ UNCHANGED <<slot, peer, sweep, asked, history>>

LANSend ==
  /\ handler.pc = "send"
  /\ \/ handler' = Idle /\ asked' = asked \cup {handler.n}
     \/ handler' = [handler EXCEPT !.pc = "failed"] /\ UNCHANGED asked
  /\ UNCHANGED <<req, slot, peer, sweep, waiting, told, history>>

HandlerStep ==
  \/ schedulePunchFallback \/ PunchSwap \/ PunchReplace
  \/ LANStore \/ LANCancelTake \/ LANCancelClaim \/ LANSend

-----------------------------------------------------------------------------
(* The fallback timers.                                                     *)

TimerFires(n) ==
  /\ req[n].timer = "armed"
  /\ req' = [Claim(n) EXCEPT ![n].timer = IF req[n].fired THEN "over" ELSE "delete"]
  /\ UNCHANGED <<slot, handler, peer, sweep, asked, waiting, told, history>>

\* The key is deleted, whoever has it by now.
TimerDeletes(n) ==
  /\ req[n].timer = "delete"
  /\ LET k == req[n].kind IN
       /\ slot' = [slot EXCEPT ![k] = None]
       /\ dropped' = IF slot[k] \in {None, n} THEN dropped ELSE dropped \cup {slot[k]}
  /\ req' = [req EXCEPT ![n].timer = "answer"]
  /\ UNCHANGED <<handler, peer, sweep, asked, waiting, told, silenced>>

TimerAnswers(n) ==
  /\ req[n].timer = "answer"
  /\ req' = [req EXCEPT ![n].timer = "over"]
  /\ Answer(n)
  /\ UNCHANGED <<slot, handler, peer, sweep, asked, history>>

-----------------------------------------------------------------------------
(* The messages of the peer, each about a request it was sent.              *)

Comes(m) == peer[m].pc = "new" /\ \A i \in Messages : i < m => peer[i].pc # "new"

\* handlePunchHoleSent: the fallback of the key is cancelled ...
PunchHoleSent(m, n) ==
  /\ Comes(m)
  /\ n \in asked /\ req[n].kind = "punch"
  /\ slot' = [slot EXCEPT !["punch"] = None]
  /\ peer' = [peer EXCEPT ![m] = [Finished EXCEPT !.pc = "sent", !.old = slot["punch"]]]
  /\ UNCHANGED <<req, handler, sweep, asked, waiting, told, history>>

\* ... and the answer forwarded in any case, unless there is no way to reach the
\* initiator from the transport the peer used.
PunchForward(m) ==
  /\ peer[m].pc = "sent"
  /\ req' = IF peer[m].old = None THEN req ELSE Claim(peer[m].old)
  /\ \/ waiting' = {} /\ UNCHANGED silenced
     \/ waiting' = waiting /\ silenced' = silenced \cup ({peer[m].old} \ {None})
  /\ peer' = [peer EXCEPT ![m] = Finished]
  /\ UNCHANGED <<slot, handler, sweep, asked, told, dropped>>

\* completeLANAddr: nothing pending, or the pair may not connect directly.
LocalAddrIgnored(m, n) ==
  /\ Comes(m)
  /\ n \in asked /\ req[n].kind = "lan"
  /\ peer' = [peer EXCEPT ![m] = Finished]
  /\ UNCHANGED <<req, slot, handler, sweep, asked, waiting, told, history>>

\* What the key holds is loaded ...
LocalAddr(m, n) ==
  /\ Comes(m)
  /\ n \in asked /\ req[n].kind = "lan"
  /\ slot["lan"] # None
  /\ peer' = [peer EXCEPT ![m] = [Finished EXCEPT !.pc = "found", !.p = slot["lan"]]]
  /\ UNCHANGED <<req, slot, handler, sweep, asked, waiting, told, history>>

\* ... what it holds after the checks is cancelled ...
LocalAddrTake(m) ==
  /\ peer[m].pc = "found"
  /\ slot' = [slot EXCEPT !["lan"] = None]
  /\ peer' = [peer EXCEPT ![m] = IF slot["lan"] = None THEN Finished
                                 ELSE [@ EXCEPT !.pc = "taken", !.old = slot["lan"]]]
  /\ UNCHANGED <<req, handler, sweep, asked, waiting, told, history>>

(* Mutant of LocalAddrClaim: the answer is sent even if the timer was first. *)
LocalAddrClaimAlways(m) ==
  /\ peer[m].pc = "taken"
  /\ req' = Claim(peer[m].old)
  /\ peer' = [peer EXCEPT ![m] = [@ EXCEPT !.pc = "deliver"]]
  /\ UNCHANGED <<slot, handler, sweep, asked, waiting, told, history>>

LocalAddrClaim(m) ==
  /\ peer[m].pc = "taken"
  /\ req' = Claim(peer[m].old)
  /\ peer' = [peer EXCEPT ![m] = IF req[peer[m].old].fired THEN Finished
                                 ELSE [@ EXCEPT !.pc = "deliver"]]
  /\ UNCHANGED <<slot, handler, sweep, asked, waiting, told, history>>

\* ... and if that was live the answer is sent for the entry that was loaded.
LocalAddrDeliver(m) ==
  /\ peer[m].pc = "deliver"
  /\ Answer(peer[m].p)
  /\ peer' = [peer EXCEPT ![m] = Finished]
  /\ UNCHANGED <<req, slot, handler, sweep, asked, history>>

\* An entry more than 30 seconds old, whose timer is long over, is seen ...
LocalAddrStale(m, n) ==
  /\ Comes(m)
  /\ n \in asked /\ req[n].kind = "lan"
  /\ slot["lan"] # None /\ req[slot["lan"]].timer = "over"
  /\ peer' = [peer EXCEPT ![m] = [Finished EXCEPT !.pc = "stale", !.p = slot["lan"]]]
  /\ UNCHANGED <<req, slot, handler, sweep, asked, waiting, told, history>>

\* ... and what the key holds then is cancelled.
LocalAddrDrop(m) ==
  /\ peer[m].pc = "stale"
  /\ req' = IF slot["lan"] = None THEN req ELSE Claim(slot["lan"])
  /\ silenced' = IF slot["lan"] \in {None, peer[m].p} THEN silenced ELSE silenced \cup {slot["lan"]}
  /\ slot' = [slot EXCEPT !["lan"] = None]
  /\ peer' = [peer EXCEPT ![m] = Finished]
  /\ UNCHANGED <<handler, sweep, asked, waiting, told, dropped>>

PeerStep(m) ==
  \/ PunchForward(m) \/ LocalAddrTake(m) \/ LocalAddrClaim(m)
  \/ LocalAddrDeliver(m) \/ LocalAddrDrop(m)

-----------------------------------------------------------------------------
(* The sweep of pendingPunches: an entry older than any timer is seen, and    *)
(* what the key holds then is taken out and silenced.                        *)

(* Mutant of SweepSees: the age is not looked at. *)
SweepSeesAny ==
  /\ sweep = None
  /\ slot["punch"] # None
  /\ sweep' = slot["punch"]
  /\ UNCHANGED <<req, slot, handler, peer, asked, waiting, told, history>>

SweepSees ==
  /\ sweep = None
  /\ slot["punch"] # None /\ req[slot["punch"]].timer = "over"
  /\ sweep' = slot["punch"]
  /\ UNCHANGED <<req, slot, handler, peer, asked, waiting, told, history>>

SweepTakes ==
  /\ sweep # None
  /\ LET p == slot["punch"] IN
       /\ req' = IF p = None THEN req ELSE Claim(p)
       /\ silenced' = IF p \in {None, sweep} THEN silenced ELSE silenced \cup {p}
  /\ slot' = [slot EXCEPT !["punch"] = None]
  /\ sweep' = None
  /\ UNCHANGED <<handler, peer, asked, waiting, told, dropped>>

Next ==
  \/ \E n \in Requests :
       \/ Punch(n) \/ beginLANExchange(n)
       \/ TimerFires(n) \/ TimerDeletes(n) \/ TimerAnswers(n)
  \/ HandlerStep
  \/ \E m \in Messages, n \in Requests :
       PunchHoleSent(m, n) \/ LocalAddrIgnored(m, n) \/ LocalAddr(m, n) \/ LocalAddrStale(m, n)
  \/ \E m \in Messages : PeerStep(m)
  \/ SweepSees \/ SweepTakes

(***************************************************************************)
(* Timers go off and goroutines go on; nothing is assumed of the initiator,  *)
(* of the peer or of the sweep.                                              *)
(***************************************************************************)
Fairness ==
  /\ WF_vars(HandlerStep)
  /\ \A n \in Requests : WF_vars(TimerFires(n) \/ TimerDeletes(n) \/ TimerAnswers(n))
  /\ \A m \in Messages : WF_vars(PeerStep(m))

Spec == Init /\ [][Next]_vars
FairSpec == Spec /\ Fairness

-----------------------------------------------------------------------------
(* Properties.                                                              *)

ExchangeTypeOK ==
  /\ req \in [Requests -> [kind : Kinds \cup {"none"}, fired : BOOLEAN,
                           timer : {"none", "armed", "delete", "answer", "over"}]]
  /\ slot \in [Kinds -> Requests \cup {None}]
  /\ \A k \in Kinds : slot[k] # None => req[slot[k]].kind = k
  /\ asked \subseteq Requests /\ waiting \subseteq Requests
  /\ answers \in [Requests -> Nat] /\ sent \in Nat
  /\ dropped \subseteq Requests /\ silenced \subseteq Requests
  /\ sweep \in Requests \cup {None}

\* "... so the client can fall back to relay instead of hanging": after every
\* request the initiator is sent something, be it by the peer, by this request's
\* timer or by a later request's, however replacements, cancellations, deletions
\* and timers overlap; the exceptions are a sweep, or a message about an old entry,
\* that silenced a newer entry in place of the one it had seen, and an answer of
\* the peer that cancelled the fallback and could not be delivered.
EveryRequestAnswered ==
  \A n \in Requests : (n \in waiting /\ silenced = {}) ~> (n \notin waiting \/ silenced # {})

LANRequests == {n \in Requests : req[n].kind = "lan"}

\* However requests for one key replace each other and their timers race with
\* the peer, the initiator gets no more LAN answers than it made LAN requests,
\* plus one for each of them that was not forwarded to the peer (which
\* beginLANExchange's caller answers as well as the timer): every answer of a
\* timer or of the peer is paid for with a fired flag of its own.
LANAnswersBounded ==
  sent <= Cardinality(LANRequests) + Cardinality(LANRequests \ asked)

\* "completeLANAddr accepts only a response belonging to a live LAN request":
\* a request that reached the peer is answered once, by its timer or by the
\* peer.  Not an invariant: the entry that is cancelled need not be the one
\* that was loaded and is answered.
LANAnsweredOnce ==
  \A n \in asked : req[n].kind = "lan" => answers[n] <= 1

\* While its timer can still send the fallback, a request that no goroutine is
\* about to store or to cancel is in the map, where the peer's answer finds and
\* cancels it; the exception is a request that an older request's timer deleted.
FallbackCancellable ==
  \A n \in Requests :
    /\ req[n].timer = "armed" /\ ~req[n].fired
    /\ n \notin {handler.n, handler.old}
    /\ \A m \in Messages : peer[m].old # n
    /\ n \notin dropped
    => slot[req[n].kind] = n

=============================================================================
