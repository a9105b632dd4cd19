-------------------------- MODULE PunchExchangeProofs --------------------------
(***************************************************************************)
(* Proofs about PunchExchange, for every number of requests of the initiator *)
(* and of messages of the peer.                                              *)
(***************************************************************************)
EXTENDS PunchExchange, FiniteSetTheorems, TLAPS

Request == [kind : Kinds \cup {"none"}, fired : BOOLEAN,
            timer : {"none", "armed", "delete", "answer", "over"}]
PunchPCs == {"schedule", "swap", "replace"}
LANPCs == {"store", "cancel", "cancel2", "overwrite", "send", "failed", "failed2"}
Handler == [pc : {"idle"} \cup PunchPCs \cup LANPCs,
            n : Requests \cup {None}, old : Requests \cup {None}]
Peer == [pc : {"new", "idle", "sent", "found", "taken", "deliver", "stale"},
         p : Requests \cup {None}, old : Requests \cup {None}]

\* Only a request that was made has a timer, a flag that is set, or a message
\* to the peer.
MadeBeforeUsed ==
  \A n \in Requests :
    req[n].timer # "none" \/ req[n].fired \/ n \in asked => req[n].kind # "none"

\* What the handler holds between its accesses to the maps.
HandlerOK ==
  /\ handler \in Handler
  /\ handler.pc = "idle" <=> handler.n = None
  /\ handler.pc \in PunchPCs => req[handler.n].kind = "punch"
  /\ handler.pc = "schedule" => req[handler.n].timer = "none"
  /\ handler.pc \in LANPCs => req[handler.n].kind = "lan" /\ handler.n \notin asked
  /\ handler.pc \notin {"replace", "cancel2", "failed2"} => handler.old = None
  /\ handler.pc = "replace" => handler.old # None
  /\ handler.old # None => req[handler.old].kind # "none"
  /\ handler.pc \in {"cancel2", "overwrite"} => slot["lan"] = None

\* What the goroutine of a message holds: nothing but the entry it loaded, or
\* also the one it took out, which is a LAN request for completeLANAddr.
PeerOK ==
  /\ peer \in [Messages -> Peer]
  /\ \A m \in Messages :
       /\ peer[m].pc \in {"new", "idle", "found", "stale"} => peer[m].old = None
       /\ peer[m].pc \in {"taken", "deliver"} => peer[m].old # None
       /\ peer[m].old # None => req[peer[m].old].kind # "none"
       /\ peer[m].pc = "taken" => req[peer[m].old].kind = "lan"
       /\ peer[m].pc = "deliver" => req[peer[m].old].fired

\* As FallbackCancellable, but a request is excused on account of its own handler
\* only until that handler has stored it.
Unstored == {"schedule", "swap", "store", "cancel", "cancel2", "overwrite"}
CancellableOnceStored ==
  \A n \in Requests :
    /\ req[n].timer = "armed" /\ ~req[n].fired
    /\ ~(n = handler.n /\ handler.pc \in Unstored) /\ n # handler.old
    /\ \A m \in Messages : peer[m].old # n
    /\ n \notin dropped
    => slot[req[n].kind] = n

ExchangeInv ==
  /\ ExchangeTypeOK
  /\ MadeBeforeUsed
  /\ HandlerOK
  /\ PeerOK
  /\ CancellableOnceStored

\* No request is made at the start.
LEMMA ExchangeInit == Init => ExchangeInv
  <1> SUFFICES ASSUME Init PROVE ExchangeInv
    OBVIOUS
  <1>1. ExchangeTypeOK
    BY ExchangeAssumption DEF Init, ExchangeTypeOK, Kinds, Requests
  <1>2. MadeBeforeUsed /\ HandlerOK /\ PeerOK
    BY ExchangeAssumption DEF Init, MadeBeforeUsed, HandlerOK, PeerOK, Idle, Finished, Handler, Peer,
       PunchPCs, LANPCs
  <1>3. CancellableOnceStored
    BY DEF Init, CancellableOnceStored, Idle, Finished
  <1>4. QED
    BY <1>1, <1>2, <1>3 DEF ExchangeInv

\* Setting the flag of an entry changes nothing else.
LEMMA ClaimFacts ==
  ASSUME NEW n \in Requests, req \in [Requests -> Request]
  PROVE  /\ Claim(n) \in [Requests -> Request]
         /\ \A i \in Requests : /\ Claim(n)[i].kind = req[i].kind
                                /\ Claim(n)[i].timer = req[i].timer
                                /\ Claim(n)[i].fired <=> (i = n \/ req[i].fired)
  BY DEF Claim, Request

\* The record of a request, as a set.
LEMMA RequestType == ExchangeTypeOK => req \in [Requests -> Request]
  BY DEF ExchangeTypeOK, Request

\* No request is called None.
LEMMA NoneNoRequest == None \notin Requests
  BY ExchangeAssumption DEF Requests

\* An answer keeps the types of what is told to the initiator.
LEMMA AnswerTyped ==
  ASSUME ExchangeTypeOK, NEW n, Answer(n)
  PROVE  waiting' \subseteq Requests /\ answers' \in [Requests -> Nat] /\ sent' \in Nat
  <1>1. answers \in [Requests -> Nat] /\ sent \in Nat
    BY DEF ExchangeTypeOK
  <1>2. answers' = [answers EXCEPT ![n] = @ + 1] /\ sent' \in {sent, sent + 1} /\ waiting' = {}
    BY DEF Answer
  <1>3. answers' \in [Requests -> Nat]
    <2>1. answers' = [i \in Requests |-> IF i = n THEN answers[n] + 1 ELSE answers[i]]
      BY <1>1, <1>2
    <2>2. \A i \in Requests : answers[i] \in Nat /\ answers[i] + 1 \in Nat
      BY <1>1
    <2>3. QED
      BY <2>1, <2>2
  <1>4. QED
    BY <1>1, <1>2, <1>3

-----------------------------------------------------------------------------
(* The handler of the initiator's requests.                                 *)

\* A punch request is made.
LEMMA PunchStep ==
  ASSUME ExchangeInv, NEW n \in Requests, Punch(n)
  PROVE  ExchangeInv'
  <1>0. /\ req \in [Requests -> Request] /\ handler \in Handler /\ peer \in [Messages -> Peer]
    BY RequestType DEF ExchangeInv, HandlerOK, PeerOK
  <1>1. /\ req[n].kind = "none" /\ handler.pc = "idle" /\ handler.old = None
        /\ req[n].timer = "none" /\ ~req[n].fired /\ n \notin asked
    <2>1. req[n].kind = "none" /\ handler.pc = "idle"
      BY <1>0, ExchangeAssumption DEF Punch, Requests
    <2>2. QED
      BY <2>1, <1>0 DEF ExchangeInv, MadeBeforeUsed, HandlerOK, Request
  <1>2. /\ req' \in [Requests -> Request]
        /\ req'[n].kind = "punch" /\ req'[n].timer = "none" /\ ~req'[n].fired
        /\ \A i \in Requests \ {n} : req'[i] = req[i]
    BY <1>0, <1>1 DEF Punch, Request, Kinds
  <1>3. /\ handler'.pc = "schedule" /\ handler'.n = n /\ handler'.old = None
        /\ handler' \in Handler
    BY <1>0, <1>1 DEF Punch, Handler, PunchPCs
  <1>4. /\ asked' = asked \cup {n} /\ waiting' = waiting \cup {n}
        /\ UNCHANGED <<slot, peer, sweep, told, history>>
    BY DEF Punch
  <1>5. ExchangeTypeOK'
    BY <1>1, <1>2, <1>4 DEF ExchangeInv, ExchangeTypeOK, Request, history, told, Kinds
  <1>6. MadeBeforeUsed' /\ HandlerOK' /\ PeerOK'
    BY <1>1, <1>2, <1>3, <1>4, NoneNoRequest DEF ExchangeInv, MadeBeforeUsed, HandlerOK, PeerOK, Peer,
       PunchPCs, LANPCs
  <1>8. CancellableOnceStored'
    BY <1>1, <1>2, <1>3, <1>4 DEF ExchangeInv, CancellableOnceStored, Unstored, history
  <1>9. QED
    BY <1>5, <1>6, <1>8 DEF ExchangeInv

\* A LAN exchange begins.
LEMMA LANBeginStep ==
  ASSUME ExchangeInv, NEW n \in Requests, beginLANExchange(n)
  PROVE  ExchangeInv'
  <1>0. req \in [Requests -> Request] /\ handler \in Handler /\ peer \in [Messages -> Peer]
    BY RequestType DEF ExchangeInv, HandlerOK, PeerOK
  <1>1. /\ req[n].kind = "none" /\ handler.pc = "idle" /\ handler.old = None
        /\ req[n].timer = "none" /\ ~req[n].fired /\ n \notin asked
    <2>1. req[n].kind = "none" /\ handler.pc = "idle"
      BY <1>0, ExchangeAssumption DEF beginLANExchange, Requests
    <2>2. QED
      BY <2>1, <1>0 DEF ExchangeInv, MadeBeforeUsed, HandlerOK, Request
  <1>2. /\ req' \in [Requests -> Request]
        /\ req'[n].kind = "lan" /\ req'[n].timer = "armed" /\ ~req'[n].fired
        /\ \A i \in Requests \ {n} : req'[i] = req[i]
    <2>1. req' = [req EXCEPT ![n] = [req[n] EXCEPT !.kind = "lan", !.timer = "armed"]]
      BY DEF beginLANExchange
    <2>2. [req[n] EXCEPT !.kind = "lan", !.timer = "armed"] \in Request
      BY <1>0 DEF Request, Kinds
    <2>3. QED
      BY <2>1, <2>2, <1>0, <1>1 DEF Request
  <1>3. /\ handler'.pc = "store" /\ handler'.n = n /\ handler'.old = None
        /\ handler' \in Handler
    BY <1>0, <1>1 DEF beginLANExchange, Handler, LANPCs
  <1>4. waiting' = waiting \cup {n} /\ UNCHANGED <<slot, peer, sweep, asked, told, history>>
    BY DEF beginLANExchange
  <1>5. ExchangeTypeOK'
    BY <1>1, <1>2, <1>4 DEF ExchangeInv, ExchangeTypeOK, Request, history, told, Kinds
  <1>6. MadeBeforeUsed' /\ HandlerOK' /\ PeerOK'
    BY <1>1, <1>2, <1>3, <1>4, NoneNoRequest DEF ExchangeInv, MadeBeforeUsed, HandlerOK, PeerOK, Peer,
       PunchPCs, LANPCs
  <1>8. CancellableOnceStored'
    BY <1>1, <1>2, <1>3, <1>4 DEF ExchangeInv, CancellableOnceStored, Unstored, history
  <1>9. QED
    BY <1>5, <1>6, <1>8 DEF ExchangeInv

\* The timer of a fallback is armed before the entry is stored.
LEMMA ScheduleStep ==
  ASSUME ExchangeInv, schedulePunchFallback
  PROVE  ExchangeInv'
  <1>0. req \in [Requests -> Request] /\ handler \in Handler /\ peer \in [Messages -> Peer]
    BY RequestType DEF ExchangeInv, HandlerOK, PeerOK
  <1>1. /\ handler.pc = "schedule" /\ handler.n \in Requests /\ handler.old = None
        /\ req[handler.n].kind = "punch" /\ req[handler.n].timer = "none"
    BY <1>0 DEF schedulePunchFallback, ExchangeInv, HandlerOK, PunchPCs, Handler
  <1>2. /\ req' \in [Requests -> Request]
        /\ req'[handler.n].kind = "punch" /\ req'[handler.n].timer = "armed"
        /\ \A i \in Requests : /\ req'[i].kind = req[i].kind /\ req'[i].fired = req[i].fired
                               /\ i # handler.n => req'[i] = req[i]
    BY <1>0, <1>1 DEF schedulePunchFallback, Request
  <1>3. /\ handler'.pc = "swap" /\ handler'.n = handler.n /\ handler'.old = None
        /\ handler' \in Handler
    BY <1>0, <1>1 DEF schedulePunchFallback, Handler, PunchPCs
  <1>4. UNCHANGED <<slot, peer, sweep, asked, waiting, told, history>>
    BY DEF schedulePunchFallback
  <1>5. ExchangeTypeOK'
    BY <1>1, <1>2, <1>4 DEF ExchangeInv, ExchangeTypeOK, Request, history, told
  <1>6. MadeBeforeUsed' /\ HandlerOK' /\ PeerOK'
    BY <1>1, <1>2, <1>3, <1>4, NoneNoRequest DEF ExchangeInv, MadeBeforeUsed, HandlerOK, PeerOK, Peer,
       PunchPCs, LANPCs
  <1>8. CancellableOnceStored'
    BY <1>1, <1>2, <1>3, <1>4 DEF ExchangeInv, CancellableOnceStored, Unstored, history
  <1>9. QED
    BY <1>5, <1>6, <1>8 DEF ExchangeInv

\* The swap takes the older entry into the handler's hands; the claim sets its flag.
LEMMA PunchStoreSteps ==
  ASSUME ExchangeInv, PunchSwap \/ PunchReplace
  PROVE  ExchangeInv'
  <1>0. req \in [Requests -> Request] /\ handler \in Handler /\ peer \in [Messages -> Peer]
    BY RequestType DEF ExchangeInv, HandlerOK, PeerOK
  <1>1. /\ handler.n \in Requests /\ handler.pc \in {"swap", "replace"}
        /\ req[handler.n].kind = "punch"
    BY <1>0 DEF PunchSwap, PunchReplace, ExchangeInv, HandlerOK, PunchPCs, Handler
  <1>2. CASE PunchSwap
    <2>1. /\ handler.pc = "swap" /\ handler.old = None
          /\ slot["punch"] \in Requests \cup {None}
          /\ slot["punch"] # None => req[slot["punch"]].kind = "punch"
          /\ slot \in [Kinds -> Requests \cup {None}] /\ "punch" \in Kinds /\ "lan" \in Kinds
      BY <1>2 DEF PunchSwap, ExchangeInv, HandlerOK, ExchangeTypeOK, Kinds
    <2>2. /\ slot' \in [Kinds -> Requests \cup {None}]
          /\ slot'["punch"] = handler.n /\ slot'["lan"] = slot["lan"]
      BY <1>1, <1>2, <2>1 DEF PunchSwap, Store
    <2>3. /\ handler' \in Handler
          /\ \/ handler'.pc = "idle" /\ handler'.n = None /\ handler'.old = None /\ slot["punch"] = None
             \/ /\ handler'.pc = "replace" /\ handler'.n = handler.n
                /\ handler'.old = slot["punch"] /\ slot["punch"] # None
      <3>1. CASE slot["punch"] = None
        BY <3>1, <1>2 DEF PunchSwap, Idle, Handler
      <3>2. CASE slot["punch"] # None
        BY <3>2, <1>0, <1>2, <2>1 DEF PunchSwap, Handler, PunchPCs
      <3>3. QED
        BY <3>1, <3>2
    <2>4. UNCHANGED <<req, peer, sweep, asked, waiting, told, history>>
      BY <1>2 DEF PunchSwap
    <2>5. ExchangeTypeOK'
      BY <1>1, <2>2, <2>4 DEF ExchangeInv, ExchangeTypeOK, history, told, Kinds
    <2>6. MadeBeforeUsed' /\ HandlerOK' /\ PeerOK'
      BY <1>1, <2>1, <2>2, <2>3, <2>4, NoneNoRequest DEF ExchangeInv, MadeBeforeUsed, HandlerOK, PeerOK,
         PunchPCs, LANPCs
    <2>8. CancellableOnceStored'
      <3> SUFFICES ASSUME NEW n \in Requests, req[n].timer = "armed", ~req[n].fired,
                          n # handler'.old, \A m \in Messages : peer[m].old # n, n \notin dropped
          PROVE slot'[req[n].kind] = n
        BY <2>4 DEF CancellableOnceStored, history
      <3>1. CASE n = handler.n
        BY <3>1, <1>1, <2>2
      <3>2. CASE n # handler.n
        <4>1. slot[req[n].kind] = n /\ req[n].kind \in Kinds
          BY <3>2, <1>0, <2>1, NoneNoRequest
             DEF ExchangeInv, CancellableOnceStored, MadeBeforeUsed, Request
        <4>2. n # slot["punch"]
          BY <2>3, NoneNoRequest
        <4>3. QED
          BY <4>1, <4>2, <2>2 DEF Kinds
      <3>3. QED
        BY <3>1, <3>2
    <2>9. QED
      BY <2>5, <2>6, <2>8 DEF ExchangeInv
  <1>3. CASE PunchReplace
    <2>1. handler.pc = "replace" /\ handler.old \in Requests /\ req[handler.old].kind # "none"
      BY <1>0, <1>3 DEF PunchReplace, ExchangeInv, HandlerOK, Handler
    <2>2. /\ req' \in [Requests -> Request]
          /\ \A i \in Requests : /\ req'[i].kind = req[i].kind
                                 /\ req'[i].timer = req[i].timer
                                 /\ req'[i].fired <=> (i = handler.old \/ req[i].fired)
      BY <2>1, <1>0, <1>3, ClaimFacts DEF PunchReplace
    <2>3. /\ handler' \in Handler /\ handler'.pc = "idle" /\ handler'.n = None /\ handler'.old = None
          /\ UNCHANGED <<slot, peer, sweep, asked, waiting, told, history>>
      BY <1>3 DEF PunchReplace, Idle, Handler
    <2>4. ExchangeTypeOK'
      BY <2>2, <2>3 DEF ExchangeInv, ExchangeTypeOK, Request, history, told
    <2>5. MadeBeforeUsed' /\ HandlerOK' /\ PeerOK'
      <3>1. MadeBeforeUsed'
        BY <2>1, <2>2, <2>3 DEF ExchangeInv, MadeBeforeUsed
      <3>2. HandlerOK'
        BY <2>3 DEF HandlerOK, PunchPCs, LANPCs
      <3>3. PeerOK'
        BY <2>2, <2>3 DEF ExchangeInv, PeerOK, Peer
      <3>4. QED
        BY <3>1, <3>2, <3>3
    <2>7. CancellableOnceStored'
      BY <2>1, <2>2, <2>3 DEF ExchangeInv, CancellableOnceStored, Unstored, history
    <2>8. QED
      BY <2>4, <2>5, <2>7 DEF ExchangeInv
  <1>4. QED
    BY <1>2, <1>3

\* A LAN request is stored, or meets an older one.
LEMMA LANStoreStep ==
  ASSUME ExchangeInv, LANStore
  PROVE  ExchangeInv'
  <1>0. req \in [Requests -> Request] /\ handler \in Handler /\ peer \in [Messages -> Peer]
    BY RequestType DEF ExchangeInv, HandlerOK, PeerOK
  <1>1. /\ handler.n \in Requests /\ handler.pc \in {"store", "overwrite"} /\ handler.old = None
        /\ req[handler.n].kind = "lan" /\ handler.n \notin asked
        /\ handler.pc = "overwrite" => slot["lan"] = None
        /\ slot \in [Kinds -> Requests \cup {None}] /\ "punch" \in Kinds /\ "lan" \in Kinds
    BY <1>0 DEF LANStore, ExchangeInv, HandlerOK, LANPCs, Handler, ExchangeTypeOK, Kinds
  <1>2. UNCHANGED <<req, peer, sweep, asked, waiting, told, history>>
    BY DEF LANStore
  <1>3. /\ handler' \in Handler /\ handler'.n = handler.n /\ handler'.old = None
        /\ \/ handler'.pc = "cancel" /\ slot["lan"] # None /\ handler.pc = "store" /\ UNCHANGED slot
           \/ /\ handler'.pc = "send" /\ slot["lan"] = None
              /\ slot' = [slot EXCEPT !["lan"] = handler.n]
    BY <1>0, <1>1 DEF LANStore, Store, Handler, LANPCs
  <1>4. /\ slot' \in [Kinds -> Requests \cup {None}] /\ slot'["punch"] = slot["punch"]
        /\ slot'["lan"] \in {slot["lan"], handler.n}
    BY <1>1, <1>3
  <1>5. ExchangeTypeOK'
    BY <1>1, <1>2, <1>4 DEF ExchangeInv, ExchangeTypeOK, history, told, Kinds
  <1>6. MadeBeforeUsed' /\ HandlerOK' /\ PeerOK'
    BY <1>1, <1>2, <1>3, NoneNoRequest DEF ExchangeInv, MadeBeforeUsed, HandlerOK, PeerOK,
         PunchPCs, LANPCs
  <1>8. CancellableOnceStored'
    <2> SUFFICES ASSUME NEW n \in Requests, req[n].timer = "armed", ~req[n].fired,
                        ~(n = handler.n /\ handler'.pc \in Unstored),
                        \A m \in Messages : peer[m].old # n, n \notin dropped
        PROVE slot'[req[n].kind] = n
      BY <1>2, <1>3 DEF CancellableOnceStored, history
    <2>1. CASE n = handler.n
      BY <2>1, <1>1, <1>3 DEF Unstored
    <2>2. CASE n # handler.n
      <3>1. slot[req[n].kind] = n /\ req[n].kind \in Kinds
        BY <2>2, <1>0, <1>1, NoneNoRequest
             DEF ExchangeInv, CancellableOnceStored, MadeBeforeUsed, Request
      <3>2. QED
        BY <3>1, <1>1, <1>3, <1>4, NoneNoRequest DEF Kinds
    <2>3. QED
      BY <2>1, <2>2
  <1>9. QED
    BY <1>5, <1>6, <1>8 DEF ExchangeInv

\* cancelPendingLAN takes the entry out and then sets its flag.
LEMMA LANCancelTakeStep ==
  ASSUME ExchangeInv, LANCancelTake
  PROVE  ExchangeInv'
  <1>0. req \in [Requests -> Request] /\ handler \in Handler /\ peer \in [Messages -> Peer]
    BY RequestType DEF ExchangeInv, HandlerOK, PeerOK
  <1>1. /\ handler.n \in Requests /\ handler.pc \in {"cancel", "failed"} /\ handler.old = None
        /\ req[handler.n].kind = "lan" /\ handler.n \notin asked
        /\ slot \in [Kinds -> Requests \cup {None}] /\ "punch" \in Kinds /\ "lan" \in Kinds
        /\ slot["lan"] # None => req[slot["lan"]].kind = "lan"
    BY <1>0 DEF LANCancelTake, ExchangeInv, HandlerOK, LANPCs, Handler, ExchangeTypeOK, Kinds
  <1>2. /\ UNCHANGED <<req, peer, sweep, asked, waiting, told, history>>
        /\ slot' \in [Kinds -> Requests \cup {None}] /\ slot'["punch"] = slot["punch"]
        /\ slot'["lan"] = None
    BY <1>1 DEF LANCancelTake
  <1>3. /\ handler' \in Handler /\ handler'.n = handler.n /\ handler'.old = slot["lan"]
        /\ \/ handler.pc = "cancel" /\ handler'.pc = "cancel2"
           \/ handler.pc = "failed" /\ handler'.pc = "failed2"
    <2>1. handler' = [handler EXCEPT !.old = slot["lan"],
                                     !.pc = IF handler.pc = "cancel" THEN "cancel2" ELSE "failed2"]
      BY DEF LANCancelTake
    <2>2. slot["lan"] \in Requests \cup {None}
      BY <1>1
    <2>3. QED
      BY <2>1, <2>2, <1>0, <1>1 DEF Handler, LANPCs
  <1>5. ExchangeTypeOK'
    BY <1>1, <1>2 DEF ExchangeInv, ExchangeTypeOK, history, told, Kinds
  <1>6. MadeBeforeUsed' /\ HandlerOK' /\ PeerOK'
    BY <1>1, <1>2, <1>3, NoneNoRequest DEF ExchangeInv, MadeBeforeUsed, HandlerOK, PeerOK,
         PunchPCs, LANPCs
  <1>8. CancellableOnceStored'
    <2> SUFFICES ASSUME NEW n \in Requests, req[n].timer = "armed", ~req[n].fired,
                        ~(n = handler.n /\ handler'.pc \in Unstored), n # slot["lan"],
                        \A m \in Messages : peer[m].old # n, n \notin dropped
        PROVE slot'[req[n].kind] = n
      BY <1>2, <1>3 DEF CancellableOnceStored, history
    <2>1. slot[req[n].kind] = n /\ req[n].kind \in Kinds
      BY <1>0, <1>1, <1>3, NoneNoRequest
             DEF ExchangeInv, CancellableOnceStored, MadeBeforeUsed, Request, Unstored
    <2>2. QED
      BY <2>1, <1>2 DEF Kinds
  <1>9. QED
    BY <1>5, <1>6, <1>8 DEF ExchangeInv

\* The handler takes, or fails to take, the right of an entry it removed.
LEMMA LANCancelClaimStep ==
  ASSUME ExchangeInv, LANCancelClaim
  PROVE  ExchangeInv'
  <1>0. req \in [Requests -> Request] /\ handler \in Handler /\ peer \in [Messages -> Peer]
    BY RequestType DEF ExchangeInv, HandlerOK, PeerOK
  <1>1. /\ handler.n \in Requests /\ handler.pc \in {"cancel2", "failed2"}
        /\ handler.old \in Requests \cup {None}
        /\ handler.old # None => req[handler.old].kind # "none"
        /\ req[handler.n].kind = "lan" /\ handler.n \notin asked
    BY <1>0 DEF LANCancelClaim, ExchangeInv, HandlerOK, LANPCs, Handler
  <1>2. UNCHANGED <<slot, peer, sweep, asked, history>>
    BY DEF LANCancelClaim
  <1>3. /\ req' \in [Requests -> Request]
        /\ \A i \in Requests : /\ req'[i].kind = req[i].kind
                               /\ req'[i].timer = req[i].timer
                               /\ req'[i].fired <=> (i = handler.old \/ req[i].fired)
    <2>1. CASE handler.old = None
      BY <2>1, <1>0, NoneNoRequest DEF LANCancelClaim, Request
    <2>2. CASE handler.old # None
      BY <2>2, <1>0, <1>1, ClaimFacts DEF LANCancelClaim
    <2>3. QED
      BY <2>1, <2>2
  <1>4. /\ handler' \in Handler /\ handler'.old = None
        /\ \/ /\ handler.pc = "cancel2" /\ handler'.pc = "overwrite" /\ handler'.n = handler.n
              /\ UNCHANGED <<waiting, told>>
           \/ /\ handler.pc = "failed2" /\ handler'.pc = "idle" /\ handler'.n = None
              /\ Answer(handler.n)
    <2>1. CASE handler.pc = "cancel2"
      BY <2>1, <1>0, <1>1 DEF LANCancelClaim, Handler, LANPCs, NoAnswer
    <2>2. CASE handler.pc = "failed2"
      BY <2>2, <1>0, <1>1 DEF LANCancelClaim, Handler, Idle
    <2>3. QED
      BY <2>1, <2>2, <1>1
  <1>6. ExchangeTypeOK'
    <2>1. waiting' \subseteq Requests /\ answers' \in [Requests -> Nat] /\ sent' \in Nat
      BY <1>4, AnswerTyped DEF ExchangeInv, ExchangeTypeOK, told
    <2>2. QED
      BY <2>1, <1>2, <1>3 DEF ExchangeInv, ExchangeTypeOK, Request, history
  <1>7. MadeBeforeUsed' /\ HandlerOK' /\ PeerOK'
    <2>1. MadeBeforeUsed'
      BY <1>1, <1>2, <1>3, NoneNoRequest DEF ExchangeInv, MadeBeforeUsed
    <2>2. HandlerOK'
      BY <1>1, <1>2, <1>3, <1>4, NoneNoRequest DEF ExchangeInv, HandlerOK, PunchPCs, LANPCs
    <2>3. PeerOK'
      BY <1>2, <1>3 DEF ExchangeInv, PeerOK, Peer
    <2>4. QED
      BY <2>1, <2>2, <2>3
  <1>8. CancellableOnceStored'
    BY <1>1, <1>2, <1>3, <1>4 DEF ExchangeInv, CancellableOnceStored, Unstored, history
  <1>9. QED
    BY <1>6, <1>7, <1>8 DEF ExchangeInv

\* The request of a LAN exchange reaches the peer.
LEMMA LANSendStep ==
  ASSUME ExchangeInv, LANSend
  PROVE  ExchangeInv'
  <1>0. req \in [Requests -> Request] /\ handler \in Handler /\ peer \in [Messages -> Peer]
    BY RequestType DEF ExchangeInv, HandlerOK, PeerOK
  <1>1. /\ handler.n \in Requests /\ handler.pc = "send" /\ handler.old = None
        /\ req[handler.n].kind = "lan" /\ handler.n \notin asked
    BY <1>0 DEF LANSend, ExchangeInv, HandlerOK, LANPCs, Handler
  <1>2. UNCHANGED <<req, slot, peer, sweep, waiting, told, history>>
    BY DEF LANSend
  <1>3. /\ handler' \in Handler /\ handler'.old = None
        /\ \/ handler'.pc = "idle" /\ handler'.n = None /\ asked' = asked \cup {handler.n}
           \/ handler'.pc = "failed" /\ handler'.n = handler.n /\ asked' = asked
    BY <1>0, <1>1 DEF LANSend, Handler, LANPCs, Idle
  <1>5. ExchangeTypeOK'
    BY <1>1, <1>2, <1>3 DEF ExchangeInv, ExchangeTypeOK, history, told
  <1>6. MadeBeforeUsed' /\ HandlerOK' /\ PeerOK'
    BY <1>1, <1>2, <1>3, NoneNoRequest DEF ExchangeInv, MadeBeforeUsed, HandlerOK, PeerOK,
         PunchPCs, LANPCs
  <1>8. CancellableOnceStored'
    BY <1>1, <1>2, <1>3 DEF ExchangeInv, CancellableOnceStored, Unstored, history
  <1>9. QED
    BY <1>5, <1>6, <1>8 DEF ExchangeInv

-----------------------------------------------------------------------------
(* The fallback timers.                                                     *)

\* Timers, messages and the sweep leave the handler alone: they set flags of
\* requests that were made and at most empty a key of the maps.
LEMMA HandlerUndisturbed ==
  ASSUME ExchangeInv, UNCHANGED <<handler, asked>>, req' \in [Requests -> Request],
         \A n \in Requests : /\ req'[n].kind = req[n].kind
                             /\ req[n].timer = "none" => req'[n].timer = "none"
                             /\ req'[n].fired => req[n].fired \/ req[n].kind # "none",
         slot' = slot \/ \E k \in Kinds : slot' = [slot EXCEPT ![k] = None]
  PROVE  /\ MadeBeforeUsed' /\ HandlerOK'
         /\ slot' \in [Kinds -> Requests \cup {None}]
         /\ \A k \in Kinds : /\ slot'[k] \in {slot[k], None}
                             /\ slot'[k] # None => req'[slot'[k]].kind = k
  <1>1. /\ slot \in [Kinds -> Requests \cup {None}] /\ "lan" \in Kinds
        /\ \A k \in Kinds : slot[k] # None => req[slot[k]].kind = k
        /\ handler.n \in Requests \cup {None} /\ handler.old \in Requests \cup {None}
    BY DEF ExchangeInv, ExchangeTypeOK, Kinds, HandlerOK, Handler
  <1>2. /\ slot' \in [Kinds -> Requests \cup {None}]
        /\ \A k \in Kinds : slot'[k] \in {slot[k], None}
    BY <1>1
  <1>3. \A k \in Kinds : slot'[k] # None => req'[slot'[k]].kind = k
    BY <1>1, <1>2
  <1>4. MadeBeforeUsed'
    BY DEF ExchangeInv, MadeBeforeUsed
  <1>5. HandlerOK'
    <2>1. HandlerOK
      BY DEF ExchangeInv
    <2>2. handler.pc # "idle" => handler.n \in Requests
      BY <1>1, <2>1 DEF HandlerOK
    <2>3. QED
      BY <1>1, <1>2, <2>1, <2>2 DEF HandlerOK, PunchPCs, LANPCs
  <1>6. QED
    BY <1>2, <1>3, <1>4, <1>5

\* The timer wins the right to answer, or finds it taken.
LEMMA TimerFiresStep ==
  ASSUME ExchangeInv, NEW n \in Requests, TimerFires(n)
  PROVE  ExchangeInv'
  <1>0. req \in [Requests -> Request] /\ handler \in Handler /\ peer \in [Messages -> Peer]
    BY RequestType DEF ExchangeInv, HandlerOK, PeerOK
  <1>1. /\ req[n].timer = "armed" /\ req[n].kind # "none"
        /\ UNCHANGED <<slot, handler, peer, sweep, asked, waiting, told, history>>
    BY <1>0 DEF TimerFires, ExchangeInv, MadeBeforeUsed
  <1>2. /\ req' \in [Requests -> Request]
        /\ req'[n].timer = (IF req[n].fired THEN "over" ELSE "delete") /\ req'[n].fired
        /\ req'[n].kind = req[n].kind
        /\ \A i \in Requests \ {n} : req'[i] = req[i]
    <2> DEFINE C == Claim(n)
    <2>1. /\ C \in [Requests -> Request] /\ C[n].fired /\ C[n].kind = req[n].kind
          /\ \A i \in Requests \ {n} : C[i] = req[i]
      BY <1>0 DEF Claim, Request
    <2>2. req' = [C EXCEPT ![n].timer = IF req[n].fired THEN "over" ELSE "delete"]
      BY DEF TimerFires
    <2> HIDE DEF C
    <2>3. QED
      BY <2>1, <2>2 DEF Request
  <1>3. /\ MadeBeforeUsed' /\ HandlerOK'
        /\ \A k \in Kinds : slot'[k] # None => req'[slot'[k]].kind = k
    BY <1>1, <1>2, HandlerUndisturbed
  <1>5. ExchangeTypeOK'
    BY <1>1, <1>2, <1>3 DEF ExchangeInv, ExchangeTypeOK, Request, history, told
  <1>6. PeerOK'
    BY <1>1, <1>2 DEF ExchangeInv, PeerOK, Peer
  <1>8. CancellableOnceStored'
    BY <1>1, <1>2 DEF ExchangeInv, CancellableOnceStored, history
  <1>9. QED
    BY <1>3, <1>5, <1>6, <1>8 DEF ExchangeInv

\* It takes out of the map whatever its key holds; a newer entry is dropped.
LEMMA TimerDeletesStep ==
  ASSUME ExchangeInv, NEW n \in Requests, TimerDeletes(n)
  PROVE  ExchangeInv'
  <1>0. req \in [Requests -> Request] /\ handler \in Handler /\ peer \in [Messages -> Peer]
    BY RequestType DEF ExchangeInv, HandlerOK, PeerOK
  <1>1. /\ req[n].timer = "delete" /\ req[n].kind \in Kinds
        /\ UNCHANGED <<handler, peer, sweep, asked, waiting, told, silenced>>
        /\ slot' = [slot EXCEPT ![req[n].kind] = None]
        /\ dropped' = IF slot[req[n].kind] \in {None, n} THEN dropped
                      ELSE dropped \cup {slot[req[n].kind]}
    BY <1>0 DEF TimerDeletes, ExchangeInv, MadeBeforeUsed, Request
  <1>2. /\ req' \in [Requests -> Request]
        /\ req'[n].timer = "answer" /\ req'[n].fired = req[n].fired /\ req'[n].kind = req[n].kind
        /\ \A i \in Requests \ {n} : req'[i] = req[i]
    BY <1>0, <1>1 DEF TimerDeletes, Request
  <1>3. /\ MadeBeforeUsed' /\ HandlerOK'
        /\ slot' \in [Kinds -> Requests \cup {None}]
        /\ \A k \in Kinds : slot'[k] # None => req'[slot'[k]].kind = k
    BY <1>1, <1>2, HandlerUndisturbed
  <1>4. /\ slot[req[n].kind] \in Requests \cup {None}
        /\ slot \in [Kinds -> Requests \cup {None}]
    BY <1>1 DEF ExchangeInv, ExchangeTypeOK
  <1>5. ExchangeTypeOK'
    BY <1>1, <1>2, <1>3, <1>4 DEF ExchangeInv, ExchangeTypeOK, Request, told
  <1>6. PeerOK'
    BY <1>1, <1>2 DEF ExchangeInv, PeerOK, Peer
  <1>8. CancellableOnceStored'
    <2> SUFFICES ASSUME NEW i \in Requests, req'[i].timer = "armed", ~req'[i].fired,
                        ~(i = handler.n /\ handler.pc \in Unstored), i # handler.old,
                        \A m \in Messages : peer[m].old # i, i \notin dropped'
        PROVE slot'[req'[i].kind] = i
      BY <1>1 DEF CancellableOnceStored
    <2>1. i # n /\ req'[i] = req[i] /\ i \notin dropped
      BY <1>1, <1>2
    <2>2. slot[req[i].kind] = i /\ req[i].kind \in Kinds
      BY <2>1, <1>0 DEF ExchangeInv, CancellableOnceStored, MadeBeforeUsed, Request
    <2>3. slot[req[n].kind] # i
      BY <2>1, <1>1, NoneNoRequest
    <2>4. QED
      BY <2>1, <2>2, <2>3, <1>1, <1>4
  <1>9. QED
    BY <1>3, <1>5, <1>6, <1>8 DEF ExchangeInv

\* A timer that set the flag answers.
LEMMA TimerAnswersStep ==
  ASSUME ExchangeInv, NEW n \in Requests, TimerAnswers(n)
  PROVE  ExchangeInv'
  <1>0. req \in [Requests -> Request] /\ handler \in Handler /\ peer \in [Messages -> Peer]
    BY RequestType DEF ExchangeInv, HandlerOK, PeerOK
  <1>1. /\ req[n].timer = "answer" /\ Answer(n)
        /\ UNCHANGED <<slot, handler, peer, sweep, asked, history>>
    BY <1>0 DEF TimerAnswers
  <1>2. /\ req' \in [Requests -> Request]
        /\ req'[n].timer = "over" /\ req'[n].fired = req[n].fired /\ req'[n].kind = req[n].kind
        /\ \A i \in Requests \ {n} : req'[i] = req[i]
    BY <1>0, <1>1 DEF TimerAnswers, Request
  <1>3. /\ MadeBeforeUsed' /\ HandlerOK'
        /\ \A k \in Kinds : slot'[k] # None => req'[slot'[k]].kind = k
    BY <1>1, <1>2, HandlerUndisturbed
  <1>4. PeerOK'
    BY <1>1, <1>2 DEF ExchangeInv, PeerOK, Peer
  <1>7. ExchangeTypeOK'
    BY <1>1, <1>2, <1>3, AnswerTyped DEF ExchangeInv, ExchangeTypeOK, Request, history
  <1>8. CancellableOnceStored'
    BY <1>1, <1>2 DEF ExchangeInv, CancellableOnceStored, history
  <1>9. QED
    BY <1>3, <1>4, <1>7, <1>8 DEF ExchangeInv

-----------------------------------------------------------------------------
(* The messages of the peer and the sweep.                                  *)

\* A message comes or takes an entry out: what leaves the map is in its hands.
LEMMA MessageTakes ==
  ASSUME ExchangeInv, NEW m \in Messages, NEW p \in Peer,
         UNCHANGED <<req, handler, sweep, asked, waiting, told, history>>,
         peer' = [peer EXCEPT ![m] = p], peer[m].pc \in {"new", "found"}, p.pc # "deliver",
         p.pc \in {"new", "idle", "found", "stale"} => p.old = None,
         p.pc = "taken" => p.old # None /\ req[p.old].kind = "lan",
         p.old # None => req[p.old].kind # "none",
         \/ slot' = slot
         \/ \E k \in Kinds : slot' = [slot EXCEPT ![k] = None] /\ p.old = slot[k]
  PROVE  ExchangeInv'
  <1>0. /\ req \in [Requests -> Request] /\ peer \in [Messages -> Peer]
        /\ slot \in [Kinds -> Requests \cup {None}]
        /\ peer[m].old = None
    BY RequestType DEF ExchangeInv, PeerOK, ExchangeTypeOK
  <1>1. /\ peer' \in [Messages -> Peer] /\ peer'[m] = p
        /\ \A i \in Messages \ {m} : peer'[i] = peer[i]
    BY <1>0
  <1>3. /\ MadeBeforeUsed' /\ HandlerOK'
        /\ slot' \in [Kinds -> Requests \cup {None}]
        /\ \A k \in Kinds : slot'[k] # None => req'[slot'[k]].kind = k
    BY <1>0, HandlerUndisturbed
  <1>5. ExchangeTypeOK'
    BY <1>3 DEF ExchangeInv, ExchangeTypeOK, history, told
  <1>6. PeerOK'
    BY <1>1 DEF ExchangeInv, PeerOK
  <1>8. CancellableOnceStored'
    <2> SUFFICES ASSUME NEW i \in Requests, req[i].timer = "armed", ~req[i].fired,
                        ~(i = handler.n /\ handler.pc \in Unstored), i # handler.old,
                        \A j \in Messages : peer'[j].old # i, i \notin dropped
        PROVE slot'[req[i].kind] = i
      BY DEF CancellableOnceStored, history
    <2>1. p.old # i /\ \A j \in Messages : peer[j].old # i
      BY <1>0, <1>1, NoneNoRequest
    <2>2. slot[req[i].kind] = i /\ req[i].kind \in Kinds
      BY <2>1, <1>0 DEF ExchangeInv, CancellableOnceStored, MadeBeforeUsed, Request
    <2>3. QED
      BY <2>1, <2>2, <1>0
  <1>9. QED
    BY <1>3, <1>5, <1>6, <1>8 DEF ExchangeInv

\* The flag of an entry is set, and the entry is taken out if it was in the map:
\* by a message that cancels it or by the sweep.
LEMMA EntryCancelled ==
  ASSUME ExchangeInv, NEW x \in Requests \cup {None},
         req' = IF x = None THEN req ELSE Claim(x),
         x # None => req[x].kind # "none",
         UNCHANGED <<handler, asked, told, dropped>>,
         waiting' \subseteq Requests, sweep' \in Requests \cup {None}, silenced' \subseteq Requests,
         \/ slot' = slot
         \/ \E k \in Kinds : slot' = [slot EXCEPT ![k] = None] /\ x = slot[k],
         \/ peer' = peer
         \/ \E m \in Messages : /\ peer' = [peer EXCEPT ![m] = Finished]
                                /\ \/ peer[m].pc = "stale"
                                   \/ peer[m].pc = "sent" /\ peer[m].old = x
  PROVE  ExchangeInv'
  <1>0. /\ req \in [Requests -> Request] /\ peer \in [Messages -> Peer]
        /\ slot \in [Kinds -> Requests \cup {None}]
    BY RequestType DEF ExchangeInv, PeerOK, ExchangeTypeOK
  <1>1. /\ req' \in [Requests -> Request]
        /\ \A i \in Requests : /\ req'[i].kind = req[i].kind
                               /\ req'[i].timer = req[i].timer
                               /\ req'[i].fired <=> (i = x \/ req[i].fired)
    <2>1. CASE x = None
      BY <2>1, <1>0, NoneNoRequest
    <2>2. CASE x # None
      BY <2>2, <1>0, ClaimFacts
    <2>3. QED
      BY <2>1, <2>2
  <1>2. /\ peer' \in [Messages -> Peer]
        /\ \A i \in Messages : \/ peer'[i] = peer[i]
                               \/ /\ peer'[i].pc = "idle" /\ peer'[i].old = None
                                  /\ \/ peer[i].pc = "stale"
                                     \/ peer[i].pc = "sent" /\ peer[i].old = x
    <2>1. Finished \in Peer /\ Finished.pc = "idle" /\ Finished.old = None
      BY DEF Finished, Peer
    <2>2. QED
      BY <2>1, <1>0
  <1>3. /\ MadeBeforeUsed' /\ HandlerOK'
        /\ slot' \in [Kinds -> Requests \cup {None}]
        /\ \A k \in Kinds : slot'[k] # None => req'[slot'[k]].kind = k
    BY <1>0, <1>1, NoneNoRequest, HandlerUndisturbed
  <1>5. ExchangeTypeOK'
    BY <1>1, <1>3 DEF ExchangeInv, ExchangeTypeOK, Request, told
  <1>6. PeerOK'
    <2> SUFFICES ASSUME NEW m \in Messages
        PROVE /\ peer'[m].pc \in {"new", "idle", "found", "stale"} => peer'[m].old = None
              /\ peer'[m].pc \in {"taken", "deliver"} => peer'[m].old # None
              /\ peer'[m].old # None => req'[peer'[m].old].kind # "none"
              /\ peer'[m].pc = "taken" => req'[peer'[m].old].kind = "lan"
              /\ peer'[m].pc = "deliver" => req'[peer'[m].old].fired
      BY <1>2 DEF PeerOK
    <2>1. CASE peer'[m] = peer[m]
      BY <2>1, <1>0, <1>1 DEF ExchangeInv, PeerOK, Peer
    <2>2. CASE peer'[m].pc = "idle" /\ peer'[m].old = None
      BY <2>2
    <2>3. QED
      BY <2>1, <2>2, <1>2
  <1>8. CancellableOnceStored'
    <2> SUFFICES ASSUME NEW i \in Requests, req'[i].timer = "armed", ~req'[i].fired,
                        ~(i = handler.n /\ handler.pc \in Unstored), i # handler.old,
                        \A j \in Messages : peer'[j].old # i, i \notin dropped
        PROVE slot'[req'[i].kind] = i
      BY DEF CancellableOnceStored
    <2>1. x # i /\ req[i].timer = "armed" /\ ~req[i].fired /\ req'[i].kind = req[i].kind
      BY <1>1
    <2>2. \A j \in Messages : peer[j].old # i
      BY <2>1, <1>2 DEF ExchangeInv, PeerOK
    <2>3. slot[req[i].kind] = i /\ req[i].kind \in Kinds
      BY <2>1, <2>2, <1>0 DEF ExchangeInv, CancellableOnceStored, MadeBeforeUsed, Request
    <2>4. QED
      BY <2>1, <2>3, <1>0
  <1>9. QED
    BY <1>3, <1>5, <1>6, <1>8 DEF ExchangeInv

\* completeLANAddr wins the right to answer, or finds that the timer was first.
LEMMA LocalAddrClaimStep ==
  ASSUME ExchangeInv, NEW m \in Messages, LocalAddrClaim(m)
  PROVE  ExchangeInv'
  <1>0. /\ req \in [Requests -> Request] /\ peer \in [Messages -> Peer]
    BY RequestType DEF ExchangeInv, PeerOK
  <1>1. PICK x \in Requests : x = peer[m].old
    BY <1>0 DEF LocalAddrClaim, ExchangeInv, PeerOK, Peer
  <1>2. /\ peer[m].pc = "taken" /\ req[x].kind # "none"
        /\ UNCHANGED <<slot, handler, sweep, asked, waiting, told, history>>
    BY <1>1, NoneNoRequest DEF LocalAddrClaim, ExchangeInv, PeerOK
  <1>3. /\ req' \in [Requests -> Request]
        /\ \A i \in Requests : /\ req'[i].kind = req[i].kind
                               /\ req'[i].timer = req[i].timer
                               /\ req'[i].fired <=> (i = x \/ req[i].fired)
    BY <1>0, <1>1, ClaimFacts DEF LocalAddrClaim
  <1>4. /\ peer' \in [Messages -> Peer]
        /\ \A i \in Messages \ {m} : peer'[i] = peer[i]
        /\ \/ req[x].fired /\ peer'[m].pc = "idle" /\ peer'[m].old = None
           \/ ~req[x].fired /\ peer'[m].pc = "deliver" /\ peer'[m].old = x
    <2>1. Finished \in Peer /\ Finished.pc = "idle" /\ Finished.old = None
      BY DEF Finished, Peer
    <2>2. CASE req[x].fired
      BY <2>1, <2>2, <1>0, <1>1 DEF LocalAddrClaim
    <2>3. CASE ~req[x].fired
      BY <2>3, <1>0, <1>1 DEF LocalAddrClaim, Peer
    <2>4. QED
      BY <2>2, <2>3
  <1>5. /\ MadeBeforeUsed' /\ HandlerOK'
        /\ \A k \in Kinds : slot'[k] # None => req'[slot'[k]].kind = k
    BY <1>2, <1>3, HandlerUndisturbed
  <1>6. ExchangeTypeOK'
    BY <1>2, <1>3, <1>5 DEF ExchangeInv, ExchangeTypeOK, Request, history, told
  <1>7. PeerOK'
    BY <1>2, <1>3, <1>4, NoneNoRequest DEF ExchangeInv, PeerOK, Peer
  <1>9. CancellableOnceStored'
    BY <1>1, <1>2, <1>3, <1>4 DEF ExchangeInv, CancellableOnceStored, history
  <1>10. QED
    BY <1>5, <1>6, <1>7, <1>9 DEF ExchangeInv

\* completeLANAddr answers for the entry it loaded.
LEMMA LocalAddrDeliverStep ==
  ASSUME ExchangeInv, NEW m \in Messages, LocalAddrDeliver(m)
  PROVE  ExchangeInv'
  <1>0. req \in [Requests -> Request] /\ peer \in [Messages -> Peer]
    BY RequestType DEF ExchangeInv, PeerOK
  <1>1. PICK x \in Requests : x = peer[m].old
    BY <1>0 DEF LocalAddrDeliver, ExchangeInv, PeerOK, Peer
  <1>2. /\ req[x].fired /\ Answer(peer[m].p)
        /\ UNCHANGED <<req, slot, handler, sweep, asked, history>>
    BY <1>1 DEF LocalAddrDeliver, ExchangeInv, PeerOK
  <1>3. /\ peer' \in [Messages -> Peer]
        /\ \A i \in Messages \ {m} : peer'[i] = peer[i]
        /\ peer'[m].pc = "idle" /\ peer'[m].old = None
    <2>1. Finished \in Peer /\ Finished.pc = "idle" /\ Finished.old = None
      BY DEF Finished, Peer
    <2>2. QED
      BY <2>1, <1>0 DEF LocalAddrDeliver
  <1>4. MadeBeforeUsed' /\ HandlerOK'
    BY <1>0, <1>2, HandlerUndisturbed
  <1>5. PeerOK'
    BY <1>2, <1>3 DEF ExchangeInv, PeerOK
  <1>6. ExchangeTypeOK'
    BY <1>2, AnswerTyped DEF ExchangeInv, ExchangeTypeOK, history
  <1>7. CancellableOnceStored'
    BY <1>1, <1>2, <1>3 DEF ExchangeInv, CancellableOnceStored, history
  <1>8. QED
    BY <1>4, <1>5, <1>6, <1>7 DEF ExchangeInv

\* A message of the peer arrives and finds an entry or none.
LEMMA MessageComesStep ==
  ASSUME ExchangeInv, NEW m \in Messages, NEW n \in Requests,
         \/ PunchHoleSent(m, n) \/ LocalAddrIgnored(m, n) \/ LocalAddr(m, n) \/ LocalAddrStale(m, n)
  PROVE  ExchangeInv'
  <1>1. /\ peer[m].pc = "new" /\ "punch" \in Kinds /\ "lan" \in Kinds
        /\ \A k \in Kinds : /\ slot[k] \in Requests \cup {None}
                            /\ slot[k] # None => req[slot[k]].kind # "none"
    BY DEF PunchHoleSent, LocalAddrIgnored, LocalAddr, LocalAddrStale, Comes, ExchangeInv,
           ExchangeTypeOK, Kinds
  <1>2. PICK p \in Peer :
          /\ peer' = [peer EXCEPT ![m] = p] /\ p.pc \in {"idle", "sent", "found", "stale"}
          /\ p.pc \in {"idle", "found", "stale"} => p.old = None
          /\ p.old # None => req[p.old].kind # "none"
          /\ \/ slot' = slot
             \/ \E k \in Kinds : slot' = [slot EXCEPT ![k] = None] /\ p.old = slot[k]
    <2>1. CASE PunchHoleSent(m, n)
      <3> DEFINE p == [Finished EXCEPT !.pc = "sent", !.old = slot["punch"]]
      <3>1. p \in Peer /\ p.pc = "sent" /\ p.old = slot["punch"]
        BY <1>1 DEF Peer, Finished
      <3>2. peer' = [peer EXCEPT ![m] = p] /\ slot' = [slot EXCEPT !["punch"] = None]
        BY <2>1 DEF PunchHoleSent
      <3> HIDE DEF p
      <3>3. QED
        BY <3>1, <3>2, <1>1
    <2>2. CASE LocalAddrIgnored(m, n)
      <3>1. Finished \in Peer
        BY DEF Finished, Peer
      <3>2. QED
        BY <3>1, <2>2 DEF LocalAddrIgnored, Finished
    <2>3. CASE LocalAddr(m, n)
      <3> DEFINE p == [Finished EXCEPT !.pc = "found", !.p = slot["lan"]]
      <3>1. p \in Peer /\ p.pc = "found" /\ p.old = None
        BY <1>1 DEF Peer, Finished
      <3>2. peer' = [peer EXCEPT ![m] = p] /\ slot' = slot
        BY <2>3 DEF LocalAddr
      <3> HIDE DEF p
      <3>3. QED
        BY <3>1, <3>2, NoneNoRequest
    <2>4. CASE LocalAddrStale(m, n)
      <3> DEFINE p == [Finished EXCEPT !.pc = "stale", !.p = slot["lan"]]
      <3>1. p \in Peer /\ p.pc = "stale" /\ p.old = None
        BY <1>1 DEF Peer, Finished
      <3>2. peer' = [peer EXCEPT ![m] = p] /\ slot' = slot
        BY <2>4 DEF LocalAddrStale
      <3> HIDE DEF p
      <3>3. QED
        BY <3>1, <3>2, NoneNoRequest
    <2>5. QED
      BY <2>1, <2>2, <2>3, <2>4
  <1>3. UNCHANGED <<req, handler, sweep, asked, waiting, told, history>>
    BY DEF PunchHoleSent, LocalAddrIgnored, LocalAddr, LocalAddrStale
  <1>4. QED
    BY <1>1, <1>2, <1>3, MessageTakes

\* completeLANAddr cancels whatever is stored under the key.
LEMMA LocalAddrTakeStep ==
  ASSUME ExchangeInv, NEW m \in Messages, LocalAddrTake(m)
  PROVE  ExchangeInv'
  <1>1. /\ "lan" \in Kinds /\ peer[m] \in Peer /\ peer[m].pc = "found" /\ peer[m].old = None
        /\ slot["lan"] \in Requests \cup {None}
        /\ slot["lan"] # None => req[slot["lan"]].kind = "lan"
    BY DEF LocalAddrTake, ExchangeInv, ExchangeTypeOK, PeerOK, Kinds
  <1>2. PICK p \in Peer : /\ peer' = [peer EXCEPT ![m] = p] /\ p.old = slot["lan"]
                          /\ p.pc = IF slot["lan"] = None THEN "idle" ELSE "taken"
    <2>1. CASE slot["lan"] = None
      <3>1. Finished \in Peer
        BY DEF Finished, Peer
      <3>2. QED
        BY <3>1, <2>1 DEF LocalAddrTake, Finished
    <2>2. CASE slot["lan"] # None
      <3> DEFINE p == [peer[m] EXCEPT !.pc = "taken", !.old = slot["lan"]]
      <3>1. p \in Peer /\ p.old = slot["lan"] /\ p.pc = "taken"
        BY <1>1 DEF Peer
      <3>2. peer' = [peer EXCEPT ![m] = p]
        BY <2>2 DEF LocalAddrTake
      <3> HIDE DEF p
      <3>3. QED
        BY <3>1, <3>2, <2>2
    <2>3. QED
      BY <2>1, <2>2
  <1>3. /\ UNCHANGED <<req, handler, sweep, asked, waiting, told, history>>
        /\ slot' = [slot EXCEPT !["lan"] = None]
    BY DEF LocalAddrTake
  <1>4. QED
    BY <1>1, <1>2, <1>3, MessageTakes

\* The sweep and messages that cannot be delivered cancel whatever is stored
\* under the key.
LEMMA CancelSteps ==
  ASSUME ExchangeInv, SweepTakes \/ \E m \in Messages : PunchForward(m) \/ LocalAddrDrop(m)
  PROVE  ExchangeInv'
  <1>0. /\ "punch" \in Kinds /\ "lan" \in Kinds
        /\ \A k \in Kinds : /\ slot[k] \in Requests \cup {None}
                            /\ slot[k] # None => req[slot[k]].kind # "none"
        /\ waiting \subseteq Requests /\ silenced \subseteq Requests
        /\ sweep \in Requests \cup {None}
    BY DEF ExchangeInv, ExchangeTypeOK, Kinds
  <1>1. CASE SweepTakes
    BY <1>0, <1>1, EntryCancelled DEF SweepTakes
  <1>2. CASE \E m \in Messages : PunchForward(m)
    <2>1. PICK m \in Messages : PunchForward(m)
      BY <1>2
    <2>2. /\ peer[m].old \in Requests \cup {None}
          /\ peer[m].old # None => req[peer[m].old].kind # "none"
      BY DEF ExchangeInv, PeerOK, Peer
    <2>3. waiting' \subseteq Requests /\ silenced' \subseteq Requests
      BY <2>1, <2>2, <1>0 DEF PunchForward
    <2>4. QED
      BY <1>0, <2>1, <2>2, <2>3, EntryCancelled DEF PunchForward
  <1>3. CASE \E m \in Messages : LocalAddrDrop(m)
    BY <1>0, <1>3, EntryCancelled DEF LocalAddrDrop
  <1>4. QED
    BY <1>1, <1>2, <1>3

\* The sweep notes an entry.
LEMMA SweepSeesStep ==
  ASSUME ExchangeInv, SweepSees
  PROVE  ExchangeInv'
  <1>1. /\ UNCHANGED <<req, slot, handler, peer, asked, waiting, told, history>>
        /\ sweep' \in Requests \cup {None}
    BY DEF SweepSees, ExchangeInv, ExchangeTypeOK, Kinds
  <1>2. ExchangeTypeOK' /\ MadeBeforeUsed' /\ HandlerOK' /\ PeerOK'
    BY <1>1 DEF ExchangeInv, ExchangeTypeOK, MadeBeforeUsed, HandlerOK, PeerOK, history, told
  <1>3. CancellableOnceStored'
    BY <1>1 DEF ExchangeInv, CancellableOnceStored, history
  <1>4. QED
    BY <1>2, <1>3 DEF ExchangeInv

\* One case per access to a map or a flag.
LEMMA ExchangeStep == ExchangeInv /\ [Next]_vars => ExchangeInv'
  <1> SUFFICES ASSUME ExchangeInv, [Next]_vars PROVE ExchangeInv'
    OBVIOUS
  <1>1. CASE UNCHANGED vars
    BY <1>1 DEF vars, history, told, ExchangeInv, ExchangeTypeOK, MadeBeforeUsed, HandlerOK, PeerOK,
                CancellableOnceStored
  <1>2. CASE \E n \in Requests :
               \/ Punch(n) \/ beginLANExchange(n)
               \/ TimerFires(n) \/ TimerDeletes(n) \/ TimerAnswers(n)
    BY <1>2, PunchStep, LANBeginStep, TimerFiresStep, TimerDeletesStep, TimerAnswersStep
  <1>3. CASE HandlerStep
    BY <1>3, ScheduleStep, PunchStoreSteps, LANStoreStep, LANCancelTakeStep, LANCancelClaimStep,
       LANSendStep DEF HandlerStep
  <1>4. CASE \E m \in Messages, n \in Requests :
               PunchHoleSent(m, n) \/ LocalAddrIgnored(m, n) \/ LocalAddr(m, n) \/ LocalAddrStale(m, n)
    BY <1>4, MessageComesStep
  <1>5. CASE \E m \in Messages : PeerStep(m)
    BY <1>5, CancelSteps, LocalAddrTakeStep, LocalAddrClaimStep, LocalAddrDeliverStep DEF PeerStep
  <1>6. CASE SweepSees \/ SweepTakes
    BY <1>6, SweepSeesStep, CancelSteps
  <1>7. QED
    BY <1>1, <1>2, <1>3, <1>4, <1>5, <1>6 DEF Next

\* The inductive invariant holds always.
LEMMA ExchangeInvariant == Spec => []ExchangeInv
  BY ExchangeInit, ExchangeStep, PTL DEF Spec

-----------------------------------------------------------------------------
(* The flag that pays for an answer.                                        *)

Fired == {n \in LANRequests : req[n].fired}
Failed == {n \in LANRequests : n \notin asked /\ n # handler.n}
Won == {n \in LANRequests : req[n].timer \in {"delete", "answer"}}
Delivering == {m \in Messages : peer[m].pc = "deliver"}

\* Every LAN answer that was sent, or that a timer or a message is about to send,
\* has set a flag of its own, except those of requests that were not forwarded.
Accounted ==
  sent + Cardinality(Won) + Cardinality(Delivering) <= Cardinality(Fired) + Cardinality(Failed)

\* Requests and messages are finitely many.
LEMMA FinitelyMany ==
  /\ \A S \in SUBSET Requests : IsFiniteSet(S) /\ Cardinality(S) \in Nat
  /\ \A S \in SUBSET Messages : IsFiniteSet(S) /\ Cardinality(S) \in Nat
  <1>1. IsFiniteSet(Requests) /\ IsFiniteSet(Messages)
    BY ExchangeAssumption, FS_Interval DEF Requests, Messages
  <1>2. QED
    BY <1>1, FS_Subset, FS_CardinalityType

\* So the sides of the account are numbers, before and after a step.
LEMMA AccountNumbers ==
  ASSUME ExchangeInv, ExchangeInv'
  PROVE  /\ IsFiniteSet(Fired) /\ IsFiniteSet(Failed) /\ IsFiniteSet(Won) /\ IsFiniteSet(Delivering)
         /\ Cardinality(Fired) \in Nat /\ Cardinality(Failed) \in Nat
         /\ Cardinality(Won) \in Nat /\ Cardinality(Delivering) \in Nat
         /\ IsFiniteSet(Fired') /\ IsFiniteSet(Failed') /\ IsFiniteSet(Won') /\ IsFiniteSet(Delivering')
         /\ Cardinality(Fired') \in Nat /\ Cardinality(Failed') \in Nat
         /\ Cardinality(Won') \in Nat /\ Cardinality(Delivering') \in Nat
         /\ sent \in Nat /\ sent' \in Nat
  <1>1. /\ Fired \in SUBSET Requests /\ Failed \in SUBSET Requests /\ Won \in SUBSET Requests
        /\ Fired' \in SUBSET Requests /\ Failed' \in SUBSET Requests /\ Won' \in SUBSET Requests
        /\ Delivering \in SUBSET Messages /\ Delivering' \in SUBSET Messages
    BY DEF Fired, Failed, Won, Delivering, LANRequests
  <1>2. QED
    BY <1>1, FinitelyMany DEF ExchangeInv, ExchangeTypeOK

\* A step that sends nothing, gives nobody the right to send and takes nothing
\* back keeps the account.
LEMMA AccountKept ==
  ASSUME ExchangeInv, ExchangeInv', Accounted, sent' = sent,
         Won' \subseteq Won, Delivering' \subseteq Delivering,
         Fired \subseteq Fired', Failed \subseteq Failed'
  PROVE  Accounted'
  <1>1. /\ Cardinality(Won') <= Cardinality(Won) /\ Cardinality(Delivering') <= Cardinality(Delivering)
        /\ Cardinality(Fired) <= Cardinality(Fired') /\ Cardinality(Failed) <= Cardinality(Failed')
    BY AccountNumbers, FS_Subset
  <1>2. QED
    BY <1>1, AccountNumbers DEF Accounted

\* Whoever sets a flag that was not set may send: the timer ...
LEMMA AccountTimer ==
  ASSUME ExchangeInv, ExchangeInv', Accounted, sent' = sent, NEW n \in Requests,
         n \notin Fired, Fired' = Fired \cup {n}, Won' = Won \cup {n},
         Delivering' = Delivering, Failed' = Failed
  PROVE  Accounted'
  <1>1. Cardinality(Fired') = Cardinality(Fired) + 1
    BY AccountNumbers, FS_AddElement
  <1>2. Cardinality(Won') \in {Cardinality(Won), Cardinality(Won) + 1}
    BY AccountNumbers, FS_AddElement
  <1>3. QED
    BY <1>1, <1>2, AccountNumbers DEF Accounted

\* ... or the goroutine of a message.
LEMMA AccountMessage ==
  ASSUME ExchangeInv, ExchangeInv', Accounted, sent' = sent, NEW n \in Requests, NEW m \in Messages,
         n \notin Fired, Fired' = Fired \cup {n}, Delivering' = Delivering \cup {m},
         Won' = Won, Failed' = Failed
  PROVE  Accounted'
  <1>1. Cardinality(Fired') = Cardinality(Fired) + 1
    BY AccountNumbers, FS_AddElement
  <1>2. Cardinality(Delivering') \in {Cardinality(Delivering), Cardinality(Delivering) + 1}
    BY AccountNumbers, FS_AddElement
  <1>3. QED
    BY <1>1, <1>2, AccountNumbers DEF Accounted

\* An answer is sent by one that may send it, for a LAN request or not.
LEMMA AccountAnswer ==
  ASSUME ExchangeInv, ExchangeInv', Accounted, sent' \in {sent, sent + 1},
         Fired' = Fired, Failed' = Failed,
         \/ Delivering' = Delivering /\ \E n \in Won : Won' = Won \ {n}
         \/ Won' = Won /\ \E m \in Delivering : Delivering' = Delivering \ {m}
  PROVE  Accounted'
  <1>1. Cardinality(Won') + Cardinality(Delivering') = Cardinality(Won) + Cardinality(Delivering) - 1
    <2>1. CASE Delivering' = Delivering /\ \E n \in Won : Won' = Won \ {n}
      <3>1. Cardinality(Won') = Cardinality(Won) - 1
        BY <2>1, AccountNumbers, FS_RemoveElement
      <3>2. QED
        BY <2>1, <3>1, AccountNumbers
    <2>2. CASE Won' = Won /\ \E m \in Delivering : Delivering' = Delivering \ {m}
      <3>1. Cardinality(Delivering') = Cardinality(Delivering) - 1
        BY <2>2, AccountNumbers, FS_RemoveElement
      <3>2. QED
        BY <2>2, <3>1, AccountNumbers
    <2>3. QED
      BY <2>1, <2>2
  <1>2. QED
    BY <1>1, AccountNumbers DEF Accounted

\* A request that could not be forwarded is answered at once.
LEMMA AccountFailed ==
  ASSUME ExchangeInv, ExchangeInv', Accounted, sent' \in {sent, sent + 1}, NEW n \in Requests,
         n \notin Failed, Failed' = Failed \cup {n}, Fired \subseteq Fired',
         Won' = Won, Delivering' = Delivering
  PROVE  Accounted'
  <1>1. Cardinality(Failed') = Cardinality(Failed) + 1
    BY AccountNumbers, FS_AddElement
  <1>2. Cardinality(Fired) <= Cardinality(Fired')
    BY AccountNumbers, FS_Subset
  <1>3. QED
    BY <1>1, <1>2, AccountNumbers DEF Accounted

\* The account in terms of the requests and messages, for steps that only set
\* flags, end handlers and messages, or make a request.
LEMMA AccountUntouched ==
  ASSUME ExchangeInv, ExchangeInv', Accounted, sent' = sent,
         \A n \in Requests : req[n].kind = "lan" => req'[n].kind = "lan" /\ (req[n].fired => req'[n].fired),
         \A n \in Requests : req'[n].kind = "lan" /\ req'[n].timer \in {"delete", "answer"}
                             => req[n].kind = "lan" /\ req[n].timer \in {"delete", "answer"},
         handler'.n \notin Requests \/ handler'.n = handler.n \/ req[handler'.n].kind # "lan",
         \A n \in Requests : n \in asked' => n \in asked \/ n = handler.n \/ req[n].kind # "lan",
         \A m \in Messages : peer'[m].pc = "deliver" => peer[m].pc = "deliver"
  PROVE  Accounted'
  <1>1. Won' \subseteq Won /\ Delivering' \subseteq Delivering
    BY DEF Won, Delivering, LANRequests
  <1>2. Fired \subseteq Fired' /\ Failed \subseteq Failed'
    BY DEF Fired, Failed, LANRequests
  <1>3. QED
    BY <1>1, <1>2, AccountKept

\* Setting a flag, if there is an entry to set it for.
LEMMA ClaimKeeps ==
  ASSUME ExchangeInv, NEW x \in Requests \cup {None}, req' = IF x = None THEN req ELSE Claim(x)
  PROVE  \A i \in Requests : /\ req'[i].kind = req[i].kind /\ req'[i].timer = req[i].timer
                             /\ req[i].fired => req'[i].fired
                             /\ i # x => (req'[i].fired <=> req[i].fired)
                             /\ i = x => req'[i].fired
  <1>1. req \in [Requests -> Request]
    BY RequestType DEF ExchangeInv
  <1>2. CASE x = None
    BY <1>2, NoneNoRequest
  <1>3. CASE x # None
    BY <1>1, <1>3, ClaimFacts
  <1>4. QED
    BY <1>2, <1>3

\* The handler of the initiator: only a request that is not forwarded is answered.
LEMMA AccountHandler ==
  ASSUME ExchangeInv, ExchangeInv', Accounted,
         HandlerStep \/ \E n \in Requests : Punch(n) \/ beginLANExchange(n)
  PROVE  Accounted'
  <1>0. /\ req \in [Requests -> Request] /\ handler \in Handler
        /\ handler.n \in Requests \cup {None} /\ handler.old \in Requests \cup {None}
    BY RequestType DEF ExchangeInv, HandlerOK, Handler
  <1>1. CASE \E n \in Requests : Punch(n) \/ beginLANExchange(n)
    <2>1. PICK n \in Requests : Punch(n) \/ beginLANExchange(n)
      BY <1>1
    <2>2. /\ req[n].kind = "none" /\ handler'.n = n /\ sent' = sent /\ peer' = peer
          /\ asked' \in {asked, asked \cup {n}}
          /\ \A i \in Requests \ {n} : req'[i] = req[i]
          /\ req'[n].timer \in {"armed", req[n].timer}
      <3>1. CASE Punch(n)
        <4>1. req[n].kind = "none"
          <5>1. \A i \in Requests : i < n <=> req[i].kind # "none"
            BY <3>1 DEF Punch
          <5>2. ~(n < n)
            BY ExchangeAssumption DEF Requests
          <5>3. QED
            BY <5>1, <5>2, Zenon
        <4>2. QED
          BY <1>0, <3>1, <4>1 DEF Punch, Handler, Request, told
      <3>2. CASE beginLANExchange(n)
        <4>1. req[n].kind = "none"
          <5>1. \A i \in Requests : i < n <=> req[i].kind # "none"
            BY <3>2 DEF beginLANExchange
          <5>2. ~(n < n)
            BY ExchangeAssumption DEF Requests
          <5>3. QED
            BY <5>1, <5>2, Zenon
        <4>2. PICK q : q = [req[n] EXCEPT !.kind = "lan", !.timer = "armed"]
          OBVIOUS
        <4>3. q.timer = "armed" /\ req' = [req EXCEPT ![n] = q]
          BY <1>0, <3>2, <4>2 DEF beginLANExchange, Request
        <4>4. handler'.n = n /\ sent' = sent /\ peer' = peer /\ asked' = asked
          BY <1>0, <3>2 DEF beginLANExchange, Handler, told
        <4>5. QED
          BY <1>0, <4>1, <4>3, <4>4
      <3>3. QED
        BY <2>1, <3>1, <3>2
    <2>3. req[n].timer = "none"
      BY <1>0, <2>2 DEF ExchangeInv, MadeBeforeUsed
    <2>4. QED
      BY <2>2, <2>3, AccountUntouched
  <1>2. CASE schedulePunchFallback
    <2>1. /\ handler' = [handler EXCEPT !.pc = "swap"] /\ handler.pc = "schedule"
          /\ UNCHANGED <<peer, asked, sent>>
      BY <1>2 DEF schedulePunchFallback, told
    <2>2. handler.n \in Requests /\ handler'.n = handler.n
      BY <1>0, <2>1 DEF ExchangeInv, HandlerOK, Handler
    <2>3. \A i \in Requests : /\ req'[i].kind = req[i].kind /\ req'[i].fired = req[i].fired
                              /\ req'[i].timer \in {req[i].timer, "armed"}
      BY <1>0, <1>2, <2>2 DEF schedulePunchFallback, Request
    <2>4. QED
      BY <2>1, <2>2, <2>3, AccountUntouched
  <1>3. CASE PunchSwap \/ LANStore \/ LANCancelTake
    <2>1. UNCHANGED <<req, peer, asked, sent>> /\ handler'.n \in {handler.n, None}
      <3>1. CASE PunchSwap
        BY <1>0, <3>1 DEF PunchSwap, Idle, Handler, told
      <3>2. CASE LANStore
        BY <1>0, <3>2 DEF LANStore, Handler, told
      <3>3. CASE LANCancelTake
        BY <1>0, <3>3 DEF LANCancelTake, Handler, told
      <3>4. QED
        BY <1>3, <3>1, <3>2, <3>3
    <2>2. QED
      BY <2>1, NoneNoRequest, AccountUntouched
  <1>4. CASE PunchReplace
    <2>1. UNCHANGED <<peer, asked, sent>> /\ handler'.n = None /\ handler.old # None
          /\ req' = Claim(handler.old)
      BY <1>4 DEF PunchReplace, Idle, told, ExchangeInv, HandlerOK
    <2>2. \A i \in Requests : /\ req'[i].kind = req[i].kind /\ req'[i].timer = req[i].timer
                              /\ req[i].fired => req'[i].fired
      BY <1>0, <2>1, ClaimKeeps
    <2>3. QED
      BY <2>1, <2>2, NoneNoRequest, AccountUntouched
  <1>5. CASE LANCancelClaim
    <2>1. /\ \A i \in Requests : /\ req'[i].kind = req[i].kind /\ req'[i].timer = req[i].timer
                                 /\ req[i].fired => req'[i].fired
          /\ UNCHANGED <<peer, asked>>
      BY <1>0, <1>5, ClaimKeeps DEF LANCancelClaim
    <2>2. CASE handler.pc = "cancel2"
      <3>1. handler'.n = handler.n /\ sent' = sent
        BY <1>0, <1>5, <2>2 DEF LANCancelClaim, NoAnswer, told, Handler
      <3>2. QED
        BY <2>1, <3>1, AccountUntouched
    <2>3. CASE handler.pc = "failed2"
      <3>1. PICK n \in Requests : n = handler.n
        BY <1>0, <2>3 DEF ExchangeInv, HandlerOK
      <3>2. handler'.n = None /\ Answer(n)
        BY <1>5, <2>3, <3>1 DEF LANCancelClaim, Idle
      <3>3. req[n].kind = "lan" /\ n \notin asked
        BY <2>3, <3>1 DEF ExchangeInv, HandlerOK, LANPCs
      <3>4. sent' \in {sent, sent + 1}
        BY <3>2 DEF Answer
      <3>5. n \notin Failed /\ Failed' = Failed \cup {n}
        BY <2>1, <3>1, <3>2, <3>3, NoneNoRequest DEF Failed, LANRequests
      <3>6. Won' = Won /\ Delivering' = Delivering /\ Fired \subseteq Fired'
        BY <2>1 DEF Won, Delivering, Fired, LANRequests
      <3>7. QED
        BY <3>4, <3>5, <3>6, AccountFailed
    <2>4. QED
      BY <1>5, <2>2, <2>3 DEF LANCancelClaim
  <1>6. CASE LANSend
    <2>1. /\ UNCHANGED <<req, peer, sent>> /\ handler'.n \in {handler.n, None}
          /\ asked' \in {asked, asked \cup {handler.n}}
      BY <1>0, <1>6 DEF LANSend, Idle, Handler, told
    <2>2. QED
      BY <2>1, NoneNoRequest, AccountUntouched
  <1>7. QED
    BY <1>1, <1>2, <1>3, <1>4, <1>5, <1>6 DEF HandlerStep

\* A timer answers only with a flag it set itself.
LEMMA AccountTimers ==
  ASSUME ExchangeInv, ExchangeInv', Accounted, NEW n \in Requests,
         TimerFires(n) \/ TimerDeletes(n) \/ TimerAnswers(n)
  PROVE  Accounted'
  <1>0. req \in [Requests -> Request] /\ req[n].kind \in Kinds \cup {"none"}
    BY RequestType DEF ExchangeInv, Request
  <1>1. UNCHANGED <<handler, asked, peer>>
    BY DEF TimerFires, TimerDeletes, TimerAnswers
  <1>2. CASE TimerFires(n)
    <2>1. /\ req[n].timer = "armed" /\ sent' = sent
          /\ req'[n].timer = (IF req[n].fired THEN "over" ELSE "delete") /\ req'[n].fired
          /\ req'[n].kind = req[n].kind
          /\ \A i \in Requests \ {n} : req'[i] = req[i]
      <3> DEFINE C == Claim(n)
      <3>1. /\ C \in [Requests -> Request] /\ C[n].fired /\ C[n].kind = req[n].kind
            /\ \A i \in Requests \ {n} : C[i] = req[i]
        BY <1>0 DEF Claim, Request
      <3>2. req' = [C EXCEPT ![n].timer = IF req[n].fired THEN "over" ELSE "delete"]
        BY <1>2 DEF TimerFires
      <3>3. req[n].timer = "armed" /\ sent' = sent
        BY <1>2 DEF TimerFires, told
      <3> HIDE DEF C
      <3>4. QED
        BY <3>1, <3>2, <3>3 DEF Request
    <2>2. CASE req[n].fired \/ req[n].kind # "lan"
      <3>1. \A i \in Requests : /\ req'[i].kind = req[i].kind /\ (req[i].fired => req'[i].fired)
                                /\ req'[i].kind = "lan" /\ req'[i].timer \in {"delete", "answer"}
                                   => req[i].timer \in {"delete", "answer"}
        BY <2>1, <2>2
      <3>2. QED
        BY <1>1, <2>1, <3>1, AccountUntouched
    <2>3. CASE ~req[n].fired /\ req[n].kind = "lan"
      <3>1. n \notin Fired /\ Fired' = Fired \cup {n}
        BY <2>1, <2>3 DEF Fired, LANRequests
      <3>2. Won' = Won \cup {n}
        BY <2>1, <2>3 DEF Won, LANRequests
      <3>3. Delivering' = Delivering /\ Failed' = Failed
        BY <1>1, <2>1 DEF Delivering, Failed, LANRequests
      <3>4. QED
        BY <2>1, <3>1, <3>2, <3>3, AccountTimer
    <2>4. QED
      BY <2>2, <2>3
  <1>3. CASE TimerDeletes(n)
    <2>1. /\ sent' = sent /\ req[n].timer = "delete"
          /\ \A i \in Requests : /\ req'[i].kind = req[i].kind /\ req'[i].fired = req[i].fired
                                 /\ i # n => req'[i].timer = req[i].timer
      BY <1>0, <1>3 DEF TimerDeletes, told, Request
    <2>2. QED
      BY <1>1, <2>1, AccountUntouched
  <1>4. CASE TimerAnswers(n)
    <2>1. /\ req[n].timer = "answer" /\ req'[n].timer = "over" /\ Answer(n)
          /\ \A i \in Requests : /\ req'[i].kind = req[i].kind /\ req'[i].fired = req[i].fired
                                 /\ i # n => req'[i].timer = req[i].timer
      BY <1>0, <1>4 DEF TimerAnswers, Request
    <2>2. Fired' = Fired /\ Failed' = Failed /\ Delivering' = Delivering
      BY <1>1, <2>1 DEF Fired, Failed, Delivering, LANRequests
    <2>3. CASE req[n].kind = "lan"
      <3>1. n \in Won /\ Won' = Won \ {n}
        BY <2>1, <2>3 DEF Won, LANRequests
      <3>2. sent' \in {sent, sent + 1}
        BY <2>1 DEF Answer
      <3>3. QED
        BY <2>2, <3>1, <3>2, AccountAnswer
    <2>4. CASE req[n].kind # "lan"
      <3>1. sent' = sent
        BY <2>1, <2>4 DEF Answer
      <3>2. QED
        BY <1>1, <2>1, <2>4, <3>1, AccountUntouched
    <2>5. QED
      BY <2>3, <2>4
  <1>5. QED
    BY <1>2, <1>3, <1>4

\* A message answers only with a flag it set itself, of whichever entry.
LEMMA AccountMessages ==
  ASSUME ExchangeInv, ExchangeInv', Accounted, NEW m \in Messages,
         \/ PeerStep(m)
         \/ \E n \in Requests : \/ PunchHoleSent(m, n) \/ LocalAddrIgnored(m, n)
                                \/ LocalAddr(m, n) \/ LocalAddrStale(m, n)
  PROVE  Accounted'
  <1>0. /\ req \in [Requests -> Request] /\ peer \in [Messages -> Peer]
        /\ peer[m].old \in Requests \cup {None} /\ slot["lan"] \in Requests \cup {None}
    BY RequestType DEF ExchangeInv, ExchangeTypeOK, PeerOK, Peer, Kinds
  <1>1. CASE \E n \in Requests : \/ PunchHoleSent(m, n) \/ LocalAddrIgnored(m, n)
                                 \/ LocalAddr(m, n) \/ LocalAddrStale(m, n)
    <2>1. UNCHANGED <<req, handler, asked, sent>>
      BY <1>1 DEF PunchHoleSent, LocalAddrIgnored, LocalAddr, LocalAddrStale, told
    <2>2. \A i \in Messages : peer'[i].pc = "deliver" => peer[i].pc = "deliver"
      <3>1. CASE \E n \in Requests : PunchHoleSent(m, n)
        BY <1>0, <3>1 DEF PunchHoleSent, Finished
      <3>2. CASE \E n \in Requests : LocalAddrIgnored(m, n)
        BY <1>0, <3>2 DEF LocalAddrIgnored, Finished
      <3>3. CASE \E n \in Requests : LocalAddr(m, n)
        BY <1>0, <3>3 DEF LocalAddr, Finished
      <3>4. CASE \E n \in Requests : LocalAddrStale(m, n)
        BY <1>0, <3>4 DEF LocalAddrStale, Finished
      <3>5. QED
        BY <1>1, <3>1, <3>2, <3>3, <3>4
    <2>3. QED
      BY <2>1, <2>2, AccountUntouched
  <1>2. CASE LocalAddrTake(m)
    <2>1. UNCHANGED <<req, handler, asked, sent>>
      BY <1>2 DEF LocalAddrTake, told
    <2>2. peer' = [peer EXCEPT ![m] = IF slot["lan"] = None THEN Finished
                                      ELSE [peer[m] EXCEPT !.pc = "taken", !.old = slot["lan"]]]
      BY <1>2 DEF LocalAddrTake
    <2>3. peer'[m].pc \in {"idle", "taken"} /\ \A i \in Messages \ {m} : peer'[i] = peer[i]
      BY <1>0, <2>2 DEF Finished, Peer
    <2>4. QED
      BY <2>1, <2>3, AccountUntouched
  <1>3. CASE PunchForward(m) \/ LocalAddrDrop(m)
    <2>1. /\ UNCHANGED <<handler, asked, sent>> /\ peer' = [peer EXCEPT ![m] = Finished]
          /\ \E x \in Requests \cup {None} : req' = IF x = None THEN req ELSE Claim(x)
      BY <1>0, <1>3 DEF PunchForward, LocalAddrDrop, told
    <2>2. \A i \in Requests : /\ req'[i].kind = req[i].kind /\ req'[i].timer = req[i].timer
                              /\ req[i].fired => req'[i].fired
      BY <2>1, ClaimKeeps
    <2>3. \A i \in Messages : peer'[i].pc = "deliver" => peer[i].pc = "deliver"
      BY <1>0, <2>1 DEF Finished
    <2>4. QED
      BY <2>1, <2>2, <2>3, AccountUntouched
  <1>4. CASE LocalAddrClaim(m)
    <2>1. PICK x \in Requests : x = peer[m].old
      BY <1>0, <1>4 DEF LocalAddrClaim, ExchangeInv, PeerOK
    <2>2. /\ UNCHANGED <<handler, asked, sent>> /\ req' = Claim(x) /\ req[x].kind = "lan"
      BY <1>4, <2>1 DEF LocalAddrClaim, told, ExchangeInv, PeerOK
    <2>3. \A i \in Requests : /\ req'[i].kind = req[i].kind /\ req'[i].timer = req[i].timer
                              /\ req'[i].fired <=> (i = x \/ req[i].fired)
      BY <1>0, <2>2, ClaimFacts
    <2>4. CASE req[x].fired
      <3>1. peer' = [peer EXCEPT ![m] = Finished]
        BY <1>4, <2>1, <2>4 DEF LocalAddrClaim
      <3>2. \A i \in Messages : peer'[i].pc = "deliver" => peer[i].pc = "deliver"
        BY <1>0, <3>1 DEF Finished
      <3>3. QED
        BY <2>2, <2>3, <3>2, AccountUntouched
    <2>5. CASE ~req[x].fired
      <3>1. peer' = [peer EXCEPT ![m] = [peer[m] EXCEPT !.pc = "deliver"]]
        BY <1>4, <2>1, <2>5 DEF LocalAddrClaim
      <3>2. peer'[m].pc = "deliver" /\ \A i \in Messages \ {m} : peer'[i] = peer[i]
        BY <1>0, <3>1 DEF Peer
      <3>3. Delivering' = Delivering \cup {m}
        BY <3>2 DEF Delivering
      <3>4. x \notin Fired /\ Fired' = Fired \cup {x}
        BY <2>2, <2>3, <2>5 DEF Fired, LANRequests
      <3>5. Won' = Won /\ Failed' = Failed
        BY <2>2, <2>3 DEF Won, Failed, LANRequests
      <3>6. QED
        BY <2>2, <3>3, <3>4, <3>5, AccountMessage
    <2>6. QED
      BY <2>4, <2>5
  <1>5. CASE LocalAddrDeliver(m)
    <2>1. /\ UNCHANGED <<req, handler, asked>> /\ peer' = [peer EXCEPT ![m] = Finished]
          /\ peer[m].pc = "deliver" /\ sent' \in {sent, sent + 1}
      BY <1>5 DEF LocalAddrDeliver, Answer
    <2>2. m \in Delivering /\ Delivering' = Delivering \ {m}
      BY <1>0, <2>1 DEF Delivering, Finished
    <2>3. Won' = Won /\ Fired' = Fired /\ Failed' = Failed
      BY <2>1 DEF Won, Fired, Failed, LANRequests
    <2>4. QED
      BY <2>1, <2>2, <2>3, AccountAnswer
  <1>6. QED
    BY <1>1, <1>2, <1>3, <1>4, <1>5 DEF PeerStep

\* Every step keeps the account.
LEMMA AccountStep ==
  ASSUME ExchangeInv, ExchangeInv', Accounted, [Next]_vars
  PROVE  Accounted'
  <1>1. CASE UNCHANGED vars \/ SweepSees
    <2>1. UNCHANGED <<req, handler, asked, peer, sent>>
      BY <1>1 DEF vars, SweepSees, told
    <2>2. QED
      BY <2>1, AccountUntouched
  <1>2. CASE SweepTakes
    <2>1. slot["punch"] \in Requests \cup {None}
      BY DEF ExchangeInv, ExchangeTypeOK, Kinds
    <2>2. UNCHANGED <<handler, asked, peer, sent>>
          /\ req' = IF slot["punch"] = None THEN req ELSE Claim(slot["punch"])
      BY <1>2 DEF SweepTakes, told
    <2>3. \A i \in Requests : /\ req'[i].kind = req[i].kind /\ req'[i].timer = req[i].timer
                              /\ req[i].fired => req'[i].fired
      BY <2>1, <2>2, ClaimKeeps
    <2>4. QED
      BY <2>2, <2>3, AccountUntouched
  <1>3. CASE HandlerStep \/ \E n \in Requests : Punch(n) \/ beginLANExchange(n)
    BY <1>3, AccountHandler
  <1>4. CASE \E n \in Requests : TimerFires(n) \/ TimerDeletes(n) \/ TimerAnswers(n)
    BY <1>4, AccountTimers
  <1>5. CASE \E m \in Messages :
               \/ PeerStep(m)
               \/ \E n \in Requests : \/ PunchHoleSent(m, n) \/ LocalAddrIgnored(m, n)
                                      \/ LocalAddr(m, n) \/ LocalAddrStale(m, n)
    BY <1>5, AccountMessages
  <1>6. QED
    BY <1>1, <1>2, <1>3, <1>4, <1>5 DEF Next

-----------------------------------------------------------------------------
(* Results.                                                                 *)

\* The maps of the signal server keep their types; a key of pendingPunches or
\* pendingLANs never holds an entry of the other path.
THEOREM ExchangeTypeCorrect == Spec => []ExchangeTypeOK
  <1>1. ExchangeInv => ExchangeTypeOK
    BY DEF ExchangeInv
  <1>2. QED
    BY <1>1, ExchangeInvariant, PTL

\* The initiator is sent at most one LAN answer for each LAN request, and one
\* more for each that could not be forwarded: the timer of beginLANExchange and
\* completeLANAddr answer only after a fired.Swap of their own that nobody can
\* repeat, although the entry answered for need not be the one it was set in.
THEOREM LANAnswersCovered == Spec => []LANAnswersBounded
  <1>1. Init => Accounted
    <2> SUFFICES ASSUME Init PROVE Accounted
      OBVIOUS
    <2>1. Won = {} /\ Delivering = {} /\ Fired = {} /\ Failed = {} /\ sent = 0
      BY DEF Init, Won, Delivering, Fired, Failed, LANRequests, Finished
    <2>2. QED
      BY <2>1, FS_EmptySet DEF Accounted
  <1>2. ExchangeInv /\ Accounted => LANAnswersBounded
    <2> SUFFICES ASSUME ExchangeInv, Accounted PROVE LANAnswersBounded
      OBVIOUS
    <2>1. /\ LANRequests \in SUBSET Requests /\ Won \in SUBSET Requests
          /\ Fired \in SUBSET Requests /\ Failed \in SUBSET Requests
          /\ LANRequests \ asked \in SUBSET Requests /\ Delivering \in SUBSET Messages
          /\ Fired \subseteq LANRequests /\ Failed \subseteq LANRequests \ asked
      BY DEF LANRequests, Won, Fired, Failed, Delivering
    <2>2. /\ Cardinality(Fired) <= Cardinality(LANRequests)
          /\ Cardinality(Failed) <= Cardinality(LANRequests \ asked)
      BY <2>1, FinitelyMany, FS_Subset
    <2>3. /\ Cardinality(Won) \in Nat /\ Cardinality(Delivering) \in Nat
          /\ Cardinality(Fired) \in Nat /\ Cardinality(Failed) \in Nat
          /\ Cardinality(LANRequests) \in Nat /\ Cardinality(LANRequests \ asked) \in Nat
          /\ sent \in Nat
      BY <2>1, FinitelyMany DEF ExchangeInv, ExchangeTypeOK
    <2>4. QED
      BY <2>2, <2>3 DEF Accounted, LANAnswersBounded
  <1>3. ExchangeInv /\ ExchangeInv' /\ Accounted /\ [Next]_vars => Accounted'
    BY AccountStep
  <1>4. QED
    BY <1>1, <1>2, <1>3, ExchangeInvariant, PTL DEF Spec

\* A fallback that can still be sent is in the map, where handlePunchHoleSent or
\* completeLANAddr finds it: storing, replacing, cancelling and sweeping lose no
\* entry without setting its flag, except the deletion by an older timer.
THEOREM FallbackReachable == Spec => []FallbackCancellable
  <1>1. ExchangeInv => FallbackCancellable
    BY DEF ExchangeInv, CancellableOnceStored, FallbackCancellable
  <1>2. QED
    BY <1>1, ExchangeInvariant, PTL

=============================================================================
