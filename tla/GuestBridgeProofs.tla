------------------------- MODULE GuestBridgeProofs -------------------------
(***************************************************************************)
(* Proofs about the guest bridge of the panel, for any number of sockets,  *)
(* guest sessions and messages, and whether or not API calls may fail: no  *)
(* message recognised as an opening is written without a use, what passes  *)
(* unseen follows a message that has its use or waits for it, a session    *)
(* costs one use, no handler waits in vain, no opening is let through      *)
(* after an invalidation, and the link is used as GuestLink allows, for at *)
(* most max_uses admitted sessions.                                        *)
(***************************************************************************)
EXTENDS GuestBridge, SequenceTheorems, FiniteSetTheorems, TLAPS

(* States of a consume call: the server took the use and the panel knows   *)
(* or will be told; the panel has not given the call up.                   *)
Paid == {"charged", "done"}
Kept == {"posted", "denied"} \cup Paid

(* A promise belongs to the guest session of those who use it. *)
SameSession ==
  /\ \A w \in Sockets : \A x \in waiting[w] : posts[x[2]].session = SessionOf[w]
  /\ \A s \in Sessions : entry[s] # 0 => posts[entry[s]].session = s

(* What stands behind an opening message: the server took a use. *)
UseBehind ==
  /\ \A k \in DOMAIN posts : posts[k].state \in Paid => charged[posts[k].session] > 0
  /\ \A w \in Sockets : consumed[w] => charged[SessionOf[w]] > 0

(* While a use can still be taken, the call a session can still pay with   *)
(* is the one its entry keeps.                                             *)
OneKept ==
  status \in {"absent", "live"} /\ ~expired =>
    \A k \in DOMAIN posts : posts[k].state \in Kept => entry[posts[k].session] = k

(* The one use not lost to a missing reply is a call that was paid for. *)
UsesPaid ==
  \A s \in Sessions :
    (\A k \in DOMAIN posts : posts[k].session = s => posts[k].state \notin Paid)
      => charged[s] <= misled[s]

(* After an invalidation nobody has a use in hand. *)
Silenced ==
  /\ revoking = "revoked" \/ invalidated => status \in {"revoked", "dropped"}
  /\ \A w \in Sockets : phase[w] \in {"new", "upgrading"} => ~consumed[w]
  /\ invalidated =>
       /\ \A w \in Sockets : phase[w] = "open" => ~consumed[w]
       /\ \A w \in Sockets : \A x \in waiting[w] : posts[x[2]].state \notin Paid
       /\ \A s \in Sessions : entry[s] # 0 => posts[entry[s]].state \notin Paid

BridgeInv ==
  /\ BridgeTypeOK
  /\ SameSession
  /\ NoHandlerForgotten
  /\ UseBehind
  /\ RecognisedCharged
  /\ OneKept
  /\ UsesPaid
  /\ ChargedOnce
  /\ Silenced
-----------------------------------------------------------------------------
(***************************************************************************)
(* Consume calls.                                                          *)
(***************************************************************************)

PostStates == {"posted", "charged", "denied", "done", "failed", "abandoned"}

(* A promise is a position of posts. *)
LEMMA PostFacts ==
  ASSUME posts \in Seq(Post)
  PROVE  /\ Len(posts) \in Nat /\ DOMAIN posts = 1..Len(posts)
         /\ \A k \in DOMAIN posts : /\ k \in Nat /\ k # 0 /\ posts[k] \in Post
                                    /\ posts[k].session \in Sessions /\ posts[k].state \in PostStates
  <1>1. Len(posts) \in Nat /\ DOMAIN posts = 1..Len(posts)
    BY LenProperties
  <1>2. \A k \in 1..Len(posts) : posts[k] \in Post
    BY ElementOfSeq
  <1>3. \A p \in Post : p.session \in Sessions /\ p.state \in PostStates
    BY DEF Post, PostStates
  <1>4. QED
    BY <1>1, <1>2, <1>3

(* A promise changes its state and nothing else does. *)
LEMMA PostChanged ==
  ASSUME posts \in Seq(Post), NEW k \in DOMAIN posts, NEW v \in PostStates,
         posts' = [posts EXCEPT ![k].state = v]
  PROVE  /\ posts' \in Seq(Post) /\ Len(posts') = Len(posts) /\ DOMAIN posts' = DOMAIN posts
         /\ posts'[k].session = posts[k].session /\ posts'[k].state = v
         /\ \A j \in DOMAIN posts : j # k => posts'[j] = posts[j]
  <1> DEFINE e == [posts[k] EXCEPT !.state = v]
  <1>1. e \in Post /\ e.session = posts[k].session /\ e.state = v
    BY PostFacts DEF Post, PostStates
  <1>2. posts' = [posts EXCEPT ![k] = e]
    OBVIOUS
  <1>3. k \in 1..Len(posts)
    BY PostFacts
  <1> HIDE DEF e
  <1>4. posts' \in Seq(Post) /\ Len(posts') = Len(posts)
    BY <1>1, <1>2, <1>3, ExceptSeq
  <1>5. posts'[k] = e /\ \A j \in DOMAIN posts : j # k => posts'[j] = posts[j]
    BY <1>2
  <1>6. QED
    BY <1>1, <1>4, <1>5, PostFacts, LenProperties

(* A new promise comes last and leaves the others alone. *)
LEMMA PostMade ==
  ASSUME posts \in Seq(Post), NEW s \in Sessions,
         posts' = Append(posts, [session |-> s, state |-> "posted"])
  PROVE  /\ posts' \in Seq(Post) /\ Len(posts') = Len(posts) + 1
         /\ DOMAIN posts' = DOMAIN posts \cup {Len(posts) + 1} /\ Len(posts) + 1 \notin DOMAIN posts
         /\ posts'[Len(posts) + 1].session = s /\ posts'[Len(posts) + 1].state = "posted"
         /\ \A j \in DOMAIN posts : posts'[j] = posts[j]
  <1> DEFINE e == [session |-> s, state |-> "posted"]
  <1>1. e \in Post /\ e.session = s /\ e.state = "posted"
    BY DEF Post
  <1> HIDE DEF e
  <1>2. posts' = Append(posts, e)
    BY DEF e
  <1>3. /\ posts' \in Seq(Post) /\ Len(posts') = Len(posts) + 1
        /\ \A j \in 1..Len(posts) : posts'[j] = posts[j]
        /\ posts'[Len(posts) + 1] = e
    BY <1>1, <1>2, AppendProperties
  <1>4. DOMAIN posts' = 1..Len(posts')
    BY <1>3, LenProperties
  <1>5. QED
    BY <1>1, <1>3, <1>4, PostFacts

(* Closing bridges ends their timers and their handlers, and nothing else. *)
LEMMA CleanupFacts ==
  ASSUME BridgeTypeOK, NEW ws, NEW why \in Causes, Cleanup(ws, why)
  PROVE  /\ phase' \in [Sockets -> {"new", "upgrading", "open", "closed", "refused"}]
         /\ check' \in [Sockets -> {"idle", "asked", "valid", "invalid"}]
         /\ timer' \in [Sockets -> BOOLEAN]
         /\ waiting' \in [Sockets -> SUBSET (Nat \X DOMAIN posts)]
         /\ cause' \in [Sockets -> Causes]
         /\ \A w \in Sockets :
              /\ waiting'[w] \subseteq waiting[w] /\ (w \in ws => waiting'[w] = {})
              /\ phase'[w] = IF w \in ws THEN "closed" ELSE phase[w]
              /\ timer'[w] => phase'[w] = "open" /\ check'[w] = "idle"
              /\ waiting'[w] # {} => phase'[w] = "open"
  <1>1. phase' \in [Sockets -> {"new", "upgrading", "open", "closed", "refused"}]
    BY DEF BridgeTypeOK, Cleanup
  <1>2. check' \in [Sockets -> {"idle", "asked", "valid", "invalid"}]
    BY DEF BridgeTypeOK, Cleanup
  <1>3. timer' \in [Sockets -> BOOLEAN]
    BY DEF BridgeTypeOK, Cleanup
  <1>4. waiting' \in [Sockets -> SUBSET (Nat \X DOMAIN posts)]
    BY DEF BridgeTypeOK, Cleanup
  <1>5. cause' \in [Sockets -> Causes]
    BY DEF BridgeTypeOK, Cleanup
  <1>6. ASSUME NEW w \in Sockets
        PROVE  /\ waiting'[w] \subseteq waiting[w] /\ (w \in ws => waiting'[w] = {})
               /\ phase'[w] = IF w \in ws THEN "closed" ELSE phase[w]
               /\ timer'[w] => phase'[w] = "open" /\ check'[w] = "idle"
               /\ waiting'[w] # {} => phase'[w] = "open"
    BY DEF BridgeTypeOK, Cleanup
  <1>7. QED
    BY <1>1, <1>2, <1>3, <1>4, <1>5, <1>6

-----------------------------------------------------------------------------
(***************************************************************************)
(* Steps that neither use the link nor touch a promise.                    *)
(***************************************************************************)

(* A step that leaves the promises alone, and writes no opening message *)
(* without a use, keeps the invariant.                                  *)
LEMMA UsesUntouched ==
  ASSUME BridgeInv, BridgeTypeOK',
         UNCHANGED <<posts, entry, charged, misled, consumed>>,
         \A w \in Sockets : waiting'[w] \subseteq waiting[w],
         \A w \in Sockets : \A x \in written'[w] :
           x[2] = "opening" => x \in written[w] \/ consumed[w],
         status' \in {"absent", "live"} /\ ~expired' => status \in {"absent", "live"} /\ ~expired,
         revoking' = "revoked" \/ invalidated' => status' \in {"revoked", "dropped"},
         invalidated' => invalidated,
         \A w \in Sockets : /\ phase'[w] \in {"new", "upgrading"} => phase[w] \in {"new", "upgrading"}
                            /\ phase'[w] = "open" => phase[w] \in {"upgrading", "open"}
  PROVE  BridgeInv'
  <1>1. SameSession'
    BY DEF BridgeInv, SameSession
  <1>2. NoHandlerForgotten'
    BY DEF BridgeInv, NoHandlerForgotten
  <1>3. UseBehind'
    BY DEF BridgeInv, UseBehind
  <1>4. RecognisedCharged'
    BY DEF BridgeInv, RecognisedCharged, Openings, UseBehind
  <1>5. OneKept'
    BY DEF BridgeInv, OneKept
  <1>6. UsesPaid' /\ ChargedOnce'
    BY DEF BridgeInv, UsesPaid, ChargedOnce
  <1>7. Silenced'
    BY DEF BridgeInv, Silenced
  <1>8. QED
    BY <1>1, <1>2, <1>3, <1>4, <1>5, <1>6, <1>7 DEF BridgeInv

(* The link, its expiry and its revocation. *)
LEMMA LinkSteps ==
  ASSUME BridgeInv,
         Create \/ Expire \/ AskRevoke \/ RevokeHere \/ RevokeElsewhere \/ RevokeFails
  PROVE  BridgeInv'
  <1>1. /\ UNCHANGED <<sockVars, useVars, invalidated>>
        /\ (expired => expired') /\ expired' \in BOOLEAN
        /\ revoking' \in {"idle", "asked", "revoked"}
        /\ status' = status \/ (status = "absent" /\ status' = "live") \/ (status = "live" /\ status' = "revoked")
        /\ uses' = uses
        /\ revoking' = "revoked" => revoking = "revoked" \/ status' = "revoked"
    BY DEF BridgeInv, BridgeTypeOK, LinkTypeOK, Create, Expire, AskRevoke, RevokeHere, RevokeElsewhere,
           RevokeFails, LinkCreate, LinkRevoke, linkVars, sockVars, useVars
  <1>2. BridgeTypeOK'
    <2>1. LinkTypeOK'
      BY <1>1 DEF BridgeInv, BridgeTypeOK, LinkTypeOK, Statuses
    <2>2. expired' \in BOOLEAN /\ invalidated' \in BOOLEAN
      BY <1>1 DEF BridgeInv, BridgeTypeOK
    <2>3. QED
      BY <1>1, <2>1, <2>2 DEF BridgeInv, BridgeTypeOK, sockVars, useVars
  <1>3. status \in Statuses
    BY DEF BridgeInv, BridgeTypeOK, LinkTypeOK
  <1>4. revoking' = "revoked" \/ invalidated' => status' \in {"revoked", "dropped"}
    BY <1>1 DEF BridgeInv, Silenced
  <1>5. QED
    BY <1>1, <1>2, <1>3, <1>4, UsesUntouched DEF sockVars, useVars, Statuses

(* Validation, at the upgrade and after that. *)
LEMMA CheckSteps ==
  ASSUME BridgeInv, NEW w \in Sockets, Upgrade(w) \/ Decide(w) \/ Upgraded(w) \/ TimerFires(w)
  PROVE  BridgeInv'
  <1>1. /\ UNCHANGED <<expired, received, validated, consumed, waiting, written, cause, useVars,
                       revoking, invalidated>>
        /\ status' = status \/ (status = "live" /\ expired /\ status' = "dropped")
        /\ uses' = uses
    BY DEF Upgrade, Decide, Upgraded, TimerFires, LinkDrop, linkVars
  <1>2. /\ check' \in [Sockets -> {"idle", "asked", "valid", "invalid"}]
    BY DEF BridgeInv, BridgeTypeOK, Upgrade, Decide, Upgraded, TimerFires
  <1>3. phase' \in [Sockets -> {"new", "upgrading", "open", "closed", "refused"}]
    BY ZenonT(30) DEF BridgeInv, BridgeTypeOK, Upgrade, Decide, Upgraded, TimerFires
  <1>4. timer' \in [Sockets -> BOOLEAN]
    BY DEF BridgeInv, BridgeTypeOK, Upgrade, Decide, Upgraded, TimerFires
  <1>5. ASSUME NEW v \in Sockets
        PROVE  /\ timer'[v] => phase'[v] = "open" /\ check'[v] = "idle"
               /\ waiting'[v] # {} => phase'[v] = "open"
               /\ phase'[v] \in {"new", "upgrading"} => phase[v] \in {"new", "upgrading"}
               /\ phase'[v] = "open" => phase[v] \in {"upgrading", "open"}
    BY <1>1, ZenonT(30) DEF BridgeInv, BridgeTypeOK, Upgrade, Decide, Upgraded, TimerFires
  <1>6. BridgeTypeOK'
    BY <1>1, <1>2, <1>3, <1>4, <1>5 DEF BridgeInv, BridgeTypeOK, LinkTypeOK, Statuses, useVars
  <1>7. revoking' = "revoked" \/ invalidated' => status' \in {"revoked", "dropped"}
    BY <1>1 DEF BridgeInv, Silenced
  <1>8. QED
    BY <1>1, <1>5, <1>6, <1>7, UsesUntouched DEF useVars

(* A bridge is closed, or goes on after a revalidation. *)
LEMMA ClosingSteps ==
  ASSUME BridgeInv, NEW w \in Sockets, Revalidated(w) \/ Hangup(w)
  PROVE  BridgeInv'
  <1>1. UNCHANGED <<linkVars, expired, received, validated, consumed, written, useVars, revoking, invalidated>>
    BY DEF Revalidated, Hangup
  <1>2. revoking' = "revoked" \/ invalidated' => status' \in {"revoked", "dropped"}
    BY <1>1 DEF BridgeInv, Silenced, linkVars
  <1>3. CASE \E why \in Causes : Cleanup({w}, why)
    <2>1. PICK why \in Causes : Cleanup({w}, why)
      BY <1>3
    <2>2. BridgeTypeOK'
      BY <1>1, <2>1, CleanupFacts DEF BridgeInv, BridgeTypeOK, LinkTypeOK, linkVars, useVars
    <2>3. ASSUME NEW v \in Sockets
          PROVE  /\ waiting'[v] \subseteq waiting[v]
                 /\ phase'[v] \in {"new", "upgrading"} => phase[v] \in {"new", "upgrading"}
                 /\ phase'[v] = "open" => phase[v] \in {"upgrading", "open"}
      BY <2>1, CleanupFacts DEF BridgeInv
    <2>4. QED
      BY <1>1, <1>2, <2>2, <2>3, UsesUntouched DEF useVars, linkVars
  <1>4. CASE /\ check' = [check EXCEPT ![w] = "idle"] /\ timer' = [timer EXCEPT ![w] = TRUE]
             /\ phase[w] = "open" /\ UNCHANGED <<phase, waiting, cause>>
    <2>1. BridgeTypeOK'
      BY <1>1, <1>4 DEF BridgeInv, BridgeTypeOK, LinkTypeOK, linkVars, useVars
    <2>2. QED
      BY <1>1, <1>2, <1>4, <2>1, UsesUntouched DEF useVars, linkVars
  <1>5. QED
    BY <1>3, <1>4 DEF Revalidated, Hangup, Causes

-----------------------------------------------------------------------------
(***************************************************************************)
(* Messages.                                                               *)
(***************************************************************************)

(* A message is one more of a bounded number. *)
LEMMA ReceivedMore ==
  ASSUME BridgeInv, NEW w \in Sockets, received[w] < MaxMsgs[w],
         received' = [received EXCEPT ![w] = @ + 1]
  PROVE  /\ received' \in [Sockets -> Nat] /\ MaxMsgs \in [Sockets -> Nat]
         /\ \A v \in Sockets : received'[v] <= MaxMsgs[v] /\ received[v] <= received'[v]
         /\ received[w] + 1 = received'[w] /\ received'[w] \in Nat
         /\ \A v \in Sockets : 1..received[v] \subseteq 1..received'[v]
         /\ received'[w] \in 1..received'[w]
  <1>1. received \in [Sockets -> Nat] /\ \A v \in Sockets : received[v] <= MaxMsgs[v]
    BY DEF BridgeInv, BridgeTypeOK
  <1>2. MaxMsgs \in [Sockets -> Nat]
    BY BridgeAssumption
  <1>3. received' \in [Sockets -> Nat]
    BY <1>1
  <1>4. ASSUME NEW v \in Sockets PROVE received'[v] <= MaxMsgs[v] /\ received[v] <= received'[v]
    BY <1>1, <1>2
  <1>5. received[w] + 1 = received'[w]
    BY <1>1
  <1>6. QED
    BY <1>1, <1>2, <1>3, <1>4, <1>5

(* A message that is refused, buffered, or written without waiting. *)
LEMMA MessageWithoutUse ==
  ASSUME BridgeInv, NEW w \in Sockets, NEW kind \in Kinds, Message(w, kind),
         \/ Refused(w)
         \/ \E as \in Written : WriteNow(w, as) /\ (as = "opening" => consumed[w])
         \/ UNCHANGED <<phase, check, timer, validated, consumed, waiting, written, cause, posts, entry>>
  PROVE  BridgeInv'
  <1>1. /\ phase[w] = "open" /\ received[w] < MaxMsgs[w]
        /\ received' = [received EXCEPT ![w] = @ + 1]
        /\ UNCHANGED <<linkVars, expired, forget, charged, misled, revoking, invalidated, validated,
                       consumed, posts, entry>>
    BY DEF Message, Refused, WriteNow
  <1>2. /\ received' \in [Sockets -> Nat] /\ MaxMsgs \in [Sockets -> Nat]
        /\ \A v \in Sockets : received'[v] <= MaxMsgs[v] /\ received[v] <= received'[v]
        /\ received[w] + 1 = received'[w]
    BY <1>1, ReceivedMore
  <1>3. revoking' = "revoked" \/ invalidated' => status' \in {"revoked", "dropped"}
    BY <1>1 DEF BridgeInv, Silenced, linkVars
  <1>4. CASE Refused(w)
    <2>1. Cleanup({w}, "target-mismatch") /\ "target-mismatch" \in Causes /\ UNCHANGED written
      BY <1>4 DEF Refused, Causes
    <2>2. \A v \in Sockets : \A x \in waiting'[v] \cup written'[v] : x[1] \in 1..received'[v]
      <3>1. ASSUME NEW v \in Sockets, NEW x \in waiting'[v] \cup written'[v]
            PROVE  x \in waiting[v] \cup written[v]
        <4>1. waiting'[v] \subseteq waiting[v]
          BY <2>1, CleanupFacts DEF BridgeInv
        <4>2. QED
          BY <2>1, <3>1, <4>1
      <3>2. ASSUME NEW v \in Sockets, NEW x \in waiting[v] \cup written[v]
            PROVE  x[1] \in 1..received[v] /\ received[v] \in Nat
        BY <3>2 DEF BridgeInv, BridgeTypeOK
      <3>3. QED
        BY <1>2, <3>1, <3>2
    <2>3. BridgeTypeOK'
      BY <1>1, <1>2, <2>1, <2>2, CleanupFacts DEF BridgeInv, BridgeTypeOK, LinkTypeOK, linkVars
    <2>4. ASSUME NEW v \in Sockets
          PROVE  /\ waiting'[v] \subseteq waiting[v]
                 /\ phase'[v] \in {"new", "upgrading"} => phase[v] \in {"new", "upgrading"}
                 /\ phase'[v] = "open" => phase[v] \in {"upgrading", "open"}
      BY <2>1, CleanupFacts DEF BridgeInv
    <2>5. QED
      BY <1>1, <1>3, <2>1, <2>3, <2>4, UsesUntouched DEF linkVars
  <1>5. CASE ~Refused(w)
    <2>1. UNCHANGED <<phase, check, timer, waiting, cause>>
      BY <1>5 DEF WriteNow
    <2>2. /\ written' \in [Sockets -> SUBSET (Nat \X Written)]
          /\ \A v \in Sockets : \A x \in written'[v] :
               \/ x \in written[v]
               \/ v = w /\ x[1] = received'[w] /\ (x[2] = "opening" => consumed[w])
      <3>1. written \in [Sockets -> SUBSET (Nat \X Written)]
        BY DEF BridgeInv, BridgeTypeOK
      <3>2. received[w] + 1 = received'[w] /\ received'[w] \in Nat
        BY <1>1, <1>2, ReceivedMore
      <3>3. CASE UNCHANGED written
        BY <3>1, <3>3
      <3>4. CASE \E as \in Written : WriteNow(w, as) /\ (as = "opening" => consumed[w])
        <4>1. PICK as \in Written : WriteNow(w, as) /\ (as = "opening" => consumed[w])
          BY <3>4
        <4>2. written' = [written EXCEPT ![w] = @ \cup {<<received'[w], as>>}]
          BY <3>2, <4>1 DEF WriteNow
        <4>3. \A v \in Sockets :
                written'[v] = IF v = w THEN written[w] \cup {<<received'[w], as>>} ELSE written[v]
          BY <3>1, <4>2
        <4>4. <<received'[w], as>> \in Nat \X Written
          BY <3>2, <4>1
        <4>5. written' \in [Sockets -> SUBSET (Nat \X Written)]
          BY <3>1, <4>2, <4>4
        <4> DEFINE y == <<received'[w], as>>
        <4>6. y[1] = received'[w] /\ y[2] = as
          OBVIOUS
        <4>7. \A v \in Sockets : \A x \in written'[v] : x \in written[v] \/ (v = w /\ x = y)
          BY <4>3
        <4> HIDE DEF y
        <4>8. QED
          BY <4>1, <4>5, <4>6, <4>7
      <3>5. QED
        BY <1>5, <3>3, <3>4
    <2>3. \A v \in Sockets : \A x \in waiting'[v] \cup written'[v] : x[1] \in 1..received'[v]
      BY <1>2, <2>1, <2>2 DEF BridgeInv, BridgeTypeOK
    <2>4. BridgeTypeOK'
      BY <1>1, <1>2, <2>1, <2>2, <2>3 DEF BridgeInv, BridgeTypeOK, LinkTypeOK, linkVars
    <2>5. QED
      BY <1>1, <1>3, <2>1, <2>2, <2>4, UsesUntouched DEF linkVars
  <1>6. QED
    BY <1>4, <1>5

(* The variables other than those of Consume, for a message that opens a   *)
(* session on an open bridge.                                              *)
LEMMA OpeningTyped ==
  ASSUME BridgeInv, NEW w \in Sockets, NEW kind \in Kinds, Message(w, kind), WriteLater(w),
         validated' \in [Sockets -> BOOLEAN],
         posts' \in Seq(Post), entry' \in [Sessions -> 0..Len(posts')],
         consumed' \in [Sockets -> BOOLEAN],
         \A v \in Sockets : /\ waiting'[v] \subseteq waiting[v] \cup {<<received[w] + 1, k>> : k \in DOMAIN posts'}
                            /\ v # w => waiting'[v] = waiting[v]
                            /\ written'[v] \subseteq written[v] \cup {<<received[w] + 1, "opening">>}
                            /\ v # w => written'[v] = written[v],
         waiting' = [v \in Sockets |-> waiting'[v]],
         written' = [v \in Sockets |-> written'[v]],
         DOMAIN posts \subseteq DOMAIN posts'
  PROVE  BridgeTypeOK'
  <1>1. /\ phase[w] = "open" /\ received[w] < MaxMsgs[w]
        /\ received' = [received EXCEPT ![w] = @ + 1]
        /\ UNCHANGED <<linkVars, expired, forget, charged, misled, revoking, invalidated,
                       phase, check, timer, cause>>
    BY DEF Message, WriteLater
  <1>2. /\ received' \in [Sockets -> Nat] /\ MaxMsgs \in [Sockets -> Nat]
        /\ \A v \in Sockets : received'[v] <= MaxMsgs[v] /\ received[v] <= received'[v]
        /\ received[w] + 1 = received'[w] /\ received'[w] \in Nat
    BY <1>1, ReceivedMore
  <1>3. waiting' \in [Sockets -> SUBSET (Nat \X DOMAIN posts')]
    <2>1. ASSUME NEW v \in Sockets PROVE waiting'[v] \subseteq Nat \X DOMAIN posts'
      <3>1. waiting[v] \subseteq Nat \X DOMAIN posts
        BY DEF BridgeInv, BridgeTypeOK
      <3>2. QED
        BY <1>2, <3>1
    <2>2. QED
      BY <2>1
  <1>4. written' \in [Sockets -> SUBSET (Nat \X Written)]
    <2>1. ASSUME NEW v \in Sockets PROVE written'[v] \subseteq Nat \X Written
      <3>1. written[v] \subseteq Nat \X Written
        BY DEF BridgeInv, BridgeTypeOK
      <3>2. QED
        BY <1>2, <3>1 DEF Written
    <2>2. QED
      BY <2>1
  <1>5. ASSUME NEW v \in Sockets
        PROVE  /\ \A x \in waiting'[v] \cup written'[v] : x[1] \in 1..received'[v]
               /\ waiting'[v] # {} => phase[v] = "open"
    <2>1. \A x \in waiting[v] \cup written[v] : x[1] \in 1..received[v]
      BY DEF BridgeInv, BridgeTypeOK
    <2>2. QED
      BY <1>1, <1>2, <2>1 DEF BridgeInv, BridgeTypeOK
  <1>6. QED
    BY <1>1, <1>2, <1>3, <1>4, <1>5 DEF BridgeInv, BridgeTypeOK, LinkTypeOK, linkVars

(* A message that opens a session waits for the use, unless the promise of *)
(* its session has resolved.                                               *)
LEMMA MessageWithUse ==
  ASSUME BridgeInv, NEW w \in Sockets, NEW kind \in Kinds, Message(w, kind), WriteLater(w),
         validated' \in [Sockets -> BOOLEAN]
  PROVE  BridgeInv'
  <1> DEFINE n == received[w] + 1
             s == SessionOf[w]
             k == entry[s]
  <1>1. /\ phase[w] = "open" /\ Consume(w, n)
        /\ UNCHANGED <<linkVars, expired, forget, charged, misled, revoking, invalidated,
                       phase, check, timer, cause>>
    BY DEF Message, WriteLater
  <1>2. /\ posts \in Seq(Post) /\ entry \in [Sessions -> 0..Len(posts)] /\ s \in Sessions
        /\ consumed \in [Sockets -> BOOLEAN] /\ DOMAIN waiting = Sockets /\ DOMAIN written = Sockets
        /\ waiting = [v \in Sockets |-> waiting[v]] /\ written = [v \in Sockets |-> written[v]]
    BY BridgeAssumption DEF BridgeInv, BridgeTypeOK
  <1>3. /\ DOMAIN posts = 1..Len(posts) /\ Len(posts) \in Nat
        /\ \A j \in DOMAIN posts : j # 0 /\ posts[j].session \in Sessions
        /\ k # 0 => k \in DOMAIN posts /\ posts[k].session = s
    BY <1>2, PostFacts DEF BridgeInv, SameSession
  <1>4. \A v \in Sockets : \A x \in waiting[v] : x[2] \in DOMAIN posts
    BY DEF BridgeInv, BridgeTypeOK
  <1>5. CASE /\ k # 0 /\ posts[k].state = "done"
             /\ consumed' = [consumed EXCEPT ![w] = TRUE]
             /\ written' = [written EXCEPT ![w] = @ \cup {<<n, "opening">>}]
             /\ UNCHANGED <<posts, entry, waiting>>
    <2>1. posts[k].state \in Paid /\ charged[s] > 0 /\ ~invalidated
      BY <1>2, <1>3, <1>5 DEF BridgeInv, UseBehind, Silenced, Paid
    <2>2. /\ consumed' \in [Sockets -> BOOLEAN] /\ consumed'[w] = TRUE
          /\ \A v \in Sockets : /\ v # w => written'[v] = written[v] /\ consumed'[v] = consumed[v]
                                /\ written'[v] \subseteq written[v] \cup {<<n, "opening">>}
          /\ written' = [v \in Sockets |-> written'[v]]
      BY <1>2, <1>5
    <2>3. BridgeTypeOK'
      BY <1>2, <1>5, <2>2, OpeningTyped
    <2>4. SameSession' /\ NoHandlerForgotten'
      BY <1>5 DEF BridgeInv, SameSession, NoHandlerForgotten
    <2>5. UseBehind'
      BY <1>1, <1>5, <2>1, <2>2 DEF BridgeInv, UseBehind
    <2>6. RecognisedCharged'
      BY <1>1, <2>1, <2>2 DEF BridgeInv, RecognisedCharged, Openings
    <2>7. OneKept' /\ UsesPaid' /\ ChargedOnce'
      BY <1>1, <1>5 DEF BridgeInv, OneKept, UsesPaid, ChargedOnce, linkVars
    <2>8. Silenced'
      BY <1>1, <2>1, <2>2 DEF BridgeInv, Silenced, linkVars
    <2>9. QED
      BY <2>3, <2>4, <2>5, <2>6, <2>7, <2>8 DEF BridgeInv
  <1>6. CASE /\ k # 0 /\ posts[k].state # "done"
             /\ waiting' = [waiting EXCEPT ![w] = @ \cup {<<n, k>>}]
             /\ UNCHANGED <<posts, entry, consumed, written>>
    <2>1. /\ \A v \in Sockets : \A x \in waiting'[v] : x \in waiting[v] \/ (v = w /\ x = <<n, k>>)
          /\ \A v \in Sockets : /\ v # w => waiting'[v] = waiting[v]
                                /\ waiting'[v] \subseteq waiting[v] \cup {<<n, j>> : j \in DOMAIN posts}
          /\ waiting' = [v \in Sockets |-> waiting'[v]]
      BY <1>2, <1>3, <1>6
    <2>2. BridgeTypeOK'
      BY <1>2, <1>6, <2>1, OpeningTyped, ZenonT(30)
    <2>3. SameSession'
      BY <1>3, <1>6, <2>1 DEF BridgeInv, SameSession
    <2>4. NoHandlerForgotten'
      BY <1>2, <1>3, <1>6, <2>1 DEF BridgeInv, NoHandlerForgotten
    <2>5. UseBehind' /\ RecognisedCharged' /\ OneKept' /\ UsesPaid' /\ ChargedOnce'
      BY <1>1, <1>6 DEF BridgeInv, UseBehind, RecognisedCharged, Openings, OneKept, UsesPaid, ChargedOnce, linkVars
    <2>6. Silenced'
      BY <1>1, <1>2, <1>3, <1>6, <2>1 DEF BridgeInv, Silenced, linkVars
    <2>7. QED
      BY <2>2, <2>3, <2>4, <2>5, <2>6 DEF BridgeInv
  <1>7. CASE /\ k = 0
             /\ posts' = Append(posts, [session |-> s, state |-> "posted"])
             /\ entry' = [entry EXCEPT ![s] = Len(posts) + 1]
             /\ waiting' = [waiting EXCEPT ![w] = @ \cup {<<n, Len(posts) + 1>>}]
             /\ UNCHANGED <<consumed, written>>
    <2> DEFINE new == Len(posts) + 1
    <2>1. /\ posts' \in Seq(Post) /\ Len(posts') = new
          /\ DOMAIN posts' = DOMAIN posts \cup {new} /\ new \notin DOMAIN posts
          /\ posts'[new].session = s /\ posts'[new].state = "posted"
          /\ \A j \in DOMAIN posts : posts'[j] = posts[j]
      BY <1>2, <1>7, PostMade
    <2>2. /\ \A v \in Sockets : \A x \in waiting'[v] : x \in waiting[v] \/ (v = w /\ x = <<n, new>>)
          /\ \A v \in Sockets : /\ v # w => waiting'[v] = waiting[v]
                                /\ waiting'[v] \subseteq waiting[v] \cup {<<n, j>> : j \in DOMAIN posts'}
          /\ waiting' = [v \in Sockets |-> waiting'[v]]
      BY <1>2, <1>7, <2>1
    <2>3. /\ entry' \in [Sessions -> 0..Len(posts')] /\ entry'[s] = new
          /\ \A t \in Sessions : t # s => entry'[t] = entry[t]
          /\ \A t \in Sessions : t # s /\ entry[t] # 0 => entry[t] \in DOMAIN posts
      BY <1>2, <1>3, <1>7, <2>1
    <2> HIDE DEF new
    <2>4. BridgeTypeOK'
      BY <1>2, <1>7, <2>1, <2>2, <2>3, OpeningTyped, SMTT(30)
    <2>5. SameSession'
      <3>1. ASSUME NEW v \in Sockets, NEW x \in waiting'[v] PROVE posts'[x[2]].session = SessionOf[v]
        <4>1. CASE x \in waiting[v]
          BY <1>4, <2>1, <4>1 DEF BridgeInv, SameSession
        <4>2. CASE v = w /\ x = <<n, new>>
          BY <2>1, <4>2
        <4>3. QED
          BY <2>2, <4>1, <4>2
      <3>2. ASSUME NEW t \in Sessions, entry'[t] # 0 PROVE posts'[entry'[t]].session = t
        BY <2>1, <2>3, <3>2 DEF BridgeInv, SameSession
      <3>3. QED
        BY <3>1, <3>2 DEF SameSession
    <2>6. NoHandlerForgotten'
      BY <1>4, <2>1, <2>2, <2>3, SMTT(30) DEF BridgeInv, NoHandlerForgotten
    <2>7. UseBehind' /\ RecognisedCharged' /\ ChargedOnce'
      BY <1>1, <1>7, <2>1 DEF BridgeInv, UseBehind, RecognisedCharged, Openings, ChargedOnce, Paid
    <2>8. OneKept'
      BY <1>1, <1>3, <1>7, <2>1, <2>3 DEF BridgeInv, OneKept, linkVars
    <2>9. UsesPaid'
      BY <1>1, <2>1 DEF BridgeInv, UsesPaid
    <2>10. Silenced'
      BY <1>1, <1>4, <1>7, <2>1, <2>2, <2>3 DEF BridgeInv, Silenced, linkVars, Paid
    <2>11. QED
      BY <2>4, <2>5, <2>6, <2>7, <2>8, <2>9, <2>10 DEF BridgeInv
  <1>8. QED
    BY <1>1, <1>5, <1>6, <1>7 DEF Consume

(* The message handler of a bridge, up to its first await. *)
LEMMA MessageStep ==
  ASSUME BridgeInv, NEW w \in Sockets, NEW kind \in Kinds, Message(w, kind)
  PROVE  BridgeInv'
  <1>1. validated \in [Sockets -> BOOLEAN]
    BY DEF BridgeInv, BridgeTypeOK
  <1>2. \/ WriteLater(w) /\ (UNCHANGED validated \/ validated' = [validated EXCEPT ![w] = TRUE])
        \/ Refused(w)
        \/ \E as \in Written : WriteNow(w, as) /\ (as = "opening" => consumed[w])
        \/ UNCHANGED <<phase, check, timer, validated, consumed, waiting, written, cause, posts, entry>>
    BY DEF Message, RelayMessage, RendezvousMessage, Written
  <1>3. WriteLater(w) /\ (UNCHANGED validated \/ validated' = [validated EXCEPT ![w] = TRUE])
          => validated' \in [Sockets -> BOOLEAN]
    BY <1>1
  <1>4. QED
    BY <1>2, <1>3, MessageWithUse, MessageWithoutUse

-----------------------------------------------------------------------------
(***************************************************************************)
(* The server's decision and the settling of promises.                     *)
(***************************************************************************)

(* The server decides about a use, whether or not the panel still waits *)
(* for it.                                                              *)
LEMMA ChargeStep ==
  ASSUME BridgeInv, NEW k \in DOMAIN posts, Charge(k)
  PROVE  BridgeInv'
  <1> DEFINE s == posts[k].session
             ok == status = "live" /\ ~expired /\ BelowLimit(uses)
             given == posts[k].state = "abandoned"
             v == IF given THEN "failed" ELSE IF ok THEN "charged" ELSE "denied"
  <1>1. /\ posts[k].state \in {"posted", "abandoned"} /\ posts' = [posts EXCEPT ![k].state = v]
        /\ charged' = [charged EXCEPT ![s] = IF ok THEN @ + 1 ELSE @]
        /\ misled' = [misled EXCEPT ![s] = IF ok /\ given THEN @ + 1 ELSE @]
        /\ status' = status /\ uses' \in {uses, uses + 1}
        /\ UNCHANGED <<expired, sockVars, entry, forget, revoking, invalidated>>
    BY DEF Charge, LinkUse, linkVars
  <1>2. /\ posts \in Seq(Post) /\ charged \in [Sessions -> Nat] /\ misled \in [Sessions -> Nat]
        /\ uses \in Nat /\ v \in PostStates /\ s \in Sessions
        /\ entry \in [Sessions -> 0..Len(posts)]
    BY PostFacts DEF BridgeInv, BridgeTypeOK, LinkTypeOK, PostStates
  <1>3. /\ posts' \in Seq(Post) /\ Len(posts') = Len(posts) /\ DOMAIN posts' = DOMAIN posts
        /\ posts'[k].session = s /\ posts'[k].state = v
        /\ \A j \in DOMAIN posts : j # k => posts'[j] = posts[j]
    BY <1>1, <1>2, PostChanged
  <1>4. /\ charged' \in [Sessions -> Nat] /\ misled' \in [Sessions -> Nat]
        /\ \A t \in Sessions : t # s => charged'[t] = charged[t] /\ misled'[t] = misled[t]
        /\ \A t \in Sessions : charged[t] <= charged'[t]
        /\ charged'[s] = charged[s] + (IF ok THEN 1 ELSE 0)
        /\ misled'[s] = misled[s] + (IF ok /\ given THEN 1 ELSE 0)
    BY <1>1, <1>2, SMTT(30)
  <1>5. BridgeTypeOK'
    BY <1>1, <1>2, <1>3, <1>4, SMTT(30) DEF BridgeInv, BridgeTypeOK, LinkTypeOK, sockVars
  <1>6. /\ \A t \in Sessions : entry[t] # 0 => entry[t] \in DOMAIN posts
        /\ \A w \in Sockets : \A x \in waiting[w] : x[2] \in DOMAIN posts
        /\ \A j \in DOMAIN posts : posts[j].session \in Sessions /\ j # 0
        /\ \A w \in Sockets : SessionOf[w] \in Sessions
    BY <1>2, PostFacts, BridgeAssumption DEF BridgeInv, BridgeTypeOK
  <1>7. SameSession'
    BY <1>1, <1>3, <1>6 DEF BridgeInv, SameSession, sockVars
  <1>8. v = "failed" => posts[k].state = "abandoned"
    OBVIOUS
  <1>9. v \in Paid <=> ok /\ ~given
    BY DEF Paid
  <1>10. v \in Kept <=> ~given
    BY DEF Paid, Kept
  <1>11. v \in {"failed", "charged", "denied"}
    OBVIOUS
  <1> HIDE DEF v
  <1>12. NoHandlerForgotten'
    BY <1>1, <1>3, <1>6, <1>8, <1>11 DEF BridgeInv, NoHandlerForgotten, sockVars
  <1>13. UseBehind'
    BY <1>1, <1>2, <1>3, <1>4, <1>6, <1>9 DEF BridgeInv, UseBehind, sockVars
  <1>14. RecognisedCharged'
    <2> SUFFICES ASSUME NEW w \in Sockets, Openings(w)' # {} PROVE charged'[SessionOf[w]] > 0
      BY DEF RecognisedCharged
    <2>1. charged[SessionOf[w]] > 0
      BY <1>1 DEF BridgeInv, RecognisedCharged, Openings, sockVars
    <2>2. QED
      BY <1>2, <1>4, <1>6, <2>1
  <1>15. OneKept'
    <2>1. posts[k].state \in Kept <=> ~given
      BY <1>1 DEF Kept, Paid
    <2>2. QED
      BY <1>1, <1>3, <1>10, <2>1 DEF BridgeInv, OneKept
  <1>16. \* the call that is charged is the first of its session
         ok /\ ~given => charged[s] <= misled[s]
    <2> SUFFICES ASSUME ok, ~given PROVE charged[s] <= misled[s]
      OBVIOUS
    <2>1. posts[k].state \in Kept /\ posts[k].state \notin Paid
      BY <1>1 DEF Kept, Paid
    <2>2. \A j \in DOMAIN posts : posts[j].session = s => posts[j].state \notin Paid
      BY <2>1 DEF BridgeInv, OneKept, Kept
    <2>3. QED
      BY <1>2, <2>2 DEF BridgeInv, UsesPaid
  <1>17. UsesPaid'
    <2> SUFFICES ASSUME NEW t \in Sessions,
                        \A j \in DOMAIN posts' : posts'[j].session = t => posts'[j].state \notin Paid
                 PROVE  charged'[t] <= misled'[t]
      BY DEF UsesPaid
    <2>1. posts[k].state \notin Paid
      BY <1>1 DEF Paid
    <2>2. \A j \in DOMAIN posts : posts[j].session = t => posts[j].state \notin Paid
      BY <1>3, <2>1
    <2>3. charged[t] <= misled[t]
      BY <2>2 DEF BridgeInv, UsesPaid
    <2>4. t = s => ~(ok /\ ~given)
      BY <1>3, <1>9
    <2>5. QED
      BY <1>2, <1>4, <2>3, <2>4
  <1>18. ChargedOnce'
    <2> SUFFICES ASSUME NEW t \in Sessions PROVE charged'[t] <= 1 + misled'[t]
      BY DEF ChargedOnce
    <2>1. charged[t] <= 1 + misled[t] /\ charged[t] \in Nat /\ misled[t] \in Nat
      BY <1>2 DEF BridgeInv, ChargedOnce
    <2>2. CASE t = s
      BY <1>4, <1>16, <2>1, <2>2
    <2>3. CASE t # s
      BY <1>4, <2>1, <2>3
    <2>4. QED
      BY <2>2, <2>3
  <1>19. Silenced'
    <2>1. invalidated => ~ok
      BY DEF BridgeInv, Silenced
    <2>2. QED
      BY <1>1, <1>3, <1>6, <1>9, <2>1 DEF BridgeInv, Silenced, sockVars
  <1>20. QED
    BY <1>5, <1>7, <1>12, <1>13, <1>14, <1>15, <1>17, <1>18, <1>19 DEF BridgeInv

(* The use was taken: the handlers that waited write their messages. *)
LEMMA ResolveStep ==
  ASSUME BridgeInv, NEW k \in DOMAIN posts, Resolve(k)
  PROVE  BridgeInv'
  <1> DEFINE s == posts[k].session
  <1>1. /\ posts[k].state = "charged" /\ posts' = [posts EXCEPT ![k].state = "done"]
        /\ forget' = forget \cup {s}
        /\ consumed' = [w \in Sockets |-> consumed[w] \/ WaitsOn(w, k)]
        /\ written' = [w \in Sockets |-> written[w] \cup Resumed(w, k)]
        /\ waiting' = [w \in Sockets |-> {x \in waiting[w] : x[2] # k}]
        /\ UNCHANGED <<linkVars, expired, phase, check, timer, received, validated, cause, entry,
                       charged, misled, revoking, invalidated>>
    BY DEF Resolve
  <1>2. /\ posts \in Seq(Post) /\ entry \in [Sessions -> 0..Len(posts)] /\ s \in Sessions
        /\ \A w \in Sockets : SessionOf[w] \in Sessions
        /\ waiting \in [Sockets -> SUBSET (Nat \X DOMAIN posts)]
        /\ written \in [Sockets -> SUBSET (Nat \X Written)]
        /\ consumed \in [Sockets -> BOOLEAN]
    BY PostFacts, BridgeAssumption DEF BridgeInv, BridgeTypeOK
  <1>3. /\ posts' \in Seq(Post) /\ Len(posts') = Len(posts) /\ DOMAIN posts' = DOMAIN posts
        /\ posts'[k].session = s /\ posts'[k].state = "done"
        /\ \A j \in DOMAIN posts : j # k => posts'[j] = posts[j]
    BY <1>1, <1>2, PostChanged DEF PostStates
  <1>4. \A w \in Sockets : WaitsOn(w, k) => SessionOf[w] = s /\ phase[w] = "open" /\ ~invalidated
    BY <1>1 DEF BridgeInv, BridgeTypeOK, WaitsOn, SameSession, Silenced, Paid
  <1>5. charged[s] > 0
    BY <1>1 DEF BridgeInv, UseBehind, Paid
  <1>6. ASSUME NEW w \in Sockets
        PROVE  /\ waiting'[w] \subseteq waiting[w]
               /\ \A x \in waiting'[w] : x[2] # k /\ x[2] \in DOMAIN posts
               /\ \A x \in written'[w] :
                    \/ x \in written[w]
                    \/ /\ WaitsOn(w, k) /\ x[2] = "opening"
                       /\ \E y \in waiting[w] : x = <<y[1], "opening">>
               /\ consumed'[w] <=> consumed[w] \/ WaitsOn(w, k)
    <2>1. waiting'[w] = {x \in waiting[w] : x[2] # k} /\ \A x \in waiting[w] : x[2] \in DOMAIN posts
      BY <1>1, <1>2
    <2>2. \A x \in Resumed(w, k) : /\ WaitsOn(w, k) /\ x[2] = "opening"
                                   /\ \E y \in waiting[w] : x = <<y[1], "opening">>
      BY DEF Resumed, WaitsOn
    <2>3. written'[w] = written[w] \cup Resumed(w, k) /\ (consumed'[w] <=> consumed[w] \/ WaitsOn(w, k))
      BY <1>1, <1>2
    <2>4. QED
      BY <2>1, <2>2, <2>3
  <1>7. waiting' \in [Sockets -> SUBSET (Nat \X DOMAIN posts')]
    BY <1>1, <1>2, <1>3
  <1>8. written' \in [Sockets -> SUBSET (Nat \X Written)]
    <2>1. ASSUME NEW w \in Sockets PROVE Resumed(w, k) \subseteq Nat \X Written
      <3>1. \A y \in waiting[w] : y[1] \in Nat
        BY <1>2
      <3>2. QED
        BY <3>1 DEF Resumed, Written
    <2>2. QED
      BY <1>1, <1>2, <2>1
  <1>9. consumed' \in [Sockets -> BOOLEAN]
    BY <1>1, <1>2 DEF WaitsOn
  <1>10. ASSUME NEW w \in Sockets
         PROVE  /\ \A x \in waiting'[w] \cup written'[w] : x[1] \in 1..received[w]
                /\ waiting'[w] # {} => phase[w] = "open"
    <2>1. /\ \A x \in waiting[w] \cup written[w] : x[1] \in 1..received[w]
          /\ waiting[w] # {} => phase[w] = "open"
      BY DEF BridgeInv, BridgeTypeOK
    <2>2. QED
      BY <1>6, <2>1
  <1>11. BridgeTypeOK'
    BY <1>1, <1>2, <1>3, <1>7, <1>8, <1>9, <1>10 DEF BridgeInv, BridgeTypeOK, LinkTypeOK, linkVars
  <1>12. \A t \in Sessions : entry[t] # 0 => entry[t] \in DOMAIN posts
    BY <1>2, PostFacts
  <1>13. SameSession'
    BY <1>1, <1>3, <1>6, <1>12 DEF BridgeInv, SameSession
  <1>14. NoHandlerForgotten'
    BY <1>1, <1>3, <1>6, <1>12 DEF BridgeInv, NoHandlerForgotten
  <1>15. UseBehind'
    BY <1>1, <1>3, <1>4, <1>5, <1>6 DEF BridgeInv, UseBehind
  <1>16. RecognisedCharged'
    BY <1>1, <1>4, <1>5, <1>6 DEF BridgeInv, RecognisedCharged, Openings
  <1>17. OneKept' /\ UsesPaid' /\ ChargedOnce'
    BY <1>1, <1>3 DEF BridgeInv, OneKept, UsesPaid, ChargedOnce, Kept, Paid, linkVars
  <1>18. Silenced'
    BY <1>1, <1>3, <1>4, <1>6, <1>12 DEF BridgeInv, Silenced, Paid, linkVars
  <1>19. QED
    BY <1>11, <1>13, <1>14, <1>15, <1>16, <1>17, <1>18 DEF BridgeInv

(* The use was denied, or the call failed: the bridges that waited close.  *)
LEMMA RejectStep ==
  ASSUME BridgeInv, NEW k \in DOMAIN posts, Reject(k)
  PROVE  BridgeInv'
  <1> DEFINE s == posts[k].session
             ws == {w \in Sockets : WaitsOn(w, k)}
             v == IF posts[k].state = "posted" THEN "abandoned" ELSE "failed"
  <1>1. /\ posts[k].state \in {"denied", "posted", "charged"}
        /\ posts' = [posts EXCEPT ![k].state = v]
        /\ misled' = [misled EXCEPT ![s] = IF posts[k].state = "charged" THEN @ + 1 ELSE @]
        /\ entry' = [entry EXCEPT ![s] = 0]
        /\ Cleanup(ws, "use-rejected")
        /\ UNCHANGED <<linkVars, expired, received, validated, consumed, written, forget, charged,
                       revoking, invalidated>>
    BY DEF Reject
  <1>2. /\ posts \in Seq(Post) /\ entry \in [Sessions -> 0..Len(posts)] /\ s \in Sessions
        /\ charged \in [Sessions -> Nat] /\ misled \in [Sessions -> Nat] /\ v \in PostStates
        /\ waiting \in [Sockets -> SUBSET (Nat \X DOMAIN posts)]
    BY PostFacts DEF BridgeInv, BridgeTypeOK, PostStates
  <1>3. /\ posts' \in Seq(Post) /\ Len(posts') = Len(posts) /\ DOMAIN posts' = DOMAIN posts
        /\ posts'[k].session = s /\ posts'[k].state = v
        /\ \A j \in DOMAIN posts : j # k => posts'[j] = posts[j]
    BY <1>1, <1>2, PostChanged
  <1>4. v \notin Kept /\ v \notin Paid
    BY DEF Kept, Paid
  <1> HIDE DEF v
  <1>5. "use-rejected" \in Causes
    BY DEF Causes
  <1>6. /\ misled' \in [Sessions -> Nat] /\ \A t \in Sessions : misled[t] <= misled'[t]
        /\ posts[k].state = "charged" => misled'[s] = misled[s] + 1
    BY <1>1, <1>2
  <1>7. /\ entry' \in [Sessions -> 0..Len(posts)] /\ entry'[s] = 0
        /\ \A t \in Sessions : t # s => entry'[t] = entry[t]
        /\ \A t \in Sessions : entry'[t] # 0 => /\ entry'[t] = entry[t] /\ entry[t] \in DOMAIN posts
                                                /\ entry[t] # k
    BY <1>1, <1>2, PostFacts DEF BridgeInv, SameSession
  <1>8. ASSUME NEW w \in Sockets
        PROVE  /\ waiting'[w] \subseteq waiting[w]
               /\ \A x \in waiting'[w] : x[2] # k /\ x[2] \in DOMAIN posts
               /\ phase'[w] \in {phase[w], "closed"}
    <2>1. /\ waiting'[w] \subseteq waiting[w] /\ (WaitsOn(w, k) => waiting'[w] = {})
          /\ phase'[w] \in {phase[w], "closed"}
      BY <1>1, <1>5, CleanupFacts DEF BridgeInv
    <2>2. \A x \in waiting[w] : x[2] \in DOMAIN posts
      BY <1>2
    <2>3. QED
      BY <2>1, <2>2 DEF WaitsOn
  <1>9. BridgeTypeOK'
    <2>1. \A w \in Sockets : \A x \in waiting'[w] \cup written'[w] : x[1] \in 1..received[w]
      BY <1>1, <1>8 DEF BridgeInv, BridgeTypeOK
    <2>2. QED
      BY <1>1, <1>3, <1>5, <1>6, <1>7, <2>1, CleanupFacts
         DEF BridgeInv, BridgeTypeOK, LinkTypeOK, linkVars
  <1>10. SameSession'
    BY <1>3, <1>7, <1>8 DEF BridgeInv, SameSession
  <1>11. NoHandlerForgotten'
    BY <1>3, <1>7, <1>8 DEF BridgeInv, NoHandlerForgotten
  <1>12. UseBehind'
    BY <1>1, <1>3, <1>4 DEF BridgeInv, UseBehind
  <1>13. RecognisedCharged'
    BY <1>1 DEF BridgeInv, RecognisedCharged, Openings
  <1>14. OneKept'
    <2> SUFFICES ASSUME status \in {"absent", "live"}, ~expired,
                        NEW j \in DOMAIN posts, posts'[j].state \in Kept
                 PROVE  entry'[posts'[j].session] = j
      BY <1>1, <1>3 DEF OneKept, linkVars
    <2>1. j # k /\ posts'[j] = posts[j] /\ posts[j].session \in Sessions /\ j # 0
      BY <1>2, <1>3, <1>4, PostFacts
    <2>2. entry[posts[j].session] = j /\ entry[s] = k
      BY <1>1, <2>1 DEF BridgeInv, OneKept, Kept, Paid
    <2>3. QED
      BY <1>7, <2>1, <2>2
  <1>15. UsesPaid'
    <2> SUFFICES ASSUME NEW t \in Sessions,
                        \A j \in DOMAIN posts' : posts'[j].session = t => posts'[j].state \notin Paid
                 PROVE  charged[t] <= misled'[t]
      BY <1>1 DEF UsesPaid
    <2>1. charged[t] \in Nat /\ misled[t] \in Nat /\ misled'[t] \in Nat /\ misled[t] <= misled'[t]
          /\ charged[t] <= 1 + misled[t]
      BY <1>2, <1>6 DEF BridgeInv, ChargedOnce
    <2>2. CASE t = s /\ posts[k].state = "charged"
      BY <1>6, <2>1, <2>2
    <2>3. CASE ~(t = s /\ posts[k].state = "charged")
      <3>1. \A j \in DOMAIN posts : posts[j].session = t => posts[j].state \notin Paid
        BY <1>1, <1>3, <2>3 DEF Paid
      <3>2. QED
        BY <2>1, <3>1 DEF BridgeInv, UsesPaid
    <2>4. QED
      BY <2>2, <2>3
  <1>16. ChargedOnce'
    <2> SUFFICES ASSUME NEW t \in Sessions PROVE charged[t] <= 1 + misled'[t]
      BY <1>1 DEF ChargedOnce
    <2>1. charged[t] \in Nat /\ misled[t] \in Nat /\ misled'[t] \in Nat /\ misled[t] <= misled'[t]
          /\ charged[t] <= 1 + misled[t]
      BY <1>2, <1>6 DEF BridgeInv, ChargedOnce
    <2>2. QED
      BY <2>1
  <1>17. Silenced'
    BY <1>1, <1>3, <1>4, <1>7, <1>8 DEF BridgeInv, Silenced, linkVars
  <1>18. QED
    BY <1>9, <1>10, <1>11, <1>12, <1>13, <1>14, <1>15, <1>16, <1>17 DEF BridgeInv

(* Entries are forgotten when their lifetime ends and when the grant is    *)
(* invalidated: in both cases no use can be taken any more.                *)
LEMMA ForgetStep ==
  ASSUME BridgeInv, NEW s \in Sessions, Forget(s)
  PROVE  BridgeInv'
  <1>1. /\ expired /\ forget' = forget \ {s} /\ entry' = [entry EXCEPT ![s] = 0]
        /\ UNCHANGED <<linkVars, expired, sockVars, posts, charged, misled, revoking, invalidated>>
    BY DEF Forget
  <1>2. entry \in [Sessions -> 0..Len(posts)] /\ posts \in Seq(Post) /\ Len(posts) \in Nat
    BY LenProperties DEF BridgeInv, BridgeTypeOK
  <1>3. entry' \in [Sessions -> 0..Len(posts)] /\ \A t \in Sessions : entry'[t] # 0 => entry'[t] = entry[t]
    BY <1>1, <1>2
  <1>4. BridgeTypeOK'
    BY <1>1, <1>3 DEF BridgeInv, BridgeTypeOK, LinkTypeOK, linkVars, sockVars
  <1>5. SameSession' /\ NoHandlerForgotten'
    BY <1>1, <1>3 DEF BridgeInv, SameSession, NoHandlerForgotten, sockVars
  <1>6. UseBehind' /\ RecognisedCharged' /\ UsesPaid' /\ ChargedOnce'
    BY <1>1 DEF BridgeInv, UseBehind, RecognisedCharged, Openings, UsesPaid, ChargedOnce, sockVars
  <1>7. OneKept'
    BY <1>1 DEF OneKept
  <1>8. Silenced'
    BY <1>1, <1>3 DEF BridgeInv, Silenced, linkVars, sockVars
  <1>9. QED
    BY <1>4, <1>5, <1>6, <1>7, <1>8 DEF BridgeInv

(* invalidateGuestGrant closes every bridge and forgets every promise. *)
LEMMA InvalidateStep ==
  ASSUME BridgeInv, Invalidate
  PROVE  BridgeInv'
  <1>1. /\ revoking = "revoked" /\ revoking' = "idle" /\ invalidated' = TRUE
        /\ entry' = [s \in Sessions |-> 0] /\ Cleanup(Open, "grant-revoked")
        /\ UNCHANGED <<linkVars, expired, received, validated, consumed, written, posts, forget,
                       charged, misled>>
    BY DEF Invalidate
  <1>2. status \in {"revoked", "dropped"}
    BY <1>1 DEF BridgeInv, Silenced
  <1>3. "grant-revoked" \in Causes
    BY DEF Causes
  <1>4. \A w \in Sockets : waiting'[w] = {} /\ phase'[w] # "open" /\ phase'[w] \in {phase[w], "closed"}
    BY <1>1, <1>3, CleanupFacts DEF BridgeInv, BridgeTypeOK, Open
  <1>5. entry' \in [Sessions -> 0..Len(posts)] /\ \A s \in Sessions : entry'[s] = 0
    <2>1. Len(posts) \in Nat
      BY LenProperties DEF BridgeInv, BridgeTypeOK
    <2>2. QED
      BY <1>1, <2>1
  <1>6. BridgeTypeOK'
    BY <1>1, <1>3, <1>4, <1>5, CleanupFacts DEF BridgeInv, BridgeTypeOK, LinkTypeOK, linkVars
  <1>7. SameSession' /\ NoHandlerForgotten'
    BY <1>4, <1>5 DEF SameSession, NoHandlerForgotten
  <1>8. UseBehind' /\ RecognisedCharged' /\ UsesPaid' /\ ChargedOnce'
    BY <1>1 DEF BridgeInv, UseBehind, RecognisedCharged, Openings, UsesPaid, ChargedOnce
  <1>9. OneKept'
    BY <1>1, <1>2 DEF OneKept, linkVars
  <1>10. Silenced'
    BY <1>1, <1>2, <1>4, <1>5 DEF BridgeInv, Silenced, linkVars
  <1>11. QED
    BY <1>6, <1>7, <1>8, <1>9, <1>10 DEF BridgeInv

-----------------------------------------------------------------------------
(* No bridge is open and no promise made at the start. *)
LEMMA BridgeInit == Init => BridgeInv
  <1> SUFFICES ASSUME Init PROVE BridgeInv
    OBVIOUS
  <1>1. posts \in Seq(Post) /\ DOMAIN posts = {} /\ Len(posts) = 0
    BY DEF Init
  <1>2. MaxMsgs \in [Sockets -> Nat]
    BY BridgeAssumption
  <1>3. BridgeTypeOK
    <2>1. LinkTypeOK /\ expired \in BOOLEAN /\ invalidated \in BOOLEAN
      BY DEF Init, LinkInit, LinkTypeOK, Statuses
    <2>2. /\ waiting \in [Sockets -> SUBSET (Nat \X DOMAIN posts)]
          /\ written \in [Sockets -> SUBSET (Nat \X Written)]
      BY DEF Init
    <2>3. /\ timer \in [Sockets -> BOOLEAN] /\ validated \in [Sockets -> BOOLEAN]
          /\ consumed \in [Sockets -> BOOLEAN]
      BY DEF Init
    <2>4. entry \in [Sessions -> 0..Len(posts)]
      BY <1>1 DEF Init
    <2>5. QED
      BY <1>1, <1>2, <2>1, <2>2, <2>3, <2>4 DEF Init, BridgeTypeOK, Causes
  <1>4. SameSession /\ NoHandlerForgotten /\ UseBehind /\ RecognisedCharged /\ OneKept
    BY <1>1 DEF Init, SameSession, NoHandlerForgotten, UseBehind, RecognisedCharged, Openings, OneKept
  <1>5. UsesPaid /\ ChargedOnce /\ Silenced
    BY <1>1 DEF Init, UsesPaid, ChargedOnce, Silenced
  <1>6. QED
    BY <1>3, <1>4, <1>5 DEF BridgeInv

(* One case per callback of wsRelay.js and per step of the server. *)
LEMMA BridgeStep == BridgeInv /\ [Next]_vars => BridgeInv'
  <1> SUFFICES ASSUME BridgeInv, [Next]_vars PROVE BridgeInv'
    OBVIOUS
  <1>1. CASE UNCHANGED vars
    <2>1. BridgeTypeOK'
      BY <1>1 DEF vars, linkVars, sockVars, useVars, BridgeInv, BridgeTypeOK, LinkTypeOK
    <2>2. revoking' = "revoked" \/ invalidated' => status' \in {"revoked", "dropped"}
      BY <1>1 DEF BridgeInv, Silenced, vars, linkVars
    <2>3. QED
      BY <1>1, <2>1, <2>2, UsesUntouched DEF vars, linkVars, sockVars, useVars
  <1>2. CASE Create \/ Expire \/ AskRevoke \/ RevokeHere \/ RevokeElsewhere \/ RevokeFails
    BY <1>2, LinkSteps
  <1>3. CASE \E w \in Sockets : Upgrade(w) \/ Decide(w) \/ Upgraded(w) \/ TimerFires(w)
    BY <1>3, CheckSteps
  <1>4. CASE \E w \in Sockets : Revalidated(w) \/ Hangup(w)
    BY <1>4, ClosingSteps
  <1>5. CASE \E w \in Sockets, kind \in Kinds : Message(w, kind)
    BY <1>5, MessageStep
  <1>6. CASE \E k \in DOMAIN posts : Charge(k) \/ Resolve(k) \/ Reject(k)
    BY <1>6, ChargeStep, ResolveStep, RejectStep
  <1>7. CASE (\E s \in Sessions : Forget(s)) \/ Invalidate
    BY <1>7, ForgetStep, InvalidateStep
  <1>8. QED
    BY <1>1, <1>2, <1>3, <1>4, <1>5, <1>6, <1>7 DEF Next, Server, Panel, Environment

(* The inductive invariant holds always. *)
LEMMA BridgeInvariant == Spec => []BridgeInv
  BY BridgeInit, BridgeStep, PTL DEF Spec

(* Every variable keeps its type; timers and waiting handlers belong to    *)
(* open bridges (cleanup clears them).                                     *)
THEOREM BridgeTypeCorrect == Spec => []BridgeTypeOK
  <1>1. BridgeInv => BridgeTypeOK
    BY DEF BridgeInv
  <1>2. QED
    BY <1>1, BridgeInvariant, PTL

-----------------------------------------------------------------------------
(***************************************************************************)
(* What passes unseen on a relay bridge.                                   *)
(***************************************************************************)

(* guestRelayValidated is set by a handler that goes on to await the use,  *)
(* never before the bridge is open.                                        *)
Backed ==
  /\ UninspectedBacked
  /\ \A w \in Sockets : phase[w] \in {"new", "upgrading"} => ~validated[w]

(* A step that leaves the flags alone and drops no handler of an open      *)
(* bridge keeps the backing.                                               *)
LEMMA BackingUntouched ==
  ASSUME Backed, UNCHANGED <<validated, consumed, written>>,
         \A w \in Sockets : phase'[w] \in {"new", "upgrading"} => phase[w] \in {"new", "upgrading"},
         \A w \in Sockets : phase'[w] = "open" =>
           phase[w] \in {"upgrading", "open"} /\ (waiting[w] # {} => waiting'[w] # {})
  PROVE  Backed'
  BY DEF Backed, UninspectedBacked, Uninspected

(* The message handler: the frame that sets guestRelayValidated asks for   *)
(* the use in the same step, and only later ones pass unseen.              *)
LEMMA BackingMessage ==
  ASSUME BridgeInv, Backed, NEW w \in Sockets, NEW kind \in Kinds, Message(w, kind)
  PROVE  Backed'
  <1>1. /\ phase[w] = "open"
        /\ validated \in [Sockets -> BOOLEAN] /\ consumed \in [Sockets -> BOOLEAN]
        /\ written \in [Sockets -> SUBSET (Nat \X Written)]
        /\ waiting = [v \in Sockets |-> waiting[v]]
    BY DEF Message, BridgeInv, BridgeTypeOK
  <1>2. CASE Refused(w)
    <2>1. /\ Cleanup({w}, "target-mismatch") /\ "target-mismatch" \in Causes
          /\ UNCHANGED <<validated, consumed, written>>
      BY <1>2 DEF Refused, Causes
    <2>2. \A v \in Sockets : /\ phase'[v] = IF v = w THEN "closed" ELSE phase[v]
                             /\ waiting'[v] = IF v = w THEN {} ELSE waiting[v]
      BY <2>1 DEF Cleanup
    <2>3. QED
      BY <1>1, <2>1, <2>2, BackingUntouched
  <1>3. CASE \E as \in Written : /\ WriteNow(w, as)
                                 /\ as = "uninspected" => w \in OnRelay /\ validated[w]
    <2>1. PICK as \in Written : /\ WriteNow(w, as)
                                /\ as = "uninspected" => w \in OnRelay /\ validated[w]
      BY <1>3
    <2>2. /\ UNCHANGED <<phase, validated, consumed, waiting>>
          /\ written' = [written EXCEPT ![w] = @ \cup {<<received[w] + 1, as>>}]
      BY <2>1 DEF WriteNow
    <2>3. ASSUME NEW v \in Sockets, Uninspected(v)' # {} PROVE v \in OnRelay /\ validated[v]
      <3>1. CASE v = w /\ as = "uninspected"
        BY <2>1, <3>1
      <3>2. CASE ~(v = w /\ as = "uninspected")
        <4> DEFINE y == <<received[w] + 1, as>>
        <4>1. y[2] = as
          OBVIOUS
        <4>2. written'[v] = written[v] \/ (v = w /\ written'[v] = written[v] \cup {y})
          BY <1>1, <2>2
        <4> HIDE DEF y
        <4>3. Uninspected(v)' \subseteq Uninspected(v)
          BY <3>2, <4>1, <4>2 DEF Uninspected
        <4>4. QED
          BY <2>3, <4>3 DEF Backed, UninspectedBacked
      <3>3. QED
        BY <3>1, <3>2
    <2>4. QED
      BY <2>2, <2>3 DEF Backed, UninspectedBacked
  <1>4. CASE UNCHANGED <<phase, validated, consumed, waiting, written>>
    BY <1>4, BackingUntouched
  <1>5. CASE /\ WriteLater(w)
             /\ \/ UNCHANGED validated
                \/ w \in OnRelay /\ validated' = [validated EXCEPT ![w] = TRUE]
    <2>1. UNCHANGED phase /\ Consume(w, received[w] + 1)
      BY <1>5 DEF WriteLater
    <2>2. /\ \A v \in Sockets : /\ consumed[v] => consumed'[v]
                                /\ waiting[v] \subseteq waiting'[v]
          /\ consumed'[w] \/ waiting'[w] # {}
      BY <1>1, <2>1, ZenonT(30) DEF Consume
    <2>3. \A v \in Sockets : Uninspected(v)' = Uninspected(v)
      <3>1. \/ UNCHANGED written
            \/ written' = [written EXCEPT ![w] = @ \cup {<<received[w] + 1, "opening">>}]
        BY <2>1 DEF Consume
      <3>2. QED
        BY <1>1, <3>1 DEF Uninspected
    <2>4. \A v \in Sockets : /\ validated[v] => validated'[v]
                             /\ validated'[v] => validated[v] \/ v = w
      BY <1>1, <1>5
    <2>5. QED
      BY <1>1, <2>1, <2>2, <2>3, <2>4 DEF Backed, UninspectedBacked
  <1>6. QED
    BY <1>2, <1>3, <1>4, <1>5 DEF Message, RelayMessage, RendezvousMessage, Written

(* A use that arrives is noted by every handler that waited for it. *)
LEMMA BackingResolve ==
  ASSUME BridgeInv, Backed, NEW k \in DOMAIN posts, Resolve(k)
  PROVE  Backed'
  <1>1. /\ consumed' = [w \in Sockets |-> consumed[w] \/ WaitsOn(w, k)]
        /\ written' = [w \in Sockets |-> written[w] \cup Resumed(w, k)]
        /\ waiting' = [w \in Sockets |-> {x \in waiting[w] : x[2] # k}]
        /\ UNCHANGED <<phase, validated>>
    BY DEF Resolve
  <1>2. ASSUME NEW w \in Sockets PROVE Uninspected(w)' = Uninspected(w)
    BY <1>1 DEF Uninspected, Resumed
  <1>3. ASSUME NEW w \in Sockets, consumed[w] \/ waiting[w] # {}
        PROVE  consumed'[w] \/ waiting'[w] # {}
    BY <1>1, <1>3 DEF WaitsOn
  <1>4. QED
    BY <1>1, <1>2, <1>3 DEF Backed, UninspectedBacked

(* Every other callback closes the bridges whose handlers it drops. *)
LEMMA BackingStep == BridgeInv /\ Backed /\ [Next]_vars => Backed'
  <1> SUFFICES ASSUME BridgeInv, Backed, [Next]_vars PROVE Backed'
    OBVIOUS
  <1>1. CASE \E w \in Sockets, kind \in Kinds : Message(w, kind)
    BY <1>1, BackingMessage
  <1>2. CASE \E k \in DOMAIN posts : Resolve(k)
    BY <1>2, BackingResolve
  <1>3. CASE \E ws \in SUBSET Sockets, why \in Causes :
               Cleanup(ws, why) /\ UNCHANGED <<validated, consumed, written>>
    <2>1. PICK ws \in SUBSET Sockets, why \in Causes :
                 Cleanup(ws, why) /\ UNCHANGED <<validated, consumed, written>>
      BY <1>3
    <2>2. \A v \in Sockets : /\ phase'[v] = IF v \in ws THEN "closed" ELSE phase[v]
                             /\ waiting'[v] = IF v \in ws THEN {} ELSE waiting[v]
      BY <2>1 DEF Cleanup
    <2>3. QED
      BY <2>1, <2>2, BackingUntouched
  <1>4. CASE \E w \in Sockets : Upgrade(w) \/ Upgraded(w)
    <2>1. PICK w \in Sockets : Upgrade(w) \/ Upgraded(w)
      BY <1>4
    <2>2. /\ UNCHANGED <<validated, consumed, written, waiting>>
          /\ phase[w] \in {"new", "upgrading"}
          /\ \E q \in {"upgrading", "open", "refused"} :
               /\ phase' = [phase EXCEPT ![w] = q]
               /\ q = "open" => phase[w] = "upgrading"
      BY <2>1 DEF Upgrade, Upgraded
    <2>3. phase \in [Sockets -> {"new", "upgrading", "open", "closed", "refused"}]
      BY DEF BridgeInv, BridgeTypeOK
    <2>4. QED
      BY <2>2, <2>3, BackingUntouched
  <1>5. CASE UNCHANGED <<phase, validated, consumed, waiting, written>>
    BY <1>5, BackingUntouched
  <1>6. QED
    <2>1. CASE \E w \in Sockets : Revalidated(w) \/ Hangup(w)
      <3>1. PICK w \in Sockets : Revalidated(w) \/ Hangup(w)
        BY <2>1
      <3>2. \/ \E why \in Causes : Cleanup({w}, why) /\ UNCHANGED <<validated, consumed, written>>
            \/ UNCHANGED <<phase, validated, consumed, waiting, written>>
        BY <3>1 DEF Revalidated, Hangup, Causes
      <3>3. QED
        BY <1>3, <1>5, <3>2
    <2>2. CASE \E k \in DOMAIN posts : Reject(k)
      <3>1. PICK k \in DOMAIN posts : Reject(k)
        BY <2>2
      <3>2. Cleanup({w \in Sockets : WaitsOn(w, k)}, "use-rejected")
            /\ UNCHANGED <<validated, consumed, written>>
        BY <3>1 DEF Reject
      <3>3. QED
        BY <1>3, <3>2 DEF Causes
    <2>3. CASE Invalidate
      BY <1>3, <2>3 DEF Invalidate, Open, Causes
    <2>4. QED
      BY <1>1, <1>2, <1>4, <1>5, <2>1, <2>2, <2>3
         DEF Next, Server, Panel, Environment, Create, Expire, AskRevoke, RevokeHere,
             RevokeElsewhere, RevokeFails, Decide, TimerFires, Charge, Forget, vars, sockVars

(* The backing holds always. *)
LEMMA BackingInvariant == Spec => []Backed
  <1>1. Init => Backed
    BY DEF Init, Backed, UninspectedBacked, Uninspected
  <1>2. QED
    BY <1>1, BridgeInvariant, BackingStep, PTL DEF Spec

(* No message recognised as an opening is written before the server has    *)
(* taken a use for its guest session (the await of consumeGuestSession);   *)
(* what passes unseen does so on a relay bridge that has its use or still  *)
(* waits for it, because guestRelayValidated is set before that await.     *)
THEOREM OpeningIsCharged == Spec => []OpeningCharged
  <1>1. BridgeInv /\ Backed => OpeningCharged
    BY DEF BridgeInv, Backed, OpeningCharged
  <1>2. QED
    BY <1>1, BridgeInvariant, BackingInvariant, PTL

(* A guest session costs one use, plus one for every use whose reply the   *)
(* panel did not get: guestSessionStates keeps one promise for all its     *)
(* sockets and messages.                                                   *)
THEOREM SessionChargedOnce == Spec => []ChargedOnce
  <1>1. BridgeInv => ChargedOnce
    BY DEF BridgeInv
  <1>2. QED
    BY <1>1, BridgeInvariant, PTL

(* No handler awaits a promise that nobody will settle, and no entry of    *)
(* guestSessionStates holds one that was rejected.                         *)
THEOREM HandlersSettled == Spec => []NoHandlerForgotten
  <1>1. BridgeInv => NoHandlerForgotten
    BY DEF BridgeInv
  <1>2. QED
    BY <1>1, BridgeInvariant, PTL

(* After invalidateGuestGrant no message recognised as an opening is       *)
(* written, on any bridge and whatever was under way; a frame that passes  *)
(* unseen does so while a use is awaited, which the server will deny.      *)
THEOREM NothingOpenedAfterInvalidation == Spec => SilentAfterInvalidation
  <1>1. ASSUME BridgeInv, Backed, [Next]_vars, invalidated, NEW w \in Sockets
        PROVE  /\ Openings(w)' = Openings(w)
               /\ Uninspected(w)' # Uninspected(w) => ~consumed[w] /\ waiting[w] # {}
    <2>1. /\ \A v \in Sockets : phase[v] = "open" => ~consumed[v]
          /\ \A x \in waiting[w] : posts[x[2]].state \notin Paid
          /\ \A s \in Sessions : entry[s] # 0 => posts[entry[s]].state \notin Paid
          /\ written \in [Sockets -> SUBSET (Nat \X Written)]
          /\ \A v \in Sockets : SessionOf[v] \in Sessions
      BY <1>1, BridgeAssumption DEF BridgeInv, BridgeTypeOK, Silenced
    <2>2. CASE UNCHANGED written
      BY <2>2 DEF Openings, Uninspected
    <2>3. CASE \E v \in Sockets, kind \in Kinds : Message(v, kind)
      <3>1. PICK v \in Sockets, kind \in Kinds : Message(v, kind)
        BY <2>3
      <3>2. phase[v] = "open" /\ ~consumed[v]
        BY <2>1, <3>1 DEF Message
      <3>3. ~(entry[SessionOf[v]] # 0 /\ posts[entry[SessionOf[v]]].state = "done")
        BY <2>1 DEF Paid
      <3>4. \/ UNCHANGED written
            \/ \E as \in {"plain", "uninspected"} :
                 /\ written' = [written EXCEPT ![v] = @ \cup {<<received[v] + 1, as>>}]
                 /\ as = "uninspected" => validated[v]
        BY <3>1, <3>2, <3>3
           DEF Message, RelayMessage, RendezvousMessage, WriteNow, WriteLater, Refused, Consume
      <3>5. CASE \E as \in {"plain", "uninspected"} :
                   /\ written' = [written EXCEPT ![v] = @ \cup {<<received[v] + 1, as>>}]
                   /\ as = "uninspected" => validated[v]
        <4>1. PICK as \in {"plain", "uninspected"} :
                     /\ written' = [written EXCEPT ![v] = @ \cup {<<received[v] + 1, as>>}]
                     /\ as = "uninspected" => validated[v]
          BY <3>5
        <4> DEFINE y == <<received[v] + 1, as>>
        <4>2. y[2] = as /\ as # "opening"
          BY <4>1
        <4>3. written'[w] = written[w] \/ (v = w /\ written'[w] = written[w] \cup {y})
          BY <2>1, <4>1
        <4> HIDE DEF y
        <4>4. Openings(w)' = Openings(w)
          BY <4>2, <4>3 DEF Openings
        <4>5. Uninspected(w)' # Uninspected(w) => v = w /\ as = "uninspected"
          BY <4>2, <4>3 DEF Uninspected
        <4>6. QED
          BY <1>1, <3>2, <4>1, <4>4, <4>5 DEF Backed, UninspectedBacked
      <3>6. QED
        BY <2>2, <3>4, <3>5
    <2>4. CASE \E k \in DOMAIN posts : Resolve(k)
      <3>1. PICK k \in DOMAIN posts : Resolve(k)
        BY <2>4
      <3>2. posts[k].state \in Paid /\ written' = [v \in Sockets |-> written[v] \cup Resumed(v, k)]
        BY <3>1 DEF Resolve, Paid
      <3>3. Resumed(w, k) = {}
        BY <2>1, <3>2 DEF Resumed
      <3>4. QED
        BY <3>2, <3>3 DEF Openings, Uninspected
    <2>5. UNCHANGED written \/ (\E v \in Sockets, kind \in Kinds : Message(v, kind))
          \/ \E k \in DOMAIN posts : Resolve(k)
      BY <1>1 DEF Next, Server, Panel, Environment, Create, Expire, AskRevoke, RevokeHere,
                  RevokeElsewhere, RevokeFails, Upgrade, Decide, Upgraded, TimerFires, Revalidated,
                  Hangup, Charge, Reject, Forget, Invalidate, vars, sockVars
    <2>6. QED
      BY <2>2, <2>3, <2>4, <2>5
  <1>2. BridgeInv /\ Backed /\ [Next]_vars =>
          [invalidated => \A w \in Sockets :
             /\ Openings(w)' = Openings(w)
             /\ Uninspected(w)' # Uninspected(w) => ~consumed[w] /\ waiting[w] # {}]_vars
    BY <1>1
  <1>3. QED
    BY <1>2, BridgeInvariant, BackingInvariant, PTL DEF Spec, SilentAfterInvalidation

-----------------------------------------------------------------------------
(***************************************************************************)
(* The link behind the bridges: what the panel can have of it.             *)
(***************************************************************************)

(* The server's side of every callback is a step of the link, or none. *)
LEMMA ServerSteps == [Next]_vars => [LinkNext]_linkVars
  <1> SUFFICES ASSUME [Next]_vars PROVE LinkNext \/ UNCHANGED linkVars
    OBVIOUS
  <1>1. CASE Create \/ RevokeHere \/ RevokeElsewhere
    BY <1>1 DEF Create, RevokeHere, RevokeElsewhere, LinkNext
  <1>2. CASE \E w \in Sockets : Decide(w)
    BY <1>2 DEF Decide, LinkNext
  <1>3. CASE \E k \in DOMAIN posts : Charge(k)
    BY <1>3 DEF Charge, LinkNext
  <1>4. CASE UNCHANGED linkVars
    BY <1>4
  <1>5. QED
    BY <1>1, <1>2, <1>3, <1>4
       DEF Next, Server, Panel, Environment, Expire, AskRevoke, RevokeFails, Upgrade, Upgraded,
           TimerFires, Revalidated, Hangup, Message, Resolve, Reject, Forget, Invalidate, vars

(* The bridges of the panel use the link only as GuestLink allows: with    *)
(* StoreImplementsLink, what the panel relies on is what the store of the  *)
(* server provides.                                                        *)
THEOREM BridgeUsesLink == Spec => LinkSpec
  <1>1. Init => LinkInit
    BY DEF Init
  <1>2. QED
    BY <1>1, ServerSteps, PTL DEF Spec, LinkSpec

(* The guest sessions a use was taken for, and those the panel admits: one *)
(* of their bridges has its use, has written a message it recognised as an *)
(* opening, or lets frames pass unseen with no use left to wait for.       *)
ChargedSessions == {s \in Sessions : charged[s] > 0}
Admits(w) ==
  \/ consumed[w]
  \/ Openings(w) # {}
  \/ phase[w] = "open" /\ validated[w] /\ waiting[w] = {}
AdmittedSessions == {SessionOf[w] : w \in {v \in Sockets : Admits(v)}}

(* No more guest sessions are admitted by the panel than the link allows,  *)
(* however many sockets and messages they have and however many calls of   *)
(* the panel overtake each other.  A relay bridge whose use is undecided   *)
(* is not counted: what it lets pass by then is not looked at.             *)
SessionsWithinLimit ==
  MaxUses > 0 => IsFiniteSet(AdmittedSessions) /\ Cardinality(AdmittedSessions) <= MaxUses

(* Every session that was charged has a use of its own. *)
UsesCoverSessions ==
  /\ IsFiniteSet(ChargedSessions)
  /\ Cardinality(ChargedSessions) <= uses
  /\ MaxUses > 0 => uses <= MaxUses

(* Only the server's decision about a use charges a session. *)
LEMMA ChargingSteps ==
  ASSUME BridgeInv, [Next]_vars
  PROVE  \/ UNCHANGED <<charged, uses>>
         \/ \E k \in DOMAIN posts :
              /\ BelowLimit(uses) /\ uses' = uses + 1
              /\ charged' = [charged EXCEPT ![posts[k].session] = @ + 1]
  <1>1. CASE \E k \in DOMAIN posts : Charge(k)
    <2>1. PICK k \in DOMAIN posts : Charge(k)
      BY <1>1
    <2>2. CASE status = "live" /\ ~expired /\ BelowLimit(uses)
      BY <2>1, <2>2 DEF Charge, LinkUse
    <2>3. CASE ~(status = "live" /\ ~expired /\ BelowLimit(uses))
      <3>1. UNCHANGED uses /\ charged' = [charged EXCEPT ![posts[k].session] = @]
        BY <2>1, <2>3 DEF Charge, linkVars
      <3>2. charged \in [Sessions -> Nat]
        BY DEF BridgeInv, BridgeTypeOK
      <3>3. QED
        BY <3>1, <3>2
    <2>4. QED
      BY <2>2, <2>3
  <1>2. CASE \E w \in Sockets : Decide(w)
    BY <1>2 DEF Decide, LinkDrop, linkVars, useVars
  <1>3. CASE UNCHANGED <<charged, uses>>
    BY <1>3
  <1>4. QED
    BY <1>1, <1>2, <1>3
       DEF Next, Server, Panel, Environment, Create, LinkCreate, RevokeHere, RevokeElsewhere,
           LinkRevoke, Expire, AskRevoke, RevokeFails, Upgrade, Upgraded, TimerFires, Revalidated,
           Hangup, Message, Resolve, Reject, Forget, Invalidate, vars, linkVars, useVars

(* A charge adds at most one session and exactly one use. *)
LEMMA UsesCoverStep ==
  BridgeInv /\ UsesCoverSessions /\ [Next]_vars => UsesCoverSessions'
  <1> SUFFICES ASSUME BridgeInv, UsesCoverSessions, [Next]_vars PROVE UsesCoverSessions'
    OBVIOUS
  <1>1. CASE UNCHANGED <<charged, uses>>
    BY <1>1 DEF UsesCoverSessions, ChargedSessions
  <1>2. CASE \E k \in DOMAIN posts :
               /\ BelowLimit(uses) /\ uses' = uses + 1
               /\ charged' = [charged EXCEPT ![posts[k].session] = @ + 1]
    <2>1. PICK k \in DOMAIN posts :
                 /\ BelowLimit(uses) /\ uses' = uses + 1
                 /\ charged' = [charged EXCEPT ![posts[k].session] = @ + 1]
      BY <1>2
    <2> DEFINE s == posts[k].session
    <2>2. charged \in [Sessions -> Nat] /\ uses \in Nat /\ s \in Sessions /\ posts \in Seq(Post)
      BY PostFacts DEF BridgeInv, BridgeTypeOK, LinkTypeOK
    <2> HIDE DEF s
    <2>3. charged' = [charged EXCEPT ![s] = @ + 1]
      BY <2>1 DEF s
    <2>4. ChargedSessions' = ChargedSessions \cup {s}
      BY <2>2, <2>3 DEF ChargedSessions
    <2>5. /\ IsFiniteSet(ChargedSessions) /\ Cardinality(ChargedSessions) <= uses
          /\ MaxUses > 0 => uses <= MaxUses
      BY DEF UsesCoverSessions
    <2>6. Cardinality(ChargedSessions) \in Nat
      BY <2>5, FS_CardinalityType
    <2>7. /\ IsFiniteSet(ChargedSessions \cup {s})
          /\ \/ Cardinality(ChargedSessions \cup {s}) = Cardinality(ChargedSessions)
             \/ Cardinality(ChargedSessions \cup {s}) = Cardinality(ChargedSessions) + 1
      BY <2>5, FS_AddElement
    <2>8. Cardinality(ChargedSessions \cup {s}) <= uses + 1
      BY <2>2, <2>5, <2>6, <2>7
    <2>9. MaxUses > 0 => uses + 1 <= MaxUses
      BY <2>1, <2>2, MaxUsesAssumption DEF BelowLimit
    <2>10. QED
      BY <2>1, <2>4, <2>7, <2>8, <2>9 DEF UsesCoverSessions
  <1>3. QED
    BY <1>1, <1>2, ChargingSteps

(* max_uses limits the guest sessions of the panel, although one session   *)
(* has two sockets and many messages that all ask for a use.               *)
THEOREM SessionLimit == Spec => []SessionsWithinLimit
  <1>1. Init => UsesCoverSessions
    <2> SUFFICES ASSUME Init PROVE UsesCoverSessions
      OBVIOUS
    <2>1. ChargedSessions = {} /\ uses = 0
      BY DEF Init, LinkInit, ChargedSessions
    <2>2. QED
      BY <2>1, FS_EmptySet, MaxUsesAssumption DEF UsesCoverSessions
  <1>2. Spec => []UsesCoverSessions
    BY <1>1, BridgeInvariant, UsesCoverStep, PTL DEF Spec
  <1>3. BridgeInv /\ Backed /\ UsesCoverSessions => SessionsWithinLimit
    <2> SUFFICES ASSUME BridgeInv, Backed, UsesCoverSessions, MaxUses > 0
                 PROVE  IsFiniteSet(AdmittedSessions) /\ Cardinality(AdmittedSessions) <= MaxUses
      BY DEF SessionsWithinLimit
    <2>1. AdmittedSessions \subseteq ChargedSessions
      <3>1. ASSUME NEW w \in Sockets, Admits(w) PROVE charged[SessionOf[w]] > 0
        BY <3>1 DEF Admits, BridgeInv, Backed, UninspectedBacked, RecognisedCharged, UseBehind
      <3>2. QED
        BY <3>1, BridgeAssumption DEF AdmittedSessions, ChargedSessions
    <2>2. /\ IsFiniteSet(AdmittedSessions) /\ IsFiniteSet(ChargedSessions)
          /\ Cardinality(AdmittedSessions) <= Cardinality(ChargedSessions)
      BY <2>1, FS_Subset DEF UsesCoverSessions
    <2>3. /\ Cardinality(AdmittedSessions) \in Nat /\ Cardinality(ChargedSessions) \in Nat
          /\ uses \in Nat
      BY <2>2, FS_CardinalityType DEF BridgeInv, BridgeTypeOK, LinkTypeOK
    <2>4. QED
      BY <2>2, <2>3, MaxUsesAssumption DEF UsesCoverSessions
  <1>4. QED
    BY <1>2, <1>3, BridgeInvariant, BackingInvariant, PTL

=============================================================================
