# BetterDesk in TLA+

TLA+ models of the parts of BetterDesk in which several goroutines, event-loop
callbacks or processes share state, the TLC configurations that check them on
small instances, and TLAPS proofs of the most important results for every value
of the constants. Paths below are relative to the repository, which the project
calls `src/`.

* Modules, from the code outwards: `RelayAuthorization` → `RelayServer`;
  `GuestLink` ← `GuestGrant` (implements it), `GuestLink` → `GuestBridge` (uses it). `RestartCoordinator`,
  `BdRelay`, `Billing` and `PunchExchange` stand alone.
* Proofs: `RelayAuthorizationProofs`, `RelayServerProofs`, `GuestGrantProofs`,
  `GuestBridgeProofs`, `RestartCoordinatorProofs`, `BdRelayProofs`,
  `PunchExchangeProofs`, `BillingProofs`; each EXTENDS the module it is about.
* Model-checking instances: `MC*.tla` and their `.cfg` files.
* `PROJECT.json`: components, runs, mutants, the map from definitions to source
  lines, hazards, findings and theorems.

To check: `tlc -config MCRelayServerSlow.cfg MCRelayServer`, and
`tlapm GuestGrantProofs.tla`.

---

## 1. The system and its parts

BetterDesk is a self-hosted remote-desktop server compatible with RustDesk
clients: a Go server (`betterdesk-server/`) and a Node.js operator panel
(`web-nodejs/`).

| Part | State | Operations | Interacts with | What is hard |
|---|---|---|---|---|
| **Relay authorization** `relay/authorization.go` | tickets, tombstones and wait channels by UUID, under one mutex | Authorize, WaitForAuthorization, Claim, Release, RevokeForPeer, prune | signal issues, ban revokes, relay claims | shared wake-up channel; expiry racing claims; replay |
| **Relay server** `relay/server.go`, `ws.go`, `mixed.go`, `ratelimit/connlimiter.go` | pending map (sync.Map), limiters, counters, sockets | accept, claim with wait, park, pair, time out, sweep, copy, stop | registry, billing callbacks, clients | a sequence of sync.Map operations is not atomic; three goroutines can hold one parked connection |
| **Guest link store** `guestaccess/grants.go`, `api/guest_handlers.go` | one JSON row per grant in `server_config` | Create, Validate, Consume, Touch, RevokeByID | database, panel | read–modify–write by concurrent requests; lost replies |
| **Guest bridge** `services/wsRelay.js`, `routes/guest.routes.js` | open bridges, a promise per guest session, timers | upgrade, validate, revalidate, message, consume, revoke, clean up | guest link store over HTTP, signal and relay over TCP | state read before an `await` and used after it; revocation racing an upgrade; failing API |
| **Signal** `signal/*.go`, of which the deferred answers are modelled | pending relays in three maps, punch fallbacks, LAN exchanges, TCP/WS punch connections | register, punch, request relay, LAN exchange, heartbeat clean-up | peer map, relay authorization | three maps updated one after the other; timers that delete by key |
| **Peer map** `peer/map.go` | entries by id under one mutex | put, heartbeat, rename, expire | signal, API | entries used after the lock is released |
| **MeshCentral relay** `meshcentral/relay_hub.go`, `relay_ws.go`, `registry.go` | hubs by relay id; agent and viewers of a hub | attach, detach, idle clean-up, finish | agents, browsers | idle timer removes a hub by key; finish runs once |
| **Restart coordinator** `services/restartCoordinator.js`, `routes/settings.routes.js` | a transaction in a file; the settings; the settings the server runs with | register change, cancel, confirm, status, complete, dismiss | service manager, browser | every handler writes back the copy it read before its awaits; the file outlives the process that writes it; rollbacks fail one by one |
| **Native device relay of the panel** `services/bdRelay.js` | sessions, sockets, online devices, a count per address | create, join, accept, reject, time out, clean up | devices, browsers | five ways to tear a session down; error and close of one socket; a replaced socket closes late |
| **Rate limiters** `ratelimit/ip_limiter.go`, `bandwidth.go` | sliding windows, token buckets | allow, clean up, wrap | signal, relay | arithmetic only |
| **Event bus, audit, block list** `events`, `audit`, `security` | locked maps and ring buffers | publish, log, block | everything | full buffers drop by design |
| **Session grants, auth, crypto, codec, policy, config** | keys, tokens, settings | sign, verify, parse | everything | not concurrent |
| **CDAP** `cdap/` | device sessions and media channels | connect, command, stream | devices, panel | many message kinds |
| **Billing** `billing/` | contract, month totals, session rows and reports in the database; pending and active sessions in memory | prepare, activate, tick, end, report, edit contract | relay callbacks, HTTP API | reads and writes without a transaction; a session that outlasts a month; a ticker that works on copies |
| **Database, HTTP API** `db/`, `api/` | SQLite / PostgreSQL | one statement each | everything | SQL |
| **Panel** `server.js`, `services/`, `routes/`, `middleware/` | sessions and accounts in the database; WebSocket hubs; update, backup and build jobs | HTTP and WebSocket handlers | Go API | I/O, child processes |
| **Bridges, SDKs, gateway** `bridges/`, `sdks/`, `remote-gateway/` | stand-alone clients | | HTTP API | |

The parts in which concurrency decides correctness and that are self-contained
enough to be modelled whole come first: the relay's gate and pairing, the guest
link store and the guest bridge; then the four state machines that wait for
somebody else and may be overtaken while they wait: a restart, a relay session of
the panel, a billed month, a deferred answer.

### What makes each modelled part correct

* *Gate*: no UUID is replayed within the time its ticket was issued for; a
  ticket admits one pair; a waiter is told when its ticket comes; the wait
  capacity is neither leaked nor exceeded.
* *Pairing*: a connection is in at most one session; every socket has an owner;
  no channel is closed twice (a panic stops the whole server); limits are
  neither exceeded nor leaked; every request is resolved.
* *Store*: no use is lost, none is granted beyond `max_uses`, none after a
  revocation; a conflict is reported only for a real one.
* *Bridge*: no session is knowingly opened without a use, one session costs one
  use, a revocation reaches every bridge, no opening is let through after it.
* *Restart*: a setting that differs from what the server runs with can still be
  taken back; nobody loses a pending transaction of somebody else; the browser is
  told "ready" only by the next process, and is told something in the end.
* *Panel relay*: a token admits one socket; no open socket is forgotten; a device
  is reached over its newest socket; the count per address is exact; nobody waits
  for ever.
* *Billing*: a session is billed for what it lasted, once; what is included comes
  out of the pool; the months keep what was used; a session is not closed without
  its report.
* *Deferred answers*: an initiator gets no more answers than it made requests, and
  gets one for certain; a fallback that may still fire can still be cancelled.

---

## 2. Modules and how they correspond to the code

### RelayAuthorization

The registry and `claimRelayUUID`. Every region under `r.mu` (or the limiter's
mutex) is one action; `pruneLocked`, which runs first in every operation, is
part of each (`PrunedTickets`, `PrunedUsed`). `tickets`, `used` and `waiters`
are the three maps; `waiters[u]` is the set of connections blocked on the
channel that is registered *now*, so a connection whose channel was removed is
still `"blocked"` and in no set. A connection runs the gate through the program
points of `GatePC`.

Time is kept as durations: a ticket holds its time to live, a connection the
time of its current wait, and `Tick` moves all of them; there is no absolute
clock to bound. `select` between a closed channel and a finished context is a
free choice (`Wake` or `WaitExpires`). `Finish`/`KeepClaim`/`GiveBack` stand for
what the relay does with a claim and are replaced by `RelayServer`. `issued`,
`age` and `claimed` are history variables. `MaxTickets` bounds how often a UUID
is authorized.

### RelayServer

EXTENDS `RelayAuthorization`: the gate's actions are reused unchanged, with the
rest of the life of a connection around them. Every operation on the pending map
(`LoadOrStore`, `Load`, `Delete`, `LoadAndDelete`) is an action of its own, as
are `close(done)`, the two `sessionLimiter.Acquire` calls and the steps of the
sweep. `Transport` chooses between `startRelay`, `startWSRelay` and
`startMixedRelay`, which differ only in whose address is asked first. `panicked`
records a second `close`, after which nothing runs.

`Prompt = TRUE` lets a tick pass only when no goroutine can run: it models a
scheduler that never delays a runnable goroutine by a whole tick (seconds).
`Prompt = FALSE` is an arbitrary scheduler. A slot of `Conns` is reused for a new
connection once no goroutine refers to the old one (`Unreferenced`).

### GuestLink, GuestGrant, GuestBridge

`GuestLink` is the abstract link: a status and a number of uses. `GuestGrant` is
the store: a call is a goroutine that reads the row, computes a replacement and
swaps it if the row still holds what was read, at most `Attempts` times (eight in
the code). With `Lossy` a statement may fail, or succeed with its reply lost.
Tokens and ids are unique, so one grant is enough. `ImplementsLink` is the
refinement: status from the row, uses as `granted + unsure`.

`GuestBridge` EXTENDS `GuestLink`: what the server decides about an API call is a
step of the abstract link. The panel is one event loop, so the code between two
`await`s is one action and each API call is three: the call, the server's
decision, the reply. With `Unreliable` the call may fail at the panel before or
after the server decided (`"abandoned"`, `misled`). A promise is its index in
`posts`; `entry` is `guestSessionStates`. `waiting` and `written` are sets of
pairs of a message and a promise: the properties do not depend on the order in
which handlers of one socket go on. Messages are of four kinds: one that
opens a session, other data, an incomplete one, one for another target.
`written` keeps what the bridge took a message for, not what it is: `"opening"`,
`"plain"` (it was decoded, or had not yet decoded to anything), or
`"uninspected"`. The rendezvous bridge decodes everything, but forwards an
incomplete frame at once. The relay bridge holds frames back until it has decoded
a RequestRelay; it then sets `guestRelayValidated`, awaits the use, and from that
moment writes every further frame, of any kind, without decoding it.

### RestartCoordinator

`file` is `.restart-transaction.json`, `setting` what the settings routes have
saved, `running` what the server was started with. An action is the code between
two awaits; a request in progress keeps in `calls[c].state` the copy of the file
it read, and `CancelEnd`, `UndoEnd`, `RestartThrew` and `Healthy` write that copy
back whatever the file holds by then. A settings route is three actions
(`SaveRead`, `SaveWrite`, then `registerChange` or, in a container,
`dismissFailed`), `cancel` and a failed `confirm` are one per rollback.
`restartServer` is synchronous, so between `confirm` and its outcome no other
handler runs (`CanRun`), but the process may be killed there. `Exit` is the timer
`confirm` arms, `Crash` any other end, `Boot` the supervisor. `boot` numbers the
processes (`BOOT_ID`). A restart that is reported as failed may have started the
server with the new settings all the same (`RestartFailed`); one that left it
stopped keeps in `running` the settings it was last started with. `accident` is a
history variable for `DriftHasCause`.

### BdRelay

One action per callback of `bdRelay.js`; `handleSignalConnection` is two because
it awaits the check of the token (`SignalArrives`, `SignalAttach`), between which
the device may hang up (`SignalLost`). `listed` is `activeSessions`; `session`
keeps the record also after it left the map, as the closures of timers and
handlers do. `Teardown` is `teardownSession`. A socket that fails runs `Ended`
twice, once for `error` and once for `close`. `expiredAway` and `miscounted`
record the cases in which the code loses a session or a count.

### Billing

One contract and its sessions. Nothing is locked across database calls, so each
call, with the local steps before it, is an action, and `loc[p]` holds the copies
goroutine `p` works on. `EnsureContractPeriod` is a subroutine: `ens` is where it
stands and `pc` says where it returns to. `settleCrossingMonth` is the loop of the
`Segment…` actions, run by the ticker on copies (`tickActive`, `TickNext`) and by
`EndRelay` on the session it took out of `active`; `finalizeSession` the `Final…`
actions. `clobbered`, `torn`, `late` and `overwritten` are history variables: the
contract, a row or a month was written from a copy that was out of date, or the
ticker settled a session that had ended.

### PunchExchange

The two ways in which signal answers later: `schedulePunchFallback` with
`handlePunchHoleSent`, and `beginLANExchange` with `completeLANAddr`. Keys are by
initiator address, so one initiator is enough: `slot[k]` is what `pendingPunches`
or `pendingLANs` holds. Every access to a `sync.Map` and every `Swap` of `fired`
is a step; `timer` is where the goroutine of a timer stands. A message of the
peer keeps the entry it loaded (`p`), for which it will answer, apart from the one
it takes out of the map (`old`), whose flag it claims. `waiting` is emptied
by any answer, since an initiator that gets one stops waiting for all; `answers`
and `sent` are history variables that count them, by request and for LAN requests
together.

---

## 3. Runs

| Run | Instance | Checks | Distinct states |
|---|---|---|---|
| `gate` | 3 connections, 2 addresses, 1 UUID issued twice, wait caps 2 and 1 | TypeOK, WindowCovered, RegisteredWaitersTold, AuthWaitExact, ReplayWindow | 224 k |
| `pairing_prompt` | 4 connections (TCP and WS) from 3 addresses, 2 UUIDs with 1 ticket each, limit 1, prompt scheduler | SessionLimitSound, SessionExclusive, AtMostTwoHolders, NoDoubleClose, NoStrandedSocket | 1.7 M |
| `pairing_slow` | 3 connections, 1 ticket, arbitrary scheduler, fairness | ConnLimiterExact, RequestResolved | 148 k |
| `guest_store` | 2 callers, 5 calls, 2 uses, 2 attempts, database errors, fairness | TypeOK, UsesExact, ConflictHasCause, RevocationFinal, ImplementsLink, CallAnswered | 577 k |
| `guest_bridge` | 2 sockets of one session, 2 messages each, failing API, fairness | OpeningCharged, ChargedOnce, NoHandlerForgotten, SilentAfterInvalidation, RevocationReaches | 468 k |
| `restart` | 2 operators, 2 settings, 2 requests at once, 2 processes, fairness | CoordinatorTypeOK, ReadyAfterReboot, DriftHasCause, PendingKept, RestartConcludes | 119 k |
| `bd_relay` | 1 session, 1 device, 4 sockets of one address that may hold 2, fairness | TokenUsedOnce, NoStrandedRelaySocket, OnlineIsNewest, IpCountExact, WaitingReleased | 181 k |
| `billing` | 2 relays or 1 relay with 2 reports or edits, 3 included minutes, a month boundary | BilledForWhatItLasted, PoolPaysIncluded, MonthKept, PendingUntilReport | 1.15 M |
| `punch` | 3 requests of either kind, 1 message of the peer, the sweep, fairness | LANAnswersBounded, FallbackCancellable, EveryRequestAnswered | 280 k |
| `pairing_double_close` | arbitrary scheduler | NoDoubleClose, **violated** | |
| `billing_months` | 1 relay | MonthsAddUp, **violated** | |
| `lan_answered_twice` | 2 requests, 1 message of the peer | LANAnsweredOnce, **violated** | |

Every property of a passing run has a mutant in `PROJECT.json`, a plausible bug
in a definition of the model, under which TLC finds the property violated.
Some statements are in the modules and in no run, because they are proved
(section 5): `TicketXorTombstone`, `AuthWaitBounded`, `UseLimit` (which also follows
from `ImplementsLink`), `SessionsWithinLimit` (in `GuestBridgeProofs`), and the type
invariants `ServerTypeOK`, `BridgeTypeOK`,
`BdTypeOK`, `BillingTypeOK` and `ExchangeTypeOK`.

### Bounds

* *Relay*: a ticket has two claims, so three connections are the least with
  which one is too many; a fourth adds a second session competing for a limit.
  Two connections share an address, the third comes from another over WebSocket,
  the fourth from one of its own,
  so same-kind and mixed sessions and per-address limits all occur. Timeouts are
  1 or 2 ticks: the code only compares durations with two constants, of which
  `RelayAuthWait` is the smaller. `MaxTickets = 2` lets a UUID be issued again.
  `pairing_slow` uses one tick and a limit of one handler per address to keep the
  liveness graph small; sessions picked up twice need three handlers at once and
  are checked in `pairing_prompt`. There two connections ask for one UUID and one
  for the other, and the fourth comes third for the first or second for the
  other (`Wants`): one choice contends for a ticket, the other for the limits.
* *Store*: two callers meet in every pair of statements; five calls allow three
  uses against a limit of two and three writers during one call, more than the
  two attempts. The theorems hold without these bounds.
* *Bridge*: the rendezvous and the relay socket of one session are the case in
  which a use must be shared. Two messages on each let one arrive during the
  wait of another; on the relay socket it is then written unseen. All sockets come from one address, the worse case for
  `MAX_CONNECTIONS_PER_IP`; panel and server share a clock.
* *Restart*: `MaxSaves = 2` settings saved is the least with which a transaction
  can be added to, refused to another operator or replaced while a handler waits,
  and two requests at once the least with which copies go stale; `MaxBoots = 2`
  has one process confirm and the next conclude, or crash at any point.
* *Panel relay*: both sides of a session, a socket too many for either role, and
  two signal sockets of a device compete for four sockets and a limit of two.
* *Billing*: `Start = 1` puts the server in the last minute of a month, `MaxTime =
  3` reaches the second minute of the next. `MaxRequests = 4`, of which a relay takes two, allows
  two relays, or one with two reports or edits. `MaxBusy = 2`
  goroutines are in the middle of a call at a time, and the clock moves only while
  there are fewer: two writers with stale copies, the cause of every lost update
  here, do meet; three do not, and a minute does not pass while two are writing.
  Rounding to 2 minutes makes a billed minute differ from a used one.
* *Deferred answers*: three requests give an entry, its replacement and one after
  the timer of the first; one message of the peer meets any of them at any step.
  (Two requests with two messages pass as well, 25 k states.)
* `CHECK_DEADLOCK FALSE` is set where the model may really stop: all calls,
  requests or saves of the bound made, all sockets used, or the process dead after
  a panic.

### Fairness

* `ServerFairSpec`: every handler that can run does, the sweep finishes an
  iteration it began, time passes. Nobody has to connect, write, end a session or
  run the sweep.
* `GuestGrant!FairSpec`: a goroutine goes on to its next statement. Errors are
  possible, never forced.
* `GuestBridge!FairSpec`: time passes (the grant expires), the server answers,
  timers fire, replies are handled. With `Unreliable` any call, also every call,
  may fail; then the expiry, checked by the panel itself, closes the bridge.
* `RestartCoordinator!FairSpec`: the supervisor starts the panel again, the timer
  of `confirm` fires, requests in progress go on. The browser polls for as long as
  the page is shown and the server runs in the end, whatever interrupts a single
  poll: strong fairness of `getPublicStatus` and `Healthy`. Nobody has to confirm,
  cancel or complete.
* `BdRelay!FairSpec`: time passes, timers fire, a closing handshake ends. Nothing
  is assumed of the clients.
* `PunchExchange!FairSpec`: goroutines go on and timers fire. Neither the
  initiator nor the peer has to send anything, and the sweep does not have to run.
* `Billing` has only safety properties and no fairness.

---

## 4. What the runs show

**Holds.** No replay within a ticket's window; the wait and connection limiters
are exact on every path; at most two connections per ticket; a connection is in
one session at most; no address exceeds its session limit; every request is
resolved even under an arbitrary scheduler. No use of a guest link is lost or exceeded, and the store implements the abstract link. A
guest session costs one use unless a reply was lost, no message recognised as an
opening is written without a use or after this panel has invalidated the grant,
every revocation reaches every open bridge. A process never reports its own restart as done, a pending
transaction is lost only to a stale copy, a confirmed restart is concluded even
across crashes. A token of the panel relay admits one socket, a device is reached
over its newest socket. LAN answers are no more than LAN requests, but for requests
that could not be forwarded, and every deferred request is answered. What is billed, pooled and kept per month is right as long as no stale
copy is written back.

**Does not hold**, each with a run and with the line that says it should (quoted
in `PROJECT.json`):

1. `pairing_double_close`: the sweep and a second connection can both close the
   `done` channel of a parked connection (`server.go:404` and `:591`). It takes a
   second connection that is delayed between its `LoadOrStore` and its `Delete`;
   with prompt goroutines (`pairing_prompt`) it cannot happen.
2. `billing_months`: `settleCrossingMonth` charges the old month's minutes to the
   pool; `EnsureContractPeriod` then fills that month's missing total with what is
   gone from the pool, and `applyUsageToPeriod` adds the same minutes once more
   (`period_service.go:148`). One session that outlasts a month is enough.
3. `lan_answered_twice`: `completeLANAddr` loads the pending request of a key,
   cancels whatever the key holds after its checks, and answers for the one it
   loaded (`lan_exchange.go:204`, `:229`, `:246`). If in between the timer of the
   first request has answered it and a second one has been stored, the first is
   answered again and the second, whose flag was claimed, by nobody. The total is
   still right (`LANAnswersBounded`), and an initiator that waits for both has had
   an answer.

**Does not hold either**; stated in the modules where a formula is named, and
quickly refuted when it is added to the run in brackets:

* *Lost wake-up* (`NoMissedAuthorization`, `gate`): waiters of a UUID share a
  channel. One that times out removes it without closing it
  (`authorization.go:205`), so the others sleep through a later authorization.
* *Reissue* (`AtMostTwoHolders`, `pairing_double_close` with `MaxTickets = 2`):
  `Release` gives a claim back to whatever ticket the UUID has by then
  (`authorization.go:165`); the new ticket can admit three connections.
* *Slot leak* (`SessionSlotsExact`, `pairing_prompt`): when the second address of a
  pair is at its session limit, the slot taken for the first is never released
  (`server.go:456`, likewise in `ws.go` and `mixed.go`).
* *Last use* (`InvalidMeansEnded`, `guest_bridge` with one use): revalidation
  judges a running session by the uses the link has left (`wsRelay.js:653`); the
  session that took the last one is closed as invalid.

**Exceptions the properties name.** A history variable marks the case, and the
property holds in every other one:

* *Restart* (`accident`): `registerChange` refuses after the setting was written,
  so a refused change is saved and in no transaction; a restart reported as failed
  may have started the server with the settings that are then rolled back
  (`serverConnectionConfigService.js:499`); `cancel`, a failed `confirm` and `getPublicStatus` write back the copy they read before their awaits
  (`restartCoordinator.js:212`, `:312`).
* *Panel relay* (`expiredAway`): a side that joins after the TTL deletes the
  session and closes only itself (`bdRelay.js:302`); the side that waits stays
  open and its timer finds nothing to tear down. (`miscounted`): a socket that
  fails is counted down twice, one that hangs up while its token is checked never
  (`bdRelay.js:339`).
* *Billing* (`clobbered`, `torn`): pool and row are read, changed and written
  without a transaction (`service.go:457`, `:493`), so updates are lost. (`late`):
  the ticker settles a copy of a session that `EndRelay` has taken, and a month is
  billed twice. (`overwritten`): filling a gap overwrites a total that another
  goroutine has just begun. Sessions that run at the same time each count on the
  whole pool they saw at their start.
* *Deferred answers* (`dropped`): a timer deletes its key, also when a newer entry
  has it, which the peer's answer can then no longer cancel. (`silenced`): the
  sweep and a message about an old entry cancel whatever the key holds by then;
  `handlePunchHoleSent` cancels the fallback before it knows whether the answer
  can be delivered (`handler.go:1455`).

**Seen while modelling, without a property of their own** (see the hazards):

* The sweep of the relay tests the age of one entry and removes whatever is stored
  by then (`server.go:588`).
* `RevokeByID` answers "not found" of a link that exists when it loses eight races
  (`grants.go:311`); by `ConflictHasCause` that takes as many other writes.
* `guestRelayValidated` is set before the use is awaited (`wsRelay.js:557`, `:564`).
  From then on every frame of a relay bridge is written without being decoded, a
  further RequestRelay, also one for another peer, included; and this already
  while the use is undecided, whether it is granted or denied in the end, or the
  grant has been invalidated meanwhile. `OpeningCharged` and
  `SilentAfterInvalidation` therefore speak of messages the bridge recognises, and
  say of the others under what circumstances they are written; the stronger
  statements, that nothing at all is written before the use, do not hold.
* A message can thus overtake the opening message, which still waits for its use;
  parts of a relay frame buffered before validation are not forwarded. On the
  rendezvous bridge the first part of a frame is forwarded at once
  (`wsRelay.js:528`, `:586`), so a later buffer can come between it and the part
  that completes it and waits.
* Only active contracts are resolved, so the refusal of a suspended one in
  `CheckConnection` is never reached; relays of a suspended contract are not
  billed. A report submitted during a session does not keep it from becoming
  `pending_report`, and a second report is refused. Sessions that run when the
  server stops stay `active` in the database.

---

## 5. Proofs

Every safety property a passing run checks is also a theorem for every value of the
constants; only liveness stays with TLC. No proof uses the
bounds of section 3: sockets, requests, saves, minutes and months are bounded by a
natural number of any size, or not at all. Each proof module has one inductive
invariant (or a few, each on top of the one before), a lemma for `Init`, a lemma for
`[Next]_vars` with one step per action, and short theorems that read the properties
off.

### RelayAuthorizationProofs

Assumptions: those named in `RelayAuthorization` (finite `Conns`, each connection
has an address, `0 < AuthWait <= PairTimeout`, `None` is no value). Nothing bounds
the number of connections, UUIDs, tickets or the timeouts.

* `RegistryInvariant`: `Spec => []RegistryInv`, the inductive invariant that
  `TypeCorrect`, `TicketOrTombstone`, `WindowIsCovered` and `WaitersAreTold` are
  conjuncts of. None is inductive alone: that ticket and tombstone together last
  `PairTimeout` needs that a UUID never has both; that needs types; and that the
  registered channel is empty when a ticket exists needs that only blocked
  connections are on it.
* `NoReplay`: `[][...]_vars`: a step that issues a ticket finds neither ticket nor
  tombstone after the prune, and by `WindowCovered` the age of the last ticket is
  then `PairTimeout`.
* `WaitLimiterCorrect`: the counters equal the cardinalities of the sets of
  waiting connections. One lemma each for joining, leaving and not changing the
  set, with the cardinality facts of `FiniteSetTheorems`.

### GuestGrantProofs

For any number of callers, attempts, calls and any limit.

* `GrantInvariant`: `Spec => []GrantInv`. To the four invariants checked by TLC it
  adds what a call about to swap knows (`SwapReady`: the value it read was
  unrevoked and under the limit, and has at least as many uses as the call has
  lost swaps), what a loop that goes on knows (`ReadReady`) and how the number of
  writes relates to the uses (`WritesCount`).
* `UsesAreCounted` and `RevocationIsFinal` follow from it.
* `ConflictsAreReal` needs `RevokeInv` on top, for `RevokeByID`: a revoked row can be
  written again without a use, so uses do not tell how old a copy is. Its `Version`
  does (the number of writes that led to it): the row has the version `writes`, and a
  revocation about to swap has lost fewer swaps than the version it read. So
  `RevokeByID` says "not found" of a link that exists only after as many other writes
  as it made attempts.
* `StoreImplementsLink`: `Spec => ImplementsLink`; a successful swap of a Consume
  is `LinkUse`, a first revocation `LinkRevoke`, the deletion `LinkDrop`, every
  other step a stutter.

### RelayServerProofs

Assumptions: those of the gate, and that `Transport`, `Prompt` and `MaxConnsIP` are
of their kinds. Any number of connections, addresses and UUIDs; any scheduler.

* `CountInv` (types and counters) gives `ServerTypeCorrect`, `ConnLimiterCorrect` and
  `SessionLimitCorrect`. A counter that is the cardinality of a set of handlers is
  inductive with the types alone, but the session limiter is not exact (section 4), so
  what is kept is an inequality: it counts at least the slots in use.
* `ServerInv` adds who may know a connection: the pending map, the handler that found
  it there, the sweep, or nobody (`PendingOK`, `OwnerOK`, `SweepRefOK`, `FreshOK`).
  From it `PartnerIsPassive`: a connection that was found never runs a session of its
  own. Most steps add no reference (`NoNewReference`), which one lemma deals with; the
  two that do, `LoadOrStore` and `SweepVisit`, have their own.
* `OnceInv` adds who holds a claim: a live ticket has counted every holder, and a
  connection that has waited long enough to be swept has outlived its ticket, so that
  the claim the sweep and the handler both give back is counted nowhere; and a
  parked connection is picked up by one handler. From it `TicketHeldByTwo` and `SessionIsExclusive`. Both
  state their hypothesis, `MaxTickets = 1`: signal authorizes a UUID once. It cannot be
  dropped: with two tickets `Release` gives a claim back to the wrong one and
  `AtMostTwoHolders` is violated (*Reissue*, section 4). `LoadOrStore`, `Delete` and `close` are three
  steps, and it is only because a ticket has two holders that no third handler comes
  in between.
* `PromptInv` adds who will close a connection, and gives `DoneClosedOnce`
  (`NoDoubleClose`) and `SocketsNotStranded` (`NoStrandedSocket`). The danger is that
  the sweep and a handler both take the same parked connection for theirs. What
  excludes it is time: under `Prompt = TRUE` none passes between the claim of a live
  ticket and `LoadOrStore`, so a connection that is being paired is too young for the
  sweep (`YoungOK`), and once it has been found, swept or taken out of the map nobody
  else comes for its UUID (`SettledOK`). Hence the three deletions by UUID hit the
  connection they mean or nothing (`OwnEntry`), whoever is about to close a `done`
  channel is alone with it (`NotDone`), and a handler leaves an open socket only to
  somebody who will close it (`SocketsOwned`). Both
  theorems state their hypotheses, `MaxTickets = 1` and `Prompt = TRUE`. The first
  is needed as above; without the second `pairing_double_close` shows a run in
  which `close` panics.

### GuestBridgeProofs

For any number of sockets, guest sessions and messages, with or without failing API
calls. `BridgeInv` has nine parts; those beyond the properties:

* `SameSession`: a promise belongs to the guest session of those that wait on it.
* `UseBehind`: a call the server charged, or a bridge marked as consumed, stands for
  a use of its session. `RecognisedCharged` is not inductive without it.
* `OneKept`: while a use can still be taken, the only call of a session that has paid
  or can still pay is the one its entry keeps; a rejected promise leaves the map
  before another is made. With `UsesPaid` this is the reason for `ChargedOnce`.
* `Silenced`: after an invalidation no open bridge is consumed and nobody waits on, or
  keeps, a promise that was paid. `NothingOpenedAfterInvalidation` is then an action
  property: no step can write an opening.

On top of it `Backed`: an open relay bridge that is validated is consumed or has a
handler that waits, and nothing is written unseen elsewhere. It is kept because a
rejected promise closes the bridges that wait on it, and a resolved one marks them.
With `BridgeInv` it gives `OpeningIsCharged` and the second half of
`NothingOpenedAfterInvalidation`.

Two theorems connect the panel with the store. `BridgeUsesLink`: every step is a step of
`GuestLink` or a stutter, the same specification that `StoreImplementsLink` shows the
store to implement. `SessionLimit`: with a limit, the guest sessions admitted through
the panel are at most `max_uses`. Admitted means that one of its bridges is marked as
consumed, has written a message recognised as an opening, or stands open and validated
with nothing awaited, so that what passes unseen goes on passing. It counts the
sessions that were charged (each has a use of its own, `UsesCoverSessions`) and by
`UseBehind`, `OpeningCharged` and `Backed` those admitted are among them. What is written unseen
while a use is still awaited is not counted: it can name any session.

### RestartCoordinatorProofs

For any operators, settings, simultaneous requests and numbers of saves and
restarts.

* `CoordinatorInv`: every copy of the transaction, in the file or in a request,
  holds no setting twice and is of no later process than the one that runs; a
  copy that is polled is of an earlier one. `ReadyIsOfEarlierProcess` needs this of all
  copies, since any of them may be written back. `PendingTransactionKept` is an action
  property: one look at every action that writes `file`.
* `OrderlyUnlessAccident`, on top: as long as no accident has happened, requests that
  change settings hold disjoint ones, what the file and every cancelling or undoing
  request would restore is what the server runs with, and each difference is covered
  by a request or by the pending transaction. `DriftExplained` is its last conjunct
  and needs all others: that a rollback restores the running value is known only
  because the first snapshot was kept when the setting was saved twice.

### BdRelayProofs

For any sessions, devices, addresses, numbers of sockets and limits. `BdInv` adds to
the properties what a socket's state says of it (`SocketStates`) and that an attached
relay socket is in the slot of its token, also after its session left the map
(`SlotHeld`), from which `TokenSingleUse` follows: a slot is never emptied. In most
steps sockets only fade (`Fades`), and one lemma covers whatever `Teardown` closes.
`AddressCountExact` has an invariant of its own, with the cardinality of the live
sockets of every address that is not `miscounted`.

### PunchExchangeProofs

For any number of requests and messages. `LANAnswersCovered` (`LANAnswersBounded`)
counts. That no single request is answered twice is false, because a message claims
the flag of one request and answers another; but each `Swap` of `fired` that finds it
unset is followed by one answer at most. `Accounted` says so: the LAN answers sent,
the messages about to deliver one and the timers that have won their flag are together
at most the flags set and the requests that could not be forwarded. Every action
either leaves the sides alone, moves one from pending to sent, or sets a flag and
starts one answer; each kind has a lemma with the cardinality facts of
`FiniteSetTheorems`. `FallbackReachable` is inductive only in the stronger form
`CancellableOnceStored`, which excuses the request of the handler only until it has
been stored.

### BillingProofs

For any relays, package, rounding, length of a month, start and bounds. Three results:
a session is billed for no less than it lasted and for less than one unit of rounding
too much per month it touched (`SessionsBilled`); the pool has paid for what the
sessions of its month record as included, or is empty (`PoolPays`); the history of a
month holds what its sessions used (`MonthTotalsKept`).

* Arithmetic: `roundUpMinutes` adds less than a unit (`RoundBounds`), the end of a
  month is the first minute of the next (`MonthEndFacts`), a part of a session is
  billed within one rounding (`SegmentFacts`), parts add up (`AddPart`).
* `Knows`: what a goroutine knows between two database calls, by its program
  counter: that it has a copy of the contract, that the session it settles has a row,
  that the month it charges is one the session outlasts. Nobody ever removes a row
  or a report, so what one goroutine knows no other can falsify (`Moved`).
* `Accounted`: the row of a session *covers* it up to a minute `t` if it bills
  `t - from` with at most one rounding per month in between. While a session is live
  its row covers it up to `active.start`, or, when the ticker has a month of it in
  hand, up to where the ticker stands; once it ends, up to where its own goroutine
  stands; and at the end to `span.to`, with one rounding more. The exception is a
  session that ends while the ticker works on it (`Doomed`): such a ticker will find
  it gone and make it `late`, which is what excuses the property, but only later.
  `CopiesFresh` is what makes a copy the ticker takes up current.
* Steps that neither write a row nor settle are quiet (`QuietFrame`) and keep all
  of this by one lemma; the nine others have a lemma each.
* `ReportsAwaited`: the end of a relay sets `pending_report`, and the only other write
  that changes a status comes from a report that exists.
* `SumInv`, on top of all this, is about the sums. Its last two parts are the
  properties without the wait for a quiet moment: `TotalsOK` sums over the sessions whose
  usage is in the total of a month, `PoolOK` over those the pool has paid for. That an
  addition goes to the right month needs `DatesOK` (the contract only moves on to later
  months, and what each goroutine knows of the months between two calls), `BeginsOK` (every
  copy says that a session begins where it did, or the contract has left that month),
  and `PartsOK` (a session of which no month was settled has one part, so that what its
  row records is what was added). TLC checked `SumInv` on the instance of the
  `billing` run before it was proved.
* Sums: `IncludedBy` is a fold over a set. What a fold computes is proved by induction
  over the number of elements. The library's induction theorem takes a predicate as
  a parameter, so `NatSetInduction` states induction for a *set* of numbers, from the
  well-foundedness of `<` on `Nat`; the property is then the set of the numbers that
  have it. From it come the three lemmas the steps use: a session more adds its share
  (`IncludedAdd`), a subset has no larger sum (`IncludedSubset`), and
  sessions whose rows are the same have the same sum (`IncludedSame`).

### Only model-checked

* Liveness under fairness (`RequestResolved`, `CallAnswered`, `RevocationReaches`,
  `RestartConcludes`, `WaitingReleased`, `EveryRequestAnswered`): out of the prover's
  reach.
* `MonthsAddUp`, `LANAnsweredOnce` and, under a slow scheduler, `NoDoubleClose` are
  false: their runs expect the violation (section 4).

---

## 6. Not modelled

The bytes copied and their encodings, the bandwidth limiter, logging and audit;
bridges of signed-in operators, which skip the guest checks; process crashes of
the relay and of the bridges (they keep only volatile state, so a restart is a new behaviour); clock differences between panel and server; of billing, the
money, the ledger, edits of a contract other than its status (an operator can set
`remaining_minutes` to any value), the resolution of a contract by device and folder, failing
database calls and restarts of the server; of the panel relay, requests to a
device and their answers by id; of signal, registration, the pending relay index,
id changes and bans.

Most lines of the repository hold no state machine to check: generated protocol
code, translations, the panel's pages, SQL text of the two database adapters,
installers and build scripts. The parts of the
inventory with status `not_modelled` in `PROJECT.json` have their reasons there.

## 7. Plan

1. `SignalPending`: the pending relay index of signal, three maps written one
   after the other by `storePendingRelay` and cleaned by key. Property: an index
   entry points to a live request.
2. `RelaySystem`: signal's authorization and relay composed, so that `Authorize`
   is issued by the pending relay index instead of the environment.
3. `MeshRelayHub`: attach, detach, idle clean-up and finish of a hub; a viewer and
   an agent with the same relay id meet in the same hub. To look at: the idle timer
   removes a hub in use (`relay_hub.go:54`); an agent that attaches to a started
   hub has no `readAgent`, and the end of the one before it clears `h.agent`
   (`relay_hub.go:156`); the goroutine that ties the request's context to the
   gateway's waits on a `ctx` the handler reassigns (`relay_ws.go:85`).
4. With `RelaySystem`, proofs that the hypothesis `MaxTickets = 1` of the theorems about
   pairing is what signal guarantees, or a run that shows where it does not.
