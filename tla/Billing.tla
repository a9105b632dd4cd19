-------------------------------- MODULE Billing --------------------------------
(***************************************************************************)
(* Billing of relay sessions (betterdesk-server/billing and the database     *)
(* calls it makes): sessions of one contract, whose package grants INCLUDED  *)
(* minutes a month.                                                          *)
(*                                                                          *)
(* A relay's goroutine prepares, activates and ends its session; the ticker  *)
(* settles sessions that run past the end of a month; an operator submits    *)
(* work reports and an administrator edits the contract.  None of them holds *)
(* a lock or a transaction across database calls, so every call, with the    *)
(* local steps that lead to it, is an action of its own and works on copies: *)
(* loc[p].c of the contract, loc[p].r of the session's row and loc[p].a of   *)
(* the activeSession.                                                        *)
(*                                                                          *)
(* Time is in minutes.  Money, the ledger, the phase shown for a running     *)
(* session and the limit snapshots of past months follow from the minutes    *)
(* and are left out; database calls succeed; the package is not edited.      *)
(***************************************************************************)
EXTENDS Integers, FiniteSets, FiniteSetsExt

CONSTANTS
  Relays,          \* relay UUIDs, one billable session each
  INCLUDED,        \* minutes the package includes in a month
  ROUND,           \* RoundingMinutes of the package
  MONTH,           \* minutes in a month
  TTL,             \* pendingRelayTTL
  Start,           \* minute at which the server starts
  MaxTime,         \* bound: the clock stops here
  MaxBusy,         \* bound: goroutines in the middle of a call at the same time;
                   \* the clock moves only while there are fewer
  MaxRequests,     \* bound: reports, edits of the contract and relays prepared,
                   \* of which each counts as two
  RequireReport,   \* BILLING_REQUIRE_WORK_REPORT
  Ticker, Operator, Admin,
  None

ASSUME BillingAssumption ==
  /\ INCLUDED \in Nat \ {0} /\ ROUND \in Nat \ {0} /\ MONTH \in Nat \ {0}
  /\ TTL \in Nat /\ MaxBusy \in Nat /\ MaxTime \in Nat /\ MaxRequests \in Nat
  /\ Start \in 0..MaxTime
  /\ RequireReport \in BOOLEAN

PeriodYMAt(t) == t \div MONTH
Months == 0..PeriodYMAt(MaxTime)

\* A contract, a row of billing_sessions and an activeSession.
Copies == [remaining : 0..INCLUDED, period : Months \cup {-1}, status : {"active", "suspended"}]
Rows == [status : {"active", "pending_report", "closed"}, billed : Nat,
         included : Nat, overage : Nat]
Sessions == [start : 0..MaxTime, remaining : 0..INCLUDED]

\* The goroutines are distinct, and None is no value of any kind.
ASSUME ProcsAssumption ==
  /\ Ticker \notin Relays /\ Operator \notin Relays /\ Admin \notin Relays
  /\ Ticker # Operator /\ Ticker # Admin /\ Operator # Admin
  /\ None \notin Relays /\ None \notin Nat
  /\ None \notin Copies /\ None \notin Rows /\ None \notin Sessions
  /\ None \notin [from : 0..MaxTime, to : 0..MaxTime]

Procs == Relays \cup {Ticker, Operator, Admin}

VARIABLES
  now,        \* the clock
  contract,   \* billing_contracts: the row of the contract
  total,      \* billing_period_totals: minutes used, by month
  row,        \* billing_sessions
  report,     \* billing_work_reports: sessions that have one
  pending,    \* pending: when the relay was prepared
  active,     \* active: the live activeSession
  snap,       \* the copies the ticker has still to go through
  loc,        \* the goroutines
  requests,   \* relays prepared, reports and edits begun
  span,       \* history: when the session really began and ended
  clobbered,  \* history: the contract was written from a copy out of date
  torn,       \* history: sessions whose row was written from a copy out of date
  late,       \* history: sessions settled by the ticker after they ended
  overwritten \* history: months whose total was overwritten

db == <<contract, total, row, report>>
memory == <<pending, active, snap>>
history == <<span, clobbered, torn, late, overwritten>>
vars == <<now, db, memory, loc, requests, history>>

-----------------------------------------------------------------------------
(* Months and minutes.                                                      *)

MonthEnd(t) == (PeriodYMAt(t) + 1) * MONTH

SplitAtMonthBoundary(from, to) == PeriodYMAt(from) # PeriodYMAt(to) /\ to > MonthEnd(from)

(* Mutant of roundUpMinutes: to the nearest multiple below. *)
roundDownMinutes(m) == (m \div ROUND) * ROUND

roundUpMinutes(m) == ((m + ROUND - 1) \div ROUND) * ROUND

\* What is billed for session a from its StartedAt up to t.
Segment(a, t) ==
  LET billed == roundUpMinutes(t - a.start)
      included == Min({billed, a.remaining})
  IN [billed |-> billed, included |-> included, overage |-> billed - included, to |-> t]

NoSegment == Segment([start |-> 0, remaining |-> 0], 0)
NewProc == [pc |-> "idle", ens |-> "look", u |-> None, a |-> None, c |-> None, r |-> None,
            period |-> 0, seg |-> NoSegment, until |-> 0]

Init ==
  /\ now = Start
  /\ contract = [remaining |-> INCLUDED, period |-> -1, status |-> "active"]
  /\ total = [p \in Months |-> None]
  /\ row = [u \in Relays |-> None]
  /\ report = {}
  /\ pending = [u \in Relays |-> None]
  /\ active = [u \in Relays |-> None]
  /\ snap = [u \in Relays |-> None]
  /\ loc = [p \in Procs |-> IF p \in Relays THEN [NewProc EXCEPT !.u = p] ELSE NewProc]
  /\ requests = 0
  /\ span = [u \in Relays |-> None]
  /\ clobbered = FALSE
  /\ torn = {} /\ late = {} /\ overwritten = {}

At(p, pc) == loc[p].pc = pc
AtRest == {"idle", "waiting", "live", "done", "unbilled"}
Busy == {p \in Procs : loc[p].pc \notin AtRest}
Enters(p, pc) == At(p, pc) /\ Cardinality(Busy) < MaxBusy
Goto(p, l, pc) == loc' = [loc EXCEPT ![p] = [l EXCEPT !.pc = pc]]

-----------------------------------------------------------------------------
(* Database calls.                                                          *)

GetBillingContract(p, pc) == Goto(p, [loc[p] EXCEPT !.c = contract], pc)

UpdateBillingContract(p, c) ==
  /\ contract' = c
  /\ clobbered' = (clobbered \/ loc[p].c # contract)

GetBillingSession(p, u, pc) == Goto(p, [loc[p] EXCEPT !.r = row[u], !.u = u], pc)

UpdateBillingSession(p, r) ==
  LET u == loc[p].u IN
    /\ row' = [row EXCEPT ![u] = r]
    /\ torn' = IF loc[p].r # row[u] THEN torn \cup {u} ELSE torn

(* Mutant of AddBillingPeriodUsage: the usage replaces the total. *)
SetBillingPeriodUsage(period, seg) ==
  total' = [total EXCEPT ![period] = seg.included]

AddBillingPeriodUsage(period, seg) ==
  total' = [total EXCEPT ![period] = seg.included + (IF @ = None THEN 0 ELSE @)]

Billed(r, seg) ==
  [status |-> r.status, billed |-> r.billed + seg.billed,
   included |-> r.included + seg.included, overage |-> r.overage + seg.overage]

(* Mutant of Charge: overage is taken off the pool, not the included part. *)
ChargeOverage(c, seg) == [c EXCEPT !.remaining = Max({0, @ - seg.overage})]

Charge(c, seg) == [c EXCEPT !.remaining = Max({0, @ - seg.included})]

-----------------------------------------------------------------------------
(* EnsureContractPeriod, on the copy the caller read.  Its callers wait for  *)
(* it at the places in Ensuring; ens is where the call stands.               *)

Ensuring == {"prepare", "activate", "segment", "final"}
Returns == [prepare |-> "check", activate |-> "reread", segment |-> "segReread",
            final |-> "finReread"]
InCall(p, e) == loc[p].pc \in Ensuring /\ loc[p].ens = e
Return(p, l) == Goto(p, [l EXCEPT !.ens = "look"], Returns[l.pc])

\* The month is the contract's, or the total of its month is looked up.
EnsureLook(p) ==
  /\ InCall(p, "look")
  /\ LET c == loc[p].c
         gap == c.period >= 0 /\ total[c.period] = None
     IN IF c.period = PeriodYMAt(now) THEN Return(p, loc[p])
        ELSE Goto(p, [loc[p] EXCEPT !.period = PeriodYMAt(now),
                                    !.ens = IF gap THEN "fill" ELSE "roll"], loc[p].pc)
  /\ UNCHANGED <<now, db, memory, requests, history>>

\* The gap in the history is filled, with whatever is missing from the pool.
EnsureFill(p) ==
  /\ InCall(p, "fill")
  /\ LET m == loc[p].c.period IN
       /\ total' = [total EXCEPT ![m] = Max({0, INCLUDED - loc[p].c.remaining})]
       /\ overwritten' = IF total[m] # None THEN overwritten \cup {m} ELSE overwritten
  /\ loc' = [loc EXCEPT ![p].ens = "roll"]
  /\ UNCHANGED <<now, contract, row, report, memory, requests,
                 span, clobbered, torn, late>>

\* The pool of the new month.
EnsureRoll(p) ==
  /\ InCall(p, "roll")
  /\ LET c == [loc[p].c EXCEPT !.remaining = INCLUDED, !.period = loc[p].period] IN
       /\ UpdateBillingContract(p, c)
       /\ Return(p, [loc[p] EXCEPT !.c = c, !.period = 0])
  /\ UNCHANGED <<now, total, row, report, memory, requests,
                 span, torn, late, overwritten>>

-----------------------------------------------------------------------------
(* PrepareRelay and ActivateRelay.                                          *)

\* Only an active contract is resolved; without one the relay is not billed.
PrepareRelay(u) ==
  /\ Enters(u, "idle")
  /\ requests + 2 <= MaxRequests
  /\ requests' = requests + 2
  /\ IF contract.status = "active"
     THEN GetBillingContract(u, "prepare")
     ELSE Goto(u, loc[u], "unbilled")
  /\ UNCHANGED <<now, db, memory, history>>

\* The contract is resolved once more.  The connection is refused when the
\* clock is not synchronised.
CheckConnection(u) ==
  /\ At(u, "check")
  /\ \/ /\ contract.status = "active"
        /\ pending' = [pending EXCEPT ![u] = now]
        /\ Goto(u, [loc[u] EXCEPT !.c = None], "waiting")
     \/ /\ Goto(u, [loc[u] EXCEPT !.c = None], "unbilled")
        /\ UNCHANGED pending
  /\ UNCHANGED <<now, db, active, snap, requests, history>>

sweepStalePending(u) ==
  /\ pending[u] # None /\ now - pending[u] > TTL
  /\ pending' = [pending EXCEPT ![u] = None]
  /\ UNCHANGED <<now, db, active, snap, loc, requests, history>>

\* The relay pairs.
ActivateRelay(u) ==
  /\ Enters(u, "waiting")
  /\ IF pending[u] = None
     THEN Goto(u, loc[u], "unbilled") /\ UNCHANGED pending
     ELSE /\ pending' = [pending EXCEPT ![u] = None]
          /\ GetBillingContract(u, "activate")
  /\ UNCHANGED <<now, db, active, snap, requests, history>>

ActivateReread(u) ==
  /\ At(u, "reread")
  /\ GetBillingContract(u, "create")
  /\ UNCHANGED <<now, db, memory, requests, history>>

CreateBillingSession(u) ==
  /\ At(u, "create")
  /\ row' = [row EXCEPT ![u] = [status |-> "active", billed |-> 0, included |-> 0, overage |-> 0]]
  /\ active' = [active EXCEPT ![u] = [start |-> now, remaining |-> loc[u].c.remaining]]
  /\ span' = [span EXCEPT ![u] = [from |-> now, to |-> now]]
  /\ Goto(u, [loc[u] EXCEPT !.c = None], "live")
  /\ UNCHANGED <<now, contract, total, report, pending, snap, requests,
                 clobbered, torn, late, overwritten>>

-----------------------------------------------------------------------------
(* settleCrossingMonth, run by the ticker on a copy and by EndRelay on the   *)
(* session it took out of active.                                            *)

\* The loop head: a month to settle, with the contract read for it, or none.
Split(p, l) ==
  IF SplitAtMonthBoundary(l.a.start, l.until)
  THEN Goto(p, [l EXCEPT !.c = contract], "segCharge")
  ELSE IF p = Ticker THEN Goto(p, NewProc, "idle")
  ELSE Goto(p, [l EXCEPT !.c = None, !.until = 0], "finRow")

\* The ticker copies the live sessions and goes through the copies.
tickActive ==
  /\ At(Ticker, "idle")
  /\ snap = [u \in Relays |-> None]
  /\ \E u \in Relays : active[u] # None
  /\ snap' = active
  /\ UNCHANGED <<now, db, pending, active, loc, requests, history>>

TickNext(u) ==
  /\ Enters(Ticker, "idle")
  /\ snap[u] # None
  /\ snap' = [snap EXCEPT ![u] = None]
  /\ Split(Ticker, [NewProc EXCEPT !.u = u, !.a = snap[u], !.until = now])
  /\ UNCHANGED <<now, db, pending, active, requests, history>>

EndRelay(u) ==
  /\ Enters(u, "live")
  /\ active' = [active EXCEPT ![u] = None]
  /\ Split(u, [loc[u] EXCEPT !.a = active[u], !.until = now])
  /\ UNCHANGED <<now, db, pending, snap, requests, history>>

\* The month that ended is charged to the contract.
SegmentCharge(p) ==
  /\ At(p, "segCharge")
  /\ LET seg == Segment(loc[p].a, MonthEnd(loc[p].a.start))
         c == Charge(loc[p].c, seg)
     IN /\ UpdateBillingContract(p, c)
        /\ Goto(p, [loc[p] EXCEPT !.c = c, !.seg = seg], "segment")
  /\ UNCHANGED <<now, total, row, report, memory, requests,
                 span, torn, late, overwritten>>

SegmentReread(p) ==
  /\ At(p, "segReread")
  /\ GetBillingContract(p, "segTotal")
  /\ UNCHANGED <<now, db, memory, requests, history>>

SegmentTotal(p) ==
  /\ At(p, "segTotal")
  /\ AddBillingPeriodUsage(PeriodYMAt(loc[p].a.start), loc[p].seg)
  /\ Goto(p, loc[p], "segRow")
  /\ UNCHANGED <<now, contract, row, report, memory, requests, history>>

SegmentRow(p) ==
  /\ At(p, "segRow")
  /\ GetBillingSession(p, loc[p].u, "segWrite")
  /\ UNCHANGED <<now, db, memory, requests, history>>

SegmentWrite(p) ==
  /\ At(p, "segWrite")
  /\ UpdateBillingSession(p, Billed(loc[p].r, loc[p].seg))
  /\ Goto(p, [loc[p] EXCEPT !.r = None], "segSync")
  /\ UNCHANGED <<now, contract, total, report, memory, requests,
                 span, clobbered, late, overwritten>>

SegmentSync(p) ==
  /\ At(p, "segSync")
  /\ LET u == loc[p].u
         a == [start |-> loc[p].seg.to, remaining |-> loc[p].c.remaining]
     IN /\ Split(p, [loc[p] EXCEPT !.a = a, !.c = None, !.seg = NoSegment])
        /\ active' = IF active[u] = None THEN active ELSE [active EXCEPT ![u] = a]
        /\ late' = IF p = Ticker /\ active[u] = None THEN late \cup {u} ELSE late
  /\ UNCHANGED <<now, db, pending, snap, requests, span, clobbered, torn, overwritten>>

-----------------------------------------------------------------------------
(* finalizeSession, after it has settled the months.                        *)

FinalRow(u) ==
  /\ At(u, "finRow")
  /\ Goto(u, [loc[u] EXCEPT !.seg = Segment(loc[u].a, now), !.r = row[u]], "finWrite")
  /\ span' = [span EXCEPT ![u].to = now]
  /\ UNCHANGED <<now, db, memory, requests, clobbered, torn, late, overwritten>>

(* Mutant of FinalStatus: no report is waited for. *)
FinalStatusClosed == "closed"

FinalStatus == IF RequireReport THEN "pending_report" ELSE "closed"

FinalWrite(u) ==
  /\ At(u, "finWrite")
  /\ LET r == Billed(loc[u].r, loc[u].seg) IN
       UpdateBillingSession(u, [r EXCEPT !.status = FinalStatus])
  /\ Goto(u, [loc[u] EXCEPT !.r = None], "finRead")
  /\ UNCHANGED <<now, contract, total, report, memory, requests,
                 span, clobbered, late, overwritten>>

FinalRead(u) ==
  /\ At(u, "finRead")
  /\ GetBillingContract(u, "final")
  /\ UNCHANGED <<now, db, memory, requests, history>>

FinalReread(u) ==
  /\ At(u, "finReread")
  /\ GetBillingContract(u, "finCharge")
  /\ UNCHANGED <<now, db, memory, requests, history>>

FinalCharge(u) ==
  /\ At(u, "finCharge")
  /\ UpdateBillingContract(u, Charge(loc[u].c, loc[u].seg))
  /\ Goto(u, [loc[u] EXCEPT !.c = None], "finTotal")
  /\ UNCHANGED <<now, total, row, report, memory, requests,
                 span, torn, late, overwritten>>

FinalTotal(u) ==
  /\ At(u, "finTotal")
  /\ AddBillingPeriodUsage(PeriodYMAt(loc[u].a.start), loc[u].seg)
  /\ Goto(u, [NewProc EXCEPT !.u = u], "done")
  /\ UNCHANGED <<now, contract, row, report, memory, requests, history>>

-----------------------------------------------------------------------------
(* SubmitWorkReport, the administrator, the clock.                          *)

SubmitWorkReport(u) ==
  /\ Enters(Operator, "idle")
  /\ requests < MaxRequests
  /\ row[u] # None /\ row[u].status # "closed"
  /\ requests' = requests + 1
  /\ GetBillingSession(Operator, u, "create")
  /\ UNCHANGED <<now, db, memory, history>>

\* A second report of a session is refused.
CreateBillingWorkReport ==
  /\ At(Operator, "create")
  /\ IF loc[Operator].u \in report
     THEN Goto(Operator, NewProc, "idle") /\ UNCHANGED report
     ELSE report' = report \cup {loc[Operator].u} /\ Goto(Operator, loc[Operator], "close")
  /\ UNCHANGED <<now, contract, total, row, memory, requests, history>>

CloseReported ==
  /\ At(Operator, "close")
  /\ UpdateBillingSession(Operator, [loc[Operator].r EXCEPT !.status = "closed"])
  /\ Goto(Operator, NewProc, "idle")
  /\ UNCHANGED <<now, contract, total, report, memory, requests,
                 span, clobbered, late, overwritten>>

\* handleUpdateBillingContract, for an edit of the status.
EditRead ==
  /\ Enters(Admin, "idle")
  /\ requests < MaxRequests
  /\ requests' = requests + 1
  /\ GetBillingContract(Admin, "write")
  /\ UNCHANGED <<now, db, memory, history>>

EditWrite ==
  /\ At(Admin, "write")
  /\ \E s \in {"active", "suspended"} :
       UpdateBillingContract(Admin, [loc[Admin].c EXCEPT !.status = s])
  /\ Goto(Admin, NewProc, "idle")
  /\ UNCHANGED <<now, total, row, report, memory, requests,
                 span, torn, late, overwritten>>

Minute ==
  /\ now < MaxTime
  /\ Cardinality(Busy) < MaxBusy
  /\ now' = now + 1
  /\ UNCHANGED <<db, memory, loc, requests, history>>

-----------------------------------------------------------------------------
EnsureStep(p) == EnsureLook(p) \/ EnsureFill(p) \/ EnsureRoll(p)
SettleStep(p) ==
  \/ SegmentCharge(p) \/ SegmentReread(p) \/ SegmentTotal(p)
  \/ SegmentRow(p) \/ SegmentWrite(p) \/ SegmentSync(p)
FinalStep(u) ==
  \/ FinalRow(u) \/ FinalWrite(u) \/ FinalRead(u) \/ FinalReread(u)
  \/ FinalCharge(u) \/ FinalTotal(u)
RelayStep(u) ==
  \/ EnsureStep(u) \/ SettleStep(u) \/ FinalStep(u)
  \/ ActivateReread(u) \/ CreateBillingSession(u)
TickerStep ==
  EnsureStep(Ticker) \/ SettleStep(Ticker) \/ tickActive \/ \E u \in Relays : TickNext(u)

Next ==
  \/ \E u \in Relays :
       \/ PrepareRelay(u) \/ CheckConnection(u) \/ ActivateRelay(u) \/ EndRelay(u)
       \/ RelayStep(u) \/ sweepStalePending(u) \/ SubmitWorkReport(u)
  \/ TickerStep
  \/ CreateBillingWorkReport \/ CloseReported
  \/ EditRead \/ EditWrite
  \/ Minute

Spec == Init /\ [][Next]_vars

-----------------------------------------------------------------------------
(* Properties.                                                              *)

\* Where a goroutine is, and what it holds.
SettlePCs == {"segCharge", "segment", "segReread", "segTotal", "segRow", "segWrite", "segSync"}
FinalPCs == {"finRow", "finWrite", "finRead", "final", "finReread", "finCharge", "finTotal"}
PCs == AtRest \cup SettlePCs \cup FinalPCs
         \cup {"prepare", "check", "activate", "reread", "create", "close", "write"}
Segments == [billed : Nat, included : Nat, overage : Nat, to : 0..MaxTime]
Proc == [pc : PCs, ens : {"look", "fill", "roll"}, u : Relays \cup {None},
         a : Sessions \cup {None}, c : Copies \cup {None}, r : Rows \cup {None},
         period : Months, seg : Segments, until : 0..MaxTime]

BillingTypeOK ==
  /\ now \in 0..MaxTime
  /\ contract \in Copies
  /\ total \in [Months -> Nat \cup {None}]
  /\ row \in [Relays -> Rows \cup {None}]
  /\ pending \in [Relays -> 0..MaxTime \cup {None}]
  /\ active \in [Relays -> Sessions \cup {None}]
  /\ snap \in [Relays -> Sessions \cup {None}]
  /\ loc \in [Procs -> Proc]
  /\ requests \in 0..MaxRequests
  /\ span \in [Relays -> [from : 0..MaxTime, to : 0..MaxTime] \cup {None}]
  /\ clobbered \in BOOLEAN
  /\ torn \subseteq Relays /\ late \subseteq Relays /\ report \subseteq Relays
  /\ overwritten \subseteq Months

Quiet == Busy = {} /\ snap = [u \in Relays |-> None]
Over(u) == At(u, "done")
Undisturbed(u) == u \notin torn \cup late
Lasted(u) == span[u].to - span[u].from

\* A session is billed for no less than it lasted, and rounding adds less than
\* one unit for every month it touched, however the ticker and the end of the
\* relay share the settling of its months.  The code does not ensure it when a
\* row was written from a stale copy, or when the ticker settles its own copy
\* of a session that has ended.
BilledForWhatItLasted ==
  \A u \in Relays :
    Quiet /\ Over(u) /\ Undisturbed(u) =>
      LET months == PeriodYMAt(span[u].to) - PeriodYMAt(span[u].from) + 1 IN
        /\ row[u].billed >= Lasted(u)
        /\ row[u].billed < Lasted(u) + months * ROUND

\* What the sessions of the current month record as included has been taken
\* from the contract's pool (or has emptied it), as long as the contract was
\* never written from a stale copy: a month that begins, a session that ends
\* and one that starts do not give minutes back.
InMonth(m) == {u \in Relays : Over(u) /\ Undisturbed(u) /\ PeriodYMAt(span[u].from) = m}
IncludedBy(S) == MapThenSumSet(LAMBDA u : row[u].included, S)
PoolPaysIncluded ==
  Quiet /\ ~clobbered /\ contract.remaining > 0 =>
    IncludedBy(InMonth(contract.period)) <= INCLUDED - contract.remaining

\* The history of a month holds at least what the sessions that did not outlast
\* it used, unless filling a gap overwrote it.
MonthKept ==
  \A m \in Months \ overwritten :
    LET S == {u \in InMonth(m) : ~SplitAtMonthBoundary(span[u].from, span[u].to)} IN
      Quiet /\ S # {} => total[m] # None /\ total[m] >= IncludedBy(S)

\* When reports are required, a session that ended stays pending_report until
\* it has a report: no stale status survives the end of the relay.  The
\* exceptions are those of BilledForWhatItLasted.
PendingUntilReport ==
  \A u \in Relays :
    RequireReport /\ Over(u) /\ Undisturbed(u) =>
      row[u].status = "pending_report" \/ (row[u].status = "closed" /\ u \in report)

\* The usage of the sessions is split over the months: the totals of the months
\* add up to what the sessions' rows record.
MonthsAddUp ==
  Quiet /\ (\A u \in Relays : row[u] = None \/ Over(u)) =>
    MapThenSumSet(LAMBDA m : IF total[m] = None THEN 0 ELSE total[m], Months)
      = IncludedBy({u \in Relays : row[u] # None})

=============================================================================
