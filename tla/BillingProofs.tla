---------------------------- MODULE BillingProofs ----------------------------
(***************************************************************************)
(* Proofs about Billing, for every set of relays, every package, length of   *)
(* a month and rounding, and every bound on time and requests.               *)
(*                                                                          *)
(* Two inductive invariants: BillingInv says what every goroutine knows and  *)
(* what the row of a session bills; SumInv, on top of it, adds up what the   *)
(* sessions of a month have used against the pool of the contract and the    *)
(* total of the month.                                                       *)
(***************************************************************************)
EXTENDS Billing, FiniteSetTheorems, WellFoundedInduction, TLAPS

RelayPCs == (PCs \ {"close", "write"})
Counting == SettlePCs \ {"segCharge"}

\* What goroutine q knows when its variables are l.
Knows(q, l) ==
  /\ q \in Relays => l.u = q /\ l.pc \in RelayPCs
  /\ q = Ticker => l.pc \in {"idle"} \cup SettlePCs
  /\ q = Operator => l.pc \in {"idle", "create", "close"}
  /\ q = Admin => l.pc \in {"idle", "write"}
  /\ l.ens # "look" => l.pc \in Ensuring
  /\ l.ens = "fill" => l.c.period >= 0
  /\ l.pc \in Ensuring \cup SettlePCs \cup {"write", "finCharge"} => l.c # None
  /\ q # Operator /\ l.pc = "create" => l.c # None
  /\ l.pc \in SettlePCs \cup FinalPCs => l.a # None /\ l.u # None /\ row[l.u] # None
  /\ l.pc \in SettlePCs => SplitAtMonthBoundary(l.a.start, l.until)
  /\ l.pc \in Counting => l.seg = Segment(l.a, MonthEnd(l.a.start))
  /\ l.pc \in {"segWrite", "finWrite"} => l.r # None
  /\ q = Operator /\ l.pc # "idle" => l.u # None /\ l.r # None /\ row[l.u] # None
  /\ q = Operator /\ l.pc = "close" => l.u \in report
  /\ l.a # None => l.a.start <= now
  /\ l.until <= now

KnowsAll == \A q \in Procs : Knows(q, loc[q])

\* A session has begun.
Begun == {"live", "done"} \cup SettlePCs \cup FinalPCs

\* What is live has a goroutine that will end it, and the ticker's copies are of
\* sessions that have a row.
SessionOK(u) ==
  /\ active[u] # None <=> loc[u].pc = "live"
  /\ row[u] # None <=> loc[u].pc \in Begun
  /\ span[u] # None <=> row[u] # None
  /\ active[u] # None => active[u].start <= now
  /\ snap[u] # None => row[u] # None /\ snap[u].start <= now
  /\ span[u] # None => span[u].from <= now

SessionsOK == \A u \in Relays : SessionOK(u)

\* The end of a relay has written its row.
WrittenPCs == {"finRead", "final", "finReread", "finCharge", "finTotal", "done"}
Written(u) == loc[u].pc \in WrittenPCs

Awaits(u) ==
  RequireReport /\ Written(u) /\ u \notin torn =>
    row[u].status = "pending_report" \/ (row[u].status = "closed" /\ u \in report)

ReportAwaited == \A u \in Relays : Awaits(u)

-----------------------------------------------------------------------------
\* Row u bills what the session lasted up to t, with at most k roundings.
Bills(u, t, k) ==
  /\ row[u].billed >= t - span[u].from
  /\ row[u].billed <= t - span[u].from + k * (ROUND - 1)

MonthsTo(u, t) == PeriodYMAt(t) - PeriodYMAt(span[u].from)

\* Up to t, the beginning of a month or of the session.
Covers(u, t) == t >= span[u].from /\ Bills(u, t, MonthsTo(u, t))

\* Goroutine p has settled its session up to where its row says.
Settling(p, u) == 
  LET l == loc[p] IN Covers(u, IF l.pc = "segSync" THEN l.seg.to ELSE l.a.start)

TickerHas(u) == loc[Ticker].pc # "idle" /\ loc[Ticker].u = u

\* The relay has ended while the ticker settles a copy of it.
Doomed(u) == active[u] = None /\ TickerHas(u)

LiveCovered(u) ==
  active[u] # None =>
    IF TickerHas(u) THEN loc[Ticker].a = active[u] /\ Settling(Ticker, u)
    ELSE Covers(u, active[u].start)

EndCovered(u) ==
  /\ loc[u].pc \in SettlePCs \cup {"finRow", "finWrite"} => Settling(u, u)
  /\ loc[u].pc = "finWrite" => /\ loc[u].seg = Segment(loc[u].a, span[u].to)
                               /\ loc[u].a.start <= span[u].to
  /\ Written(u) => /\ span[u].to >= span[u].from
                   /\ Bills(u, span[u].to, MonthsTo(u, span[u].to) + 1)

Account(u) ==
  span[u] # None /\ Undisturbed(u) /\ ~Doomed(u) => LiveCovered(u) /\ EndCovered(u)

Accounted == \A u \in Relays : Account(u)

\* The ticker's copies of live sessions are not out of date.
Fresh(u) ==
  /\ snap[u] # None /\ active[u] # None => snap[u] = active[u]
  /\ TickerHas(u) => snap[u] = None

CopiesFresh == \A u \in Relays : Fresh(u)

BillingInv ==
  /\ BillingTypeOK
  /\ KnowsAll
  /\ SessionsOK
  /\ ReportAwaited
  /\ CopiesFresh
  /\ Accounted

-----------------------------------------------------------------------------
(* Months and minutes.                                                      *)

\* A number is within one unit of the multiple below it.
LEMMA DivBounds ==
  ASSUME NEW n \in Nat \ {0}, NEW x \in Nat
  PROVE  x \div n \in Nat /\ (x \div n) * n <= x /\ x < (x \div n) * n + n
  OBVIOUS

\* Division keeps the order.
LEMMA DivMonotone ==
  ASSUME NEW n \in Nat \ {0}, NEW x \in Nat, NEW y \in Nat, x <= y
  PROVE  x \div n <= y \div n
  OBVIOUS

\* A multiple divides back to its factor.
LEMMA DivMultiple ==
  ASSUME NEW n \in Nat \ {0}, NEW k \in Nat
  PROVE  (k * n) \div n = k /\ k * n \in Nat
  OBVIOUS

\* roundUpMinutes adds less than one unit.
LEMMA RoundBounds ==
  ASSUME NEW m \in Nat
  PROVE  roundUpMinutes(m) \in Nat /\ m <= roundUpMinutes(m) /\ roundUpMinutes(m) <= m + (ROUND - 1)
  <1> DEFINE x == m + ROUND - 1
  <1>1. ROUND \in Nat \ {0} /\ x \in Nat
    BY BillingAssumption
  <1>2. x \div ROUND \in Nat /\ (x \div ROUND) * ROUND <= x /\ x < (x \div ROUND) * ROUND + ROUND
    BY <1>1, DivBounds
  <1>3. (x \div ROUND) * ROUND \in Nat
    BY <1>1, <1>2
  <1> HIDE DEF x
  <1>4. roundUpMinutes(m) = (x \div ROUND) * ROUND
    BY DEF roundUpMinutes, x
  <1>5. PICK y \in Nat : y = (x \div ROUND) * ROUND
    BY <1>3
  <1> QED
    BY <1>1, <1>2, <1>4, <1>5 DEF x

\* The month of a minute of the model is a month of the model.
LEMMA PeriodFacts ==
  ASSUME NEW t \in 0..MaxTime
  PROVE  /\ PeriodYMAt(t) \in Nat /\ PeriodYMAt(t) \in Months
         /\ \A s \in 0..MaxTime : s <= t => PeriodYMAt(s) <= PeriodYMAt(t)
  <1>1. MONTH \in Nat \ {0} /\ MaxTime \in Nat /\ t \in Nat /\ t <= MaxTime
    BY BillingAssumption
  <1>2. PeriodYMAt(t) \in Nat /\ PeriodYMAt(MaxTime) \in Nat
    BY <1>1, DivBounds DEF PeriodYMAt
  <1>3. PeriodYMAt(t) <= PeriodYMAt(MaxTime)
    BY <1>1, DivMonotone DEF PeriodYMAt
  <1>4. ASSUME NEW s \in 0..MaxTime, s <= t PROVE PeriodYMAt(s) <= PeriodYMAt(t)
    BY <1>1, <1>4, DivMonotone DEF PeriodYMAt
  <1> QED
    BY <1>2, <1>3, <1>4 DEF Months

\* The end of a month is the first minute of the next.
LEMMA MonthEndFacts ==
  ASSUME NEW t \in Nat
  PROVE  /\ PeriodYMAt(t) \in Nat /\ MonthEnd(t) \in Nat /\ t < MonthEnd(t)
         /\ PeriodYMAt(MonthEnd(t)) = PeriodYMAt(t) + 1
  <1>1. MONTH \in Nat \ {0}
    BY BillingAssumption
  <1>2. PICK k \in Nat : k = t \div MONTH /\ k * MONTH <= t /\ t < k * MONTH + MONTH
    BY <1>1, DivBounds
  <1>3. MonthEnd(t) = (k + 1) * MONTH /\ k + 1 \in Nat
    BY <1>2 DEF MonthEnd, PeriodYMAt
  <1>4. (k + 1) * MONTH = k * MONTH + MONTH
    BY <1>1
  <1>5. ((k + 1) * MONTH) \div MONTH = k + 1 /\ (k + 1) * MONTH \in Nat
    BY <1>1, <1>3, DivMultiple
  <1> QED
    BY <1>2, <1>3, <1>4, <1>5 DEF PeriodYMAt

\* The smaller and the greater of two numbers.
LEMMA MinOfTwo ==
  ASSUME NEW x \in Int, NEW y \in Int
  PROVE  Min({x, y}) = IF x <= y THEN x ELSE y
  <1> DEFINE m == IF x <= y THEN x ELSE y
  <1>1. m \in {x, y} /\ \A z \in {x, y} : m =< z
    OBVIOUS
  <1>2. \A n \in {x, y} : (\A z \in {x, y} : n =< z) => n = m
    OBVIOUS
  <1> HIDE DEF m
  <1>3. Min({x, y}) = m
    BY <1>1, <1>2, Zenon DEF Min
  <1> QED
    BY <1>3 DEF m

\* Max, of a set of two.
LEMMA MaxOfTwo ==
  ASSUME NEW x \in Int, NEW y \in Int
  PROVE  Max({x, y}) = IF x >= y THEN x ELSE y
  <1> DEFINE m == IF x >= y THEN x ELSE y
  <1>1. m \in {x, y} /\ \A z \in {x, y} : m >= z
    OBVIOUS
  <1>2. \A n \in {x, y} : (\A z \in {x, y} : n >= z) => n = m
    OBVIOUS
  <1> HIDE DEF m
  <1>3. Max({x, y}) = m
    BY <1>1, <1>2, Zenon DEF Max
  <1> QED
    BY <1>3 DEF m

\* What is billed for a part of a session: what it lasted, rounded up, of which
\* no more is included than was left in the pool.
LEMMA SegmentFacts ==
  ASSUME NEW a \in Sessions, NEW t \in 0..MaxTime, a.start <= t
  PROVE  /\ Segment(a, t) \in Segments /\ Segment(a, t).to = t
         /\ Segment(a, t).billed >= t - a.start
         /\ Segment(a, t).billed <= t - a.start + (ROUND - 1)
  <1>1. a.start \in Nat /\ a.remaining \in Nat /\ t \in Nat /\ t - a.start \in Nat
    BY BillingAssumption DEF Sessions
  <1>2. PICK b \in Nat : /\ b = roundUpMinutes(t - a.start)
                         /\ t - a.start <= b /\ b <= t - a.start + (ROUND - 1)
    BY <1>1, RoundBounds
  <1>3. PICK i \in Nat : i = Min({b, a.remaining}) /\ i <= b
    BY <1>1, MinOfTwo
  <1>4. Segment(a, t) = [billed |-> b, included |-> i, overage |-> b - i, to |-> t]
    BY <1>2, <1>3 DEF Segment
  <1>5. b - i \in Nat
    BY <1>3
  <1> QED
    BY <1>2, <1>4, <1>5 DEF Segments

\* The segment of a goroutine that bills nothing.
LEMMA NoSegmentFacts == NoSegment \in Segments
  <1>1. PICK b \in Nat : b = roundUpMinutes(0 - 0)
    BY RoundBounds
  <1>2. PICK i \in Nat : i = Min({b, 0}) /\ i <= b
    BY MinOfTwo
  <1>3. NoSegment = [billed |-> b, included |-> i, overage |-> b - i, to |-> 0]
    BY <1>1, <1>2 DEF NoSegment, Segment
  <1>4. b - i \in Nat /\ 0 \in 0..MaxTime
    BY <1>2, BillingAssumption
  <1> QED
    BY <1>3, <1>4 DEF Segments

\* The pool never falls below zero.
LEMMA ChargeFacts ==
  ASSUME NEW c \in Copies, NEW seg \in Segments
  PROVE  Charge(c, seg) \in Copies
  <1>1. c.remaining \in 0..INCLUDED /\ seg.included \in Nat /\ INCLUDED \in Nat
    BY BillingAssumption DEF Copies, Segments
  <1>2. PICK m \in 0..INCLUDED : m = Max({0, c.remaining - seg.included})
    BY <1>1, MaxOfTwo
  <1>3. Charge(c, seg) = [c EXCEPT !.remaining = m]
    BY <1>2 DEF Charge
  <1> QED
    BY <1>3 DEF Copies

\* Billed adds the minutes of a segment to a row and keeps its status.
LEMMA BilledFacts ==
  ASSUME NEW r \in Rows, NEW seg \in Segments
  PROVE  /\ Billed(r, seg) \in Rows /\ Billed(r, seg).billed = r.billed + seg.billed
         /\ Billed(r, seg).status = r.status
  <1>1. /\ r.billed \in Nat /\ r.included \in Nat /\ r.overage \in Nat
        /\ seg.billed \in Nat /\ seg.included \in Nat /\ seg.overage \in Nat
    BY DEF Rows, Segments
  <1>3. /\ r.billed + seg.billed \in Nat /\ r.included + seg.included \in Nat
        /\ r.overage + seg.overage \in Nat
    BY <1>1
  <1> QED
    BY <1>3 DEF Billed, Rows

\* A goroutine that does nothing.
LEMMA NewProcTyped == NewProc \in Proc /\ \A u \in Relays : [NewProc EXCEPT !.u = u] \in Proc
  <1>1. 0 \in Months /\ 0 \in 0..MaxTime
    BY BillingAssumption, PeriodFacts DEF Months
  <1> QED
    BY <1>1, NoSegmentFacts DEF NewProc, Proc, PCs, AtRest

-----------------------------------------------------------------------------
(* Steps of one goroutine.                                                  *)

Grows ==
  /\ now \in 0..MaxTime /\ now' \in 0..MaxTime /\ now <= now'
  /\ report \subseteq report'
  /\ \A u \in Relays : row[u] # None => row'[u] # None

\* A goroutine that moves on knows what it needs, and the others still do.
LEMMA Moved ==
  ASSUME loc \in [Procs -> Proc], KnowsAll, Grows,
         NEW p \in Procs, NEW l \in Proc, loc' = [loc EXCEPT ![p] = l], Knows(p, l)'
  PROVE  loc' \in [Procs -> Proc] /\ KnowsAll'
  <1>1. loc' \in [Procs -> Proc]
    OBVIOUS
  <1>2. ASSUME NEW q \in Procs, q # p PROVE Knows(q, loc[q])'
    <2>1. PICK m \in Proc : m = loc[q] /\ loc'[q] = m
      BY <1>2
    <2>2. Knows(q, m)
      BY <2>1 DEF KnowsAll
    <2>3. m.a # None => m.a.start \in Nat
      BY BillingAssumption DEF Proc, Sessions
    <2>4. m.until \in Nat /\ now \in Nat /\ now' \in Nat /\ (m.u # None => m.u \in Relays)
      BY BillingAssumption DEF Proc, Grows
    <2>5. Knows(q, m)'
      BY <2>2, <2>3, <2>4 DEF Knows, Grows
    <2>6. QED
      BY <2>1, <2>5
  <1>3. Knows(p, loc[p])'
    <2>1. loc'[p] = l
      OBVIOUS
    <2> QED
      BY <2>1
  <1> QED
    BY <1>1, <1>2, <1>3 DEF KnowsAll

\* The same for a step that leaves the clock, the rows and the reports alone.
LEMMA MovedAlone ==
  ASSUME BillingTypeOK, KnowsAll, UNCHANGED <<now, row, report>>,
         NEW p \in Procs, NEW l \in Proc, Knows(p, l), loc' = [loc EXCEPT ![p] = l]
  PROVE  loc' \in [Procs -> Proc] /\ KnowsAll'
  <1>1. Grows
    BY DEF Grows, BillingTypeOK
  <1>2. Knows(p, l)'
    BY DEF Knows
  <1>3. loc \in [Procs -> Proc]
    BY DEF BillingTypeOK
  <1> QED
    BY <1>1, <1>2, <1>3, Moved

\* A step of EnsureContractPeriod.
LEMMA EnsureTyped ==
  ASSUME BillingTypeOK, KnowsAll, NEW p \in Procs, EnsureStep(p)
  PROVE  BillingTypeOK' /\ KnowsAll'
  <1>1. PICK m \in Proc : m = loc[p] /\ Knows(p, m)
    BY DEF BillingTypeOK, KnowsAll
  <1>2. m.pc \in Ensuring /\ m.c \in Copies /\ m.c.period \in Months \cup {-1}
    <2>1. m.pc \in Ensuring
      BY <1>1 DEF EnsureStep, EnsureLook, EnsureFill, EnsureRoll, InCall
    <2>2. m.c \in Copies
      BY <1>1, <2>1 DEF Knows, Proc
    <2> QED
      BY <2>1, <2>2 DEF Copies
  <1>3. PeriodYMAt(now) \in Months /\ 0 \in Months
    BY PeriodFacts, BillingAssumption DEF BillingTypeOK, Months
  <1>4. CASE EnsureLook(p)
    <2>1. CASE m.c.period = PeriodYMAt(now)
      <3>1. PICK l : l = [[m EXCEPT !.ens = "look"] EXCEPT !.pc = Returns[m.pc]]
        OBVIOUS
      <3>2. l \in Proc /\ Knows(p, l)
        <4>1. Returns[m.pc] \in {"check", "reread", "segReread", "finReread"}
          BY <1>2 DEF Ensuring, Returns
        <4>2. /\ l \in Proc /\ l.ens = "look" /\ l.pc = Returns[m.pc]
              /\ l.u = m.u /\ l.a = m.a /\ l.c = m.c /\ l.r = m.r /\ l.seg = m.seg /\ l.until = m.until
          BY <3>1, <4>1 DEF Proc, PCs, SettlePCs, FinalPCs
        <4>3. (m.pc = "segment" <=> l.pc = "segReread") /\ (m.pc = "final" <=> l.pc = "finReread")
          BY <1>2, <4>2 DEF Ensuring, Returns
        <4> QED
          BY <1>1, <1>2, <4>1, <4>2, <4>3
             DEF Knows, PCs, Ensuring, SettlePCs, FinalPCs, RelayPCs, Counting
      <3>3. loc' = [loc EXCEPT ![p] = l]
        BY <1>1, <1>4, <2>1, <3>1 DEF EnsureLook, Return, Goto
      <3> QED
        BY <1>4, <3>2, <3>3, MovedAlone DEF EnsureLook, db, memory, history, BillingTypeOK
    <2>2. CASE m.c.period # PeriodYMAt(now)
      <3>1. PICK l : l = [[m EXCEPT !.period = PeriodYMAt(now),
                                    !.ens = IF m.c.period >= 0 /\ total[m.c.period] = None
                                            THEN "fill" ELSE "roll"] EXCEPT !.pc = m.pc]
        OBVIOUS
      <3>2. /\ l \in Proc /\ l.ens \in {"fill", "roll"} /\ l.pc = m.pc /\ l.u = m.u /\ l.a = m.a
            /\ l.c = m.c /\ l.r = m.r /\ l.seg = m.seg /\ l.until = m.until
            /\ l.ens = "fill" => m.c.period >= 0
        BY <1>3, <3>1 DEF Proc
      <3>4. Knows(p, l)
        BY <1>1, <1>2, <3>2 DEF Knows
      <3>3. loc' = [loc EXCEPT ![p] = l]
        BY <1>1, <1>4, <2>2, <3>1 DEF EnsureLook, Goto
      <3> QED
        BY <1>4, <3>2, <3>3, <3>4, MovedAlone DEF EnsureLook, db, memory, history, BillingTypeOK
    <2> QED
      BY <2>1, <2>2
  <1>5. CASE EnsureFill(p)
    <2>1. PICK l : l = [m EXCEPT !.ens = "roll"]
      OBVIOUS
    <2>2. l \in Proc /\ Knows(p, l)
      BY <1>1, <1>2, <2>1 DEF Knows, Proc
    <2>3. loc' = [loc EXCEPT ![p] = l]
      BY <1>1, <1>5, <2>1 DEF EnsureFill
    <2>4. m.c.period \in Months /\ m.c.remaining \in Int /\ INCLUDED \in Int
      <3>1. m.c.period >= 0
        BY <1>1, <1>5 DEF EnsureFill, InCall, Knows
      <3> QED
        BY <1>2, <3>1, BillingAssumption DEF Copies
    <2>5. PICK x \in Nat : x = Max({0, INCLUDED - m.c.remaining})
      BY <2>4, MaxOfTwo
    <2>6. total' \in [Months -> Nat \cup {None}] /\ overwritten' \subseteq Months
      BY <1>1, <1>5, <2>4, <2>5 DEF EnsureFill, BillingTypeOK
    <2> QED
      BY <1>5, <2>2, <2>3, <2>6, MovedAlone DEF EnsureFill, memory, BillingTypeOK
  <1>6. CASE EnsureRoll(p)
    <2>1. PICK c : c = [m.c EXCEPT !.remaining = INCLUDED, !.period = m.period]
      OBVIOUS
    <2>2. c \in Copies /\ c # None
      <3>1. m.period \in Months /\ INCLUDED \in 0..INCLUDED
        BY BillingAssumption DEF Proc
      <3>2. c \in Copies
        BY <1>2, <2>1, <3>1 DEF Copies
      <3> QED
        BY <3>2, ProcsAssumption
    <2>3. PICK l : l = [[[m EXCEPT !.c = c, !.period = 0] EXCEPT !.ens = "look"]
                         EXCEPT !.pc = Returns[m.pc]]
      OBVIOUS
    <2>4. l \in Proc /\ Knows(p, l)
      <3>1. Returns[m.pc] \in {"check", "reread", "segReread", "finReread"}
        BY <1>2 DEF Ensuring, Returns
      <3>2. /\ l \in Proc /\ l.ens = "look" /\ l.pc = Returns[m.pc]
            /\ l.u = m.u /\ l.a = m.a /\ l.c = c /\ l.r = m.r /\ l.seg = m.seg /\ l.until = m.until
        BY <1>3, <2>2, <2>3, <3>1 DEF Proc, PCs, SettlePCs, FinalPCs
      <3>3. (m.pc = "segment" <=> l.pc = "segReread") /\ (m.pc = "final" <=> l.pc = "finReread")
        BY <1>2, <3>2 DEF Ensuring, Returns
      <3> QED
        BY <1>1, <1>2, <2>2, <3>1, <3>2, <3>3
           DEF Knows, PCs, Ensuring, SettlePCs, FinalPCs, RelayPCs, Counting
    <2>5. loc' = [loc EXCEPT ![p] = l]
      BY <1>1, <1>6, <2>1, <2>3 DEF EnsureRoll, Return, Goto
    <2>6. contract' \in Copies /\ clobbered' \in BOOLEAN
      BY <1>1, <1>6, <2>1, <2>2 DEF EnsureRoll, UpdateBillingContract, BillingTypeOK
    <2> QED
      BY <1>6, <2>4, <2>5, <2>6, MovedAlone DEF EnsureRoll, memory, BillingTypeOK
  <1> QED
    BY <1>4, <1>5, <1>6 DEF EnsureStep

SameWork(l, m) == l.ens = m.ens /\ l.u = m.u /\ l.a = m.a /\ l.seg = m.seg /\ l.until = m.until

\* The goroutine gets or drops a copy of the contract.
Holding(m, c, pc) == [[m EXCEPT !.c = c] EXCEPT !.pc = pc]

\* A goroutine that takes a copy of the contract keeps its work.
LEMMA HoldingFacts ==
  ASSUME NEW m \in Proc, NEW c \in Copies \cup {None}, NEW pc \in PCs
  PROVE  /\ Holding(m, c, pc) \in Proc /\ Holding(m, c, pc).pc = pc /\ Holding(m, c, pc).c = c
         /\ Holding(m, c, pc).r = m.r /\ SameWork(Holding(m, c, pc), m)
  BY DEF Proc, SameWork, Holding

\* PrepareRelay, ActivateRelay and the calls in between.
LEMMA StartTyped ==
  ASSUME BillingTypeOK, KnowsAll, NEW u \in Relays,
         \/ PrepareRelay(u) \/ CheckConnection(u) \/ ActivateRelay(u) \/ ActivateReread(u)
         \/ sweepStalePending(u)
  PROVE  BillingTypeOK' /\ KnowsAll'
  <1>1. PICK m \in Proc : m = loc[u] /\ Knows(u, m)
    BY DEF BillingTypeOK, KnowsAll, Procs
  <1>2. u \in Procs /\ u \notin {Ticker, Operator, Admin}
    BY ProcsAssumption DEF Procs
  <1>3. UNCHANGED <<now, row, report>>
    BY DEF PrepareRelay, CheckConnection, ActivateRelay, ActivateReread, sweepStalePending, db
  <1>4. ASSUME NEW pc \in {"prepare", "activate", "create"}, GetBillingContract(u, pc),
               m.pc \in {"idle", "waiting", "reread"}
        PROVE  loc' \in [Procs -> Proc] /\ KnowsAll'
    <2>1. PICK l : l = Holding(m, contract, pc)
      OBVIOUS
    <2>2. l \in Proc /\ l.pc = pc /\ l.c = contract /\ l.c # None /\ l.r = m.r /\ SameWork(l, m)
      <3>1. pc \in PCs /\ contract \in Copies /\ contract # None
        BY ProcsAssumption DEF PCs, BillingTypeOK
      <3> QED
        BY <2>1, <3>1, HoldingFacts
    <2>3. Knows(u, l)
      BY <1>1, <1>2, <1>4, <2>2
         DEF Knows, SameWork, PCs, Ensuring, SettlePCs, FinalPCs, RelayPCs, Counting
    <2>4. loc' = [loc EXCEPT ![u] = l]
      BY <1>1, <1>4, <2>1 DEF GetBillingContract, Goto, Holding
    <2> QED
      BY <1>2, <1>3, <2>2, <2>3, <2>4, MovedAlone
  <1>5. ASSUME NEW pc \in {"waiting", "unbilled"}, NEW c \in {m.c, None},
               loc' = [loc EXCEPT ![u] = [[loc[u] EXCEPT !.c = c] EXCEPT !.pc = pc]],
               m.pc \in {"idle", "waiting", "check"}
        PROVE  loc' \in [Procs -> Proc] /\ KnowsAll'
    <2>1. PICK l : l = [[m EXCEPT !.c = c] EXCEPT !.pc = pc]
      OBVIOUS
    <2>2. l \in Proc /\ l.pc = pc /\ l.c = c /\ l.r = m.r /\ SameWork(l, m)
      BY <1>5, <2>1 DEF Proc, SameWork, PCs, AtRest
    <2>3. Knows(u, l)
      BY <1>1, <1>2, <1>5, <2>2
         DEF Knows, SameWork, PCs, AtRest, Ensuring, SettlePCs, FinalPCs, RelayPCs, Counting
    <2>4. loc' = [loc EXCEPT ![u] = l]
      BY <1>1, <1>5, <2>1
    <2> QED
      BY <1>2, <1>3, <2>2, <2>3, <2>4, MovedAlone
  <1>6. loc[u] = [loc[u] EXCEPT !.c = m.c]
    BY <1>1 DEF Proc
  <1>7. CASE PrepareRelay(u)
    <2>1. m.pc = "idle" /\ requests' \in 0..MaxRequests
      BY <1>1, <1>7, BillingAssumption DEF PrepareRelay, Enters, At, BillingTypeOK
    <2>2. GetBillingContract(u, "prepare") \/ Goto(u, loc[u], "unbilled")
      BY <1>7 DEF PrepareRelay
    <2>3. loc' \in [Procs -> Proc] /\ KnowsAll'
      BY <1>4, <1>5, <1>6, <2>1, <2>2 DEF Goto
    <2> QED
      BY <1>7, <2>1, <2>3 DEF PrepareRelay, db, memory, history, BillingTypeOK
  <1>8. CASE CheckConnection(u)
    <2>1. m.pc = "check"
      BY <1>1, <1>8 DEF CheckConnection, At
    <2>2. loc' \in [Procs -> Proc] /\ KnowsAll'
      BY <1>5, <1>8, <2>1 DEF CheckConnection, Goto
    <2>3. pending' \in [Relays -> 0..MaxTime \cup {None}]
      BY <1>8 DEF CheckConnection, BillingTypeOK
    <2> QED
      BY <1>8, <2>2, <2>3 DEF CheckConnection, db, history, BillingTypeOK
  <1>9. CASE ActivateRelay(u)
    <2>1. m.pc = "waiting"
      BY <1>1, <1>9 DEF ActivateRelay, Enters, At
    <2>2. GetBillingContract(u, "activate") \/ Goto(u, loc[u], "unbilled")
      BY <1>9 DEF ActivateRelay
    <2>3. loc' \in [Procs -> Proc] /\ KnowsAll'
      BY <1>4, <1>5, <1>6, <2>1, <2>2 DEF Goto
    <2>4. pending' \in [Relays -> 0..MaxTime \cup {None}]
      BY <1>9 DEF ActivateRelay, BillingTypeOK
    <2> QED
      BY <1>9, <2>3, <2>4 DEF ActivateRelay, db, history, BillingTypeOK
  <1>10. CASE ActivateReread(u)
    <2>1. m.pc = "reread"
      BY <1>1, <1>10 DEF ActivateReread, At
    <2>2. loc' \in [Procs -> Proc] /\ KnowsAll'
      BY <1>4, <1>10, <2>1 DEF ActivateReread
    <2> QED
      BY <1>10, <2>2 DEF ActivateReread, db, memory, history, BillingTypeOK
  <1>11. CASE sweepStalePending(u)
    <2>1. KnowsAll'
      BY <1>3, <1>11 DEF sweepStalePending, KnowsAll, Knows
    <2>2. pending' \in [Relays -> 0..MaxTime \cup {None}]
      BY <1>11 DEF sweepStalePending, BillingTypeOK
    <2> QED
      BY <1>11, <2>1, <2>2 DEF sweepStalePending, db, history, BillingTypeOK
  <1> QED
    BY <1>7, <1>8, <1>9, <1>10, <1>11

\* The session begins: its row is created and it becomes live.
LEMMA CreateTyped ==
  ASSUME BillingTypeOK, KnowsAll, NEW u \in Relays, CreateBillingSession(u)
  PROVE  BillingTypeOK' /\ KnowsAll'
  <1>1. PICK m \in Proc : m = loc[u] /\ Knows(u, m)
    BY DEF BillingTypeOK, KnowsAll, Procs
  <1>2. u \in Procs /\ u \notin {Ticker, Operator, Admin}
    BY ProcsAssumption DEF Procs
  <1>3. m.pc = "create" /\ m.c \in Copies
    BY <1>1, <1>2 DEF CreateBillingSession, At, Knows, Proc
  <1>4. PICK l : l = [[m EXCEPT !.c = None] EXCEPT !.pc = "live"]
    OBVIOUS
  <1>5. l \in Proc /\ l.pc = "live" /\ l.r = m.r /\ SameWork(l, m)
    BY <1>4 DEF Proc, SameWork, PCs, AtRest
  <1>6. PICK r \in Rows : r = [status |-> "active", billed |-> 0, included |-> 0, overage |-> 0]
    BY DEF Rows
  <1>7. row' = [row EXCEPT ![u] = r] /\ row' \in [Relays -> Rows \cup {None}] /\ r # None
    BY <1>6, ProcsAssumption DEF CreateBillingSession, BillingTypeOK
  <1>8. Grows
    BY <1>7 DEF Grows, CreateBillingSession, BillingTypeOK
  <1>9. Knows(u, l)'
    <2>1. m.ens = "look" /\ m.until <= now /\ (m.a # None => m.a.start <= now)
      BY <1>1, <1>3 DEF Knows, Ensuring
    <2>2. now' = now
      BY DEF CreateBillingSession
    <2> QED
      BY <1>1, <1>2, <1>5, <2>1, <2>2
         DEF Knows, SameWork, PCs, AtRest, Ensuring, SettlePCs, FinalPCs, RelayPCs, Counting
  <1>10. loc' = [loc EXCEPT ![u] = l]
    BY <1>1, <1>4 DEF CreateBillingSession, Goto
  <1>11. loc' \in [Procs -> Proc] /\ KnowsAll'
    BY <1>2, <1>5, <1>8, <1>9, <1>10, Moved DEF BillingTypeOK
  <1>12. active' \in [Relays -> Sessions \cup {None}]
    <2>1. PICK a \in Sessions : a = [start |-> now, remaining |-> m.c.remaining]
      BY <1>3 DEF Sessions, Copies, BillingTypeOK
    <2> QED
      BY <1>1, <2>1 DEF CreateBillingSession, BillingTypeOK
  <1>13. span' \in [Relays -> [from : 0..MaxTime, to : 0..MaxTime] \cup {None}]
    BY DEF CreateBillingSession, BillingTypeOK
  <1> QED
    BY <1>7, <1>11, <1>12, <1>13 DEF CreateBillingSession, BillingTypeOK

\* The loop head of settleCrossingMonth.
LEMMA SplitMoves ==
  ASSUME BillingTypeOK, KnowsAll, NEW p \in Relays \cup {Ticker}, NEW m \in Proc, Split(p, m),
         UNCHANGED <<now, row, report>>,
         m.ens = "look", m.a # None, m.u \in Relays, p \in Relays => m.u = p, row[m.u] # None,
         m.a.start <= now, m.until <= now
  PROVE  /\ loc' \in [Procs -> Proc] /\ KnowsAll'
         /\ \A q \in Procs : q # p => loc'[q] = loc[q]
         /\ \/ /\ loc'[p].pc = "segCharge" /\ loc'[p].u = m.u /\ loc'[p].a = m.a
            \/ /\ p = Ticker /\ loc'[p].pc = "idle"
            \/ /\ p # Ticker /\ loc'[p].pc = "finRow" /\ loc'[p].u = m.u /\ loc'[p].a = m.a
  <1>1. p \in Procs /\ p # Operator /\ p # Admin /\ contract \in Copies /\ contract # None
    BY ProcsAssumption DEF Procs, BillingTypeOK
  <1>2. SUFFICES \E l \in Proc :
                   /\ Knows(p, l) /\ loc' = [loc EXCEPT ![p] = l]
                   /\ \/ l.pc = "segCharge" /\ l.u = m.u /\ l.a = m.a
                      \/ p = Ticker /\ l.pc = "idle"
                      \/ p # Ticker /\ l.pc = "finRow" /\ l.u = m.u /\ l.a = m.a
    <2>1. PICK l \in Proc : /\ Knows(p, l) /\ loc' = [loc EXCEPT ![p] = l]
                            /\ \/ l.pc = "segCharge" /\ l.u = m.u /\ l.a = m.a
                               \/ p = Ticker /\ l.pc = "idle"
                               \/ p # Ticker /\ l.pc = "finRow" /\ l.u = m.u /\ l.a = m.a
      BY <1>2
    <2>2. loc \in [Procs -> Proc]
      BY DEF BillingTypeOK
    <2>3. loc' \in [Procs -> Proc] /\ KnowsAll'
      BY <1>1, <2>1, MovedAlone
    <2>4. loc'[p] = l /\ \A q \in Procs : q # p => loc'[q] = loc[q]
      BY <1>1, <2>1, <2>2
    <2> QED
      BY <2>1, <2>3, <2>4
  <1>3. CASE SplitAtMonthBoundary(m.a.start, m.until)
    <2>1. PICK l : l = [[m EXCEPT !.c = contract] EXCEPT !.pc = "segCharge"]
      OBVIOUS
    <2>2. l \in Proc /\ l.pc = "segCharge" /\ l.c = contract /\ SameWork(l, m)
      BY <1>1, <2>1 DEF Proc, SameWork, PCs, SettlePCs
    <2>3. Knows(p, l)
      BY <1>1, <1>3, <2>2, ProcsAssumption
         DEF Knows, SameWork, PCs, Ensuring, SettlePCs, FinalPCs, RelayPCs, Counting
    <2>4. loc' = [loc EXCEPT ![p] = l]
      BY <1>3, <2>1 DEF Split, Goto
    <2> QED
      BY <2>2, <2>3, <2>4 DEF SameWork
  <1>4. CASE ~SplitAtMonthBoundary(m.a.start, m.until) /\ p = Ticker
    <2>1. PICK l : l = [NewProc EXCEPT !.pc = "idle"]
      OBVIOUS
    <2>2. l = NewProc
      BY <2>1 DEF NewProc
    <2>3. l \in Proc /\ l.pc = "idle" /\ l.ens = "look" /\ l.a = None /\ l.until = 0
      BY <2>2, NewProcTyped DEF NewProc
    <2>4. Knows(p, l)
      BY <1>1, <1>4, <2>3, ProcsAssumption, BillingAssumption
         DEF Knows, PCs, Ensuring, SettlePCs, FinalPCs, RelayPCs, Counting, BillingTypeOK
    <2>5. loc' = [loc EXCEPT ![p] = l]
      BY <1>4, <2>1 DEF Split, Goto
    <2> QED
      BY <1>4, <2>3, <2>4, <2>5
  <1>5. CASE ~SplitAtMonthBoundary(m.a.start, m.until) /\ p # Ticker
    <2>1. PICK l : l = [[m EXCEPT !.c = None, !.until = 0] EXCEPT !.pc = "finRow"]
      OBVIOUS
    <2>2. 0 \in 0..MaxTime /\ 0 <= now
      BY BillingAssumption DEF BillingTypeOK
    <2>3. /\ l \in Proc /\ l.pc = "finRow" /\ l.ens = "look" /\ l.u = m.u /\ l.a = m.a
          /\ l.until = 0
      BY <2>1, <2>2 DEF Proc, PCs, FinalPCs
    <2>4. Knows(p, l)
      BY <1>1, <1>5, <2>2, <2>3, ProcsAssumption
         DEF Knows, PCs, Ensuring, SettlePCs, FinalPCs, RelayPCs, Counting
    <2>5. loc' = [loc EXCEPT ![p] = l]
      BY <1>5, <2>1 DEF Split, Goto
    <2> QED
      BY <1>5, <2>3, <2>4, <2>5
  <1> QED
    BY <1>3, <1>4, <1>5

\* The end of the month that is being settled is a minute of the model.
LEMMA SegmentOfMonth ==
  ASSUME NEW a \in Sessions, NEW until \in 0..MaxTime, SplitAtMonthBoundary(a.start, until)
  PROVE  /\ MonthEnd(a.start) \in 0..MaxTime /\ a.start <= MonthEnd(a.start)
         /\ MonthEnd(a.start) <= until
         /\ Segment(a, MonthEnd(a.start)) \in Segments
         /\ Segment(a, MonthEnd(a.start)).to = MonthEnd(a.start)
         /\ PeriodYMAt(a.start) \in Months
  <1>1. a.start \in 0..MaxTime /\ a.start \in Nat /\ MaxTime \in Nat
    BY BillingAssumption DEF Sessions
  <1>2. MonthEnd(a.start) \in Nat /\ a.start < MonthEnd(a.start) /\ MonthEnd(a.start) < until
    BY <1>1, MonthEndFacts DEF SplitAtMonthBoundary
  <1>3. MonthEnd(a.start) \in 0..MaxTime /\ a.start <= MonthEnd(a.start)
    BY <1>1, <1>2
  <1>4. PeriodYMAt(a.start) \in Months
    BY <1>1, PeriodFacts
  <1> QED
    BY <1>2, <1>3, <1>4, SegmentFacts

\* A goroutine that settles a month.
LEMMA SettlerFacts ==
  ASSUME BillingTypeOK, KnowsAll, NEW p \in Relays \cup {Ticker}, loc[p].pc \in SettlePCs
  PROVE  /\ p \in Procs /\ p # Operator /\ p # Admin
         /\ loc[p] \in Proc /\ Knows(p, loc[p]) /\ loc[p].a \in Sessions /\ loc[p].u \in Relays
         /\ row[loc[p].u] \in Rows /\ loc[p].c \in Copies /\ loc[p].seg \in Segments
         /\ loc[p].until \in 0..MaxTime /\ SplitAtMonthBoundary(loc[p].a.start, loc[p].until)
         /\ loc[p].a.start <= now /\ loc[p].until <= now
         /\ p \in Relays => loc[p].u = p
  <1>1. p \in Procs /\ p # Operator /\ p # Admin /\ loc[p] \in Proc /\ Knows(p, loc[p])
    BY ProcsAssumption DEF Procs, BillingTypeOK, KnowsAll
  <1>2. /\ loc[p].a # None /\ loc[p].u # None /\ row[loc[p].u] # None /\ loc[p].c # None
        /\ SplitAtMonthBoundary(loc[p].a.start, loc[p].until)
        /\ loc[p].a.start <= now /\ loc[p].until <= now
        /\ p \in Relays => loc[p].u = p
    BY <1>1 DEF Knows
  <1>3. /\ loc[p].a \in Sessions /\ loc[p].u \in Relays /\ loc[p].c \in Copies
        /\ loc[p].seg \in Segments /\ loc[p].until \in 0..MaxTime
    BY <1>1, <1>2 DEF Proc
  <1> QED
    BY <1>1, <1>2, <1>3 DEF BillingTypeOK

\* settleCrossingMonth up to its write of the row.
LEMMA SettleTyped ==
  ASSUME BillingTypeOK, KnowsAll, NEW p \in Relays \cup {Ticker},
         SegmentCharge(p) \/ SegmentReread(p) \/ SegmentTotal(p) \/ SegmentRow(p)
  PROVE  BillingTypeOK' /\ KnowsAll'
  <1>1. loc[p].pc \in SettlePCs /\ UNCHANGED <<now, row, report>>
    BY DEF SegmentCharge, SegmentReread, SegmentTotal, SegmentRow, At, SettlePCs, db
  <1>2. PICK m \in Proc : m = loc[p]
    BY <1>1, SettlerFacts
  <1>3. /\ p \in Procs /\ p # Operator /\ p # Admin
        /\ Knows(p, m) /\ m.a \in Sessions /\ m.u \in Relays /\ row[m.u] \in Rows
        /\ m.c \in Copies /\ m.seg \in Segments /\ m.until \in 0..MaxTime
        /\ SplitAtMonthBoundary(m.a.start, m.until)
    BY <1>1, <1>2, SettlerFacts
  <1>4. None \notin Copies /\ None \notin Rows /\ contract \in Copies
    BY ProcsAssumption DEF BillingTypeOK
  <1>5. CASE SegmentCharge(p)
    <2>1. PICK seg \in Segments : seg = Segment(m.a, MonthEnd(m.a.start))
      BY <1>3, SegmentOfMonth
    <2>2. PICK c \in Copies : c = Charge(m.c, seg)
      BY <1>3, ChargeFacts
    <2>3. PICK l : l = [[m EXCEPT !.c = c, !.seg = seg] EXCEPT !.pc = "segment"]
      OBVIOUS
    <2>4. /\ l \in Proc /\ l.pc = "segment" /\ l.ens = m.ens /\ l.u = m.u /\ l.a = m.a
          /\ l.c = c /\ l.r = m.r /\ l.seg = seg /\ l.until = m.until
      BY <2>3 DEF Proc, PCs, SettlePCs
    <2>5. Knows(p, l)
      BY <1>3, <1>4, <2>1, <2>4, <1>2, <1>5
         DEF Knows, SegmentCharge, At, PCs, Ensuring, SettlePCs, FinalPCs, RelayPCs, Counting
    <2>6. loc' = [loc EXCEPT ![p] = l] /\ contract' = c /\ clobbered' \in BOOLEAN
      BY <1>2, <1>5, <2>1, <2>2, <2>3
         DEF SegmentCharge, Goto, UpdateBillingContract, BillingTypeOK
    <2>7. loc' \in [Procs -> Proc] /\ KnowsAll'
      BY <1>1, <1>3, <2>4, <2>5, <2>6, MovedAlone
    <2> QED
      BY <1>5, <2>6, <2>7 DEF SegmentCharge, memory, BillingTypeOK
  <1>6. CASE SegmentReread(p)
    <2>1. PICK l : l = Holding(m, contract, "segTotal")
      OBVIOUS
    <2>2. l \in Proc /\ l.pc = "segTotal" /\ l.c = contract /\ l.r = m.r /\ SameWork(l, m)
      <3>1. "segTotal" \in PCs
        BY DEF PCs, SettlePCs
      <3> QED
        BY <1>4, <2>1, <3>1, HoldingFacts
    <2>3. Knows(p, l)
      BY <1>2, <1>3, <1>4, <1>6, <2>2
         DEF Knows, SameWork, SegmentReread, At, PCs, Ensuring, SettlePCs, FinalPCs, RelayPCs, Counting
    <2>4. loc' = [loc EXCEPT ![p] = l]
      BY <1>2, <1>6, <2>1 DEF SegmentReread, GetBillingContract, Goto, Holding
    <2>5. loc' \in [Procs -> Proc] /\ KnowsAll'
      BY <1>1, <1>3, <2>2, <2>3, <2>4, MovedAlone
    <2> QED
      BY <1>6, <2>5 DEF SegmentReread, db, memory, history, BillingTypeOK
  <1>7. CASE SegmentTotal(p)
    <2>1. PICK l : l = [m EXCEPT !.pc = "segRow"]
      OBVIOUS
    <2>2. l \in Proc /\ l.pc = "segRow" /\ l.c = m.c /\ l.r = m.r /\ SameWork(l, m)
      BY <2>1 DEF Proc, SameWork, PCs, SettlePCs
    <2>3. Knows(p, l)
      BY <1>2, <1>3, <1>4, <1>7, <2>2
         DEF Knows, SameWork, SegmentTotal, At, PCs, Ensuring, SettlePCs, FinalPCs, RelayPCs, Counting
    <2>4. loc' = [loc EXCEPT ![p] = l]
      BY <1>2, <1>7, <2>1 DEF SegmentTotal, Goto
    <2>5. loc' \in [Procs -> Proc] /\ KnowsAll'
      BY <1>1, <1>3, <2>2, <2>3, <2>4, MovedAlone
    <2>6. total' \in [Months -> Nat \cup {None}]
      <3>1. PICK n \in Months : n = PeriodYMAt(m.a.start)
        BY <1>3, SegmentOfMonth
      <3>2. PICK i \in Nat : i = m.seg.included
        BY <1>3 DEF Segments
      <3>3. total' = [total EXCEPT ![n] = i + (IF total[n] = None THEN 0 ELSE total[n])]
        BY <1>2, <1>7, <3>1, <3>2 DEF SegmentTotal, AddBillingPeriodUsage
      <3>4. i + (IF total[n] = None THEN 0 ELSE total[n]) \in Nat
        BY DEF BillingTypeOK
      <3> QED
        BY <3>3, <3>4 DEF BillingTypeOK
    <2> QED
      BY <1>7, <2>5, <2>6 DEF SegmentTotal, memory, history, BillingTypeOK
  <1>8. CASE SegmentRow(p)
    <2>1. PICK l : l = [[m EXCEPT !.r = row[m.u], !.u = m.u] EXCEPT !.pc = "segWrite"]
      OBVIOUS
    <2>2. l \in Proc /\ l.pc = "segWrite" /\ l.c = m.c /\ l.r = row[m.u] /\ SameWork(l, m)
      BY <1>3, <2>1 DEF Proc, SameWork, PCs, SettlePCs
    <2>3. Knows(p, l)
      BY <1>2, <1>3, <1>4, <1>8, <2>2
         DEF Knows, SameWork, SegmentRow, At, PCs, Ensuring, SettlePCs, FinalPCs, RelayPCs, Counting
    <2>4. loc' = [loc EXCEPT ![p] = l]
      BY <1>2, <1>8, <2>1 DEF SegmentRow, GetBillingSession, Goto
    <2>5. loc' \in [Procs -> Proc] /\ KnowsAll'
      BY <1>1, <1>3, <2>2, <2>3, <2>4, MovedAlone
    <2> QED
      BY <1>8, <2>5 DEF SegmentRow, db, memory, history, BillingTypeOK
  <1> QED
    BY <1>5, <1>6, <1>7, <1>8

\* Writing a row leaves it a row.
LEMMA RowWritten ==
  ASSUME BillingTypeOK, NEW p \in Procs, NEW r \in Rows, loc[p].u \in Relays,
         UpdateBillingSession(p, r)
  PROVE  /\ row' = [row EXCEPT ![loc[p].u] = r] /\ row' \in [Relays -> Rows \cup {None}]
         /\ torn' \subseteq Relays /\ torn \subseteq torn'
         /\ \A u \in Relays : /\ row[u] # None => row'[u] # None
                              /\ u # loc[p].u => row'[u] = row[u] /\ (u \in torn' <=> u \in torn)
         /\ loc[p].u \notin torn' => row[loc[p].u] = loc[p].r
  BY ProcsAssumption DEF UpdateBillingSession, BillingTypeOK

\* UpdateBillingSession of settleCrossingMonth.
LEMMA SegmentWriteTyped ==
  ASSUME BillingTypeOK, KnowsAll, NEW p \in Relays \cup {Ticker}, SegmentWrite(p)
  PROVE  BillingTypeOK' /\ KnowsAll'
  <1>1. loc[p].pc = "segWrite" /\ loc[p].pc \in SettlePCs
    BY DEF SegmentWrite, At, SettlePCs
  <1>2. PICK m \in Proc : m = loc[p]
    BY <1>1, SettlerFacts
  <1>3. /\ p \in Procs /\ p # Operator /\ p # Admin
        /\ Knows(p, m) /\ m.a \in Sessions /\ m.u \in Relays /\ row[m.u] \in Rows
        /\ m.c \in Copies /\ m.seg \in Segments /\ m.until \in 0..MaxTime
        /\ SplitAtMonthBoundary(m.a.start, m.until)
    BY <1>1, <1>2, SettlerFacts
  <1>4. m.r \in Rows
    BY <1>1, <1>2, <1>3 DEF Knows, Proc
  <1>5. PICK r \in Rows : r = Billed(m.r, m.seg)
    BY <1>3, <1>4, BilledFacts
  <1>6. UpdateBillingSession(p, r)
    BY <1>2, <1>5 DEF SegmentWrite
  <1>7. /\ row' = [row EXCEPT ![m.u] = r] /\ row' \in [Relays -> Rows \cup {None}]
        /\ torn' \subseteq Relays /\ \A u \in Relays : row[u] # None => row'[u] # None
    BY <1>2, <1>3, <1>6, RowWritten
  <1>8. PICK l : l = [[m EXCEPT !.r = None] EXCEPT !.pc = "segSync"]
    OBVIOUS
  <1>9. l \in Proc /\ l.pc = "segSync" /\ l.c = m.c /\ SameWork(l, m)
    BY <1>8 DEF Proc, SameWork, PCs, SettlePCs
  <1>10. UNCHANGED <<now, report>> /\ loc' = [loc EXCEPT ![p] = l]
    BY <1>2, <1>8 DEF SegmentWrite, Goto
  <1>11. Grows
    BY <1>7, <1>10 DEF Grows, BillingTypeOK
  <1>12. Knows(p, l)'
    <2>1. row'[m.u] # None
      BY <1>3, <1>7, ProcsAssumption
    <2> QED
      BY <1>1, <1>2, <1>3, <1>9, <1>10, <2>1, ProcsAssumption
         DEF Knows, SameWork, PCs, Ensuring, SettlePCs, FinalPCs, RelayPCs, Counting
  <1>13. loc' \in [Procs -> Proc] /\ KnowsAll'
    BY <1>3, <1>9, <1>10, <1>11, <1>12, Moved DEF BillingTypeOK
  <1> QED
    BY <1>7, <1>13 DEF SegmentWrite, memory, BillingTypeOK

\* Where the goroutine of settleCrossingMonth goes on after a month.
LEMMA SegmentSyncMoves ==
  ASSUME BillingTypeOK, KnowsAll, NEW p \in Relays \cup {Ticker}, SegmentSync(p)
  PROVE  \E a \in Sessions :
           /\ a = [start |-> loc[p].seg.to, remaining |-> loc[p].c.remaining]
           /\ loc[p].seg.to = MonthEnd(loc[p].a.start) /\ a.start <= now
           /\ loc' \in [Procs -> Proc] /\ KnowsAll'
           /\ \A q \in Procs : q # p => loc'[q] = loc[q]
           /\ \/ /\ loc'[p].pc = "segCharge" /\ loc'[p].u = loc[p].u /\ loc'[p].a = a
              \/ /\ p = Ticker /\ loc'[p].pc = "idle"
              \/ /\ p # Ticker /\ loc'[p].pc = "finRow" /\ loc'[p].u = loc[p].u /\ loc'[p].a = a
  <1>1. loc[p].pc = "segSync" /\ loc[p].pc \in SettlePCs
    BY DEF SegmentSync, At, SettlePCs
  <1>2. PICK m \in Proc : m = loc[p]
    BY <1>1, SettlerFacts
  <1>3. /\ p \in Procs /\ p # Operator /\ p # Admin
        /\ Knows(p, m) /\ m.a \in Sessions /\ m.u \in Relays /\ row[m.u] \in Rows
        /\ m.c \in Copies /\ m.seg \in Segments /\ m.until \in 0..MaxTime
        /\ SplitAtMonthBoundary(m.a.start, m.until) /\ m.until <= now
        /\ p \in Relays => m.u = p
    BY <1>1, <1>2, SettlerFacts
  <1>4. m.seg = Segment(m.a, MonthEnd(m.a.start)) /\ m.ens = "look"
    BY <1>1, <1>2, <1>3 DEF Knows, Counting, SettlePCs, Ensuring
  <1>5. m.seg.to = MonthEnd(m.a.start) /\ m.seg.to \in 0..MaxTime /\ m.seg.to <= m.until
    BY <1>3, <1>4, SegmentOfMonth
  <1>6. PICK a \in Sessions : a = [start |-> m.seg.to, remaining |-> m.c.remaining]
    BY <1>3, <1>5 DEF Sessions, Copies
  <1>7. a.start <= now
    <2>1. m.seg.to \in Int /\ m.until \in Int /\ now \in Int
      BY <1>3, <1>5, BillingAssumption DEF BillingTypeOK
    <2> QED
      BY <1>3, <1>5, <1>6, <2>1
  <1>8. PICK l : l = [m EXCEPT !.a = a, !.c = None, !.seg = NoSegment]
    OBVIOUS
  <1>9. /\ l \in Proc /\ l.ens = "look" /\ l.u = m.u /\ l.a = a /\ l.until = m.until
        /\ l.a # None
    BY <1>4, <1>8, NoSegmentFacts, ProcsAssumption DEF Proc
  <1>10. Split(p, l) /\ UNCHANGED <<now, row, report>>
    BY <1>2, <1>6, <1>8 DEF SegmentSync, db
  <1>11. row[l.u] # None
    BY <1>3, <1>9, ProcsAssumption
  <1>12. /\ loc' \in [Procs -> Proc] /\ KnowsAll'
         /\ \A q \in Procs : q # p => loc'[q] = loc[q]
         /\ \/ /\ loc'[p].pc = "segCharge" /\ loc'[p].u = l.u /\ loc'[p].a = l.a
            \/ /\ p = Ticker /\ loc'[p].pc = "idle"
            \/ /\ p # Ticker /\ loc'[p].pc = "finRow" /\ loc'[p].u = l.u /\ loc'[p].a = l.a
    BY <1>3, <1>7, <1>9, <1>10, <1>11, SplitMoves
  <1> QED
    BY <1>2, <1>5, <1>6, <1>7, <1>9, <1>12

\* The end of a month in settleCrossingMonth.
LEMMA SegmentSyncTyped ==
  ASSUME BillingTypeOK, KnowsAll, NEW p \in Relays \cup {Ticker}, SegmentSync(p)
  PROVE  BillingTypeOK' /\ KnowsAll'
  <1>1. PICK a \in Sessions :
          /\ a = [start |-> loc[p].seg.to, remaining |-> loc[p].c.remaining]
          /\ loc' \in [Procs -> Proc] /\ KnowsAll'
    BY SegmentSyncMoves
  <1>2. loc[p].pc \in SettlePCs
    BY DEF SegmentSync, At, SettlePCs
  <1>3. loc[p].u \in Relays
    BY <1>2, SettlerFacts
  <1>4. active' \in [Relays -> Sessions \cup {None}] /\ late' \subseteq Relays
    BY <1>1, <1>3 DEF SegmentSync, BillingTypeOK
  <1> QED
    BY <1>1, <1>4 DEF SegmentSync, db, BillingTypeOK

\* The ticker takes up the copy of a session.
LEMMA TickNextMoves ==
  ASSUME BillingTypeOK, KnowsAll, SessionsOK, NEW u \in Relays, TickNext(u)
  PROVE  /\ loc' \in [Procs -> Proc] /\ KnowsAll'
         /\ \A q \in Procs : q # Ticker => loc'[q] = loc[q]
         /\ \/ /\ loc'[Ticker].pc = "segCharge" /\ loc'[Ticker].u = u /\ loc'[Ticker].a = snap[u]
            \/ /\ loc'[Ticker].pc = "idle"
  <1>1. snap[u] \in Sessions /\ snap[u] # None /\ snap[u].start <= now /\ row[u] # None
    BY DEF TickNext, BillingTypeOK, SessionsOK, SessionOK, Begun
  <1>2. PICK l : l = [NewProc EXCEPT !.u = u, !.a = snap[u], !.until = now]
    OBVIOUS
  <1>3. /\ l \in Proc /\ l.ens = "look" /\ l.u = u /\ l.a = snap[u] /\ l.until = now
    <2>1. NewProc \in Proc /\ NewProc.ens = "look" /\ now \in 0..MaxTime
      BY NewProcTyped DEF NewProc, BillingTypeOK
    <2> QED
      BY <1>1, <1>2, <2>1 DEF Proc
  <1>4. Split(Ticker, l) /\ UNCHANGED <<now, row, report>> /\ now <= now
    BY <1>2, BillingAssumption DEF TickNext, db, BillingTypeOK
  <1> QED
    BY <1>1, <1>3, <1>4, SplitMoves, ProcsAssumption

\* EndRelay takes its session out of active.
LEMMA EndRelayMoves ==
  ASSUME BillingTypeOK, KnowsAll, SessionsOK, NEW u \in Relays, EndRelay(u)
  PROVE  /\ loc' \in [Procs -> Proc] /\ KnowsAll'
         /\ \A q \in Procs : q # u => loc'[q] = loc[q]
         /\ loc[u].pc = "live" /\ active[u] # None
         /\ loc'[u].pc \in {"segCharge", "finRow"} /\ loc'[u].u = u /\ loc'[u].a = active[u]
  <1>1. u \in Procs /\ u # Ticker /\ loc[u].pc = "live"
    BY ProcsAssumption DEF Procs, EndRelay, Enters, At
  <1>2. active[u] \in Sessions /\ active[u] # None /\ active[u].start <= now /\ row[u] # None
    BY <1>1 DEF BillingTypeOK, SessionsOK, SessionOK, Begun
  <1>3. loc[u] \in Proc /\ loc[u].u = u /\ loc[u].ens = "look"
    BY <1>1 DEF BillingTypeOK, KnowsAll, Knows, Ensuring
  <1>4. PICK l : l = [loc[u] EXCEPT !.a = active[u], !.until = now]
    OBVIOUS
  <1>5. l \in Proc /\ l.ens = "look" /\ l.u = u /\ l.a = active[u] /\ l.until = now
    BY <1>2, <1>3, <1>4 DEF Proc, BillingTypeOK
  <1>6. Split(u, l) /\ UNCHANGED <<now, row, report>> /\ now <= now
    BY <1>4, BillingAssumption DEF EndRelay, db, BillingTypeOK
  <1>7. /\ loc' \in [Procs -> Proc] /\ KnowsAll'
        /\ \A q \in Procs : q # u => loc'[q] = loc[q]
        /\ \/ /\ loc'[u].pc = "segCharge" /\ loc'[u].u = l.u /\ loc'[u].a = l.a
           \/ /\ u = Ticker /\ loc'[u].pc = "idle"
           \/ /\ u # Ticker /\ loc'[u].pc = "finRow" /\ loc'[u].u = l.u /\ loc'[u].a = l.a
    BY <1>2, <1>5, <1>6, SplitMoves
  <1> QED
    BY <1>1, <1>2, <1>5, <1>7

\* The steps that begin a settling: the ticker and EndRelay.
LEMMA TickTyped ==
  ASSUME BillingTypeOK, KnowsAll, SessionsOK,
         tickActive \/ \E u \in Relays : TickNext(u) \/ EndRelay(u)
  PROVE  BillingTypeOK' /\ KnowsAll'
  <1>1. CASE tickActive
    <2>1. KnowsAll'
      BY <1>1 DEF tickActive, db, KnowsAll, Knows
    <2> QED
      BY <1>1, <2>1 DEF tickActive, db, history, BillingTypeOK
  <1>2. ASSUME NEW u \in Relays, TickNext(u) PROVE BillingTypeOK' /\ KnowsAll'
    <2>1. loc' \in [Procs -> Proc] /\ KnowsAll'
      BY <1>2, TickNextMoves
    <2>2. snap' \in [Relays -> Sessions \cup {None}]
      BY <1>2 DEF TickNext, BillingTypeOK
    <2> QED
      BY <1>2, <2>1, <2>2 DEF TickNext, db, history, BillingTypeOK
  <1>3. ASSUME NEW u \in Relays, EndRelay(u) PROVE BillingTypeOK' /\ KnowsAll'
    <2>1. loc' \in [Procs -> Proc] /\ KnowsAll'
      BY <1>3, EndRelayMoves
    <2>2. active' \in [Relays -> Sessions \cup {None}]
      BY <1>3 DEF EndRelay, BillingTypeOK
    <2> QED
      BY <1>3, <2>1, <2>2 DEF EndRelay, db, history, BillingTypeOK
  <1> QED
    BY <1>1, <1>2, <1>3

\* A goroutine in finalizeSession.
LEMMA FinalFacts ==
  ASSUME BillingTypeOK, KnowsAll, NEW u \in Relays, loc[u].pc \in FinalPCs
  PROVE  /\ u \in Procs /\ u # Ticker /\ u # Operator /\ u # Admin
         /\ loc[u] \in Proc /\ Knows(u, loc[u]) /\ loc[u].u = u /\ loc[u].a \in Sessions
         /\ loc[u].a.start <= now /\ row[u] \in Rows /\ loc[u].seg \in Segments
  <1>1. /\ u \in Procs /\ u # Ticker /\ u # Operator /\ u # Admin
        /\ loc[u] \in Proc /\ Knows(u, loc[u])
    BY ProcsAssumption DEF Procs, BillingTypeOK, KnowsAll
  <1>2. loc[u].a # None /\ loc[u].u = u /\ row[u] # None /\ loc[u].a.start <= now
    BY <1>1 DEF Knows
  <1> QED
    BY <1>1, <1>2 DEF Proc, BillingTypeOK

\* finalizeSession reads the row and computes the last part.
LEMMA FinalRowMoves ==
  ASSUME BillingTypeOK, KnowsAll, SessionsOK, NEW u \in Relays, FinalRow(u)
  PROVE  /\ BillingTypeOK' /\ KnowsAll'
         /\ \A q \in Procs : q # u => loc'[q] = loc[q]
         /\ loc[u].pc = "finRow" /\ loc'[u].pc = "finWrite"
         /\ loc'[u].a = loc[u].a /\ loc'[u].seg = Segment(loc[u].a, now)
         /\ span[u] # None /\ span'[u].to = now /\ span'[u].from = span[u].from
         /\ \A v \in Relays : v # u => span'[v] = span[v]
  <1>1. loc[u].pc = "finRow" /\ loc[u].pc \in FinalPCs
    BY DEF FinalRow, At, FinalPCs
  <1>2. PICK m \in Proc : m = loc[u]
    BY <1>1, FinalFacts
  <1>3. /\ u \in Procs /\ u # Ticker /\ u # Operator /\ u # Admin
        /\ Knows(u, m) /\ m.u = u /\ m.a \in Sessions
        /\ m.a.start <= now /\ row[u] \in Rows /\ row[u] # None
    BY <1>1, <1>2, FinalFacts, ProcsAssumption
  <1>4. PICK seg \in Segments : seg = Segment(m.a, now)
    BY <1>3, SegmentFacts DEF BillingTypeOK
  <1>5. PICK l : l = [[m EXCEPT !.seg = seg, !.r = row[u]] EXCEPT !.pc = "finWrite"]
    OBVIOUS
  <1>6. /\ l \in Proc /\ l.pc = "finWrite" /\ l.ens = m.ens /\ l.u = m.u /\ l.a = m.a
        /\ l.r = row[u] /\ l.seg = seg /\ l.until = m.until
    BY <1>3, <1>5 DEF Proc, PCs, FinalPCs
  <1>7. Knows(u, l)
    BY <1>1, <1>2, <1>3, <1>6
       DEF Knows, PCs, Ensuring, SettlePCs, FinalPCs, RelayPCs, Counting
  <1>8. loc' = [loc EXCEPT ![u] = l] /\ UNCHANGED <<now, row, report>>
    BY <1>2, <1>4, <1>5 DEF FinalRow, Goto, db
  <1>9. loc' \in [Procs -> Proc] /\ KnowsAll'
    BY <1>3, <1>6, <1>7, <1>8, MovedAlone
  <1>10. span[u] # None /\ span[u] \in [from : 0..MaxTime, to : 0..MaxTime]
    BY <1>1 DEF SessionsOK, SessionOK, Begun, BillingTypeOK
  <1>11. /\ span' \in [Relays -> [from : 0..MaxTime, to : 0..MaxTime] \cup {None}]
         /\ span'[u].to = now /\ span'[u].from = span[u].from
         /\ \A v \in Relays : v # u => span'[v] = span[v]
    BY <1>10 DEF FinalRow, BillingTypeOK
  <1>12. loc'[u] = l /\ \A q \in Procs : q # u => loc'[q] = loc[q]
    BY <1>3, <1>8 DEF BillingTypeOK
  <1>13. BillingTypeOK'
    BY <1>9, <1>11 DEF FinalRow, db, memory, BillingTypeOK
  <1> QED
    BY <1>1, <1>2, <1>4, <1>6, <1>9, <1>10, <1>11, <1>12, <1>13

\* UpdateBillingSession of finalizeSession.
LEMMA FinalWriteTyped ==
  ASSUME BillingTypeOK, KnowsAll, NEW u \in Relays, FinalWrite(u)
  PROVE  BillingTypeOK' /\ KnowsAll'
  <1>1. loc[u].pc = "finWrite" /\ loc[u].pc \in FinalPCs
    BY DEF FinalWrite, At, FinalPCs
  <1>2. PICK m \in Proc : m = loc[u]
    BY <1>1, FinalFacts
  <1>3. /\ u \in Procs /\ u # Ticker /\ u # Operator /\ u # Admin
        /\ Knows(u, m) /\ m.u = u /\ m.a \in Sessions /\ m.a # None
        /\ m.a.start <= now /\ row[u] \in Rows /\ m.seg \in Segments
    BY <1>1, <1>2, FinalFacts, ProcsAssumption
  <1>4. m.r \in Rows
    BY <1>1, <1>2, <1>3 DEF Knows, Proc
  <1>5. PICK r \in Rows : r = [Billed(m.r, m.seg) EXCEPT !.status = FinalStatus]
    <2>1. Billed(m.r, m.seg) \in Rows
      BY <1>3, <1>4, BilledFacts
    <2> QED
      BY <2>1 DEF Rows, FinalStatus
  <1>6. UpdateBillingSession(u, r)
    BY <1>2, <1>5 DEF FinalWrite
  <1>7. /\ row' = [row EXCEPT ![u] = r] /\ row' \in [Relays -> Rows \cup {None}]
        /\ torn' \subseteq Relays /\ \A v \in Relays : row[v] # None => row'[v] # None
    BY <1>2, <1>3, <1>6, RowWritten
  <1>8. PICK l : l = [[m EXCEPT !.r = None] EXCEPT !.pc = "finRead"]
    OBVIOUS
  <1>9. l \in Proc /\ l.pc = "finRead" /\ l.c = m.c /\ SameWork(l, m)
    BY <1>8 DEF Proc, SameWork, PCs, FinalPCs
  <1>10. UNCHANGED <<now, report>> /\ loc' = [loc EXCEPT ![u] = l]
    BY <1>2, <1>8 DEF FinalWrite, Goto
  <1>11. Grows
    BY <1>7, <1>10 DEF Grows, BillingTypeOK
  <1>12. Knows(u, l)'
    <2>1. row'[u] # None
      BY <1>3, <1>7, ProcsAssumption
    <2> QED
      BY <1>1, <1>2, <1>3, <1>9, <1>10, <2>1, ProcsAssumption
         DEF Knows, SameWork, PCs, Ensuring, SettlePCs, FinalPCs, RelayPCs, Counting
  <1>13. loc' \in [Procs -> Proc] /\ KnowsAll'
    BY <1>3, <1>9, <1>10, <1>11, <1>12, Moved DEF BillingTypeOK
  <1> QED
    BY <1>7, <1>13 DEF FinalWrite, memory, BillingTypeOK

\* The rest of finalizeSession: the pool and the month.
LEMMA FinalTyped ==
  ASSUME BillingTypeOK, KnowsAll, NEW u \in Relays,
         FinalRead(u) \/ FinalReread(u) \/ FinalCharge(u) \/ FinalTotal(u)
  PROVE  BillingTypeOK' /\ KnowsAll'
  <1>1. loc[u].pc \in FinalPCs /\ UNCHANGED <<now, row, report>>
    BY DEF FinalRead, FinalReread, FinalCharge, FinalTotal, At, FinalPCs, db
  <1>2. PICK m \in Proc : m = loc[u]
    BY <1>1, FinalFacts
  <1>3. /\ u \in Procs /\ u # Ticker /\ u # Operator /\ u # Admin
        /\ Knows(u, m) /\ m.u = u /\ m.a \in Sessions /\ m.a # None
        /\ m.a.start <= now /\ row[u] # None /\ m.seg \in Segments
    BY <1>1, <1>2, FinalFacts, ProcsAssumption
  <1>4. contract \in Copies /\ contract # None
    BY ProcsAssumption DEF BillingTypeOK
  <1>5. CASE FinalRead(u) \/ FinalReread(u)
    <2>1. PICK pc \in {"final", "finCharge"} :
            GetBillingContract(u, pc) /\ m.pc \in {"finRead", "finReread"}
      BY <1>2, <1>5 DEF FinalRead, FinalReread, At
    <2>2. PICK l : l = Holding(m, contract, pc)
      OBVIOUS
    <2>3. l \in Proc /\ l.pc = pc /\ l.c = contract /\ l.r = m.r /\ SameWork(l, m)
      <3>1. pc \in PCs
        BY <2>1 DEF PCs, FinalPCs
      <3> QED
        BY <1>4, <2>2, <3>1, HoldingFacts
    <2>4. Knows(u, l)
      BY <1>3, <1>4, <2>1, <2>3
         DEF Knows, SameWork, PCs, Ensuring, SettlePCs, FinalPCs, RelayPCs, Counting
    <2>5. loc' = [loc EXCEPT ![u] = l]
      BY <1>2, <2>1, <2>2 DEF GetBillingContract, Goto, Holding
    <2>6. loc' \in [Procs -> Proc] /\ KnowsAll'
      BY <1>1, <1>3, <2>3, <2>4, <2>5, MovedAlone
    <2> QED
      BY <1>5, <2>6 DEF FinalRead, FinalReread, db, memory, history, BillingTypeOK
  <1>6. CASE FinalCharge(u)
    <2>1. m.pc = "finCharge" /\ m.c \in Copies
      BY <1>2, <1>3, <1>6 DEF FinalCharge, At, Knows, Proc
    <2>2. PICK l : l = Holding(m, None, "finTotal")
      OBVIOUS
    <2>3. l \in Proc /\ l.pc = "finTotal" /\ l.r = m.r /\ SameWork(l, m)
      <3>1. "finTotal" \in PCs
        BY DEF PCs, FinalPCs
      <3> QED
        BY <2>2, <3>1, HoldingFacts
    <2>4. Knows(u, l)
      BY <1>3, <2>1, <2>3
         DEF Knows, SameWork, PCs, Ensuring, SettlePCs, FinalPCs, RelayPCs, Counting
    <2>5. loc' = [loc EXCEPT ![u] = l]
      BY <1>2, <1>6, <2>2 DEF FinalCharge, Goto, Holding
    <2>6. loc' \in [Procs -> Proc] /\ KnowsAll'
      BY <1>1, <1>3, <2>3, <2>4, <2>5, MovedAlone
    <2>7. contract' \in Copies /\ clobbered' \in BOOLEAN
      BY <1>2, <1>3, <1>6, <2>1, ChargeFacts DEF FinalCharge, UpdateBillingContract, BillingTypeOK
    <2> QED
      BY <1>6, <2>6, <2>7 DEF FinalCharge, memory, BillingTypeOK
  <1>7. CASE FinalTotal(u)
    <2>1. PICK l : l = [[NewProc EXCEPT !.u = u] EXCEPT !.pc = "done"]
      OBVIOUS
    <2>2. /\ l \in Proc /\ l.pc = "done" /\ l.ens = "look" /\ l.u = u /\ l.a = None
          /\ l.until = 0
      <3>1. [NewProc EXCEPT !.u = u] \in Proc
        BY NewProcTyped
      <3> QED
        BY <2>1, <3>1 DEF Proc, NewProc, PCs, AtRest
    <2>3. Knows(u, l)
      BY <1>3, <2>2, BillingAssumption
         DEF Knows, PCs, AtRest, Ensuring, SettlePCs, FinalPCs, RelayPCs, Counting, BillingTypeOK
    <2>4. loc' = [loc EXCEPT ![u] = l]
      BY <1>7, <2>1 DEF FinalTotal, Goto
    <2>5. loc' \in [Procs -> Proc] /\ KnowsAll'
      BY <1>1, <1>3, <2>2, <2>3, <2>4, MovedAlone
    <2>6. total' \in [Months -> Nat \cup {None}]
      <3>1. PICK n \in Months : n = PeriodYMAt(m.a.start)
        BY <1>3, PeriodFacts DEF Sessions
      <3>2. PICK i \in Nat : i = m.seg.included
        BY <1>3 DEF Segments
      <3>3. total' = [total EXCEPT ![n] = i + (IF total[n] = None THEN 0 ELSE total[n])]
        BY <1>2, <1>7, <3>1, <3>2 DEF FinalTotal, AddBillingPeriodUsage
      <3>4. i + (IF total[n] = None THEN 0 ELSE total[n]) \in Nat
        BY DEF BillingTypeOK
      <3> QED
        BY <3>3, <3>4 DEF BillingTypeOK
    <2> QED
      BY <1>7, <2>5, <2>6 DEF FinalTotal, memory, history, BillingTypeOK
  <1> QED
    BY <1>5, <1>6, <1>7

\* The goroutine of the operator or of the administrator ends.
LEMMA IdleAgain ==
  ASSUME NEW p \in {Operator, Admin}
  PROVE  /\ [NewProc EXCEPT !.pc = "idle"] \in Proc
         /\ BillingTypeOK => Knows(p, [NewProc EXCEPT !.pc = "idle"])
         /\ BillingTypeOK' => Knows(p, [NewProc EXCEPT !.pc = "idle"])'
         /\ p \in Procs /\ p \notin Relays /\ p # Ticker
  <1>1. PICK l \in Proc : l = [NewProc EXCEPT !.pc = "idle"] /\ l = NewProc
    BY NewProcTyped DEF NewProc
  <1>2. l.pc = "idle" /\ l.ens = "look" /\ l.a = None /\ l.until = 0 /\ p \notin Relays /\ p # Ticker
    BY <1>1, ProcsAssumption DEF NewProc
  <1>3. BillingTypeOK => Knows(p, l)
    BY <1>2, BillingAssumption
       DEF Knows, Ensuring, SettlePCs, FinalPCs, Counting, BillingTypeOK
  <1>4. BillingTypeOK' => Knows(p, l)'
    BY <1>2, BillingAssumption
       DEF Knows, Ensuring, SettlePCs, FinalPCs, Counting, BillingTypeOK
  <1> QED
    BY <1>1, <1>2, <1>3, <1>4 DEF Procs

\* SubmitWorkReport reads the row, stores the report and closes the row.
LEMMA ReportTyped ==
  ASSUME BillingTypeOK, KnowsAll,
         (\E u \in Relays : SubmitWorkReport(u)) \/ CreateBillingWorkReport
  PROVE  BillingTypeOK' /\ KnowsAll'
  <1>1. PICK m \in Proc : m = loc[Operator] /\ Knows(Operator, m)
    BY DEF BillingTypeOK, KnowsAll, Procs
  <1>2. Operator \in Procs /\ Operator \notin Relays /\ Operator # Ticker /\ Operator # Admin
    BY ProcsAssumption DEF Procs
  <1>3. ASSUME NEW u \in Relays, SubmitWorkReport(u) PROVE BillingTypeOK' /\ KnowsAll'
    <2>1. m.pc = "idle" /\ row[u] # None /\ row[u] \in Rows /\ UNCHANGED <<now, row, report>>
      BY <1>1, <1>3 DEF SubmitWorkReport, Enters, At, BillingTypeOK, db
    <2>2. PICK l : l = [[m EXCEPT !.r = row[u], !.u = u] EXCEPT !.pc = "create"]
      OBVIOUS
    <2>3. /\ l \in Proc /\ l.pc = "create" /\ l.ens = m.ens /\ l.u = u /\ l.r = row[u]
          /\ l.a = m.a /\ l.until = m.until
      BY <2>1, <2>2 DEF Proc, PCs
    <2>4. Knows(Operator, l)
      BY <1>1, <1>2, <2>1, <2>3, ProcsAssumption
         DEF Knows, Ensuring, SettlePCs, FinalPCs, Counting
    <2>5. loc' = [loc EXCEPT ![Operator] = l]
      BY <1>1, <1>3, <2>2 DEF SubmitWorkReport, GetBillingSession, Goto
    <2>6. loc' \in [Procs -> Proc] /\ KnowsAll'
      BY <1>2, <2>1, <2>3, <2>4, <2>5, MovedAlone
    <2>7. requests' \in 0..MaxRequests
      BY <1>3, BillingAssumption DEF SubmitWorkReport, BillingTypeOK
    <2> QED
      BY <1>3, <2>6, <2>7 DEF SubmitWorkReport, db, memory, history, BillingTypeOK
  <1>4. CASE CreateBillingWorkReport
    <2>1. m.pc = "create" /\ m.u \in Relays
      BY <1>1, <1>2, <1>4 DEF CreateBillingWorkReport, At, Knows, Proc
    <2>2. CASE m.u \in report
      <3>1. UNCHANGED <<now, row, report>> /\ loc' = [loc EXCEPT ![Operator] = [NewProc EXCEPT !.pc = "idle"]]
        BY <1>1, <1>4, <2>2 DEF CreateBillingWorkReport, Goto
      <3>2. loc' \in [Procs -> Proc] /\ KnowsAll'
        BY <1>2, <3>1, MovedAlone, IdleAgain
      <3> QED
        BY <1>4, <3>1, <3>2 DEF CreateBillingWorkReport, memory, history, BillingTypeOK
    <2>3. CASE m.u \notin report
      <3>1. PICK l : l = [m EXCEPT !.pc = "close"]
        OBVIOUS
      <3>2. l \in Proc /\ l.pc = "close" /\ l.r = m.r /\ SameWork(l, m)
        BY <3>1 DEF Proc, SameWork, PCs
      <3>3. /\ loc' = [loc EXCEPT ![Operator] = l] /\ report' = report \cup {m.u}
            /\ UNCHANGED <<now, row>>
        BY <1>1, <1>4, <2>3, <3>1 DEF CreateBillingWorkReport, Goto
      <3>4. Grows
        BY <3>3 DEF Grows, BillingTypeOK
      <3>5. Knows(Operator, l)'
        BY <1>1, <1>2, <2>1, <3>2, <3>3, ProcsAssumption
           DEF Knows, SameWork, Ensuring, SettlePCs, FinalPCs, Counting
      <3>6. loc' \in [Procs -> Proc] /\ KnowsAll'
        BY <1>2, <3>2, <3>3, <3>4, <3>5, Moved DEF BillingTypeOK
      <3> QED
        BY <1>4, <2>1, <3>3, <3>6 DEF CreateBillingWorkReport, memory, history, BillingTypeOK
    <2> QED
      BY <2>2, <2>3
  <1> QED
    BY <1>3, <1>4

\* UpdateBillingSession of SubmitWorkReport.
LEMMA CloseTyped ==
  ASSUME BillingTypeOK, KnowsAll, CloseReported
  PROVE  BillingTypeOK' /\ KnowsAll'
  <1>1. PICK m \in Proc : m = loc[Operator] /\ Knows(Operator, m)
    BY DEF BillingTypeOK, KnowsAll, Procs
  <1>2. Operator \in Procs /\ m.pc = "close" /\ m.u \in Relays /\ m.r \in Rows
    BY <1>1 DEF CloseReported, At, Knows, Proc, Procs
  <1>3. PICK r \in Rows : r = [m.r EXCEPT !.status = "closed"]
    BY <1>2 DEF Rows
  <1>4. UpdateBillingSession(Operator, r)
    BY <1>1, <1>3 DEF CloseReported
  <1>5. /\ row' \in [Relays -> Rows \cup {None}] /\ torn' \subseteq Relays
        /\ \A v \in Relays : row[v] # None => row'[v] # None
    BY <1>1, <1>2, <1>4, RowWritten
  <1>6. /\ loc' = [loc EXCEPT ![Operator] = [NewProc EXCEPT !.pc = "idle"]]
        /\ UNCHANGED <<now, report>>
    BY DEF CloseReported, Goto
  <1>7. Grows
    BY <1>5, <1>6 DEF Grows, BillingTypeOK
  <1>8. /\ [NewProc EXCEPT !.pc = "idle"] \in Proc
        /\ loc' \in [Procs -> Proc]
    BY <1>6, IdleAgain DEF BillingTypeOK
  <1>9. BillingTypeOK'
    BY <1>5, <1>8 DEF CloseReported, memory, BillingTypeOK
  <1>10. PICK l : l = [NewProc EXCEPT !.pc = "idle"]
    OBVIOUS
  <1>11. Knows(Operator, l)'
    <2>1. l.pc = "idle" /\ l.ens = "look" /\ l.a = None /\ l.until = 0
      BY <1>10 DEF NewProc
    <2> QED
      BY <1>9, <2>1, ProcsAssumption, BillingAssumption
         DEF Knows, Ensuring, SettlePCs, FinalPCs, Counting, BillingTypeOK
  <1>12. KnowsAll'
    BY <1>2, <1>6, <1>7, <1>8, <1>10, <1>11, Moved DEF BillingTypeOK
  <1> QED
    BY <1>9, <1>12

\* The administrator edits the contract, and time passes.
LEMMA EditTyped ==
  ASSUME BillingTypeOK, KnowsAll, EditRead \/ EditWrite \/ Minute
  PROVE  BillingTypeOK' /\ KnowsAll'
  <1>1. PICK m \in Proc : m = loc[Admin] /\ Knows(Admin, m)
    BY DEF BillingTypeOK, KnowsAll, Procs
  <1>2. /\ Admin \in Procs /\ Admin \notin Relays /\ Admin # Ticker /\ Admin # Operator
        /\ contract \in Copies /\ contract # None
    BY ProcsAssumption DEF Procs, BillingTypeOK
  <1>3. CASE EditRead
    <2>1. PICK l : l = Holding(m, contract, "write")
      OBVIOUS
    <2>2. l \in Proc /\ l.pc = "write" /\ l.c = contract /\ l.r = m.r /\ SameWork(l, m)
      <3>1. "write" \in PCs
        BY DEF PCs
      <3> QED
        BY <1>2, <2>1, <3>1, HoldingFacts
    <2>3. m.pc = "idle" /\ UNCHANGED <<now, row, report>> /\ loc' = [loc EXCEPT ![Admin] = l]
      BY <1>1, <1>3, <2>1 DEF EditRead, Enters, At, GetBillingContract, Goto, Holding, db
    <2>4. Knows(Admin, l)
      BY <1>1, <1>2, <2>2, <2>3 DEF Knows, SameWork, Ensuring, SettlePCs, FinalPCs, Counting
    <2>5. loc' \in [Procs -> Proc] /\ KnowsAll'
      BY <1>2, <2>2, <2>3, <2>4, MovedAlone
    <2>6. requests' \in 0..MaxRequests
      BY <1>3, BillingAssumption DEF EditRead, BillingTypeOK
    <2> QED
      BY <1>3, <2>5, <2>6 DEF EditRead, db, memory, history, BillingTypeOK
  <1>4. CASE EditWrite
    <2>1. m.c \in Copies
      BY <1>1, <1>4 DEF EditWrite, At, Knows, Proc
    <2>2. contract' \in Copies /\ clobbered' \in BOOLEAN
      <3>1. PICK s \in {"active", "suspended"} :
              UpdateBillingContract(Admin, [m.c EXCEPT !.status = s])
        BY <1>1, <1>4 DEF EditWrite
      <3>2. [m.c EXCEPT !.status = s] \in Copies
        BY <2>1 DEF Copies
      <3> QED
        BY <3>1, <3>2 DEF UpdateBillingContract, BillingTypeOK
    <2>3. /\ UNCHANGED <<now, row, report>>
          /\ loc' = [loc EXCEPT ![Admin] = [NewProc EXCEPT !.pc = "idle"]]
      BY <1>4 DEF EditWrite, Goto
    <2>4. loc' \in [Procs -> Proc] /\ KnowsAll'
      BY <1>2, <2>3, MovedAlone, IdleAgain
    <2> QED
      BY <1>4, <2>2, <2>4 DEF EditWrite, memory, BillingTypeOK
  <1>5. CASE Minute
    <2>1. now' = now + 1 /\ now' \in 0..MaxTime /\ now \in Nat /\ UNCHANGED <<loc, row, report>>
      BY <1>5, BillingAssumption DEF Minute, BillingTypeOK, db
    <2>2. Grows /\ loc[Admin] = m /\ loc' = [loc EXCEPT ![Admin] = m]
      BY <1>1, <2>1 DEF Grows, BillingTypeOK
    <2>3. m.until \in Nat /\ (m.a # None => m.a.start \in Nat)
      BY BillingAssumption DEF Proc, Sessions
    <2>4. Knows(Admin, m)'
      BY <1>1, <2>1, <2>3 DEF Knows
    <2>5. loc' \in [Procs -> Proc] /\ KnowsAll'
      BY <1>2, <2>2, <2>4, Moved DEF BillingTypeOK
    <2> QED
      BY <1>5, <2>1, <2>5 DEF Minute, db, memory, history, BillingTypeOK
  <1> QED
    BY <1>3, <1>4, <1>5

-----------------------------------------------------------------------------
(* Steps that neither touch a row nor settle anything.                      *)

\* Goroutine q stands where it stood, as far as its session is concerned.
SameStage(q, l, m) ==
  /\ q = Ticker => (l.pc = "idle" <=> m.pc = "idle") /\ l.u = m.u
  /\ \A pc \in {"live", "segSync", "finRow", "finWrite"} : l.pc = pc <=> m.pc = pc
  /\ l.pc \in SettlePCs <=> m.pc \in SettlePCs
  /\ l.pc \in WrittenPCs <=> m.pc \in WrittenPCs
  /\ l.pc \in SettlePCs \cup {"finRow", "finWrite"} => l.a = m.a
  /\ l.pc \in {"segSync", "finWrite"} => l.seg = m.seg

QuietFrame ==
  /\ UNCHANGED <<row, span, torn, late, active, snap>>
  /\ report \subseteq report' /\ now <= now'
  /\ \A q \in Procs : SameStage(q, loc[q], loc'[q])

\* When the goroutine that moves stays at its stage, all of them do.
LEMMA StageMoved ==
  ASSUME loc \in [Procs -> Proc], NEW p \in Procs, NEW l, loc' = [loc EXCEPT ![p] = l],
         SameStage(p, loc[p], l)
  PROVE  \A q \in Procs : SameStage(q, loc[q], loc'[q])
  <1> SUFFICES ASSUME NEW q \in Procs PROVE SameStage(q, loc[q], loc'[q])
    OBVIOUS
  <1>1. CASE q = p
    BY <1>1
  <1>2. CASE q # p
    <2>1. PICK m : m = loc[q] /\ m = loc'[q]
      BY <1>2
    <2> QED
      BY <2>1 DEF SameStage
  <1> QED
    BY <1>1, <1>2

\* EnsureContractPeriod touches the contract and the totals only.
LEMMA EnsureQuiet ==
  ASSUME BillingTypeOK, KnowsAll, NEW p \in Procs, EnsureStep(p)
  PROVE  QuietFrame
  <1>1. PICK m \in Proc : m = loc[p] /\ m.pc \in Ensuring
    BY DEF BillingTypeOK, EnsureStep, EnsureLook, EnsureFill, EnsureRoll, InCall
  <1>2. /\ UNCHANGED <<row, span, torn, late, active, snap, report, now>> /\ now <= now
    BY BillingAssumption
       DEF EnsureStep, EnsureLook, EnsureFill, EnsureRoll, db, memory, history, BillingTypeOK
  <1>3. PICK l : /\ loc' = [loc EXCEPT ![p] = l] /\ l.u = m.u /\ l.a = m.a
                 /\ l.pc = m.pc \/ l.pc = Returns[m.pc]
    <2>1. CASE EnsureLook(p)
      <3>1. CASE m.c.period = PeriodYMAt(now)
        <4>1. PICK l : l = [[m EXCEPT !.ens = "look"] EXCEPT !.pc = Returns[m.pc]]
          OBVIOUS
        <4>2. l.u = m.u /\ l.a = m.a /\ l.pc = Returns[m.pc]
          BY <4>1 DEF Proc
        <4> QED
          BY <1>1, <2>1, <3>1, <4>1, <4>2 DEF EnsureLook, Return, Goto
      <3>2. CASE m.c.period # PeriodYMAt(now)
        <4>1. PICK l : l = [[m EXCEPT !.period = PeriodYMAt(now),
                                      !.ens = IF m.c.period >= 0 /\ total[m.c.period] = None
                                              THEN "fill" ELSE "roll"] EXCEPT !.pc = m.pc]
          OBVIOUS
        <4>2. l.u = m.u /\ l.a = m.a /\ l.pc = m.pc
          BY <4>1 DEF Proc
        <4> QED
          BY <1>1, <2>1, <3>2, <4>1, <4>2, ZenonT(30) DEF EnsureLook, Goto
      <3> QED
        BY <3>1, <3>2
    <2>2. CASE EnsureFill(p)
      <3>1. PICK l : l = [m EXCEPT !.ens = "roll"]
        OBVIOUS
      <3>2. l.u = m.u /\ l.a = m.a /\ l.pc = m.pc
        BY <3>1 DEF Proc
      <3> QED
        BY <1>1, <2>2, <3>1, <3>2 DEF EnsureFill
    <2>3. CASE EnsureRoll(p)
      <3>1. PICK c : c = [m.c EXCEPT !.remaining = INCLUDED, !.period = m.period]
        OBVIOUS
      <3>2. PICK l : l = [[[m EXCEPT !.c = c, !.period = 0] EXCEPT !.ens = "look"]
                           EXCEPT !.pc = Returns[m.pc]]
        OBVIOUS
      <3>3. l.u = m.u /\ l.a = m.a /\ l.pc = Returns[m.pc]
        BY <3>2 DEF Proc
      <3>4. loc' = [loc EXCEPT ![p] = l]
        BY <1>1, <2>3, <3>1, <3>2 DEF EnsureRoll, Return, Goto
      <3> QED
        BY <3>3, <3>4
    <2> QED
      BY <2>1, <2>2, <2>3 DEF EnsureStep
  <1>4. SameStage(p, m, l)
    BY <1>1, <1>3 DEF SameStage, Ensuring, Returns, SettlePCs, WrittenPCs
  <1> QED
    BY <1>1, <1>2, <1>3, <1>4, StageMoved DEF QuietFrame, BillingTypeOK

\* The calls before the session begins, and those between its writes.
LEMMA CallsQuiet ==
  ASSUME BillingTypeOK, KnowsAll,
         \/ \E u \in Relays : \/ PrepareRelay(u) \/ CheckConnection(u) \/ ActivateRelay(u)
                              \/ ActivateReread(u)
                              \/ FinalRead(u) \/ FinalReread(u) \/ FinalCharge(u)
         \/ \E p \in Relays \cup {Ticker} : SegmentReread(p)
         \/ EditRead
  PROVE  QuietFrame
  <1>1. UNCHANGED <<row, span, torn, late, active, snap, report, now>> /\ now <= now
    <2>1. now <= now
      BY BillingAssumption DEF BillingTypeOK
    <2>2. UNCHANGED <<row, span, torn, late, active, snap, report, now>>
      BY DEF PrepareRelay, CheckConnection, ActivateRelay, ActivateReread, FinalRead, FinalReread,
             FinalCharge, SegmentReread, EditRead, db, memory, history
    <2> QED
      BY <2>1, <2>2
  <1>2. PICK p \in Procs, c \in Copies \cup {None}, pc \in PCs :
          /\ loc' = [loc EXCEPT ![p] = Holding(loc[p], c, pc)] /\ (p = Ticker => loc[p].pc # "idle")
          /\ \/ /\ loc[p].pc \in {"idle", "check", "waiting", "reread"}
                /\ pc \in {"prepare", "unbilled", "waiting", "activate", "create", "write"}
             \/ loc[p].pc \in WrittenPCs /\ pc \in WrittenPCs
             \/ loc[p].pc = "segReread" /\ pc = "segTotal"
    <2>1. contract \in Copies /\ \A q \in Procs : loc[q] \in Proc
      BY DEF BillingTypeOK
    <2>2. ASSUME NEW q \in Procs PROVE loc[q] = [loc[q] EXCEPT !.c = loc[q].c] /\ loc[q].c \in Copies \cup {None}
      BY <2>1 DEF Proc
    <2>3. {"prepare", "unbilled", "waiting", "activate", "create", "write", "segTotal"} \subseteq PCs
          /\ WrittenPCs \subseteq PCs
      BY DEF PCs, AtRest, SettlePCs, FinalPCs, WrittenPCs
    <2>4. \A u \in Relays : u \in Procs /\ u # Ticker
      BY ProcsAssumption DEF Procs
    <2>5. ASSUME NEW u \in Relays, PrepareRelay(u) \/ CheckConnection(u) \/ ActivateRelay(u) \/ ActivateReread(u)
          PROVE  \E c \in Copies \cup {None}, pc \in {"prepare", "unbilled", "waiting", "activate", "create"} :
                   /\ loc' = [loc EXCEPT ![u] = Holding(loc[u], c, pc)]
                   /\ loc[u].pc \in {"idle", "check", "waiting", "reread"}
      <3>1. u \in Procs /\ contract \in Copies
        BY <2>1, <2>4
      <3>2. ASSUME NEW pc, GetBillingContract(u, pc)
            PROVE  loc' = [loc EXCEPT ![u] = Holding(loc[u], contract, pc)]
        BY <3>2 DEF GetBillingContract, Goto, Holding
      <3>3. ASSUME NEW pc, Goto(u, loc[u], pc)
            PROVE  /\ loc' = [loc EXCEPT ![u] = Holding(loc[u], loc[u].c, pc)]
                   /\ loc[u].c \in Copies \cup {None}
        BY <2>2, <3>1, <3>3 DEF Goto, Holding
      <3>4. ASSUME NEW pc, Goto(u, [loc[u] EXCEPT !.c = None], pc)
            PROVE  loc' = [loc EXCEPT ![u] = Holding(loc[u], None, pc)]
        BY <3>4 DEF Goto, Holding
      <3>5. loc[u].pc \in {"idle", "check", "waiting", "reread"}
        BY <2>5 DEF PrepareRelay, CheckConnection, ActivateRelay, ActivateReread, Enters, At
      <3>6. \/ \E pc \in {"prepare", "activate", "create"} : GetBillingContract(u, pc)
            \/ Goto(u, loc[u], "unbilled")
            \/ \E pc \in {"waiting", "unbilled"} : Goto(u, [loc[u] EXCEPT !.c = None], pc)
        BY <2>5 DEF PrepareRelay, CheckConnection, ActivateRelay, ActivateReread
      <3>7. CASE \E pc \in {"prepare", "activate", "create"} : GetBillingContract(u, pc)
        BY <3>1, <3>2, <3>5, <3>7
      <3>8. CASE Goto(u, loc[u], "unbilled")
        BY <3>3, <3>5, <3>8
      <3>9. CASE \E pc \in {"waiting", "unbilled"} : Goto(u, [loc[u] EXCEPT !.c = None], pc)
        BY <3>4, <3>5, <3>9
      <3> QED
        BY <3>6, <3>7, <3>8, <3>9
    <2>6. ASSUME NEW u \in Relays, FinalRead(u) \/ FinalReread(u) \/ FinalCharge(u)
          PROVE  \E c \in Copies \cup {None}, pc \in WrittenPCs :
                   /\ loc' = [loc EXCEPT ![u] = Holding(loc[u], c, pc)]
                   /\ loc[u].pc \in WrittenPCs
      BY <2>1, <2>6 DEF FinalRead, FinalReread, FinalCharge, GetBillingContract, Goto, Holding, At,
                        WrittenPCs
    <2>7. ASSUME NEW p \in Relays \cup {Ticker}, SegmentReread(p)
          PROVE  loc' = [loc EXCEPT ![p] = Holding(loc[p], contract, "segTotal")]
                 /\ loc[p].pc = "segReread" /\ p \in Procs
      <3>1. p \in Procs
        BY DEF Procs
      <3>2. loc[p].pc = "segReread" /\ GetBillingContract(p, "segTotal")
        BY <2>7 DEF SegmentReread, At
      <3> QED
        BY <3>1, <3>2 DEF GetBillingContract, Goto, Holding
    <2>8. ASSUME EditRead
          PROVE  loc' = [loc EXCEPT ![Admin] = Holding(loc[Admin], contract, "write")]
                 /\ loc[Admin].pc = "idle" /\ Admin \in Procs /\ Admin # Ticker
      BY <2>8, ProcsAssumption DEF EditRead, GetBillingContract, Goto, Holding, Enters, At, Procs
    <2>9. CASE \E u \in Relays : \/ PrepareRelay(u) \/ CheckConnection(u) \/ ActivateRelay(u)
                                 \/ ActivateReread(u)
      BY <2>3, <2>4, <2>5, <2>9
    <2>10. CASE \E u \in Relays : FinalRead(u) \/ FinalReread(u) \/ FinalCharge(u)
      BY <2>3, <2>4, <2>6, <2>10
    <2>11. CASE \E p \in Relays \cup {Ticker} : SegmentReread(p)
      BY <2>1, <2>3, <2>7, <2>11
    <2>12. CASE EditRead
      BY <2>1, <2>3, <2>8, <2>12
    <2> QED
      BY <2>9, <2>10, <2>11, <2>12
  <1>3. PICK l : l = Holding(loc[p], c, pc)
    OBVIOUS
  <1>4. l.pc = pc /\ SameWork(l, loc[p])
    BY <1>3, HoldingFacts DEF BillingTypeOK
  <1>5. SameStage(p, loc[p], l)
    BY <1>2, <1>4 DEF SameStage, SameWork, SettlePCs, WrittenPCs
  <1> QED
    BY <1>1, <1>2, <1>3, <1>5, StageMoved DEF QuietFrame, BillingTypeOK

\* The other steps of the settling and of the end of a session.
LEMMA SettlingQuiet ==
  ASSUME BillingTypeOK, KnowsAll, NEW p \in Relays \cup {Ticker},
         SegmentCharge(p) \/ SegmentTotal(p) \/ SegmentRow(p)
  PROVE  QuietFrame
  <1>1. p \in Procs /\ loc[p].pc \in SettlePCs \ {"segSync"}
    BY DEF Procs, SegmentCharge, SegmentTotal, SegmentRow, At, SettlePCs
  <1>2. PICK m \in Proc : m = loc[p]
    BY <1>1 DEF BillingTypeOK
  <1>3. UNCHANGED <<row, span, torn, late, active, snap, report, now>> /\ now <= now
    <2>1. now <= now
      BY BillingAssumption DEF BillingTypeOK
    <2>2. UNCHANGED <<row, span, torn, late, active, snap, report, now>>
      BY DEF SegmentCharge, SegmentTotal, SegmentRow, db, memory, history
    <2> QED
      BY <2>1, <2>2
  <1>4. PICK l : /\ loc' = [loc EXCEPT ![p] = l] /\ l.u = m.u /\ l.a = m.a
                 /\ l.pc \in SettlePCs \ {"segSync"}
    <2>1. CASE SegmentCharge(p)
      <3>1. PICK seg : seg = Segment(m.a, MonthEnd(m.a.start))
        OBVIOUS
      <3>2. PICK c : c = Charge(m.c, seg)
        OBVIOUS
      <3>3. PICK l : l = [[m EXCEPT !.c = c, !.seg = seg] EXCEPT !.pc = "segment"]
        OBVIOUS
      <3>4. l.u = m.u /\ l.a = m.a /\ l.pc = "segment"
        BY <3>3 DEF Proc
      <3>5. loc' = [loc EXCEPT ![p] = l]
        BY <1>2, <2>1, <3>1, <3>2, <3>3 DEF SegmentCharge, Goto
      <3> QED
        BY <3>4, <3>5 DEF SettlePCs
    <2>2. CASE SegmentTotal(p)
      <3>1. PICK l : l = [m EXCEPT !.pc = "segRow"]
        OBVIOUS
      <3>2. l.u = m.u /\ l.a = m.a /\ l.pc = "segRow"
        BY <3>1 DEF Proc
      <3> QED
        BY <1>2, <2>2, <3>1, <3>2 DEF SegmentTotal, Goto, SettlePCs
    <2>3. CASE SegmentRow(p)
      <3>1. PICK l : l = [[m EXCEPT !.r = row[m.u], !.u = m.u] EXCEPT !.pc = "segWrite"]
        OBVIOUS
      <3>2. l.u = m.u /\ l.a = m.a /\ l.pc = "segWrite"
        BY <3>1 DEF Proc
      <3> QED
        BY <1>2, <2>3, <3>1, <3>2 DEF SegmentRow, GetBillingSession, Goto, SettlePCs
    <2> QED
      BY <2>1, <2>2, <2>3
  <1>5. SameStage(p, m, l)
    BY <1>1, <1>2, <1>4 DEF SameStage, SettlePCs, WrittenPCs
  <1> QED
    BY <1>1, <1>2, <1>3, <1>4, <1>5, StageMoved DEF QuietFrame, BillingTypeOK

\* So do the last step of a relay, and the reads and writes around a report.
LEMMA EndsQuiet ==
  ASSUME BillingTypeOK, KnowsAll,
         \/ \E u \in Relays : FinalTotal(u) \/ SubmitWorkReport(u)
         \/ CreateBillingWorkReport \/ EditWrite
  PROVE  QuietFrame
  <1>1. UNCHANGED <<row, span, torn, late, active, snap, now>> /\ now <= now /\ report \subseteq report'
    <2>1. now <= now
      BY BillingAssumption DEF BillingTypeOK
    <2>2. UNCHANGED <<row, span, torn, late, active, snap, now>> /\ report \subseteq report'
      BY DEF FinalTotal, SubmitWorkReport, CreateBillingWorkReport, EditWrite, db, memory, history
    <2> QED
      BY <2>1, <2>2
  <1>2. \E p \in Procs \ {Ticker} : \E l :
          /\ loc' = [loc EXCEPT ![p] = l]
          /\ \/ loc[p].pc = "finTotal" /\ l.pc = "done"
             \/ loc[p].pc \in {"idle", "create", "write"} /\ l.pc \in {"idle", "create", "close"}
    <2>1. Operator \in Procs \ {Ticker} /\ Admin \in Procs \ {Ticker} /\ \A u \in Relays : u \in Procs \ {Ticker}
      BY ProcsAssumption DEF Procs
    <2>2. ASSUME NEW u \in Relays, FinalTotal(u)
          PROVE  \E l : loc' = [loc EXCEPT ![u] = l] /\ loc[u].pc = "finTotal" /\ l.pc = "done"
      <3>1. PICK l : l = [[NewProc EXCEPT !.u = u] EXCEPT !.pc = "done"]
        OBVIOUS
      <3>2. l.pc = "done"
        BY <3>1 DEF NewProc
      <3>3. loc' = [loc EXCEPT ![u] = l]
        BY <2>2, <3>1, Zenon DEF FinalTotal, Goto
      <3>4. loc[u].pc = "finTotal"
        BY <2>2 DEF FinalTotal, At
      <3> QED
        BY <3>2, <3>3, <3>4
    <2>3. ASSUME NEW u \in Relays, SubmitWorkReport(u)
          PROVE  \E l : loc' = [loc EXCEPT ![Operator] = l] /\ loc[Operator].pc = "idle" /\ l.pc = "create"
      <3>1. PICK l : l = [[loc[Operator] EXCEPT !.r = row[u], !.u = u] EXCEPT !.pc = "create"]
        OBVIOUS
      <3>2. l.pc = "create"
        BY <2>1, <3>1 DEF BillingTypeOK, Proc
      <3>3. loc' = [loc EXCEPT ![Operator] = l]
        BY <2>3, <3>1, Zenon DEF SubmitWorkReport, GetBillingSession, Goto
      <3>4. loc[Operator].pc = "idle"
        BY <2>3 DEF SubmitWorkReport, Enters, At
      <3> QED
        BY <3>2, <3>3, <3>4
    <2>4. ASSUME CreateBillingWorkReport
          PROVE  \E l : /\ loc' = [loc EXCEPT ![Operator] = l] /\ loc[Operator].pc = "create"
                        /\ l.pc \in {"idle", "close"}
      <3>1. PICK l : l = [NewProc EXCEPT !.pc = "idle"]
        OBVIOUS
      <3>2. PICK m : m = [loc[Operator] EXCEPT !.pc = "close"]
        OBVIOUS
      <3>3. l.pc = "idle" /\ m.pc = "close"
        BY <2>1, <3>1, <3>2 DEF NewProc, BillingTypeOK, Proc
      <3>4. loc' = [loc EXCEPT ![Operator] = l] \/ loc' = [loc EXCEPT ![Operator] = m]
        BY <2>4, <3>1, <3>2 DEF CreateBillingWorkReport, Goto
      <3> QED
        BY <2>4, <3>3, <3>4 DEF CreateBillingWorkReport, At
    <2>5. ASSUME EditWrite
          PROVE  \E l : loc' = [loc EXCEPT ![Admin] = l] /\ loc[Admin].pc = "write" /\ l.pc = "idle"
      <3>1. PICK l : l = [NewProc EXCEPT !.pc = "idle"]
        OBVIOUS
      <3>2. l.pc = "idle"
        BY <3>1 DEF NewProc
      <3> QED
        BY <2>5, <3>1, <3>2 DEF EditWrite, Goto, At
    <2>6. CASE \E u \in Relays : FinalTotal(u)
      BY <2>1, <2>2, <2>6
    <2>7. CASE \E u \in Relays : SubmitWorkReport(u)
      BY <2>1, <2>3, <2>7
    <2>8. CASE CreateBillingWorkReport
      BY <2>1, <2>4, <2>8
    <2>9. CASE EditWrite
      BY <2>1, <2>5, <2>9
    <2> QED
      BY <2>6, <2>7, <2>8, <2>9
  <1>3. PICK p \in Procs \ {Ticker} : \E l :
          /\ loc' = [loc EXCEPT ![p] = l]
          /\ \/ loc[p].pc = "finTotal" /\ l.pc = "done"
             \/ loc[p].pc \in {"idle", "create", "write"} /\ l.pc \in {"idle", "create", "close"}
    BY <1>2
  <1>4. PICK l :
          /\ loc' = [loc EXCEPT ![p] = l]
          /\ \/ loc[p].pc = "finTotal" /\ l.pc = "done"
             \/ loc[p].pc \in {"idle", "create", "write"} /\ l.pc \in {"idle", "create", "close"}
    BY <1>3
  <1>5. SameStage(p, loc[p], l)
    BY <1>4 DEF SameStage, SettlePCs, WrittenPCs
  <1> QED
    BY <1>1, <1>4, <1>5, StageMoved DEF QuietFrame, BillingTypeOK

\* Time and the sweep of the prepared relays touch no session.
LEMMA TimeQuiet ==
  ASSUME BillingTypeOK, Minute \/ (\E u \in Relays : sweepStalePending(u)) \/ UNCHANGED vars
  PROVE  QuietFrame
  <1>1. UNCHANGED <<row, span, torn, late, active, snap, loc, report>> /\ now <= now'
    <2>1. now \in Int
      BY BillingAssumption DEF BillingTypeOK
    <2> QED
      BY <2>1 DEF Minute, sweepStalePending, vars, db, memory, history
  <1> QED
    BY <1>1 DEF QuietFrame, SameStage

-----------------------------------------------------------------------------
(* What a step leaves alone.                                                *)

\* The account of session u is not touched: neither its goroutine nor the ticker
\* moves on with it, and what is billed stays unless the row is torn.
AccountFrame(u) ==
  /\ span'[u] = span[u] /\ active'[u] = active[u]
  /\ SameStage(u, loc[u], loc'[u])
  /\ \/ SameStage(Ticker, loc[Ticker], loc'[Ticker])
     \/ ~TickerHas(u) /\ ~TickerHas(u)'
  /\ u \notin torn' => u \notin torn /\ row'[u].billed = row[u].billed
  /\ u \notin late' => u \notin late

\* A step within AccountFrame keeps the account of the session.
LEMMA AccountKept ==
  ASSUME KnowsAll, NEW u \in Relays, Account(u), AccountFrame(u)
  PROVE  Account(u)'
  <1> SUFFICES ASSUME (span[u] # None /\ Undisturbed(u) /\ ~Doomed(u))'
               PROVE  (LiveCovered(u) /\ EndCovered(u))'
    BY DEF Account
  <1>1. TickerHas(u)' <=> TickerHas(u)
    BY DEF AccountFrame, TickerHas, SameStage
  <1>2. /\ span'[u] = span[u] /\ active'[u] = active[u] /\ row'[u].billed = row[u].billed
        /\ LiveCovered(u) /\ EndCovered(u)
    BY <1>1 DEF AccountFrame, Account, Undisturbed, Doomed
  <1>3. Ticker \in Procs /\ u \in Procs
    BY DEF Procs
  <1>4. ASSUME NEW t PROVE Covers(u, t)' <=> Covers(u, t)
    BY <1>2 DEF Covers, Bills, MonthsTo
  <1>5. ASSUME NEW p \in Procs, SameStage(p, loc[p], loc'[p]),
               loc[p].pc \in SettlePCs \cup {"finRow", "finWrite"}
        PROVE  Settling(p, u)' <=> Settling(p, u)
    <2>1. /\ loc'[p].pc = "segSync" <=> loc[p].pc = "segSync"
          /\ loc'[p].a = loc[p].a
          /\ loc[p].pc = "segSync" => loc'[p].seg = loc[p].seg
      BY <1>5 DEF SameStage
    <2>2. PICK t : t = IF loc[p].pc = "segSync" THEN loc[p].seg.to ELSE loc[p].a.start
      OBVIOUS
    <2>3. t = IF loc'[p].pc = "segSync" THEN loc'[p].seg.to ELSE loc'[p].a.start
      BY <2>1, <2>2
    <2>4. Settling(p, u) <=> Covers(u, t)
      BY <2>2 DEF Settling
    <2>5. Settling(p, u)' <=> Covers(u, t)'
      BY <2>3 DEF Settling
    <2> QED
      BY <1>4, <2>4, <2>5
  <1>6. LiveCovered(u)'
    <2> SUFFICES ASSUME active'[u] # None
        PROVE (IF TickerHas(u) THEN loc[Ticker].a = active[u] /\ Settling(Ticker, u)
               ELSE Covers(u, active[u].start))'
      BY DEF LiveCovered
    <2>1. active[u] # None
      BY <1>2
    <2>2. CASE TickerHas(u)
      <3>1. loc[Ticker].pc \in SettlePCs
        BY <1>3, <2>2, ProcsAssumption DEF TickerHas, KnowsAll, Knows
      <3>2. SameStage(Ticker, loc[Ticker], loc'[Ticker])
        BY <2>2 DEF AccountFrame
      <3>3. loc'[Ticker].a = loc[Ticker].a
        BY <3>1, <3>2 DEF SameStage
      <3>4. Settling(Ticker, u)'
        BY <1>2, <1>3, <1>5, <2>1, <2>2, <3>1, <3>2 DEF LiveCovered
      <3> QED
        BY <1>1, <1>2, <2>1, <2>2, <3>3, <3>4 DEF LiveCovered
    <2>3. CASE ~TickerHas(u)
      <3>1. PICK t : t = active[u].start
        OBVIOUS
      <3>2. Covers(u, t)
        BY <1>2, <2>1, <2>3, <3>1 DEF LiveCovered
      <3>3. Covers(u, t)'
        BY <1>4, <3>2
      <3> QED
        BY <1>1, <1>2, <2>3, <3>1, <3>3
    <2> QED
      BY <2>2, <2>3
  <1>7. EndCovered(u)'
    <2>1. SameStage(u, loc[u], loc'[u])
      BY DEF AccountFrame
    <2>2. (loc[u].pc \in SettlePCs \cup {"finRow", "finWrite"} => Settling(u, u))'
      <3>1. loc'[u].pc \in SettlePCs \cup {"finRow", "finWrite"}
              => loc[u].pc \in SettlePCs \cup {"finRow", "finWrite"}
        BY <2>1 DEF SameStage
      <3> QED
        BY <1>2, <1>3, <1>5, <2>1, <3>1 DEF EndCovered
    <2>3. (loc[u].pc = "finWrite" => /\ loc[u].seg = Segment(loc[u].a, span[u].to)
                                     /\ loc[u].a.start <= span[u].to)'
      <3> SUFFICES ASSUME loc'[u].pc = "finWrite"
          PROVE  loc'[u].seg = Segment(loc'[u].a, span'[u].to) /\ loc'[u].a.start <= span'[u].to
        OBVIOUS
      <3>1. loc[u].pc = "finWrite" /\ loc'[u].seg = loc[u].seg /\ loc'[u].a = loc[u].a
        BY <2>1 DEF SameStage
      <3> QED
        BY <1>2, <3>1 DEF EndCovered
    <2>4. Written(u)' <=> Written(u)
      BY <2>1 DEF SameStage, Written
    <2>5. (Written(u) => /\ span[u].to >= span[u].from
                         /\ Bills(u, span[u].to, MonthsTo(u, span[u].to) + 1))'
      BY <1>2, <2>4 DEF EndCovered, Bills, MonthsTo
    <2> QED
      BY <2>2, <2>3, <2>5 DEF EndCovered
  <1> QED
    BY <1>6, <1>7

\* The rest of what is known of session u, when the step leaves it alone.
SessionFrame(u) ==
  /\ active'[u] = active[u] /\ snap'[u] = snap[u] /\ span'[u] = span[u] /\ row'[u] = row[u]
  /\ u \notin torn' => u \notin torn
  /\ report \subseteq report' /\ now <= now'
  /\ SameStage(u, loc[u], loc'[u])
  /\ \/ SameStage(Ticker, loc[Ticker], loc'[Ticker])
     \/ ~TickerHas(u) /\ ~TickerHas(u)'

\* A step within SessionFrame keeps the rest.
LEMMA SessionKept ==
  ASSUME BillingTypeOK, BillingTypeOK', NEW u \in Relays, SessionOK(u), Awaits(u), Fresh(u),
         SessionFrame(u)
  PROVE  SessionOK(u)' /\ Awaits(u)' /\ Fresh(u)'
  <1>1. /\ loc'[u].pc = "live" <=> loc[u].pc = "live"
        /\ loc'[u].pc \in Begun <=> loc[u].pc \in Begun
        /\ Written(u)' <=> Written(u)
    BY DEF SessionFrame, SameStage, Begun, FinalPCs, WrittenPCs, Written
  <1>2. TickerHas(u)' <=> TickerHas(u)
    BY DEF SessionFrame, SameStage, TickerHas
  <1>3. SessionOK(u)'
    <2>1. /\ active[u] # None => active[u].start \in Int
          /\ snap[u] # None => snap[u].start \in Int
          /\ span[u] # None => span[u].from \in Int
          /\ now \in Int /\ now' \in Int
      BY BillingAssumption DEF BillingTypeOK, Sessions
    <2> QED
      BY <1>1, <2>1 DEF SessionFrame, SessionOK
  <1>4. Awaits(u)'
    BY <1>1 DEF SessionFrame, Awaits
  <1>5. Fresh(u)'
    BY <1>2 DEF SessionFrame, Fresh
  <1> QED
    BY <1>3, <1>4, <1>5

\* All four, of one session and of all.
Known(u) == SessionOK(u) /\ Awaits(u) /\ Fresh(u) /\ Account(u)

Rest == SessionsOK /\ ReportAwaited /\ CopiesFresh /\ Accounted

\* The two say the same.
LEMMA RestIsKnown == (Rest <=> \A u \in Relays : Known(u)) /\ (Rest' <=> \A u \in Relays : Known(u)')
  BY DEF Rest, Known, SessionsOK, ReportAwaited, CopiesFresh, Accounted

\* A session that a step does not touch is as well known as before.
LEMMA UntouchedKnown ==
  ASSUME BillingTypeOK, KnowsAll, BillingTypeOK', NEW u \in Relays, Known(u), SessionFrame(u),
         u \notin late' => u \notin late
  PROVE  Known(u)'
  <1>1. AccountFrame(u)
    BY DEF SessionFrame, AccountFrame
  <1> QED
    BY <1>1, AccountKept, SessionKept DEF Known

\* A quiet step touches none.
LEMMA QuietKeeps ==
  ASSUME BillingTypeOK, KnowsAll, Rest, BillingTypeOK', QuietFrame
  PROVE  Rest'
  <1> SUFFICES ASSUME NEW u \in Relays PROVE Known(u)'
    BY RestIsKnown
  <1>1. Known(u)
    BY RestIsKnown
  <1>2. SessionFrame(u) /\ (u \notin late' => u \notin late)
    BY DEF QuietFrame, SessionFrame, Procs
  <1> QED
    BY <1>1, <1>2, UntouchedKnown

-----------------------------------------------------------------------------
(* Steps that settle.                                                       *)

\* One more part with one more rounding.
LEMMA AddPart ==
  ASSUME NEW b \in Nat, NEW x \in Nat, NEW f \in Nat, NEW s \in Nat, NEW t \in Nat, NEW k \in Int,
         b >= s - f, b <= s - f + k * (ROUND - 1), x >= t - s, x <= t - s + (ROUND - 1)
  PROVE  b + x >= t - f /\ b + x <= t - f + (k + 1) * (ROUND - 1)
  <1>1. PICK R \in Nat : R = ROUND - 1
    BY BillingAssumption
  <1>2. PICK z \in Int : z = k * R /\ (k + 1) * R = z + R
    BY <1>1
  <1> QED
    BY <1>1, <1>2

\* A bound for some months is a bound for more of them.
LEMMA MoreMonths ==
  ASSUME NEW c \in Int, NEW b \in Int, NEW k \in Int, NEW n \in Int, k <= n, b <= c + k * (ROUND - 1)
  PROVE  b <= c + n * (ROUND - 1)
  <1>1. PICK R \in Nat : R = ROUND - 1
    BY BillingAssumption
  <1>2. k * R \in Int /\ n * R \in Int /\ k * R <= n * R
    BY <1>1
  <1> QED
    BY <1>1, <1>2

\* A month is added to a row that was settled up to its beginning.
LEMMA MonthCovered ==
  ASSUME BillingTypeOK, BillingTypeOK', NEW u \in Relays, NEW a \in Sessions,
         NEW until \in 0..MaxTime, SplitAtMonthBoundary(a.start, until),
         NEW seg, seg = Segment(a, MonthEnd(a.start)),
         span[u] # None, span'[u] = span[u], row[u] # None, row'[u] # None,
         row'[u].billed = row[u].billed + seg.billed, Covers(u, a.start)
  PROVE  Covers(u, seg.to)'
  <1>1. /\ seg \in Segments /\ seg.to = MonthEnd(a.start) /\ seg.to \in 0..MaxTime
        /\ a.start <= seg.to
    BY SegmentOfMonth
  <1>2. seg.billed >= seg.to - a.start /\ seg.billed <= seg.to - a.start + (ROUND - 1)
    BY <1>1, SegmentFacts
  <1>3. PICK f \in Nat : f = span[u].from /\ f \in 0..MaxTime /\ span'[u].from = f
    BY BillingAssumption DEF BillingTypeOK
  <1>4. PICK b \in Nat : b = row[u].billed
    BY DEF BillingTypeOK, Rows
  <1>5. PICK x \in Nat : x = seg.billed /\ row'[u].billed = b + x
    BY <1>1, <1>4 DEF Segments
  <1>6. PICK s \in Nat : s = a.start /\ s \in 0..MaxTime
    BY BillingAssumption DEF Sessions
  <1>7. PICK t \in Nat : t = seg.to /\ s <= t /\ PeriodYMAt(t) = PeriodYMAt(s) + 1
    BY <1>1, <1>6, MonthEndFacts
  <1>8. PICK k \in Int : k = PeriodYMAt(s) - PeriodYMAt(f) /\ PeriodYMAt(t) - PeriodYMAt(f) = k + 1
    <2>1. PeriodYMAt(s) \in Nat /\ PeriodYMAt(f) \in Nat
      BY MonthEndFacts
    <2> QED
      BY <1>7, <2>1
  <1>9. f <= s /\ b >= s - f /\ b <= s - f + k * (ROUND - 1)
    BY <1>3, <1>4, <1>6, <1>8 DEF Covers, Bills, MonthsTo
  <1>10. b + x >= t - f /\ b + x <= t - f + (k + 1) * (ROUND - 1)
    BY <1>2, <1>5, <1>6, <1>7, <1>9, AddPart
  <1>11. Covers(u, t)'
    <2>1. t >= f
      BY <1>7, <1>9
    <2> QED
      BY <1>3, <1>5, <1>8, <1>10, <2>1 DEF Covers, Bills, MonthsTo
  <1> QED
    BY <1>7, <1>11

\* The last part is added to a row that was settled up to its beginning.
LEMMA EndBilled ==
  ASSUME BillingTypeOK, BillingTypeOK', NEW u \in Relays, NEW a \in Sessions,
         span[u] # None, span'[u] = span[u], row[u] # None, row'[u] # None,
         a.start <= span[u].to,
         NEW seg, seg = Segment(a, span[u].to),
         row'[u].billed = row[u].billed + seg.billed, Covers(u, a.start)
  PROVE  (span[u].to >= span[u].from /\ Bills(u, span[u].to, MonthsTo(u, span[u].to) + 1))'
  <1>1. PICK f \in Nat : f = span[u].from /\ f \in 0..MaxTime /\ span'[u].from = f
    BY BillingAssumption DEF BillingTypeOK
  <1>2. PICK t \in Nat : t = span[u].to /\ t \in 0..MaxTime /\ span'[u].to = t
    BY BillingAssumption DEF BillingTypeOK
  <1>3. PICK s \in Nat : s = a.start /\ s \in 0..MaxTime /\ s <= t
    BY <1>2, BillingAssumption DEF Sessions
  <1>4. PICK b \in Nat : b = row[u].billed
    BY DEF BillingTypeOK, Rows
  <1>5. PICK x \in Nat : /\ x = seg.billed /\ row'[u].billed = b + x
                         /\ x >= t - s /\ x <= t - s + (ROUND - 1)
    <2>1. seg \in Segments /\ seg.billed >= t - s /\ seg.billed <= t - s + (ROUND - 1)
      BY <1>2, <1>3, SegmentFacts
    <2> QED
      BY <1>4, <2>1 DEF Segments
  <1>6. PICK k \in Int, n \in Int : /\ k = PeriodYMAt(s) - PeriodYMAt(f)
                                    /\ n = PeriodYMAt(t) - PeriodYMAt(f) + 1 /\ k + 1 <= n
    <2>1. /\ PeriodYMAt(s) \in Nat /\ PeriodYMAt(f) \in Nat /\ PeriodYMAt(t) \in Nat
          /\ PeriodYMAt(s) <= PeriodYMAt(t)
      BY <1>1, <1>2, <1>3, PeriodFacts
    <2> QED
      BY <2>1
  <1>7. f <= s /\ b >= s - f /\ b <= s - f + k * (ROUND - 1)
    BY <1>1, <1>3, <1>4, <1>6 DEF Covers, Bills, MonthsTo
  <1>8. b + x >= t - f /\ b + x <= t - f + (k + 1) * (ROUND - 1)
    BY <1>5, <1>7, AddPart
  <1>9. b + x <= t - f + n * (ROUND - 1)
    BY <1>6, <1>8, MoreMonths
  <1> QED
    BY <1>1, <1>2, <1>3, <1>5, <1>6, <1>7, <1>8, <1>9 DEF Bills, MonthsTo

\* A step that leaves the goroutines of session v and of the ticker alone.
LEMMA SameStageRefl == \A q, l : SameStage(q, l, l)
  BY DEF SameStage

\* A session begins with nothing billed and nothing to bill.
LEMMA CreateKnown ==
  ASSUME BillingTypeOK, KnowsAll, Rest, BillingTypeOK', KnowsAll',
         NEW u \in Relays, CreateBillingSession(u)
  PROVE  Rest'
  <1>1. /\ \A v \in Relays : Known(v)
        /\ u \in Procs /\ Ticker \in Procs /\ u # Ticker /\ \A v \in Relays : v \in Procs
    BY RestIsKnown, ProcsAssumption DEF Procs
  <1>2. PICK l : loc' = [loc EXCEPT ![u] = l] /\ l.pc = "live"
    <2>1. PICK l : l = [[loc[u] EXCEPT !.c = None] EXCEPT !.pc = "live"]
      OBVIOUS
    <2>2. l.pc = "live"
      BY <1>1, <2>1 DEF BillingTypeOK, Proc
    <2>3. loc' = [loc EXCEPT ![u] = l]
      BY <2>1 DEF CreateBillingSession, Goto
    <2> QED
      BY <2>2, <2>3
  <1>3. loc'[u] = l /\ \A q \in Procs : q # u => loc'[q] = loc[q]
    BY <1>1, <1>2 DEF BillingTypeOK
  <1>4. /\ loc[u].pc = "create" /\ now' = now /\ now \in Nat /\ now <= now
        /\ UNCHANGED <<snap, torn, late, report>>
    BY BillingAssumption DEF CreateBillingSession, At, BillingTypeOK
  <1>5. /\ row'[u] = [status |-> "active", billed |-> 0, included |-> 0, overage |-> 0]
        /\ active'[u] = [start |-> now, remaining |-> loc[u].c.remaining]
        /\ span'[u] = [from |-> now, to |-> now]
        /\ \A v \in Relays : v # u => row'[v] = row[v] /\ active'[v] = active[v] /\ span'[v] = span[v]
    BY DEF CreateBillingSession, BillingTypeOK
  <1>6. row[u] = None /\ snap[u] = None
    BY <1>1, <1>4 DEF Known, SessionOK, Begun, SettlePCs, FinalPCs
  <1>7. ~TickerHas(u) /\ ~TickerHas(u)' /\ loc'[Ticker] = loc[Ticker]
    <2>1. loc'[Ticker] = loc[Ticker]
      BY <1>1, <1>3
    <2>2. ~TickerHas(u)
      BY <1>1, <1>6, ProcsAssumption DEF TickerHas, KnowsAll, Knows
    <2> QED
      BY <2>1, <2>2 DEF TickerHas
  <1>8. Known(u)'
    <2>1. row'[u].billed = 0 /\ active'[u].start = now /\ span'[u].from = now
      BY <1>5
    <2>2. row'[u] # None /\ active'[u] # None /\ span'[u] # None
      <3>1. row'[u] \in Rows /\ span'[u] \in [from : 0..MaxTime, to : 0..MaxTime]
        BY <1>5 DEF Rows, BillingTypeOK
      <3>2. active'[u] \in Sessions
        <4>1. loc[u].c \in Copies
          BY <1>1, <1>4, ProcsAssumption DEF BillingTypeOK, KnowsAll, Knows, Proc
        <4> QED
          BY <1>5, <4>1 DEF Sessions, Copies, BillingTypeOK
      <3> QED
        BY <3>1, <3>2, ProcsAssumption
    <2>3. SessionOK(u)'
      BY <1>2, <1>3, <1>4, <1>6, <2>1, <2>2 DEF SessionOK, Begun
    <2>4. Awaits(u)' /\ Fresh(u)'
      BY <1>2, <1>3, <1>4, <1>6, <1>7 DEF Awaits, Fresh, Written, WrittenPCs
    <2>5. Account(u)'
      <3>1. Covers(u, now)'
        <4>1. PICK t \in Nat : t = now /\ now' = t
          BY <1>4
        <4>2. PICK y \in Nat : y = PeriodYMAt(t) /\ ROUND - 1 \in Int
          BY <4>1, MonthEndFacts, BillingAssumption
        <4> QED
          BY <2>1, <4>1, <4>2 DEF Covers, Bills, MonthsTo
      <3>2. LiveCovered(u)'
        BY <1>4, <1>7, <2>1, <3>1 DEF LiveCovered
      <3>3. EndCovered(u)'
        BY <1>2, <1>3 DEF EndCovered, SettlePCs, Written, WrittenPCs
      <3> QED
        BY <3>2, <3>3 DEF Account
    <2> QED
      BY <2>3, <2>4, <2>5 DEF Known
  <1>9. ASSUME NEW v \in Relays, v # u PROVE Known(v)'
    <2>1. SessionFrame(v) /\ (v \notin late' => v \notin late)
      BY <1>1, <1>3, <1>4, <1>5, <1>7, <1>9, SameStageRefl DEF SessionFrame
    <2> QED
      BY <1>1, <2>1, UntouchedKnown
  <1> QED
    BY <1>8, <1>9, RestIsKnown

\* settleCrossingMonth writes the row, and either it had been read in time or
\* the session is torn.
LEMMA SegmentWriteKnown ==
  ASSUME BillingTypeOK, KnowsAll, Rest, BillingTypeOK', KnowsAll',
         NEW p \in Relays \cup {Ticker}, SegmentWrite(p)
  PROVE  Rest'
  <1>1. /\ \A v \in Relays : Known(v) /\ v \in Procs /\ v # Ticker
        /\ Ticker \in Procs
    BY RestIsKnown, ProcsAssumption DEF Procs
  <1>2. loc[p].pc = "segWrite" /\ loc[p].pc \in SettlePCs /\ loc[p].pc \in Counting
    BY DEF SegmentWrite, At, SettlePCs, Counting
  <1>3. PICK m \in Proc : m = loc[p]
    BY <1>2, SettlerFacts
  <1>4. /\ p \in Procs /\ Knows(p, m) /\ m.a \in Sessions /\ m.u \in Relays
        /\ row[m.u] \in Rows /\ m.seg \in Segments /\ m.until \in 0..MaxTime
        /\ SplitAtMonthBoundary(m.a.start, m.until) /\ (p \in Relays => m.u = p)
    BY <1>2, <1>3, SettlerFacts
  <1>5. m.seg = Segment(m.a, MonthEnd(m.a.start)) /\ m.r \in Rows
    BY <1>2, <1>3, <1>4 DEF Knows, Proc
  <1>6. PICK u \in Relays : u = m.u
    BY <1>4
  <1>7. PICK r \in Rows : /\ r = Billed(m.r, m.seg) /\ r.billed = m.r.billed + m.seg.billed
                          /\ r.status = m.r.status
    BY <1>4, <1>5, BilledFacts
  <1>8. /\ row' = [row EXCEPT ![u] = r] /\ torn \subseteq torn'
        /\ \A v \in Relays : v # u => row'[v] = row[v] /\ (v \in torn' <=> v \in torn)
        /\ u \notin torn' => row[u] = m.r
    <2>1. UpdateBillingSession(p, r)
      BY <1>3, <1>7 DEF SegmentWrite
    <2> QED
      BY <1>3, <1>4, <1>6, <2>1, RowWritten
  <1>9. row'[u] = r /\ row[u] \in Rows /\ r # None /\ row[u] # None
    BY <1>4, <1>6, <1>8, ProcsAssumption DEF BillingTypeOK
  <1>10. /\ UNCHANGED <<now, report, active, snap, span, late>> /\ now <= now
    BY BillingAssumption DEF SegmentWrite, memory, BillingTypeOK
  <1>11. PICK l : /\ loc' = [loc EXCEPT ![p] = l] /\ l.pc = "segSync" /\ l.a = m.a
                  /\ l.seg = m.seg /\ l.u = u
    <2>1. PICK l : l = [[m EXCEPT !.r = None] EXCEPT !.pc = "segSync"]
      OBVIOUS
    <2>2. l.pc = "segSync" /\ l.a = m.a /\ l.seg = m.seg /\ l.u = u
      BY <1>6, <2>1 DEF Proc
    <2>3. loc' = [loc EXCEPT ![p] = l]
      BY <1>3, <2>1 DEF SegmentWrite, Goto
    <2> QED
      BY <2>2, <2>3
  <1>12. loc'[p] = l /\ \A q \in Procs : q # p => loc'[q] = loc[q]
    BY <1>4, <1>11 DEF BillingTypeOK
  <1>13. ASSUME NEW v \in Relays, v # u PROVE Known(v)'
    <2>1. v # p /\ loc'[v] = loc[v]
      BY <1>1, <1>4, <1>6, <1>12, <1>13
    <2>2. SameStage(Ticker, loc[Ticker], loc'[Ticker]) \/ (~TickerHas(v) /\ ~TickerHas(v)')
      <3>1. CASE p = Ticker
        BY <1>3, <1>6, <1>11, <1>12, <1>13, <3>1 DEF TickerHas
      <3>2. CASE p # Ticker
        BY <1>1, <1>12, <3>2, SameStageRefl
      <3> QED
        BY <3>1, <3>2
    <2>3. SessionFrame(v) /\ (v \notin late' => v \notin late)
      BY <1>8, <1>10, <1>13, <2>1, <2>2, SameStageRefl DEF SessionFrame
    <2> QED
      BY <1>1, <2>3, UntouchedKnown
  <1>14. /\ loc'[u].pc = "live" <=> loc[u].pc = "live"
         /\ loc'[u].pc \in Begun <=> loc[u].pc \in Begun
         /\ Written(u)' <=> Written(u)
         /\ TickerHas(u)' <=> TickerHas(u)
    <2>1. CASE p = Ticker
      BY <1>1, <1>2, <1>3, <1>6, <1>11, <1>12, <2>1 DEF Written, TickerHas
    <2>2. CASE p = u
      BY <1>1, <1>2, <1>11, <1>12, <2>2 DEF Begun, SettlePCs, Written, WrittenPCs, TickerHas
    <2> QED
      BY <1>4, <1>6, <2>1, <2>2
  <1>15. SessionOK(u)' /\ Awaits(u)' /\ Fresh(u)'
    <2>1. SessionOK(u) /\ Awaits(u) /\ Fresh(u)
      BY <1>1 DEF Known
    <2>2. SessionOK(u)'
      BY <1>9, <1>10, <1>14, <2>1 DEF SessionOK
    <2>3. Awaits(u)'
      BY <1>7, <1>8, <1>9, <1>10, <1>14, <2>1 DEF Awaits
    <2>4. Fresh(u)'
      BY <1>10, <1>14, <2>1 DEF Fresh
    <2> QED
      BY <2>2, <2>3, <2>4
  <1>16. Account(u)'
    <2> SUFFICES ASSUME (span[u] # None /\ Undisturbed(u) /\ ~Doomed(u))'
                 PROVE  (LiveCovered(u) /\ EndCovered(u))'
      BY DEF Account
    <2>1. /\ span[u] # None /\ LiveCovered(u) /\ EndCovered(u) /\ SessionOK(u)
          /\ row'[u].billed = row[u].billed + m.seg.billed /\ ~Doomed(u)
      BY <1>1, <1>7, <1>8, <1>9, <1>10, <1>14 DEF Known, Account, Undisturbed, Doomed
    <2>2. ASSUME Covers(u, m.a.start) PROVE Covers(u, m.seg.to)'
      BY <1>4, <1>5, <1>9, <1>10, <2>1, <2>2, MonthCovered
    <2>3. Settling(p, u)' <=> Covers(u, m.seg.to)'
      BY <1>11, <1>12 DEF Settling
    <2>4. Settling(p, u) <=> Covers(u, m.a.start)
      BY <1>2, <1>3 DEF Settling
    <2>5. CASE p = Ticker
      <3>1. TickerHas(u) /\ active[u] # None /\ loc[u].pc = "live" /\ loc'[u].pc = "live"
        BY <1>2, <1>3, <1>6, <1>14, <2>1, <2>5 DEF TickerHas, Doomed, SessionOK
      <3>2. loc[Ticker].a = active[u] /\ Settling(Ticker, u)
        BY <2>1, <3>1 DEF LiveCovered
      <3>3. LiveCovered(u)'
        BY <1>3, <1>10, <1>11, <1>12, <1>14, <2>2, <2>3, <2>4, <2>5, <3>1, <3>2 DEF LiveCovered
      <3>4. EndCovered(u)'
        BY <3>1 DEF EndCovered, SettlePCs, Written, WrittenPCs
      <3> QED
        BY <3>3, <3>4
    <2>6. CASE p = u
      <3>1. active'[u] = None /\ Settling(u, u)
        BY <1>2, <1>10, <2>1, <2>6 DEF SessionOK, EndCovered
      <3>2. LiveCovered(u)'
        BY <3>1 DEF LiveCovered
      <3>3. Settling(u, u)'
        BY <2>2, <2>3, <2>4, <2>6, <3>1
      <3>4. EndCovered(u)'
        BY <1>11, <1>12, <2>6, <3>3 DEF EndCovered, Written, WrittenPCs
      <3> QED
        BY <3>2, <3>4
    <2> QED
      BY <1>4, <1>6, <2>5, <2>6
  <1>17. Known(u)'
    BY <1>15, <1>16 DEF Known
  <1> QED
    BY <1>13, <1>17, RestIsKnown

\* settleCrossingMonth goes on to the next month; the ticker tells the live
\* session, or finds that it has ended.
LEMMA SegmentSyncKnown ==
  ASSUME BillingTypeOK, KnowsAll, Rest, BillingTypeOK', KnowsAll',
         NEW p \in Relays \cup {Ticker}, SegmentSync(p)
  PROVE  Rest'
  <1>1. /\ \A v \in Relays : Known(v) /\ v \in Procs /\ v # Ticker
        /\ Ticker \in Procs
    BY RestIsKnown, ProcsAssumption DEF Procs
  <1>2. loc[p].pc = "segSync" /\ loc[p].pc \in SettlePCs
    BY DEF SegmentSync, At, SettlePCs
  <1>3. p \in Procs /\ (p \in Relays => loc[p].u = p)
    BY <1>2, SettlerFacts
  <1>4. PICK u \in Relays : u = loc[p].u
    BY <1>2, SettlerFacts
  <1>5. PICK a \in Sessions :
          /\ a = [start |-> loc[p].seg.to, remaining |-> loc[p].c.remaining]
          /\ a.start <= now
          /\ \A q \in Procs : q # p => loc'[q] = loc[q]
          /\ \/ /\ loc'[p].pc = "segCharge" /\ loc'[p].u = loc[p].u /\ loc'[p].a = a
             \/ /\ p = Ticker /\ loc'[p].pc = "idle"
             \/ /\ p # Ticker /\ loc'[p].pc = "finRow" /\ loc'[p].u = loc[p].u /\ loc'[p].a = a
    BY SegmentSyncMoves
  <1>6. /\ UNCHANGED <<now, row, report, snap, span, torn>> /\ now <= now
        /\ a # None /\ a.start = loc[p].seg.to
    BY <1>5, BillingAssumption, ProcsAssumption DEF SegmentSync, db, BillingTypeOK
  <1>7. /\ active' = IF active[u] = None THEN active ELSE [active EXCEPT ![u] = a]
        /\ late' = IF p = Ticker /\ active[u] = None THEN late \cup {u} ELSE late
    BY <1>4, <1>5 DEF SegmentSync
  <1>8. /\ active'[u] = IF active[u] = None THEN None ELSE a
        /\ \A v \in Relays : v # u => active'[v] = active[v] /\ (v \in late' <=> v \in late)
    BY <1>7 DEF BillingTypeOK
  <1>9. ASSUME NEW v \in Relays, v # u PROVE Known(v)'
    <2>1. v # p /\ loc'[v] = loc[v]
      BY <1>1, <1>3, <1>4, <1>5, <1>9
    <2>2. SameStage(Ticker, loc[Ticker], loc'[Ticker]) \/ (~TickerHas(v) /\ ~TickerHas(v)')
      <3>1. CASE p = Ticker
        BY <1>4, <1>5, <1>9, <3>1 DEF TickerHas
      <3>2. CASE p # Ticker
        BY <1>1, <1>5, <3>2, SameStageRefl
      <3> QED
        BY <3>1, <3>2
    <2>3. SessionFrame(v) /\ (v \notin late' => v \notin late)
      BY <1>6, <1>8, <1>9, <2>1, <2>2, SameStageRefl DEF SessionFrame
    <2> QED
      BY <1>1, <2>3, UntouchedKnown
  <1>10. CASE p = Ticker
    <2>1. loc'[u] = loc[u] /\ TickerHas(u) /\ Known(u)
      BY <1>1, <1>2, <1>4, <1>5, <1>10 DEF TickerHas
    <2>2. SessionOK(u)' /\ Awaits(u)' /\ Fresh(u)'
      <3>1. SessionOK(u)'
        BY <1>5, <1>6, <1>8, <2>1 DEF Known, SessionOK
      <3>2. Awaits(u)'
        BY <1>6, <2>1 DEF Known, Awaits, Written
      <3>3. Fresh(u)'
        BY <1>6, <2>1 DEF Known, Fresh
      <3> QED
        BY <3>1, <3>2, <3>3
    <2>3. Account(u)'
      <3> SUFFICES ASSUME (span[u] # None /\ Undisturbed(u) /\ ~Doomed(u))'
                   PROVE  (LiveCovered(u) /\ EndCovered(u))'
        BY DEF Account
      <3>1. /\ active[u] # None /\ span[u] # None /\ Undisturbed(u) /\ ~Doomed(u)
        BY <1>6, <1>7, <1>10 DEF Undisturbed, Doomed
      <3>2. loc[u].pc = "live" /\ LiveCovered(u)
        BY <2>1, <3>1 DEF Known, Account, SessionOK
      <3>3. PICK t : t = a.start /\ Covers(u, t)
        BY <1>2, <1>6, <1>10, <2>1, <3>1, <3>2 DEF LiveCovered, Settling
      <3>4. Covers(u, t)'
        BY <1>6, <3>3 DEF Covers, Bills, MonthsTo
      <3>5. TickerHas(u)' => loc'[Ticker].pc = "segCharge" /\ loc'[Ticker].a = a
        BY <1>5, <1>10 DEF TickerHas
      <3>6. LiveCovered(u)'
        BY <1>8, <3>1, <3>3, <3>4, <3>5 DEF LiveCovered, Settling
      <3>7. EndCovered(u)'
        BY <2>1, <3>2 DEF EndCovered, SettlePCs, Written, WrittenPCs
      <3> QED
        BY <3>6, <3>7
    <2> QED
      BY <1>9, <2>2, <2>3, RestIsKnown DEF Known
  <1>11. CASE p = u
    <2>1. /\ loc'[u].pc \in {"segCharge", "finRow"} /\ loc'[u].a = a
          /\ loc'[Ticker] = loc[Ticker] /\ Known(u) /\ late' = late
      BY <1>1, <1>5, <1>7, <1>11
    <2>2. loc[u].pc # "live" /\ loc[u].pc \in Begun /\ ~Written(u)
      BY <1>2, <1>11 DEF Begun, SettlePCs, Written, WrittenPCs
    <2>3. loc'[u].pc # "live" /\ loc'[u].pc \in Begun /\ ~Written(u)'
      BY <2>1 DEF Begun, SettlePCs, FinalPCs, Written, WrittenPCs
    <2>4. active[u] = None /\ active'[u] = None
      BY <1>8, <2>1, <2>2 DEF Known, SessionOK
    <2>5. SessionOK(u)' /\ Awaits(u)' /\ Fresh(u)'
      <3>1. SessionOK(u)'
        BY <1>6, <2>1, <2>2, <2>3, <2>4 DEF Known, SessionOK
      <3>2. Awaits(u)'
        BY <2>3 DEF Awaits
      <3>3. Fresh(u)'
        BY <1>6, <2>1, <2>4 DEF Known, Fresh, TickerHas
      <3> QED
        BY <3>1, <3>2, <3>3
    <2>6. Account(u)'
      <3> SUFFICES ASSUME (span[u] # None /\ Undisturbed(u) /\ ~Doomed(u))'
                   PROVE  (LiveCovered(u) /\ EndCovered(u))'
        BY DEF Account
      <3>1. span[u] # None /\ Undisturbed(u) /\ ~Doomed(u)
        BY <1>6, <2>1, <2>4 DEF Undisturbed, Doomed, TickerHas
      <3>2. Settling(u, u)
        BY <1>2, <1>11, <2>1, <3>1 DEF Known, Account, EndCovered
      <3>3. PICK t : t = a.start /\ Covers(u, t)
        BY <1>2, <1>6, <1>11, <3>2 DEF Settling
      <3>4. Covers(u, t)'
        BY <1>6, <3>3 DEF Covers, Bills, MonthsTo
      <3>5. Settling(u, u)'
        BY <2>1, <3>3, <3>4 DEF Settling
      <3>6. LiveCovered(u)'
        BY <2>4 DEF LiveCovered
      <3>7. EndCovered(u)'
        BY <2>1, <2>3, <3>5 DEF EndCovered
      <3> QED
        BY <3>6, <3>7
    <2> QED
      BY <1>9, <2>5, <2>6, RestIsKnown DEF Known
  <1> QED
    BY <1>3, <1>4, <1>10, <1>11

\* The ticker copies the live sessions.
LEMMA TickActiveKnown ==
  ASSUME BillingTypeOK, KnowsAll, Rest, BillingTypeOK', tickActive
  PROVE  Rest'
  <1> SUFFICES ASSUME NEW u \in Relays PROVE Known(u)'
    BY RestIsKnown
  <1>1. Known(u) /\ snap' = active /\ snap'[u] = active[u]
    BY RestIsKnown DEF tickActive
  <1>2. /\ UNCHANGED <<now, row, report, active, loc, span, torn, late>> /\ now <= now
        /\ loc[Ticker].pc = "idle"
    BY BillingAssumption DEF tickActive, At, db, history, BillingTypeOK
  <1>3. SessionOK(u)'
    BY <1>1, <1>2 DEF Known, SessionOK, Begun
  <1>4. Awaits(u)' /\ Fresh(u)'
    BY <1>1, <1>2 DEF Known, Awaits, Written, Fresh, TickerHas
  <1>5. Account(u)'
    <2>1. AccountFrame(u)
      BY <1>2, SameStageRefl DEF AccountFrame
    <2> QED
      BY <1>1, <2>1, AccountKept DEF Known
  <1> QED
    BY <1>3, <1>4, <1>5 DEF Known

\* The ticker takes up a copy: of a live session it is what active holds, and of
\* one that has ended the account is closed until the ticker is done with it.
LEMMA TickNextKnown ==
  ASSUME BillingTypeOK, KnowsAll, Rest, BillingTypeOK', NEW u \in Relays, TickNext(u)
  PROVE  Rest'
  <1>1. /\ \A v \in Relays : Known(v) /\ v \in Procs /\ v # Ticker
        /\ Ticker \in Procs /\ SessionsOK
    BY RestIsKnown, ProcsAssumption DEF Procs, Rest
  <1>2. /\ \A q \in Procs : q # Ticker => loc'[q] = loc[q]
        /\ \/ /\ loc'[Ticker].pc = "segCharge" /\ loc'[Ticker].u = u /\ loc'[Ticker].a = snap[u]
           \/ /\ loc'[Ticker].pc = "idle"
    BY <1>1, TickNextMoves
  <1>3. /\ loc[Ticker].pc = "idle" /\ snap[u] # None
        /\ UNCHANGED <<now, row, report, active, span, torn, late>> /\ now <= now
    BY BillingAssumption DEF TickNext, Enters, At, db, history, BillingTypeOK
  <1>4. snap'[u] = None /\ \A v \in Relays : v # u => snap'[v] = snap[v]
    BY DEF TickNext, BillingTypeOK
  <1>5. ASSUME NEW v \in Relays, v # u PROVE Known(v)'
    <2>1. ~TickerHas(v) /\ ~TickerHas(v)' /\ loc'[v] = loc[v]
      BY <1>1, <1>2, <1>3, <1>5 DEF TickerHas
    <2>2. SessionFrame(v) /\ (v \notin late' => v \notin late)
      BY <1>3, <1>4, <1>5, <2>1, SameStageRefl DEF SessionFrame
    <2> QED
      BY <1>1, <2>2, UntouchedKnown
  <1>6. Known(u) /\ loc'[u] = loc[u] /\ ~TickerHas(u)
    BY <1>1, <1>2, <1>3 DEF TickerHas
  <1>7. SessionOK(u)' /\ Awaits(u)' /\ Fresh(u)'
    BY <1>3, <1>4, <1>6 DEF Known, SessionOK, Awaits, Written, Fresh
  <1>8. Account(u)'
    <2>1. CASE ~TickerHas(u)'
      <3>1. AccountFrame(u)
        BY <1>3, <1>6, <2>1, SameStageRefl DEF AccountFrame
      <3> QED
        BY <1>6, <3>1, AccountKept DEF Known
    <2>2. CASE TickerHas(u)'
      <3> SUFFICES ASSUME (span[u] # None /\ Undisturbed(u) /\ ~Doomed(u))'
                   PROVE  (LiveCovered(u) /\ EndCovered(u))'
        BY DEF Account
      <3>1. active[u] # None /\ span[u] # None /\ Undisturbed(u) /\ ~Doomed(u)
        BY <1>3, <1>6, <2>2 DEF Undisturbed, Doomed
      <3>2. loc'[Ticker].pc = "segCharge" /\ loc'[Ticker].a = active[u]
        BY <1>2, <1>3, <1>6, <2>2, <3>1 DEF Known, Fresh, TickerHas
      <3>3. PICK t : t = active[u].start /\ Covers(u, t)
        BY <1>6, <3>1 DEF Known, Account, LiveCovered
      <3>4. Covers(u, t)'
        BY <1>3, <3>3 DEF Covers, Bills, MonthsTo
      <3>5. LiveCovered(u)'
        BY <1>3, <2>2, <3>2, <3>3, <3>4 DEF LiveCovered, Settling
      <3>6. loc'[u].pc = "live"
        BY <1>6, <3>1 DEF Known, SessionOK
      <3>7. EndCovered(u)'
        BY <3>6 DEF EndCovered, SettlePCs, Written, WrittenPCs
      <3> QED
        BY <3>5, <3>7
    <2> QED
      BY <2>1, <2>2
  <1>9. Known(u)'
    BY <1>7, <1>8 DEF Known
  <1> QED
    BY <1>5, <1>9, RestIsKnown

\* EndRelay goes on from where the row has been settled, unless the ticker is at
\* work on its own copy.
LEMMA EndRelayKnown ==
  ASSUME BillingTypeOK, KnowsAll, Rest, BillingTypeOK', NEW u \in Relays, EndRelay(u)
  PROVE  Rest'
  <1>1. /\ \A v \in Relays : Known(v) /\ v \in Procs /\ v # Ticker
        /\ Ticker \in Procs /\ SessionsOK
    BY RestIsKnown, ProcsAssumption DEF Procs, Rest
  <1>2. /\ \A q \in Procs : q # u => loc'[q] = loc[q]
        /\ loc[u].pc = "live" /\ active[u] # None
        /\ loc'[u].pc \in {"segCharge", "finRow"} /\ loc'[u].u = u /\ loc'[u].a = active[u]
    BY <1>1, EndRelayMoves
  <1>3. UNCHANGED <<now, row, report, snap, span, torn, late>> /\ now <= now
    BY BillingAssumption DEF EndRelay, db, history, BillingTypeOK
  <1>4. active'[u] = None /\ \A v \in Relays : v # u => active'[v] = active[v]
    BY DEF EndRelay, BillingTypeOK
  <1>5. loc'[Ticker] = loc[Ticker] /\ Known(u)
    BY <1>1, <1>2
  <1>6. ASSUME NEW v \in Relays, v # u PROVE Known(v)'
    <2>1. SessionFrame(v) /\ (v \notin late' => v \notin late)
      BY <1>1, <1>2, <1>3, <1>4, <1>5, <1>6, SameStageRefl DEF SessionFrame
    <2> QED
      BY <1>1, <2>1, UntouchedKnown
  <1>7. loc'[u].pc # "live" /\ loc[u].pc \in Begun /\ loc'[u].pc \in Begun /\ ~Written(u)'
    BY <1>2 DEF Begun, SettlePCs, FinalPCs, Written, WrittenPCs
  <1>8. SessionOK(u)' /\ Awaits(u)' /\ Fresh(u)'
    <2>1. SessionOK(u)'
      BY <1>2, <1>3, <1>4, <1>5, <1>7 DEF Known, SessionOK
    <2>2. Awaits(u)'
      BY <1>7 DEF Awaits
    <2>3. Fresh(u)'
      BY <1>3, <1>4, <1>5 DEF Known, Fresh, TickerHas
    <2> QED
      BY <2>1, <2>2, <2>3
  <1>9. Account(u)'
    <2> SUFFICES ASSUME (span[u] # None /\ Undisturbed(u) /\ ~Doomed(u))'
                 PROVE  (LiveCovered(u) /\ EndCovered(u))'
      BY DEF Account
    <2>1. ~TickerHas(u) /\ ~Doomed(u) /\ span[u] # None /\ Undisturbed(u)
      BY <1>3, <1>4, <1>5 DEF Doomed, TickerHas, Undisturbed
    <2>2. PICK t : t = active[u].start /\ Covers(u, t)
      BY <1>2, <1>5, <2>1 DEF Known, Account, LiveCovered
    <2>3. Covers(u, t)'
      BY <1>3, <2>2 DEF Covers, Bills, MonthsTo
    <2>4. LiveCovered(u)'
      BY <1>4 DEF LiveCovered
    <2>5. Settling(u, u)'
      BY <1>2, <2>2, <2>3 DEF Settling
    <2>6. EndCovered(u)'
      BY <1>2, <1>7, <2>5 DEF EndCovered
    <2> QED
      BY <2>4, <2>6
  <1>10. Known(u)'
    BY <1>8, <1>9 DEF Known
  <1> QED
    BY <1>6, <1>10, RestIsKnown

\* finalizeSession reads the row and computes the last part.
LEMMA FinalRowKnown ==
  ASSUME BillingTypeOK, KnowsAll, Rest, NEW u \in Relays, FinalRow(u)
  PROVE  Rest'
  <1>1. /\ \A v \in Relays : Known(v) /\ v \in Procs /\ v # Ticker
        /\ Ticker \in Procs /\ SessionsOK
    BY RestIsKnown, ProcsAssumption DEF Procs, Rest
  <1>2. /\ BillingTypeOK' /\ \A q \in Procs : q # u => loc'[q] = loc[q]
        /\ loc[u].pc = "finRow" /\ loc'[u].pc = "finWrite"
        /\ loc'[u].a = loc[u].a /\ loc'[u].seg = Segment(loc[u].a, now)
        /\ span[u] # None /\ span'[u].to = now /\ span'[u].from = span[u].from
        /\ \A v \in Relays : v # u => span'[v] = span[v]
    BY <1>1, FinalRowMoves
  <1>3. /\ UNCHANGED <<now, row, report, active, snap, torn, late>> /\ now <= now
        /\ span'[u] # None
    <2>1. span'[u] = [span[u] EXCEPT !.to = now] /\ span[u] \in [from : 0..MaxTime, to : 0..MaxTime]
      BY <1>2 DEF FinalRow, BillingTypeOK
    <2>2. span'[u] \in [from : 0..MaxTime, to : 0..MaxTime]
      BY <2>1 DEF BillingTypeOK
    <2> QED
      BY <2>2, BillingAssumption, ProcsAssumption DEF FinalRow, db, memory, BillingTypeOK
  <1>4. loc'[Ticker] = loc[Ticker] /\ Known(u) /\ loc[u].a.start <= now
    <2>1. loc[u].pc \in FinalPCs
      BY <1>2 DEF FinalPCs
    <2> QED
      BY <1>1, <1>2, <2>1, FinalFacts
  <1>5. ASSUME NEW v \in Relays, v # u PROVE Known(v)'
    <2>1. SessionFrame(v) /\ (v \notin late' => v \notin late)
      BY <1>1, <1>2, <1>3, <1>4, <1>5, SameStageRefl DEF SessionFrame
    <2> QED
      BY <1>1, <1>2, <2>1, UntouchedKnown
  <1>6. /\ loc'[u].pc # "live" /\ loc[u].pc # "live" /\ loc[u].pc \in Begun
        /\ loc'[u].pc \in Begun /\ ~Written(u)'
    BY <1>2 DEF Begun, FinalPCs, Written, WrittenPCs
  <1>7. SessionOK(u)' /\ Awaits(u)' /\ Fresh(u)'
    <2>1. SessionOK(u)'
      BY <1>2, <1>3, <1>4, <1>6 DEF Known, SessionOK
    <2>2. Awaits(u)'
      BY <1>6 DEF Awaits
    <2>3. Fresh(u)'
      BY <1>3, <1>4 DEF Known, Fresh, TickerHas
    <2> QED
      BY <2>1, <2>2, <2>3
  <1>8. Account(u)'
    <2> SUFFICES ASSUME (span[u] # None /\ Undisturbed(u) /\ ~Doomed(u))'
                 PROVE  (LiveCovered(u) /\ EndCovered(u))'
      BY DEF Account
    <2>1. ~Doomed(u) /\ Undisturbed(u)
      BY <1>3, <1>4 DEF Doomed, TickerHas, Undisturbed
    <2>2. active[u] = None /\ Settling(u, u)
      BY <1>2, <1>4, <1>6, <2>1 DEF Known, SessionOK, Account, EndCovered
    <2>3. PICK t : t = loc[u].a.start /\ Covers(u, t)
      BY <1>2, <2>2 DEF Settling
    <2>4. Covers(u, t)'
      BY <1>2, <1>3, <2>3 DEF Covers, Bills, MonthsTo
    <2>5. Settling(u, u)'
      BY <1>2, <2>3, <2>4 DEF Settling
    <2>6. EndCovered(u)'
      BY <1>2, <1>4, <1>6, <2>5 DEF EndCovered
    <2> QED
      BY <1>3, <2>2, <2>6 DEF LiveCovered
  <1> QED
    BY <1>5, <1>7, <1>8, RestIsKnown DEF Known

\* finalizeSession writes the row: the session is billed to its end.
LEMMA FinalWriteKnown ==
  ASSUME BillingTypeOK, KnowsAll, Rest, BillingTypeOK', NEW u \in Relays, FinalWrite(u)
  PROVE  Rest'
  <1>1. /\ \A v \in Relays : Known(v) /\ v \in Procs /\ v # Ticker
        /\ Ticker \in Procs
    BY RestIsKnown, ProcsAssumption DEF Procs
  <1>2. loc[u].pc = "finWrite" /\ loc[u].pc \in FinalPCs
    BY DEF FinalWrite, At, FinalPCs
  <1>3. PICK m \in Proc : m = loc[u]
    BY <1>2, FinalFacts
  <1>4. /\ Knows(u, m) /\ m.u = u /\ m.a \in Sessions /\ row[u] \in Rows /\ m.seg \in Segments
    BY <1>2, <1>3, FinalFacts
  <1>5. m.r \in Rows
    BY <1>2, <1>3, <1>4 DEF Knows, Proc
  <1>6. PICK r \in Rows : /\ r = [Billed(m.r, m.seg) EXCEPT !.status = FinalStatus]
                          /\ r.billed = m.r.billed + m.seg.billed /\ r.status = FinalStatus
    <2>1. PICK b \in Rows : b = Billed(m.r, m.seg) /\ b.billed = m.r.billed + m.seg.billed
      BY <1>4, <1>5, BilledFacts
    <2>2. PICK s \in {"pending_report", "closed"} : s = FinalStatus
      BY DEF FinalStatus
    <2>3. PICK r : r = [b EXCEPT !.status = s]
      OBVIOUS
    <2>4. r \in Rows /\ r.billed = b.billed /\ r.status = s
      BY <2>3 DEF Rows
    <2> QED
      BY <2>1, <2>2, <2>3, <2>4
  <1>7. /\ row' = [row EXCEPT ![u] = r] /\ torn \subseteq torn'
        /\ \A v \in Relays : v # u => row'[v] = row[v] /\ (v \in torn' <=> v \in torn)
        /\ u \notin torn' => row[u] = m.r
    <2>1. UpdateBillingSession(u, r)
      BY <1>3, <1>6 DEF FinalWrite
    <2> QED
      BY <1>1, <1>3, <1>4, <2>1, RowWritten
  <1>8. row'[u] = r /\ r # None /\ row[u] # None
    BY <1>4, <1>7, ProcsAssumption DEF BillingTypeOK
  <1>9. UNCHANGED <<now, report, active, snap, span, late>> /\ now <= now
    BY BillingAssumption DEF FinalWrite, memory, BillingTypeOK
  <1>10. loc'[u].pc = "finRead" /\ \A q \in Procs : q # u => loc'[q] = loc[q]
    <2>1. PICK l : l = [[m EXCEPT !.r = None] EXCEPT !.pc = "finRead"]
      OBVIOUS
    <2>2. l.pc = "finRead"
      BY <2>1 DEF Proc
    <2>3. loc' = [loc EXCEPT ![u] = l]
      BY <1>3, <2>1 DEF FinalWrite, Goto
    <2> QED
      BY <1>1, <2>2, <2>3 DEF BillingTypeOK
  <1>11. loc'[Ticker] = loc[Ticker] /\ Known(u)
    BY <1>1, <1>10
  <1>12. ASSUME NEW v \in Relays, v # u PROVE Known(v)'
    <2>1. SessionFrame(v) /\ (v \notin late' => v \notin late)
      BY <1>1, <1>7, <1>9, <1>10, <1>11, <1>12, SameStageRefl DEF SessionFrame
    <2> QED
      BY <1>1, <2>1, UntouchedKnown
  <1>13. /\ loc'[u].pc # "live" /\ loc[u].pc # "live" /\ loc[u].pc \in Begun
         /\ loc'[u].pc \in Begun
    BY <1>2, <1>10 DEF Begun, FinalPCs
  <1>14. SessionOK(u)' /\ Awaits(u)' /\ Fresh(u)'
    <2>1. SessionOK(u)'
      BY <1>8, <1>9, <1>11, <1>13 DEF Known, SessionOK
    <2>2. Awaits(u)'
      BY <1>6, <1>8 DEF Awaits, FinalStatus
    <2>3. Fresh(u)'
      BY <1>9, <1>11 DEF Known, Fresh, TickerHas
    <2> QED
      BY <2>1, <2>2, <2>3
  <1>15. Account(u)'
    <2> SUFFICES ASSUME (span[u] # None /\ Undisturbed(u) /\ ~Doomed(u))'
                 PROVE  (LiveCovered(u) /\ EndCovered(u))'
      BY DEF Account
    <2>1. ~Doomed(u) /\ Undisturbed(u) /\ span[u] # None /\ row[u] = m.r
      BY <1>7, <1>9, <1>11 DEF Doomed, TickerHas, Undisturbed
    <2>2. /\ active[u] = None /\ Settling(u, u) /\ m.seg = Segment(m.a, span[u].to)
          /\ m.a.start <= span[u].to
      BY <1>2, <1>3, <1>11, <1>13, <2>1 DEF Known, SessionOK, Account, EndCovered
    <2>3. Covers(u, m.a.start)
      BY <1>2, <1>3, <2>2 DEF Settling
    <2>4. (span[u].to >= span[u].from /\ Bills(u, span[u].to, MonthsTo(u, span[u].to) + 1))'
      BY <1>4, <1>6, <1>8, <1>9, <2>1, <2>2, <2>3, EndBilled
    <2>5. EndCovered(u)'
      BY <1>10, <2>4 DEF EndCovered, SettlePCs
    <2> QED
      BY <1>9, <2>2, <2>5 DEF LiveCovered
  <1> QED
    BY <1>12, <1>14, <1>15, RestIsKnown DEF Known

\* A report closes the row of its session and leaves what is billed alone.
LEMMA CloseKnown ==
  ASSUME BillingTypeOK, KnowsAll, Rest, BillingTypeOK', CloseReported
  PROVE  Rest'
  <1>1. /\ \A v \in Relays : Known(v) /\ v \in Procs /\ v # Ticker /\ v # Operator
        /\ Ticker \in Procs /\ Operator \in Procs /\ Ticker # Operator
    BY RestIsKnown, ProcsAssumption DEF Procs
  <1>2. PICK m \in Proc : m = loc[Operator] /\ Knows(Operator, m)
    BY <1>1 DEF BillingTypeOK, KnowsAll
  <1>3. m.pc = "close" /\ m.u \in Relays /\ m.r \in Rows /\ m.u \in report
    BY <1>2 DEF CloseReported, At, Knows, Proc
  <1>4. PICK u \in Relays : u = m.u
    BY <1>3
  <1>5. PICK r \in Rows : /\ r = [m.r EXCEPT !.status = "closed"]
                          /\ r.billed = m.r.billed /\ r.status = "closed"
    <2>1. PICK b \in Rows : b = m.r
      BY <1>3
    <2>2. PICK r : r = [b EXCEPT !.status = "closed"]
      OBVIOUS
    <2>3. r \in Rows /\ r.billed = b.billed /\ r.status = "closed"
      BY <2>2 DEF Rows
    <2> QED
      BY <2>1, <2>2, <2>3
  <1>6. /\ row' = [row EXCEPT ![u] = r] /\ torn \subseteq torn'
        /\ \A v \in Relays : v # u => row'[v] = row[v] /\ (v \in torn' <=> v \in torn)
        /\ u \notin torn' => row[u] = m.r
    <2>1. UpdateBillingSession(Operator, r)
      BY <1>2, <1>5 DEF CloseReported
    <2> QED
      BY <1>1, <1>2, <1>4, <2>1, RowWritten
  <1>7. row'[u] = r /\ r # None
    BY <1>6, ProcsAssumption DEF BillingTypeOK
  <1>8. UNCHANGED <<now, report, active, snap, span, late>> /\ now <= now
    BY BillingAssumption DEF CloseReported, memory, BillingTypeOK
  <1>9. \A q \in Procs : q # Operator => loc'[q] = loc[q]
    BY <1>1 DEF CloseReported, Goto, BillingTypeOK
  <1>10. loc'[Ticker] = loc[Ticker] /\ \A v \in Relays : loc'[v] = loc[v]
    BY <1>1, <1>9
  <1>11. ASSUME NEW v \in Relays, v # u PROVE Known(v)'
    <2>1. SessionFrame(v) /\ (v \notin late' => v \notin late)
      BY <1>6, <1>8, <1>10, <1>11, SameStageRefl DEF SessionFrame
    <2> QED
      BY <1>1, <2>1, UntouchedKnown
  <1>12. Known(u)'
    <2>1. Known(u) /\ SessionOK(u) /\ Account(u) /\ Fresh(u)
      BY <1>1 DEF Known
    <2>2. AccountFrame(u)
      BY <1>5, <1>6, <1>7, <1>8, <1>10, SameStageRefl DEF AccountFrame
    <2>3. Account(u)'
      BY <2>1, <2>2, AccountKept
    <2>4. row[u] # None
      BY <1>2, <1>3, <1>4 DEF Knows
    <2>5. SessionOK(u)'
      BY <1>7, <1>8, <1>10, <2>1, <2>4 DEF SessionOK, Begun
    <2>6. Awaits(u)' /\ Fresh(u)'
      BY <1>3, <1>4, <1>5, <1>7, <1>8, <1>10, <2>1 DEF Awaits, Fresh, TickerHas
    <2> QED
      BY <2>3, <2>5, <2>6 DEF Known
  <1> QED
    BY <1>11, <1>12, RestIsKnown

-----------------------------------------------------------------------------
(* The invariant.                                                           *)

\* When the server starts nothing is billed and nobody is in a call.
LEMMA BillingInitial == Init => BillingInv
  <1> SUFFICES ASSUME Init PROVE BillingInv
    OBVIOUS
  <1>1. /\ \A u \in Relays : /\ row[u] = None /\ active[u] = None /\ snap[u] = None
                             /\ span[u] = None
        /\ now = Start /\ now \in 0..MaxTime /\ now \in Nat
    BY BillingAssumption DEF Init
  <1>2. ASSUME NEW q \in Procs
        PROVE  /\ loc[q] \in Proc /\ loc[q].pc = "idle" /\ loc[q].ens = "look"
               /\ loc[q].a = None /\ loc[q].until = 0 /\ (q \in Relays => loc[q].u = q)
    <2>1. CASE q \in Relays
      <3>1. PICK l \in Proc : l = [NewProc EXCEPT !.u = q]
        BY <2>1, NewProcTyped
      <3>2. l.pc = "idle" /\ l.ens = "look" /\ l.a = None /\ l.until = 0 /\ l.u = q
        BY <3>1 DEF NewProc
      <3> QED
        BY <2>1, <3>1, <3>2 DEF Init
    <2>2. CASE q \notin Relays
      <3>1. PICK l \in Proc : l = NewProc
        BY NewProcTyped
      <3>2. l.pc = "idle" /\ l.ens = "look" /\ l.a = None /\ l.until = 0
        BY <3>1 DEF NewProc
      <3> QED
        BY <2>2, <3>1, <3>2 DEF Init
    <2> QED
      BY <2>1, <2>2
  <1>3. loc \in [Procs -> Proc]
    <2>1. PICK f : f = [p \in Procs |-> IF p \in Relays THEN [NewProc EXCEPT !.u = p] ELSE NewProc]
      OBVIOUS
    <2>2. loc = f
      BY <2>1 DEF Init
    <2>3. \A q \in Procs : f[q] \in Proc
      BY <1>2, <2>2
    <2> QED
      BY <2>1, <2>2, <2>3, NewProcTyped
  <1>4. BillingTypeOK
    <2>1. contract \in Copies
      BY BillingAssumption DEF Init, Copies
    <2>2. /\ total \in [Months -> Nat \cup {None}] /\ row \in [Relays -> Rows \cup {None}]
          /\ pending \in [Relays -> 0..MaxTime \cup {None}]
          /\ active \in [Relays -> Sessions \cup {None}]
          /\ snap \in [Relays -> Sessions \cup {None}]
          /\ span \in [Relays -> [from : 0..MaxTime, to : 0..MaxTime] \cup {None}]
      BY Zenon DEF Init
    <2>3. /\ requests \in 0..MaxRequests /\ clobbered \in BOOLEAN
          /\ torn \subseteq Relays /\ late \subseteq Relays /\ report \subseteq Relays
          /\ overwritten \subseteq Months
      <3>1. requests = 0 /\ clobbered = FALSE
        BY Zenon DEF Init
      <3>2. torn = {} /\ late = {} /\ report = {} /\ overwritten = {}
        BY Zenon DEF Init
      <3>3. 0 \in 0..MaxRequests
        BY BillingAssumption
      <3> QED
        BY <3>1, <3>2, <3>3, Zenon
    <2> QED
      BY <1>1, <1>3, <2>1, <2>2, <2>3 DEF BillingTypeOK
  <1>5. KnowsAll
    BY <1>1, <1>2
       DEF KnowsAll, Knows, Ensuring, SettlePCs, FinalPCs, RelayPCs, PCs, AtRest, Counting
  <1>6. \A u \in Relays : u \in Procs
    BY DEF Procs
  <1>7. SessionsOK
    BY <1>1, <1>2, <1>6 DEF SessionsOK, SessionOK, Begun, SettlePCs, FinalPCs
  <1>8. ReportAwaited
    BY <1>2, <1>6 DEF ReportAwaited, Awaits, Written, WrittenPCs
  <1>9. CopiesFresh /\ Accounted
    BY <1>1 DEF CopiesFresh, Fresh, Accounted, Account
  <1> QED
    BY <1>4, <1>5, <1>7, <1>8, <1>9 DEF BillingInv

\* Every step keeps what is known.
LEMMA BillingStep == BillingInv /\ [Next]_vars => BillingInv'
  <1> SUFFICES ASSUME BillingInv, [Next]_vars PROVE BillingInv'
    OBVIOUS
  <1> SUFFICES BillingTypeOK' /\ KnowsAll' /\ Rest'
    BY DEF BillingInv, Rest
  <1>1. BillingTypeOK /\ KnowsAll /\ Rest /\ SessionsOK
    BY DEF BillingInv, Rest
  <1>2. ASSUME BillingTypeOK' /\ KnowsAll', QuietFrame PROVE BillingTypeOK' /\ KnowsAll' /\ Rest'
    BY <1>1, <1>2, QuietKeeps
  <1>3. Ticker \in Procs /\ \A u \in Relays : u \in Procs
    BY DEF Procs
  <1>4. ASSUME NEW p \in Relays \cup {Ticker}, EnsureStep(p)
        PROVE  BillingTypeOK' /\ KnowsAll' /\ Rest'
    <2>1. p \in Procs
      BY <1>3
    <2>2. (BillingTypeOK' /\ KnowsAll') /\ QuietFrame
      BY <1>1, <1>4, <2>1, EnsureTyped, EnsureQuiet
    <2> QED
      BY <1>2, <2>2
  <1>5. ASSUME NEW p \in Relays \cup {Ticker}, SettleStep(p)
        PROVE  BillingTypeOK' /\ KnowsAll' /\ Rest'
    <2>1. CASE SegmentCharge(p) \/ SegmentReread(p) \/ SegmentTotal(p) \/ SegmentRow(p)
      <3>1. BillingTypeOK' /\ KnowsAll'
        BY <1>1, <2>1, SettleTyped
      <3>2. QuietFrame
        BY <1>1, <2>1, CallsQuiet, SettlingQuiet
      <3> QED
        BY <1>2, <3>1, <3>2
    <2>2. CASE SegmentWrite(p)
      <3>1. BillingTypeOK' /\ KnowsAll'
        BY <1>1, <2>2, SegmentWriteTyped
      <3> QED
        BY <1>1, <2>2, <3>1, SegmentWriteKnown
    <2>3. CASE SegmentSync(p)
      <3>1. BillingTypeOK' /\ KnowsAll'
        BY <1>1, <2>3, SegmentSyncTyped
      <3> QED
        BY <1>1, <2>3, <3>1, SegmentSyncKnown
    <2> QED
      BY <1>5, <2>1, <2>2, <2>3 DEF SettleStep
  <1>6. ASSUME NEW u \in Relays, FinalStep(u) PROVE BillingTypeOK' /\ KnowsAll' /\ Rest'
    <2>1. CASE FinalRow(u)
      <3>1. BillingTypeOK' /\ KnowsAll'
        BY <1>1, <2>1, FinalRowMoves
      <3> QED
        BY <1>1, <2>1, <3>1, FinalRowKnown
    <2>2. CASE FinalWrite(u)
      <3>1. BillingTypeOK' /\ KnowsAll'
        BY <1>1, <2>2, FinalWriteTyped
      <3> QED
        BY <1>1, <2>2, <3>1, FinalWriteKnown
    <2>3. CASE FinalRead(u) \/ FinalReread(u) \/ FinalCharge(u) \/ FinalTotal(u)
      <3>1. BillingTypeOK' /\ KnowsAll'
        BY <1>1, <2>3, FinalTyped
      <3>2. QuietFrame
        BY <1>1, <2>3, CallsQuiet, EndsQuiet
      <3> QED
        BY <1>2, <3>1, <3>2
    <2> QED
      BY <1>6, <2>1, <2>2, <2>3 DEF FinalStep
  <1>7. ASSUME NEW u \in Relays,
               \/ PrepareRelay(u) \/ CheckConnection(u) \/ ActivateRelay(u) \/ ActivateReread(u)
               \/ sweepStalePending(u)
        PROVE  BillingTypeOK' /\ KnowsAll' /\ Rest'
    <2>1. BillingTypeOK' /\ KnowsAll'
      BY <1>1, <1>7, StartTyped
    <2>2. QuietFrame
      BY <1>1, <1>7, CallsQuiet, TimeQuiet
    <2> QED
      BY <1>2, <2>1, <2>2
  <1>8. ASSUME NEW u \in Relays, CreateBillingSession(u)
        PROVE  BillingTypeOK' /\ KnowsAll' /\ Rest'
    <2>1. BillingTypeOK' /\ KnowsAll'
      BY <1>1, <1>8, CreateTyped
    <2> QED
      BY <1>1, <1>8, <2>1, CreateKnown
  <1>9. ASSUME NEW u \in Relays, EndRelay(u) PROVE BillingTypeOK' /\ KnowsAll' /\ Rest'
    <2>1. BillingTypeOK' /\ KnowsAll'
      BY <1>1, <1>9, TickTyped
    <2> QED
      BY <1>1, <1>9, <2>1, EndRelayKnown
  <1>10. ASSUME NEW u \in Relays, SubmitWorkReport(u) PROVE BillingTypeOK' /\ KnowsAll' /\ Rest'
    <2>1. (BillingTypeOK' /\ KnowsAll') /\ QuietFrame
      BY <1>1, <1>10, ReportTyped, EndsQuiet
    <2> QED
      BY <1>2, <2>1
  <1>11. CASE tickActive
    <2>1. BillingTypeOK' /\ KnowsAll'
      BY <1>1, <1>11, TickTyped
    <2> QED
      BY <1>1, <1>11, <2>1, TickActiveKnown
  <1>12. ASSUME NEW u \in Relays, TickNext(u) PROVE BillingTypeOK' /\ KnowsAll' /\ Rest'
    <2>1. BillingTypeOK' /\ KnowsAll'
      BY <1>1, <1>12, TickTyped
    <2> QED
      BY <1>1, <1>12, <2>1, TickNextKnown
  <1>13. CASE CreateBillingWorkReport
    <2>1. (BillingTypeOK' /\ KnowsAll') /\ QuietFrame
      BY <1>1, <1>13, ReportTyped, EndsQuiet
    <2> QED
      BY <1>2, <2>1
  <1>14. CASE CloseReported
    <2>1. BillingTypeOK' /\ KnowsAll'
      BY <1>1, <1>14, CloseTyped
    <2> QED
      BY <1>1, <1>14, <2>1, CloseKnown
  <1>15. CASE EditRead \/ EditWrite \/ Minute
    <2>1. BillingTypeOK' /\ KnowsAll'
      BY <1>1, <1>15, EditTyped
    <2>2. QuietFrame
      BY <1>1, <1>15, CallsQuiet, EndsQuiet, TimeQuiet
    <2> QED
      BY <1>2, <2>1, <2>2
  <1>16. CASE UNCHANGED vars
    <2>1. BillingTypeOK' /\ KnowsAll'
      BY <1>1, <1>16 DEF vars, db, memory, history, BillingTypeOK, KnowsAll, Knows
    <2>2. QuietFrame
      BY <1>1, <1>16, TimeQuiet
    <2> QED
      BY <1>2, <2>1, <2>2
  <1> QED
    BY <1>4, <1>5, <1>6, <1>7, <1>8, <1>9, <1>10, <1>11, <1>12, <1>13, <1>14, <1>15, <1>16
       DEF Next, RelayStep, TickerStep

\* Together: the invariant holds in every reachable state.
LEMMA BillingInvariant == Spec => []BillingInv
  BY BillingInitial, BillingStep, PTL DEF Spec

-----------------------------------------------------------------------------
\* A session whose relay has ended, whose account no stale write or late ticker
\* has disturbed, is billed within the bounds.
LEMMA QuietlyBilled == BillingInv => BilledForWhatItLasted
  <1> SUFFICES ASSUME BillingInv, NEW u \in Relays, Quiet, Over(u), Undisturbed(u)
               PROVE  LET months == PeriodYMAt(span[u].to) - PeriodYMAt(span[u].from) + 1 IN
                        /\ row[u].billed >= Lasted(u)
                        /\ row[u].billed < Lasted(u) + months * ROUND
    BY DEF BilledForWhatItLasted
  <1>1. BillingTypeOK /\ KnowsAll /\ SessionOK(u) /\ Account(u)
    BY DEF BillingInv, SessionsOK, Accounted
  <1>2. loc[u].pc = "done" /\ Written(u) /\ row[u] # None /\ span[u] # None
    BY <1>1 DEF Over, At, Written, WrittenPCs, SessionOK, Begun
  <1>3. ~Doomed(u)
    <2>1. Ticker \in Procs /\ loc[Ticker].pc \in {"idle"} \cup SettlePCs
      BY <1>1, ProcsAssumption DEF Procs, KnowsAll, Knows
    <2>2. loc[Ticker].pc \in AtRest
      BY <2>1 DEF Quiet, Busy
    <2>3. loc[Ticker].pc = "idle"
      BY <2>1, <2>2 DEF AtRest, SettlePCs
    <2> QED
      BY <2>3 DEF Doomed, TickerHas
  <1>4. span[u].to >= span[u].from /\ Bills(u, span[u].to, MonthsTo(u, span[u].to) + 1)
    BY <1>1, <1>2, <1>3 DEF Account, EndCovered
  <1>5. PICK f \in Nat, t \in Nat : /\ f = span[u].from /\ t = span[u].to
                                    /\ f \in 0..MaxTime /\ t \in 0..MaxTime /\ f <= t
    BY <1>1, <1>2, <1>4, BillingAssumption DEF BillingTypeOK
  <1>6. PICK k \in Nat \ {0} : k = PeriodYMAt(t) - PeriodYMAt(f) + 1
    <2>1. PeriodYMAt(f) \in Nat /\ PeriodYMAt(t) \in Nat /\ PeriodYMAt(f) <= PeriodYMAt(t)
      BY <1>5, PeriodFacts
    <2> QED
      BY <2>1
  <1>7. PICK b \in Nat : b = row[u].billed /\ b >= t - f /\ b <= t - f + k * (ROUND - 1)
    BY <1>1, <1>2, <1>4, <1>5, <1>6 DEF BillingTypeOK, Rows, Bills, MonthsTo
  <1>8. PICK x \in Nat : x = k * ROUND /\ k * (ROUND - 1) = x - k
    BY <1>6, BillingAssumption
  <1>9. b < t - f + k * ROUND
    BY <1>6, <1>7, <1>8
  <1> QED
    BY <1>5, <1>6, <1>7, <1>9 DEF Lasted

\* Type correctness of the clock, the database rows and the goroutines of
\* betterdesk-server/billing: in particular no row or total ever goes below zero
\* and the pool of the contract stays between zero and what the package includes.
THEOREM BillingTypeCorrect == Spec => []BillingTypeOK
  <1>1. BillingInv => BillingTypeOK
    BY DEF BillingInv
  <1> QED
    BY <1>1, BillingInvariant, PTL

\* However the ticker and the end of a relay share the settling of a session's
\* months (settleCrossingMonth, finalizeSession), and whatever the length of a
\* month and the rounding, the row bills no less than the session lasted and less
\* than one rounding unit too much for every month it touched.
THEOREM SessionsBilled == Spec => []BilledForWhatItLasted
  BY QuietlyBilled, BillingInvariant, PTL

\* When work reports are required, a session that ended waits for its report: only
\* SubmitWorkReport closes it.
THEOREM ReportsAwaited == Spec => []PendingUntilReport
  <1>1. BillingInv => PendingUntilReport
    <2> SUFFICES ASSUME BillingInv, NEW u \in Relays, RequireReport, Over(u), Undisturbed(u)
                 PROVE  row[u].status = "pending_report" \/ (row[u].status = "closed" /\ u \in report)
      BY DEF PendingUntilReport
    <2>1. Awaits(u) /\ Written(u) /\ u \notin torn
      BY DEF BillingInv, ReportAwaited, Over, At, Written, WrittenPCs, Undisturbed
    <2> QED
      BY <2>1 DEF Awaits
  <1> QED
    BY <1>1, BillingInvariant, PTL

-----------------------------------------------------------------------------
(* Sums over finite sets.  What the fold of MapThenSumSet computes is shown *)
(* by induction over the number of elements, with the set of the numbers    *)
(* for which a statement holds in the place of a predicate.                 *)

\* Induction over the natural numbers, for a set.
LEMMA NatSetInduction ==
  ASSUME NEW A, 0 \in A, \A n \in Nat : n \in A => n + 1 \in A
  PROVE  Nat \subseteq A
  <1> DEFINE T == Nat \ A
  <1> SUFFICES ASSUME T # {} PROVE FALSE
    OBVIOUS
  <1>1. IsWellFoundedOn(OpToRel(<, Nat), Nat)
    BY NatLessThanWellFounded
  <1>2. PICK m \in T : \A y \in T : ~ (<<y, m>> \in OpToRel(<, Nat))
    BY <1>1, WFMin
  <1>3. m \in Nat /\ m # 0
    OBVIOUS
  <1>4. m - 1 \in Nat /\ m - 1 < m /\ (m - 1) + 1 = m
    BY <1>3
  <1>5. <<m - 1, m>> \in OpToRel(<, Nat)
    BY <1>3, <1>4 DEF OpToRel
  <1>6. m - 1 \in A
    BY <1>2, <1>4, <1>5
  <1> QED
    BY <1>3, <1>4, <1>6

PickOf(s) == CHOOSE x \in s : TRUE

\* g sums f over the subsets of S: the equation of the fold.
IsSum(g, f, S) ==
  g = [s \in SUBSET S |-> IF s = {} THEN 0 ELSE f[PickOf(s)] + g[s \ {PickOf(s)}]]

\* The subsets of S with up to n elements, and a sum over those.
UpTo(S, n) == {s \in SUBSET S : Cardinality(s) <= n}
IsSumUpTo(h, f, S, n) ==
  h = [s \in UpTo(S, n) |-> IF s = {} THEN 0 ELSE f[PickOf(s)] + h[s \ {PickOf(s)}]]

\* Taking an element out of a finite set.
LEMMA TakeOut ==
  ASSUME NEW S, IsFiniteSet(S), NEW s \in SUBSET S
  PROVE  /\ IsFiniteSet(s) /\ Cardinality(s) \in Nat
         /\ s = {} <=> Cardinality(s) = 0
         /\ s # {} => PickOf(s) \in s
         /\ \A x \in s : /\ s \ {x} \in SUBSET S
                         /\ Cardinality(s \ {x}) \in Nat /\ Cardinality(s \ {x}) + 1 = Cardinality(s)
  <1>1. IsFiniteSet(s)
    BY FS_Subset
  <1>2. Cardinality(s) \in Nat /\ (s = {} <=> Cardinality(s) = 0)
    BY <1>1, FS_CardinalityType, FS_EmptySet
  <1>3. s # {} => PickOf(s) \in s
    BY DEF PickOf
  <1>4. ASSUME NEW x \in s
        PROVE  /\ s \ {x} \in SUBSET S
               /\ Cardinality(s \ {x}) \in Nat /\ Cardinality(s \ {x}) + 1 = Cardinality(s)
    <2>1. IsFiniteSet(s \ {x}) /\ Cardinality(s \ {x}) = Cardinality(s) - 1
      BY <1>1, FS_RemoveElement
    <2>2. Cardinality(s \ {x}) \in Nat
      BY <2>1, FS_CardinalityType
    <2> QED
      BY <1>2, <2>1, <2>2
  <1> QED
    BY <1>1, <1>2, <1>3, <1>4

\* Every finite set has a sum.
LEMMA SumExists ==
  ASSUME NEW S, IsFiniteSet(S), NEW f
  PROVE  \E g : IsSum(g, f, S)
  <1> DEFINE A == {n \in Nat : \E h : IsSumUpTo(h, f, S, n)}
  <1>1. 0 \in A
    <2>1. \A s \in UpTo(S, 0) : s = {}
      BY TakeOut DEF UpTo
    <2>2. IsSumUpTo([s \in UpTo(S, 0) |-> 0], f, S, 0)
      BY <2>1 DEF IsSumUpTo
    <2> QED
      BY <2>2
  <1>2. ASSUME NEW n \in Nat, n \in A PROVE n + 1 \in A
    <2>1. PICK h : IsSumUpTo(h, f, S, n)
      BY <1>2
    <2> DEFINE k == [s \in UpTo(S, n + 1) |->
                       IF s = {} THEN 0 ELSE f[PickOf(s)] + h[s \ {PickOf(s)}]]
    <2>2. ASSUME NEW s \in UpTo(S, n + 1), s # {}
          PROVE  k[s \ {PickOf(s)}] = h[s \ {PickOf(s)}]
      <3>1. PICK t : t = s \ {PickOf(s)}
        OBVIOUS
      <3>2. t \in UpTo(S, n) /\ t \in UpTo(S, n + 1)
        BY <2>2, <3>1, TakeOut DEF UpTo
      <3>3. h[t] = IF t = {} THEN 0 ELSE f[PickOf(t)] + h[t \ {PickOf(t)}]
        BY <2>1, <3>2 DEF IsSumUpTo
      <3>4. k[t] = h[t]
        BY <3>2, <3>3
      <3> QED
        BY <3>1, <3>4
    <2>3. IsSumUpTo(k, f, S, n + 1)
      BY <2>2 DEF IsSumUpTo
    <2> QED
      BY <2>3
  <1> HIDE DEF A
  <1>3. Nat \subseteq A
    BY <1>1, <1>2, NatSetInduction
  <1>4. Cardinality(S) \in Nat
    BY FS_CardinalityType
  <1>5. PICK g : IsSumUpTo(g, f, S, Cardinality(S))
    BY <1>3, <1>4 DEF A
  <1>6. UpTo(S, Cardinality(S)) = SUBSET S
    BY FS_Subset DEF UpTo
  <1> QED
    BY <1>5, <1>6 DEF IsSum, IsSumUpTo

\* The equation, for a subset.
LEMMA SumEquation ==
  ASSUME NEW g, NEW f, NEW S, IsSum(g, f, S), NEW s \in SUBSET S
  PROVE  g[s] = IF s = {} THEN 0 ELSE f[PickOf(s)] + g[s \ {PickOf(s)}]
  BY DEF IsSum

\* A sum of natural numbers is a natural number.
LEMMA SumNat ==
  ASSUME NEW S, IsFiniteSet(S), NEW f, \A x \in S : f[x] \in Nat, NEW g, IsSum(g, f, S)
  PROVE  \A s \in SUBSET S : g[s] \in Nat
  <1> DEFINE A == {n \in Nat : \A s \in SUBSET S : Cardinality(s) = n => g[s] \in Nat}
  <1>1. 0 \in A
    <2> SUFFICES ASSUME NEW s \in SUBSET S, Cardinality(s) = 0 PROVE g[s] \in Nat
      OBVIOUS
    <2>1. s = {}
      BY TakeOut
    <2>2. g[s] = IF s = {} THEN 0 ELSE f[PickOf(s)] + g[s \ {PickOf(s)}]
      BY SumEquation
    <2> QED
      BY <2>1, <2>2
  <1>2. ASSUME NEW n \in Nat, n \in A PROVE n + 1 \in A
    <2> SUFFICES ASSUME NEW s \in SUBSET S, Cardinality(s) = n + 1 PROVE g[s] \in Nat
      OBVIOUS
    <2>1. s # {}
      BY TakeOut
    <2>2. PICK c \in s : c = PickOf(s)
      BY <2>1, TakeOut
    <2>3. g[s] = f[c] + g[s \ {c}]
      BY <2>1, <2>2, SumEquation
    <2>4. s \ {c} \in SUBSET S /\ Cardinality(s \ {c}) = n
      BY TakeOut
    <2>5. f[c] \in Nat /\ g[s \ {c}] \in Nat
      BY <1>2, <2>4
    <2> QED
      BY <2>3, <2>5
  <1> HIDE DEF A
  <1>3. Nat \subseteq A
    BY <1>1, <1>2, NatSetInduction
  <1> SUFFICES ASSUME NEW s \in SUBSET S PROVE g[s] \in Nat
    OBVIOUS
  <1>4. Cardinality(s) \in Nat
    BY TakeOut
  <1> QED
    BY <1>3, <1>4 DEF A

\* The order in which the elements are taken does not matter.
LEMMA SumOrder ==
  ASSUME NEW S, IsFiniteSet(S), NEW f, \A x \in S : f[x] \in Nat, NEW g, IsSum(g, f, S)
  PROVE  \A s \in SUBSET S : \A x \in s : g[s] = f[x] + g[s \ {x}]
  <1> DEFINE A == {n \in Nat : \A s \in SUBSET S : Cardinality(s) = n =>
                                \A x \in s : g[s] = f[x] + g[s \ {x}]}
  <1>1. 0 \in A
    BY TakeOut
  <1>2. ASSUME NEW n \in Nat, n \in A PROVE n + 1 \in A
    <2> SUFFICES ASSUME NEW s \in SUBSET S, Cardinality(s) = n + 1, NEW x \in s
                 PROVE  g[s] = f[x] + g[s \ {x}]
      OBVIOUS
    <2>1. PICK c \in s : c = PickOf(s)
      BY TakeOut
    <2>2. g[s] = f[c] + g[s \ {c}]
      BY <2>1, SumEquation
    <2>3. CASE x # c
      <3>1. PICK t \in SUBSET S : t = (s \ {c}) \ {x} /\ t = (s \ {x}) \ {c}
        OBVIOUS
      <3>2. /\ s \ {c} \in SUBSET S /\ Cardinality(s \ {c}) = n
            /\ s \ {x} \in SUBSET S /\ Cardinality(s \ {x}) = n
        BY TakeOut
      <3>3. g[s \ {c}] = f[x] + g[t] /\ g[s \ {x}] = f[c] + g[t]
        BY <1>2, <2>3, <3>1, <3>2, SMTT(30)
      <3>4. g[t] \in Nat /\ f[x] \in Nat /\ f[c] \in Nat
        BY SumNat
      <3> QED
        BY <2>2, <3>3, <3>4
    <2> QED
      BY <2>2, <2>3
  <1> HIDE DEF A
  <1>3. Nat \subseteq A
    BY <1>1, <1>2, NatSetInduction
  <1> SUFFICES ASSUME NEW s \in SUBSET S PROVE \A x \in s : g[s] = f[x] + g[s \ {x}]
    OBVIOUS
  <1>4. Cardinality(s) \in Nat
    BY TakeOut
  <1> QED
    BY <1>3, <1>4 DEF A

\* A part sums to no more than the whole.
LEMMA SumMonotone ==
  ASSUME NEW S, IsFiniteSet(S), NEW f, \A x \in S : f[x] \in Nat, NEW g, IsSum(g, f, S)
  PROVE  \A s, t \in SUBSET S : s \subseteq t => g[s] <= g[t]
  <1> DEFINE A == {n \in Nat : \A s, t \in SUBSET S :
                                s \subseteq t /\ Cardinality(t) = n => g[s] <= g[t]}
  <1>1. 0 \in A
    <2> SUFFICES ASSUME NEW s \in SUBSET S, NEW t \in SUBSET S, s \subseteq t, Cardinality(t) = 0
                 PROVE  g[s] <= g[t]
      OBVIOUS
    <2>1. s = t /\ g[t] \in Nat
      BY TakeOut, SumNat
    <2> QED
      BY <2>1
  <1>2. ASSUME NEW n \in Nat, n \in A PROVE n + 1 \in A
    <2> SUFFICES ASSUME NEW s \in SUBSET S, NEW t \in SUBSET S, s \subseteq t,
                        Cardinality(t) = n + 1
                 PROVE  g[s] <= g[t]
      OBVIOUS
    <2>1. g[s] \in Nat /\ g[t] \in Nat
      BY SumNat
    <2>2. CASE s # t
      <3>1. PICK x \in t : x \notin s
        BY <2>2
      <3>2. t \ {x} \in SUBSET S /\ Cardinality(t \ {x}) = n /\ s \subseteq t \ {x}
        BY <3>1, TakeOut, SMTT(30)
      <3>3. g[s] <= g[t \ {x}] /\ g[t \ {x}] \in Nat /\ f[x] \in Nat
        BY <1>2, <3>2, SumNat
      <3>4. g[t] = f[x] + g[t \ {x}]
        BY SumOrder
      <3> QED
        BY <2>1, <3>3, <3>4
    <2> QED
      BY <2>1, <2>2
  <1> HIDE DEF A
  <1>3. Nat \subseteq A
    BY <1>1, <1>2, NatSetInduction
  <1> SUFFICES ASSUME NEW s \in SUBSET S, NEW t \in SUBSET S, s \subseteq t PROVE g[s] <= g[t]
    OBVIOUS
  <1>4. Cardinality(t) \in Nat
    BY TakeOut
  <1> QED
    BY <1>3, <1>4 DEF A

\* Sums of functions that agree on a set agree on it, wherever they were taken.
LEMMA SumAgree ==
  ASSUME NEW S, NEW T, NEW U, IsFiniteSet(U), U \subseteq S, U \subseteq T,
         NEW f, NEW e, \A x \in U : f[x] = e[x],
         NEW g, NEW h, IsSum(g, f, S), IsSum(h, e, T)
  PROVE  g[U] = h[U]
  <1> DEFINE A == {n \in Nat : \A s \in SUBSET U : Cardinality(s) = n => g[s] = h[s]}
  <1>1. 0 \in A
    <2> SUFFICES ASSUME NEW s \in SUBSET U, Cardinality(s) = 0 PROVE g[s] = h[s]
      OBVIOUS
    <2>1. s = {} /\ s \in SUBSET S /\ s \in SUBSET T
      BY TakeOut
    <2> QED
      BY <2>1, SumEquation
  <1>2. ASSUME NEW n \in Nat, n \in A PROVE n + 1 \in A
    <2> SUFFICES ASSUME NEW s \in SUBSET U, Cardinality(s) = n + 1 PROVE g[s] = h[s]
      OBVIOUS
    <2>1. s # {} /\ s \in SUBSET S /\ s \in SUBSET T
      BY TakeOut
    <2>2. PICK c \in s : c = PickOf(s)
      BY <2>1, TakeOut
    <2>3. g[s] = f[c] + g[s \ {c}]
      BY <2>1, <2>2 DEF IsSum
    <2>5. h[s] = e[c] + h[s \ {c}]
      BY <2>1, <2>2 DEF IsSum
    <2>4. s \ {c} \in SUBSET U /\ Cardinality(s \ {c}) = n
      BY TakeOut, SMTT(30)
    <2> QED
      BY <1>2, <2>3, <2>4, <2>5
  <1> HIDE DEF A
  <1>3. Nat \subseteq A
    BY <1>1, <1>2, NatSetInduction
  <1>4. Cardinality(U) \in Nat /\ U \in SUBSET U
    BY TakeOut
  <1> QED
    BY <1>3, <1>4 DEF A

\* What the rows r of the sessions in S record as included.
IncludedIn(r, S) == MapThenSumSet(LAMBDA u : r[u].included, S)

\* It is a sum.
LEMMA IncludedIsSum ==
  ASSUME NEW r, NEW S, IsFiniteSet(S)
  PROVE  \E g : IsSum(g, [u \in S |-> r[u].included], S) /\ IncludedIn(r, S) = g[S]
  <1> DEFINE f == [u \in S |-> r[u].included]
  <1>1. PICK g : IsSum(g, f, S)
    BY SumExists
  <1>2. \A k : IsSum(k, f, S) <=>
                k = [s \in SUBSET S |->
                       IF s = {} THEN 0
                       ELSE r[CHOOSE x \in s : TRUE].included + k[s \ {CHOOSE x \in s : TRUE}]]
    <2>1. \A s \in SUBSET S : s # {} => f[PickOf(s)] = r[CHOOSE x \in s : TRUE].included
      BY TakeOut DEF PickOf
    <2> QED
      BY <2>1 DEF IsSum, PickOf
  <1> HIDE DEF f
  <1>3. \E k : /\ k = [s \in SUBSET S |->
                        IF s = {} THEN 0
                        ELSE r[CHOOSE x \in s : TRUE].included + k[s \ {CHOOSE x \in s : TRUE}]]
                /\ IncludedIn(r, S) = k[S]
    <2>1. g = [s \in SUBSET S |->
                 IF s = {} THEN 0
                 ELSE r[CHOOSE x \in s : TRUE].included + g[s \ {CHOOSE x \in s : TRUE}]]
      BY <1>1, <1>2
    <2> QED
      BY <2>1 DEF IncludedIn, MapThenSumSet, MapThenFoldSet
  <1>4. \E k : IsSum(k, f, S) /\ IncludedIn(r, S) = k[S]
    BY <1>2, <1>3
  <1> QED
    BY <1>4 DEF f

\* The facts about it that the steps need.
LEMMA IncludedNat ==
  ASSUME NEW r, NEW S, IsFiniteSet(S), \A u \in S : r[u].included \in Nat
  PROVE  IncludedIn(r, S) \in Nat
  <1>1. PICK g : IsSum(g, [u \in S |-> r[u].included], S) /\ IncludedIn(r, S) = g[S]
    BY IncludedIsSum
  <1> QED
    BY <1>1, SumNat

\* Nothing, for no session.
LEMMA IncludedEmpty ==
  ASSUME NEW r
  PROVE  IncludedIn(r, {}) = 0
  <1>1. IsFiniteSet({})
    BY FS_EmptySet
  <1>2. PICK g : IsSum(g, [u \in {} |-> r[u].included], {}) /\ IncludedIn(r, {}) = g[{}]
    BY <1>1, IncludedIsSum
  <1> QED
    BY <1>2, SumEquation

\* Rows that record the same sum to the same.
LEMMA IncludedSame ==
  ASSUME NEW r, NEW e, NEW S, IsFiniteSet(S), \A u \in S : r[u].included = e[u].included
  PROVE  IncludedIn(r, S) = IncludedIn(e, S)
  <1>1. PICK g : IsSum(g, [u \in S |-> r[u].included], S) /\ IncludedIn(r, S) = g[S]
    BY IncludedIsSum
  <1>2. PICK h : IsSum(h, [u \in S |-> e[u].included], S) /\ IncludedIn(e, S) = h[S]
    BY IncludedIsSum
  <1> QED
    BY <1>1, <1>2, SumAgree

\* Fewer sessions record no more, and one more session adds what it records.
LEMMA IncludedSubset ==
  ASSUME NEW r, NEW S, NEW T, IsFiniteSet(T), S \subseteq T, \A u \in T : r[u].included \in Nat
  PROVE  IncludedIn(r, S) <= IncludedIn(r, T)
  <1>1. IsFiniteSet(S)
    BY FS_Subset
  <1>2. PICK g : IsSum(g, [u \in S |-> r[u].included], S) /\ IncludedIn(r, S) = g[S]
    BY <1>1, IncludedIsSum
  <1>3. PICK h : IsSum(h, [u \in T |-> r[u].included], T) /\ IncludedIn(r, T) = h[T]
    BY IncludedIsSum
  <1>4. g[S] = h[S]
    BY <1>1, <1>2, <1>3, SumAgree
  <1>5. h[S] <= h[T]
    BY <1>3, SumMonotone
  <1> QED
    BY <1>2, <1>3, <1>4, <1>5

\* One more session.
LEMMA IncludedAdd ==
  ASSUME NEW r, NEW S, NEW x, IsFiniteSet(S), x \notin S,
         \A u \in S \cup {x} : r[u].included \in Nat
  PROVE  IncludedIn(r, S \cup {x}) = r[x].included + IncludedIn(r, S)
  <1> DEFINE T == S \cup {x}
             f == [u \in S |-> r[u].included]
             e == [u \in T |-> r[u].included]
  <1>1. IsFiniteSet(T) /\ x \in T /\ T \ {x} = S /\ S \subseteq T
    BY FS_AddElement
  <1> HIDE DEF T
  <1>2. PICK g : IsSum(g, f, S) /\ IncludedIn(r, S) = g[S]
    BY IncludedIsSum
  <1>3. PICK h : IsSum(h, e, T) /\ IncludedIn(r, T) = h[T]
    BY <1>1, IncludedIsSum
  <1>4. g[S] = h[S]
    <2>1. \A u \in S : f[u] = e[u]
      BY <1>1
    <2> HIDE DEF f, e
    <2> QED
      BY <1>1, <1>2, <1>3, <2>1, SumAgree
  <1>5. \A u \in T : r[u].included \in Nat
    BY DEF T
  <1>6. h[T] = r[x].included + h[S]
    BY <1>1, <1>3, <1>5, SumOrder
  <1> QED
    BY <1>2, <1>3, <1>4, <1>6 DEF T
-----------------------------------------------------------------------------
(* The contract and the months.  A contract that was never written from a   *)
(* stale copy only moves on to later months.                                *)

MonthOf(u) == PeriodYMAt(span[u].from)

\* The contract has reached the month in which session u began; it has left it.
Reached(u) == clobbered \/ contract.period >= MonthOf(u)
Left(u) == clobbered \/ contract.period > MonthOf(u)

\* Where EnsureContractPeriod has returned: to the end of a relay, and to the
\* settling of a month that the session outlasted.
ReachedPCs == {"finReread", "finCharge", "finTotal", "done"}
LeftPCs == {"segReread", "segTotal", "segRow", "segWrite", "segSync"}

\* What goroutine q knows of the months: its copy of the contract and the month it
\* looked up are not ahead of time, and what a return has shown stays so.
Dated(q) ==
  LET l == loc[q] IN
    /\ l.c # None => l.c.period <= PeriodYMAt(now) /\ (clobbered \/ l.c.period <= contract.period)
    /\ l.ens # "look" => /\ l.c.period < l.period /\ l.period <= PeriodYMAt(now)
                         /\ l.pc = "final" => l.period >= MonthOf(l.u)
                         /\ l.pc = "segment" => l.period > MonthOf(l.u)
    /\ l.pc \in ReachedPCs => Reached(l.u)
    /\ l.pc \in LeftPCs => Left(l.u)

DatesOK == contract.period <= PeriodYMAt(now) /\ \A q \in Procs : Dated(q)

\* Session u is said to begin at t: where it did, or later once a month of it has
\* been settled, and then the contract has left the month in which it began.
Begins(u, t) ==
  /\ t >= span[u].from
  /\ t # span[u].from => Left(u) /\ now > MonthEnd(span[u].from)

\* The row has been written, the total of the month not yet.
LatePCs == WrittenPCs \ {"done"}

BeginsOK ==
  /\ \A u \in Relays : active[u] # None => Begins(u, active[u].start)
  /\ \A u \in Relays : snap[u] # None => Begins(u, snap[u].start)
  /\ \A q \in Procs : loc[q].pc \in SettlePCs \cup FinalPCs => Begins(loc[q].u, loc[q].a.start)
  /\ \A u \in Relays : loc[u].pc \in LatePCs \cup {"finWrite"} /\ loc[u].a.start # span[u].from =>
       span[u].to > MonthEnd(span[u].from)

\* Nothing disturbs the account of session u.
Sound(u) == span[u] # None /\ Undisturbed(u) /\ ~Doomed(u)

\* Goroutine p has not written a part of session u while it stands at its beginning.
Blank(p, u) ==
  loc[p].pc # "segSync" /\ loc[p].a.start = span[u].from => row[u].included = 0

\* A session of which no month was settled has one part, the last.
OnePart(u) ==
  Sound(u) =>
    /\ active[u] # None =>
         IF TickerHas(u) THEN Blank(Ticker, u)
         ELSE active[u].start = span[u].from => row[u].included = 0
    /\ loc[u].pc \in SettlePCs \cup {"finRow", "finWrite"} => Blank(u, u)
    /\ loc[u].pc \in LatePCs /\ loc[u].a.start = span[u].from =>
         row[u].included = loc[u].seg.included

PartsOK == \A u \in Relays : OnePart(u)

\* The sessions whose usage is in the total of month m, and those whose usage the
\* pool of month m has paid for.
Totalled(m) ==
  {u \in Relays : /\ Sound(u) /\ Over(u) /\ MonthOf(u) = m
                  /\ ~SplitAtMonthBoundary(span[u].from, span[u].to)}
Charged(m) == {u \in Relays : Sound(u) /\ loc[u].pc \in {"finTotal", "done"} /\ MonthOf(u) = m}

TotalsOK ==
  \A m \in Months \ overwritten :
    Totalled(m) # {} => total[m] # None /\ total[m] >= IncludedIn(row, Totalled(m))

PoolOK ==
  ~clobbered /\ contract.remaining > 0 =>
    IncludedIn(row, Charged(contract.period)) <= INCLUDED - contract.remaining

\* The sessions there are.
WithRow == {u \in Relays : row[u] # None}

\* The second inductive invariant.
SumInv ==
  /\ IsFiniteSet(WithRow)
  /\ DatesOK
  /\ BeginsOK
  /\ PartsOK
  /\ TotalsOK
  /\ PoolOK

-----------------------------------------------------------------------------
(* What a goroutine that moves takes along.                                 *)

\* m are its variables before the step, l those after it.
KeepsWork(m, l) ==
  l.pc \in LatePCs => m.pc \in LatePCs \cup {"finWrite"} /\ l.a = m.a /\ l.seg = m.seg

KeepsSession(m, l) ==
  l.pc \in SettlePCs \cup FinalPCs =>
    m.pc \in SettlePCs \cup FinalPCs /\ l.a = m.a /\ l.u = m.u

KeepsDate(m, l) ==
  /\ l.ens = "look"
  /\ l.c # None => l.c = contract \/ (m.c # None /\ l.c.period = m.c.period)
  /\ l.pc \in ReachedPCs => m.pc \in ReachedPCs /\ l.u = m.u
  /\ l.pc \in LeftPCs => m.pc \in LeftPCs /\ l.u = m.u

\* The two steps after which the usage of a relay is in the pool and in the total.
Ending == \E u \in Relays : FinalCharge(u) \/ FinalTotal(u)

Moves(p) ==
  /\ \A q \in Procs : q # p => loc'[q] = loc[q]
  /\ KeepsWork(loc[p], loc'[p]) /\ KeepsDate(loc[p], loc'[p])
  /\ loc'[p].pc \in {"finTotal", "done"} => Ending

\* A goroutine that goes somewhere with l has the fields of l.
LEMMA GotoFacts ==
  ASSUME loc \in [Procs -> Proc], NEW p \in Procs, NEW l \in Proc, NEW pc, Goto(p, l, pc)
  PROVE  /\ \A q \in Procs : q # p => loc'[q] = loc[q]
         /\ loc'[p].pc = pc /\ loc'[p].ens = l.ens /\ loc'[p].u = l.u /\ loc'[p].a = l.a
         /\ loc'[p].c = l.c /\ loc'[p].seg = l.seg /\ loc'[p].period = l.period
         /\ loc'[p].until = l.until
  <1>1. PICK k : k = [l EXCEPT !.pc = pc]
    OBVIOUS
  <1>2. /\ k.pc = pc /\ k.ens = l.ens /\ k.u = l.u /\ k.a = l.a /\ k.c = l.c /\ k.seg = l.seg
        /\ k.period = l.period /\ k.until = l.until
    BY <1>1 DEF Proc
  <1>3. loc' = [loc EXCEPT ![p] = k]
    BY <1>1 DEF Goto
  <1>4. loc'[p] = k /\ \A q \in Procs : q # p => loc'[q] = loc[q]
    BY <1>3
  <1> QED
    BY <1>2, <1>4

\* Outside of EnsureContractPeriod ens is at its start.
LEMMA EnsLook ==
  ASSUME BillingTypeOK, KnowsAll, NEW p \in Procs, loc[p].pc \notin Ensuring
  PROVE  loc[p].ens = "look"
  BY DEF KnowsAll, Knows

\* Steps that change the copy of the contract or only the place.
LEMMA CallMoves ==
  ASSUME BillingTypeOK, KnowsAll, NEW p \in Procs, NEW pc, NEW c,
         Goto(p, [loc[p] EXCEPT !.c = c], pc),
         c = contract \/ c = None \/ c = loc[p].c,
         loc[p].pc \notin Ensuring,
         pc \in LatePCs => loc[p].pc \in LatePCs,
         pc \in SettlePCs \cup FinalPCs => loc[p].pc \in SettlePCs \cup FinalPCs,
         pc \in ReachedPCs => loc[p].pc \in ReachedPCs,
         pc \in LeftPCs => loc[p].pc \in LeftPCs,
         pc \in {"finTotal", "done"} => Ending
  PROVE  Moves(p) /\ KeepsSession(loc[p], loc'[p])
  <1>1. PICK m \in Proc : m = loc[p] /\ m.ens = "look"
    BY EnsLook DEF BillingTypeOK
  <1>2. c \in Copies \cup {None}
    BY <1>1 DEF BillingTypeOK, Proc
  <1>3. PICK l : l = [m EXCEPT !.c = c]
    OBVIOUS
  <1>4. l \in Proc /\ l.c = c /\ l.ens = m.ens /\ l.u = m.u /\ l.a = m.a /\ l.seg = m.seg
    BY <1>2, <1>3 DEF Proc
  <1>5. Goto(p, l, pc) /\ loc \in [Procs -> Proc]
    BY <1>1, <1>3 DEF BillingTypeOK
  <1>6. /\ \A q \in Procs : q # p => loc'[q] = loc[q]
        /\ loc'[p].pc = pc /\ loc'[p].ens = l.ens /\ loc'[p].u = l.u /\ loc'[p].a = l.a
        /\ loc'[p].c = l.c /\ loc'[p].seg = l.seg
    BY <1>4, <1>5, GotoFacts
  <1>7. KeepsWork(m, loc'[p]) /\ KeepsSession(m, loc'[p])
    BY <1>1, <1>4, <1>6 DEF KeepsWork, KeepsSession
  <1>8. KeepsDate(m, loc'[p])
    BY <1>1, <1>2, <1>4, <1>6 DEF KeepsDate
  <1> QED
    BY <1>1, <1>6, <1>7, <1>8 DEF Moves

\* The place alone is the copy kept.
LEMMA StayMoves ==
  ASSUME BillingTypeOK, NEW p \in Procs, NEW pc, Goto(p, loc[p], pc)
  PROVE  Goto(p, [loc[p] EXCEPT !.c = loc[p].c], pc)
  <1>1. loc[p] = [loc[p] EXCEPT !.c = loc[p].c]
    BY DEF BillingTypeOK, Proc
  <1> QED
    BY <1>1

\* Steps on the copy of the contract.
LEMMA CallsMove ==
  ASSUME BillingTypeOK, KnowsAll,
         \/ \E u \in Relays : \/ PrepareRelay(u) \/ CheckConnection(u) \/ ActivateRelay(u)
                              \/ ActivateReread(u) \/ CreateBillingSession(u)
                              \/ FinalRead(u) \/ FinalReread(u) \/ FinalCharge(u)
         \/ \E p \in Relays \cup {Ticker} : SegmentReread(p) \/ SegmentTotal(p)
         \/ EditRead
  PROVE  \E p \in Procs : Moves(p) /\ KeepsSession(loc[p], loc'[p])
  <1>1. ASSUME NEW p \in Procs, NEW pc, NEW old, loc[p].pc = old,
               \/ GetBillingContract(p, pc) \/ Goto(p, loc[p], pc)
               \/ Goto(p, [loc[p] EXCEPT !.c = None], pc),
               \/ /\ old \in {"idle", "check", "waiting", "reread", "create"}
                  /\ pc \in {"prepare", "unbilled", "waiting", "activate", "create", "live", "write"}
               \/ <<old, pc>> \in {<<"finRead", "final">>, <<"finReread", "finCharge">>,
                                   <<"segReread", "segTotal">>, <<"segTotal", "segRow">>}
               \/ old = "finCharge" /\ pc = "finTotal" /\ Ending
        PROVE  Moves(p) /\ KeepsSession(loc[p], loc'[p])
    <2>1. PICK c : Goto(p, [loc[p] EXCEPT !.c = c], pc) /\ (c = contract \/ c = None \/ c = loc[p].c)
      BY <1>1, StayMoves DEF GetBillingContract
    <2>2. /\ loc[p].pc \notin Ensuring
          /\ pc \in LatePCs => loc[p].pc \in LatePCs
          /\ pc \in SettlePCs \cup FinalPCs => loc[p].pc \in SettlePCs \cup FinalPCs
          /\ pc \in ReachedPCs => loc[p].pc \in ReachedPCs
          /\ pc \in LeftPCs => loc[p].pc \in LeftPCs
      BY <1>1 DEF Ensuring, LatePCs, WrittenPCs, SettlePCs, FinalPCs, ReachedPCs, LeftPCs
    <2>3. pc \in {"finTotal", "done"} => Ending
      BY <1>1
    <2> QED
      BY <2>1, <2>2, <2>3, CallMoves
  <1>2. Admin \in Procs /\ Ticker \in Procs /\ \A u \in Relays : u \in Procs
    BY DEF Procs
  <1>3. ASSUME NEW u \in Relays, PrepareRelay(u) PROVE Moves(u) /\ KeepsSession(loc[u], loc'[u])
    <2>1. loc[u].pc = "idle" /\ (GetBillingContract(u, "prepare") \/ Goto(u, loc[u], "unbilled"))
      BY <1>3 DEF PrepareRelay, Enters, At
    <2> QED
      BY <1>1, <1>2, <2>1
  <1>4. ASSUME NEW u \in Relays, CheckConnection(u) PROVE Moves(u) /\ KeepsSession(loc[u], loc'[u])
    <2>1. loc[u].pc = "check" /\ \E pc \in {"waiting", "unbilled"} :
                                   Goto(u, [loc[u] EXCEPT !.c = None], pc)
      BY <1>4 DEF CheckConnection, At
    <2> QED
      BY <1>1, <1>2, <2>1
  <1>5. ASSUME NEW u \in Relays, ActivateRelay(u) PROVE Moves(u) /\ KeepsSession(loc[u], loc'[u])
    <2>1. loc[u].pc = "waiting" /\ (GetBillingContract(u, "activate") \/ Goto(u, loc[u], "unbilled"))
      BY <1>5 DEF ActivateRelay, Enters, At
    <2> QED
      BY <1>1, <1>2, <2>1
  <1>6. ASSUME NEW u \in Relays, ActivateReread(u) PROVE Moves(u) /\ KeepsSession(loc[u], loc'[u])
    <2>1. loc[u].pc = "reread" /\ GetBillingContract(u, "create")
      BY <1>6 DEF ActivateReread, At
    <2> QED
      BY <1>1, <1>2, <2>1
  <1>7. ASSUME NEW u \in Relays, CreateBillingSession(u)
        PROVE  Moves(u) /\ KeepsSession(loc[u], loc'[u])
    <2>1. loc[u].pc = "create" /\ Goto(u, [loc[u] EXCEPT !.c = None], "live")
      BY <1>7 DEF CreateBillingSession, At
    <2> QED
      BY <1>1, <1>2, <2>1
  <1>8. ASSUME NEW u \in Relays, FinalRead(u) PROVE Moves(u) /\ KeepsSession(loc[u], loc'[u])
    <2>1. loc[u].pc = "finRead" /\ GetBillingContract(u, "final")
      BY <1>8 DEF FinalRead, At
    <2> QED
      BY <1>1, <1>2, <2>1
  <1>9. ASSUME NEW u \in Relays, FinalReread(u) PROVE Moves(u) /\ KeepsSession(loc[u], loc'[u])
    <2>1. loc[u].pc = "finReread" /\ GetBillingContract(u, "finCharge")
      BY <1>9 DEF FinalReread, At
    <2> QED
      BY <1>1, <1>2, <2>1
  <1>10. ASSUME NEW u \in Relays, FinalCharge(u) PROVE Moves(u) /\ KeepsSession(loc[u], loc'[u])
    <2>1. loc[u].pc = "finCharge" /\ Goto(u, [loc[u] EXCEPT !.c = None], "finTotal")
      BY <1>10 DEF FinalCharge, At
    <2>2. Ending
      BY <1>10 DEF Ending
    <2> QED
      BY <1>1, <1>2, <2>1, <2>2
  <1>11. ASSUME NEW p \in Relays \cup {Ticker}, SegmentReread(p)
         PROVE  Moves(p) /\ KeepsSession(loc[p], loc'[p])
    <2>1. loc[p].pc = "segReread" /\ GetBillingContract(p, "segTotal")
      BY <1>11 DEF SegmentReread, At
    <2> QED
      BY <1>1, <1>2, <2>1
  <1>12. ASSUME NEW p \in Relays \cup {Ticker}, SegmentTotal(p)
         PROVE  Moves(p) /\ KeepsSession(loc[p], loc'[p])
    <2>1. loc[p].pc = "segTotal" /\ Goto(p, loc[p], "segRow")
      BY <1>12 DEF SegmentTotal, At
    <2> QED
      BY <1>1, <1>2, <2>1
  <1>13. ASSUME EditRead PROVE Moves(Admin) /\ KeepsSession(loc[Admin], loc'[Admin])
    <2>1. loc[Admin].pc = "idle" /\ GetBillingContract(Admin, "write")
      BY <1>13 DEF EditRead, Enters, At
    <2> QED
      BY <1>1, <1>2, <2>1
  <1> QED
    BY <1>2, <1>3, <1>4, <1>5, <1>6, <1>7, <1>8, <1>9, <1>10, <1>11, <1>12, <1>13

\* Steps that read or write the row of the session.
LEMMA RowsMove ==
  ASSUME BillingTypeOK, KnowsAll,
         \/ \E p \in Relays \cup {Ticker} : SegmentRow(p) \/ SegmentWrite(p)
         \/ \E u \in Relays : FinalRow(u) \/ FinalWrite(u) \/ SubmitWorkReport(u)
  PROVE  \E p \in Procs : Moves(p) /\ KeepsSession(loc[p], loc'[p])
  <1>1. ASSUME NEW p \in Procs, NEW l \in Proc, NEW pc, Goto(p, l, pc), loc[p].pc \notin Ensuring,
               l.ens = loc[p].ens, l.c = loc[p].c,
               pc # "create" => l.u = loc[p].u /\ l.a = loc[p].a,
               pc \notin {"create", "finWrite"} => l.seg = loc[p].seg,
               <<loc[p].pc, pc>> \in {<<"segRow", "segWrite">>, <<"segWrite", "segSync">>,
                                      <<"finRow", "finWrite">>, <<"finWrite", "finRead">>,
                                      <<"idle", "create">>}
        PROVE  Moves(p) /\ KeepsSession(loc[p], loc'[p])
    <2>1. loc[p].ens = "look"
      BY <1>1, EnsLook
    <2>2. /\ \A q \in Procs : q # p => loc'[q] = loc[q]
          /\ loc'[p].pc = pc /\ loc'[p].ens = l.ens /\ loc'[p].u = l.u /\ loc'[p].a = l.a
          /\ loc'[p].c = l.c /\ loc'[p].seg = l.seg
      BY <1>1, GotoFacts DEF BillingTypeOK
    <2>3. KeepsWork(loc[p], loc'[p]) /\ KeepsSession(loc[p], loc'[p])
      BY <1>1, <2>2 DEF KeepsWork, KeepsSession, LatePCs, WrittenPCs, SettlePCs, FinalPCs
    <2>4. KeepsDate(loc[p], loc'[p])
      BY <1>1, <2>1, <2>2 DEF KeepsDate, ReachedPCs, LeftPCs
    <2>5. loc'[p].pc \notin {"finTotal", "done"}
      BY <1>1, <2>2
    <2> QED
      BY <2>2, <2>3, <2>4, <2>5 DEF Moves
  <1>2. Operator \in Procs /\ Ticker \in Procs /\ \A u \in Relays : u \in Procs
    BY DEF Procs
  <1>3. ASSUME NEW p \in Relays \cup {Ticker}, SegmentRow(p)
        PROVE  Moves(p) /\ KeepsSession(loc[p], loc'[p])
    <2>1. loc[p].pc = "segRow" /\ loc[p].pc \in SettlePCs /\ loc[p].pc \notin Ensuring
      BY <1>3 DEF SegmentRow, At, SettlePCs, Ensuring
    <2>2. PICK m \in Proc : m = loc[p] /\ m.u \in Relays
      BY <2>1, SettlerFacts
    <2>3. PICK l : l = [m EXCEPT !.r = row[m.u], !.u = m.u]
      OBVIOUS
    <2>4. l \in Proc /\ l.ens = m.ens /\ l.c = m.c /\ l.u = m.u /\ l.a = m.a /\ l.seg = m.seg
      BY <2>2, <2>3 DEF Proc, BillingTypeOK
    <2>5. Goto(p, l, "segWrite")
      BY <1>3, <2>2, <2>3, ZenonT(30) DEF SegmentRow, GetBillingSession
    <2> QED
      BY <1>1, <1>2, <2>1, <2>2, <2>4, <2>5
  <1>4. ASSUME NEW p \in Relays \cup {Ticker}, SegmentWrite(p)
        PROVE  Moves(p) /\ KeepsSession(loc[p], loc'[p])
    <2>1. loc[p].pc = "segWrite" /\ loc[p].pc \in SettlePCs /\ loc[p].pc \notin Ensuring
      BY <1>4 DEF SegmentWrite, At, SettlePCs, Ensuring
    <2>2. PICK m \in Proc : m = loc[p] /\ m.u \in Relays
      BY <2>1, SettlerFacts
    <2>3. PICK l : l = [m EXCEPT !.r = None]
      OBVIOUS
    <2>4. l \in Proc /\ l.ens = m.ens /\ l.c = m.c /\ l.u = m.u /\ l.a = m.a /\ l.seg = m.seg
      BY <2>2, <2>3 DEF Proc, BillingTypeOK
    <2>5. Goto(p, l, "segSync")
      BY <1>4, <2>2, <2>3 DEF SegmentWrite
    <2> QED
      BY <1>1, <1>2, <2>1, <2>2, <2>4, <2>5
  <1>5. ASSUME NEW u \in Relays, FinalRow(u) PROVE Moves(u) /\ KeepsSession(loc[u], loc'[u])
    <2>1. loc[u].pc = "finRow" /\ loc[u].pc \in FinalPCs /\ loc[u].pc \notin Ensuring
      BY <1>5, ZenonT(30) DEF FinalRow, At, FinalPCs, Ensuring
    <2>2. PICK m \in Proc : m = loc[u] /\ m.a \in Sessions /\ m.a.start <= now
      BY <2>1, FinalFacts
    <2>3. PICK s \in Segments : s = Segment(m.a, now)
      BY <2>2, SegmentFacts DEF BillingTypeOK
    <2>4. PICK l : l = [m EXCEPT !.seg = s, !.r = row[u]]
      OBVIOUS
    <2>5. l \in Proc /\ l.ens = m.ens /\ l.c = m.c /\ l.u = m.u /\ l.a = m.a
      BY <2>2, <2>4 DEF Proc, BillingTypeOK
    <2>6. Goto(u, l, "finWrite")
      BY <1>5, <2>2, <2>3, <2>4, ZenonT(30) DEF FinalRow
    <2> QED
      BY <1>1, <1>2, <2>1, <2>2, <2>5, <2>6
  <1>6. ASSUME NEW u \in Relays, FinalWrite(u) PROVE Moves(u) /\ KeepsSession(loc[u], loc'[u])
    <2>1. loc[u].pc = "finWrite" /\ loc[u].pc \in FinalPCs /\ loc[u].pc \notin Ensuring
      BY <1>6 DEF FinalWrite, At, FinalPCs, Ensuring
    <2>2. PICK m \in Proc : m = loc[u]
      BY <2>1, FinalFacts
    <2>3. PICK l : l = [m EXCEPT !.r = None]
      OBVIOUS
    <2>4. l \in Proc /\ l.ens = m.ens /\ l.c = m.c /\ l.u = m.u /\ l.a = m.a /\ l.seg = m.seg
      BY <2>2, <2>3 DEF Proc, BillingTypeOK
    <2>5. Goto(u, l, "finRead")
      BY <1>6, <2>2, <2>3 DEF FinalWrite
    <2> QED
      BY <1>1, <1>2, <2>1, <2>2, <2>4, <2>5
  <1>7. ASSUME NEW u \in Relays, SubmitWorkReport(u)
        PROVE  Moves(Operator) /\ KeepsSession(loc[Operator], loc'[Operator])
    <2>1. loc[Operator].pc = "idle" /\ loc[Operator].pc \notin Ensuring
      BY <1>7 DEF SubmitWorkReport, Enters, At, Ensuring
    <2>2. PICK m \in Proc : m = loc[Operator]
      BY <1>2 DEF BillingTypeOK
    <2>3. PICK l : l = [m EXCEPT !.r = row[u], !.u = u]
      OBVIOUS
    <2>4. l \in Proc /\ l.ens = m.ens /\ l.c = m.c
      BY <2>2, <2>3 DEF Proc, BillingTypeOK
    <2>5. Goto(Operator, l, "create")
      BY <1>7, <2>2, <2>3, ZenonT(30) DEF SubmitWorkReport, GetBillingSession
    <2> QED
      BY <1>1, <1>2, <2>1, <2>2, <2>4, <2>5
  <1> QED
    BY <1>2, <1>3, <1>4, <1>5, <1>6, <1>7

\* Steps after which a goroutine begins anew.
LEMMA ResetsMove ==
  ASSUME BillingTypeOK, KnowsAll,
         (\E u \in Relays : FinalTotal(u)) \/ CreateBillingWorkReport \/ CloseReported \/ EditWrite
  PROVE  \E p \in Procs : Moves(p) /\ KeepsSession(loc[p], loc'[p])
  <1>1. ASSUME NEW p \in Procs, NEW l \in Proc, NEW pc, Goto(p, l, pc), l.c = None, l.ens = "look",
               pc = "idle" \/ (pc = "done" /\ loc[p].pc = "finTotal" /\ l.u = loc[p].u /\ Ending)
        PROVE  Moves(p) /\ KeepsSession(loc[p], loc'[p])
    <2>1. /\ \A q \in Procs : q # p => loc'[q] = loc[q]
          /\ loc'[p].pc = pc /\ loc'[p].ens = l.ens /\ loc'[p].c = l.c /\ loc'[p].u = l.u
      BY <1>1, GotoFacts DEF BillingTypeOK
    <2>2. KeepsWork(loc[p], loc'[p]) /\ KeepsSession(loc[p], loc'[p])
      BY <1>1, <2>1 DEF KeepsWork, KeepsSession, LatePCs, WrittenPCs, SettlePCs, FinalPCs
    <2>3. KeepsDate(loc[p], loc'[p])
      BY <1>1, <2>1 DEF KeepsDate, ReachedPCs, LeftPCs
    <2>4. loc'[p].pc \in {"finTotal", "done"} => Ending
      BY <1>1, <2>1
    <2> QED
      BY <2>1, <2>2, <2>3, <2>4 DEF Moves
  <1>2. Operator \in Procs /\ Admin \in Procs /\ \A u \in Relays : u \in Procs
    BY DEF Procs
  <1>3. NewProc \in Proc /\ NewProc.c = None /\ NewProc.ens = "look"
    BY NewProcTyped DEF NewProc
  <1>4. ASSUME NEW u \in Relays, FinalTotal(u) PROVE Moves(u) /\ KeepsSession(loc[u], loc'[u])
    <2>1. PICK l : l = [NewProc EXCEPT !.u = u]
      OBVIOUS
    <2>2. l \in Proc /\ l.c = None /\ l.ens = "look" /\ l.u = u
      BY <2>1, NewProcTyped DEF NewProc
    <2>3. loc[u].pc = "finTotal" /\ loc[u].u = u
      BY <1>2, <1>4 DEF FinalTotal, At, KnowsAll, Knows
    <2>4. Goto(u, l, "done")
      BY <1>4, <2>1, ZenonT(30) DEF FinalTotal
    <2>5. Ending
      BY <1>4 DEF Ending
    <2> QED
      BY <1>1, <1>2, <2>2, <2>3, <2>4, <2>5
  <1>5. ASSUME CreateBillingWorkReport
        PROVE  Moves(Operator) /\ KeepsSession(loc[Operator], loc'[Operator])
    <2>1. loc[Operator].pc = "create"
      BY <1>5 DEF CreateBillingWorkReport, At
    <2>2. CASE Goto(Operator, NewProc, "idle")
      BY <1>1, <1>2, <1>3, <2>2
    <2>3. CASE Goto(Operator, loc[Operator], "close")
      <3>1. /\ loc[Operator].pc \notin Ensuring /\ "close" \notin LatePCs
            /\ "close" \notin SettlePCs \cup FinalPCs /\ "close" \notin ReachedPCs
            /\ "close" \notin LeftPCs /\ "close" \notin {"finTotal", "done"}
        BY <2>1 DEF Ensuring, LatePCs, WrittenPCs, SettlePCs, FinalPCs, ReachedPCs, LeftPCs
      <3>2. Goto(Operator, [loc[Operator] EXCEPT !.c = loc[Operator].c], "close")
        BY <1>2, <2>3, StayMoves
      <3> QED
        BY <1>2, <3>1, <3>2, CallMoves
    <2> QED
      BY <1>5, <2>2, <2>3 DEF CreateBillingWorkReport
  <1>6. ASSUME CloseReported PROVE Moves(Operator) /\ KeepsSession(loc[Operator], loc'[Operator])
    <2>1. Goto(Operator, NewProc, "idle")
      BY <1>6 DEF CloseReported
    <2> QED
      BY <1>1, <1>2, <1>3, <2>1
  <1>7. ASSUME EditWrite PROVE Moves(Admin) /\ KeepsSession(loc[Admin], loc'[Admin])
    <2>1. Goto(Admin, NewProc, "idle")
      BY <1>7 DEF EditWrite
    <2> QED
      BY <1>1, <1>2, <1>3, <2>1
  <1> QED
    BY <1>2, <1>4, <1>5, <1>6, <1>7

\* Charge leaves the month of the contract alone and takes off what is included.
LEMMA ChargeTakes ==
  ASSUME NEW c \in Copies, NEW seg \in Segments
  PROVE  /\ Charge(c, seg).period = c.period
         /\ Charge(c, seg).remaining \in Nat
         /\ Charge(c, seg).remaining <= c.remaining
         /\ Charge(c, seg).remaining > 0 =>
              Charge(c, seg).remaining = c.remaining - seg.included
  <1>1. PICK x \in Int : x = c.remaining - seg.included /\ x <= c.remaining
    BY BillingAssumption DEF Copies, Segments
  <1>2. PICK y \in Nat : y = Max({0, x}) /\ (y = 0 \/ y = x) /\ y <= c.remaining
    <2>1. Max({0, x}) = IF 0 >= x THEN 0 ELSE x
      BY MaxOfTwo
    <2> QED
      BY <1>1, <2>1, BillingAssumption DEF Copies
  <1>3. Charge(c, seg) = [c EXCEPT !.remaining = y]
    BY <1>1, <1>2 DEF Charge
  <1>4. Charge(c, seg).period = c.period /\ Charge(c, seg).remaining = y
    BY <1>3 DEF Copies
  <1> QED
    BY <1>1, <1>2, <1>4

\* The month that ended is charged.
LEMMA ChargeMoves ==
  ASSUME BillingTypeOK, KnowsAll, NEW p \in Relays \cup {Ticker}, SegmentCharge(p)
  PROVE  Moves(p) /\ KeepsSession(loc[p], loc'[p])
  <1>1. loc[p].pc = "segCharge" /\ loc[p].pc \in SettlePCs /\ loc[p].pc \notin Ensuring
    BY DEF SegmentCharge, At, SettlePCs, Ensuring
  <1>2. PICK m \in Proc : m = loc[p]
    BY <1>1, SettlerFacts
  <1>3. /\ p \in Procs /\ m.ens = "look" /\ m.c \in Copies /\ m.a \in Sessions
        /\ m.until \in 0..MaxTime /\ SplitAtMonthBoundary(m.a.start, m.until)
    BY <1>1, <1>2, SettlerFacts, EnsLook
  <1>4. PICK seg \in Segments : seg = Segment(m.a, MonthEnd(m.a.start))
    BY <1>3, SegmentOfMonth
  <1>5. PICK c \in Copies : c = Charge(m.c, seg) /\ c.period = m.c.period
    BY <1>3, ChargeFacts, ChargeTakes
  <1>6. PICK l : l = [m EXCEPT !.c = c, !.seg = seg]
    OBVIOUS
  <1>7. l \in Proc /\ l.c = c /\ l.ens = m.ens /\ l.u = m.u /\ l.a = m.a
    BY <1>6 DEF Proc
  <1>8. Goto(p, l, "segment")
    BY <1>2, <1>4, <1>5, <1>6 DEF SegmentCharge
  <1>9. /\ \A q \in Procs : q # p => loc'[q] = loc[q]
        /\ loc'[p].pc = "segment" /\ loc'[p].ens = l.ens /\ loc'[p].c = l.c /\ loc'[p].u = l.u
        /\ loc'[p].a = l.a
    BY <1>3, <1>7, <1>8, GotoFacts DEF BillingTypeOK
  <1>10. m.c # None
    BY <1>3, ProcsAssumption
  <1>11. KeepsWork(m, loc'[p]) /\ KeepsSession(m, loc'[p])
    BY <1>1, <1>2, <1>7, <1>9
       DEF KeepsWork, KeepsSession, LatePCs, WrittenPCs, SettlePCs, FinalPCs
  <1>12. KeepsDate(m, loc'[p])
    BY <1>3, <1>5, <1>7, <1>9, <1>10 DEF KeepsDate, ReachedPCs, LeftPCs
  <1> QED
    BY <1>2, <1>9, <1>11, <1>12 DEF Moves

\* The loop head of settleCrossingMonth.
LEMMA SplitMove ==
  ASSUME BillingTypeOK, NEW p \in Procs, NEW m \in Proc, m.ens = "look", Split(p, m)
  PROVE  Moves(p)
  <1>1. ASSUME NEW l \in Proc, l.ens = "look", l.c \in {None, contract},
               NEW pc \in {"segCharge", "idle", "finRow"}, Goto(p, l, pc)
        PROVE  Moves(p)
    <2>1. /\ \A q \in Procs : q # p => loc'[q] = loc[q]
          /\ loc'[p].pc = pc /\ loc'[p].ens = l.ens /\ loc'[p].c = l.c
      BY <1>1, GotoFacts DEF BillingTypeOK
    <2>2. KeepsWork(loc[p], loc'[p])
      BY <1>1, <2>1 DEF KeepsWork, LatePCs, WrittenPCs
    <2>3. KeepsDate(loc[p], loc'[p])
      BY <1>1, <2>1 DEF KeepsDate, ReachedPCs, LeftPCs
    <2>4. loc'[p].pc \in {"finTotal", "done"} => Ending
      BY <1>1, <2>1
    <2> QED
      BY <2>1, <2>2, <2>3, <2>4 DEF Moves
  <1>2. CASE Goto(p, [m EXCEPT !.c = contract], "segCharge")
    <2>1. PICK l : l = [m EXCEPT !.c = contract]
      OBVIOUS
    <2>2. l \in Proc /\ l.c = contract /\ l.ens = "look"
      BY <2>1 DEF Proc, BillingTypeOK
    <2> QED
      BY <1>1, <1>2, <2>1, <2>2
  <1>3. CASE Goto(p, NewProc, "idle")
    <2>1. NewProc \in Proc /\ NewProc.c = None /\ NewProc.ens = "look"
      BY NewProcTyped DEF NewProc
    <2> QED
      BY <1>1, <1>3, <2>1
  <1>4. CASE Goto(p, [m EXCEPT !.c = None, !.until = 0], "finRow")
    <2>1. PICK l : l = [m EXCEPT !.c = None, !.until = 0]
      OBVIOUS
    <2>2. 0 \in 0..MaxTime
      BY BillingAssumption
    <2>3. l \in Proc /\ l.c = None /\ l.ens = "look"
      BY <2>1, <2>2 DEF Proc
    <2> QED
      BY <1>1, <1>4, <2>1, <2>3
  <1> QED
    BY <1>2, <1>3, <1>4 DEF Split

\* The three steps that come to it.
LEMMA SplitsMove ==
  ASSUME BillingTypeOK, KnowsAll, SessionsOK,
         \/ \E u \in Relays : TickNext(u) \/ EndRelay(u)
         \/ \E p \in Relays \cup {Ticker} : SegmentSync(p)
  PROVE  \E p \in Procs : Moves(p)
  <1>1. Ticker \in Procs /\ \A u \in Relays : u \in Procs
    BY DEF Procs
  <1>2. ASSUME NEW u \in Relays, TickNext(u) PROVE Moves(Ticker)
    <2>1. PICK l : l = [NewProc EXCEPT !.u = u, !.a = snap[u], !.until = now]
      OBVIOUS
    <2>2. l \in Proc /\ l.ens = "look"
      <3>1. NewProc \in Proc /\ NewProc.ens = "look"
        BY NewProcTyped DEF NewProc
      <3>2. snap[u] \in Sessions \cup {None} /\ now \in 0..MaxTime
        BY DEF BillingTypeOK
      <3> QED
        BY <2>1, <3>1, <3>2 DEF Proc
    <2>3. Split(Ticker, l)
      BY <1>2, <2>1, ZenonT(30) DEF TickNext
    <2> QED
      BY <1>1, <2>2, <2>3, SplitMove
  <1>3. ASSUME NEW u \in Relays, EndRelay(u) PROVE Moves(u)
    <2>1. PICK m \in Proc : m = loc[u] /\ m.ens = "look"
      <3>1. loc[u].pc \notin Ensuring
        <4>1. loc[u].pc = "live"
          BY <1>3, ZenonT(30) DEF EndRelay, Enters, At
        <4> QED
          BY <4>1 DEF Ensuring
      <3> QED
        BY <1>1, <3>1, EnsLook DEF BillingTypeOK
    <2>2. PICK l : l = [m EXCEPT !.a = active[u], !.until = now]
      OBVIOUS
    <2>3. l \in Proc /\ l.ens = "look"
      BY <2>1, <2>2 DEF Proc, BillingTypeOK
    <2>4. Split(u, l)
      BY <1>3, <2>1, <2>2, ZenonT(30) DEF EndRelay
    <2> QED
      BY <1>1, <2>3, <2>4, SplitMove
  <1>4. ASSUME NEW p \in Relays \cup {Ticker}, SegmentSync(p) PROVE Moves(p)
    <2>1. loc[p].pc \in SettlePCs /\ loc[p].pc \notin Ensuring
      <3>1. loc[p].pc = "segSync"
        BY <1>4, ZenonT(30) DEF SegmentSync, At
      <3> QED
        BY <3>1 DEF SettlePCs, Ensuring
    <2>2. PICK m \in Proc : m = loc[p] /\ m.ens = "look"
      BY <1>1, <2>1, EnsLook DEF BillingTypeOK
    <2>3. PICK a \in Sessions : a = [start |-> m.seg.to, remaining |-> m.c.remaining]
      BY <1>4, <2>2, SegmentSyncMoves
    <2>4. PICK l : l = [m EXCEPT !.a = a, !.c = None, !.seg = NoSegment]
      OBVIOUS
    <2>5. l \in Proc /\ l.ens = "look"
      BY <2>2, <2>3, <2>4, NoSegmentFacts DEF Proc
    <2>6. Split(p, l)
      BY <1>4, <2>2, <2>3, <2>4, ZenonT(30) DEF SegmentSync
    <2> QED
      BY <1>1, <2>5, <2>6, SplitMove
  <1> QED
    BY <1>1, <1>2, <1>3, <1>4

-----------------------------------------------------------------------------
(* Time and the contract advance.                                           *)

Advance ==
  /\ now \in 0..MaxTime /\ now' \in 0..MaxTime /\ now <= now'
  /\ contract \in Copies /\ contract' \in Copies
  /\ clobbered => clobbered'
  /\ clobbered' \/ contract'.period >= contract.period
  /\ contract'.period <= PeriodYMAt(now')
  /\ \A u \in Relays : span[u] # None => span'[u] # None /\ span'[u].from = span[u].from

\* What a write other than EnsureRoll does to the contract.
PoolFalls ==
  /\ clobbered => clobbered'
  /\ \/ clobbered'
     \/ contract'.period = contract.period /\ contract'.remaining <= contract.remaining
  /\ \/ contract'.period = contract.period
     \/ \E q \in Procs : loc[q].c # None /\ contract'.period = loc[q].c.period

\* The month of a session of the model, and of a copy of the contract.
LEMMA MonthsTyped ==
  ASSUME BillingTypeOK
  PROVE  /\ \A c \in Copies : c.period \in Int /\ c.remaining \in Nat
         /\ \A u \in Relays : span[u] # None => /\ span[u].from \in 0..MaxTime
                                                /\ span[u].to \in 0..MaxTime
                                                /\ MonthOf(u) \in Nat
         /\ PeriodYMAt(now) \in Nat /\ \A q \in Procs : loc[q].period \in Nat
  <1>1. Months \subseteq Nat
    <2>1. MaxTime \in 0..MaxTime
      BY BillingAssumption
    <2> QED
      BY <2>1, PeriodFacts DEF Months
  <1>2. ASSUME NEW c \in Copies PROVE c.period \in Int /\ c.remaining \in Nat
    <2>1. c.period \in Months \cup {-1} /\ c.remaining \in 0..INCLUDED
      BY DEF Copies
    <2>2. c.period \in Int
      <3>1. \A x \in Nat : x \in Int
        OBVIOUS
      <3>2. -1 \in Int
        OBVIOUS
      <3> QED
        BY <1>1, <2>1, <3>1, <3>2, Zenon
    <2>3. c.remaining \in Nat
      BY <2>1, BillingAssumption
    <2> QED
      BY <2>2, <2>3
  <1>3. ASSUME NEW u \in Relays, span[u] # None
        PROVE  span[u].from \in 0..MaxTime /\ span[u].to \in 0..MaxTime /\ MonthOf(u) \in Nat
    <2>1. span[u].from \in 0..MaxTime /\ span[u].to \in 0..MaxTime
      BY <1>3 DEF BillingTypeOK
    <2> QED
      BY <2>1, PeriodFacts DEF MonthOf
  <1>4. PeriodYMAt(now) \in Nat
    BY PeriodFacts DEF BillingTypeOK
  <1>5. \A q \in Procs : loc[q].period \in Nat
    BY <1>1 DEF BillingTypeOK, Proc
  <1> QED
    BY <1>2, <1>3, <1>4, <1>5

\* A write other than EnsureRoll keeps the contract within time.
LEMMA FallsAdvance ==
  ASSUME BillingTypeOK, BillingTypeOK', DatesOK, PoolFalls, now <= now',
         \A u \in Relays : span[u] # None => span'[u] # None /\ span'[u].from = span[u].from
  PROVE  Advance
  <1>1. now \in 0..MaxTime /\ now' \in 0..MaxTime /\ contract \in Copies /\ contract' \in Copies
    BY DEF BillingTypeOK
  <1>2. PeriodYMAt(now) \in Int /\ PeriodYMAt(now') \in Int /\ PeriodYMAt(now) <= PeriodYMAt(now')
    BY <1>1, PeriodFacts
  <1>3. contract.period \in Int /\ contract'.period \in Int
    BY <1>1, MonthsTyped
  <1>4. contract'.period <= PeriodYMAt(now)
    BY DEF PoolFalls, DatesOK, Dated
  <1> QED
    BY <1>1, <1>2, <1>3, <1>4 DEF Advance, PoolFalls

\* What the contract has reached or left stays so.
LEMMA StaysReached ==
  ASSUME BillingTypeOK, BillingTypeOK', Advance, NEW u \in Relays, span[u] # None
  PROVE  /\ MonthOf(u)' = MonthOf(u)
         /\ Reached(u) => Reached(u)'
         /\ Left(u) => Left(u)'
         /\ now > MonthEnd(span[u].from) => now' > MonthEnd(span'[u].from)
  <1>1. span'[u].from = span[u].from /\ span[u].from \in 0..MaxTime /\ MonthOf(u) \in Nat
    BY MonthsTyped DEF Advance
  <1>2. MonthOf(u)' = MonthOf(u)
    BY <1>1 DEF MonthOf
  <1>3. contract.period \in Int /\ contract'.period \in Int
    BY MonthsTyped DEF Advance
  <1>4. MonthEnd(span[u].from) \in Int /\ now \in Int /\ now' \in Int
    BY <1>1, MonthEndFacts, BillingAssumption DEF Advance
  <1>5. (Reached(u) => Reached(u)') /\ (Left(u) => Left(u)')
    BY <1>1, <1>2, <1>3 DEF Reached, Left, Advance
  <1> QED
    BY <1>1, <1>2, <1>4, <1>5 DEF Advance

\* A session in a goroutine's hands has begun.
LEMMA InHand ==
  ASSUME BillingTypeOK, KnowsAll, SessionsOK, NEW q \in Procs,
         loc[q].pc \in SettlePCs \cup FinalPCs \cup {"done"}
  PROVE  /\ loc[q].u \in Relays /\ span[loc[q].u] # None /\ row[loc[q].u] # None
         /\ span[loc[q].u].from \in 0..MaxTime /\ span[loc[q].u].from <= now
         /\ MonthOf(loc[q].u) \in Nat /\ MonthOf(loc[q].u) <= PeriodYMAt(now)
  <1>1. Knows(q, loc[q]) /\ loc[q] \in Proc
    BY DEF KnowsAll, BillingTypeOK
  <1>2. loc[q].pc = "done" => q \in Relays
    <2>1. q = Ticker => loc[q].pc # "done"
      BY <1>1 DEF Knows, SettlePCs
    <2>2. q = Operator \/ q = Admin => loc[q].pc # "done"
      BY <1>1 DEF Knows
    <2> QED
      BY <2>1, <2>2 DEF Procs
  <1>3. PICK u \in Relays : u = loc[q].u /\ row[u] # None
    <2>1. CASE loc[q].pc = "done"
      <3>1. loc[q].u = q /\ row[q] # None
        BY <1>1, <1>2, <2>1 DEF Knows, SessionsOK, SessionOK, Begun
      <3> QED
        BY <1>2, <2>1, <3>1
    <2>2. CASE loc[q].pc \in SettlePCs \cup FinalPCs
      <3>1. loc[q].u # None /\ row[loc[q].u] # None
        BY <1>1, <2>2 DEF Knows
      <3> QED
        BY <1>1, <3>1 DEF Proc
    <2> QED
      BY <2>1, <2>2
  <1>4. span[u] # None /\ span[u].from <= now
    BY <1>3 DEF SessionsOK, SessionOK
  <1>5. span[u].from \in 0..MaxTime /\ MonthOf(u) \in Nat
    BY <1>4, MonthsTyped
  <1>6. MonthOf(u) <= PeriodYMAt(now)
    BY <1>4, <1>5, PeriodFacts DEF MonthOf, BillingTypeOK
  <1> QED
    BY <1>3, <1>4, <1>5, <1>6

\* A goroutine that does not move knows as much as before.
LEMMA StillDated ==
  ASSUME BillingTypeOK, KnowsAll, SessionsOK, BillingTypeOK', Advance, NEW q \in Procs, Dated(q),
         loc'[q] = loc[q]
  PROVE  Dated(q)'
  <1>1. PICK m \in Proc : m = loc[q] /\ m = loc'[q]
    BY DEF BillingTypeOK
  <1>2. PeriodYMAt(now) \in Int /\ PeriodYMAt(now') \in Int /\ PeriodYMAt(now) <= PeriodYMAt(now')
    BY PeriodFacts DEF Advance
  <1>3. contract.period \in Int /\ contract'.period \in Int /\ m.period \in Int
    BY <1>1, MonthsTyped DEF Advance
  <1>4. m.c # None => m.c \in Copies /\ m.c.period \in Int
    BY MonthsTyped DEF Proc
  <1>5. m.ens # "look" => m.c # None
    BY <1>1 DEF KnowsAll, Knows
  <1>6. m.c # None => m.c.period <= PeriodYMAt(now') /\ (clobbered' \/ m.c.period <= contract'.period)
    BY <1>1, <1>2, <1>3, <1>4 DEF Dated, Advance
  <1>7. m.pc \in SettlePCs \cup FinalPCs \cup {"done"} =>
          /\ m.u \in Relays /\ span[m.u] # None
          /\ PeriodYMAt(span'[m.u].from) = MonthOf(m.u)
    BY <1>1, InHand DEF Advance, MonthOf
  <1>8. m.ens # "look" => /\ m.c.period < m.period /\ m.period <= PeriodYMAt(now')
                          /\ m.pc = "final" => m.period >= PeriodYMAt(span'[m.u].from)
                          /\ m.pc = "segment" => m.period > PeriodYMAt(span'[m.u].from)
    BY <1>1, <1>2, <1>3, <1>7 DEF Dated, SettlePCs, FinalPCs
  <1>9. /\ m.pc \in ReachedPCs => clobbered' \/ contract'.period >= PeriodYMAt(span'[m.u].from)
        /\ m.pc \in LeftPCs => clobbered' \/ contract'.period > PeriodYMAt(span'[m.u].from)
    <2>1. m.pc \in ReachedPCs \cup LeftPCs => m.pc \in SettlePCs \cup FinalPCs \cup {"done"}
      BY DEF ReachedPCs, LeftPCs, SettlePCs, FinalPCs
    <2>2. m.pc \in ReachedPCs => Reached(m.u)
      BY <1>1 DEF Dated
    <2>3. m.pc \in LeftPCs => Left(m.u)
      BY <1>1 DEF Dated
    <2>4. m.pc \in ReachedPCs \cup LeftPCs => MonthOf(m.u) \in Int
      BY <1>1, <2>1, InHand
    <2> QED
      BY <1>3, <1>7, <2>1, <2>2, <2>3, <2>4 DEF Reached, Left, Advance
  <1> QED
    BY <1>1, <1>6, <1>8, <1>9 DEF Dated, Reached, Left, MonthOf

\* Nor does a step outside EnsureContractPeriod falsify what anybody knows.
LEMMA DatesKept ==
  ASSUME BillingTypeOK, KnowsAll, SessionsOK, BillingTypeOK', Advance, DatesOK,
         NEW p \in Procs, Moves(p)
  PROVE  DatesOK'
  <1>1. ASSUME NEW q \in Procs, q # p PROVE Dated(q)'
    <2>1. Dated(q) /\ loc'[q] = loc[q]
      BY <1>1 DEF DatesOK, Moves
    <2> QED
      BY <2>1, StillDated
  <1>2. Dated(p)'
    <2>1. PICK m \in Proc : m = loc[p]
      BY DEF BillingTypeOK
    <2>2. PICK l \in Proc : l = loc'[p]
      BY DEF BillingTypeOK
    <2>3. Dated(p) /\ KeepsDate(m, l)
      BY <2>1, <2>2 DEF DatesOK, Moves
    <2>4. PeriodYMAt(now) \in Int /\ PeriodYMAt(now') \in Int /\ PeriodYMAt(now) <= PeriodYMAt(now')
      BY PeriodFacts DEF Advance
    <2>5. contract.period \in Int /\ contract'.period \in Int
      BY MonthsTyped DEF Advance
    <2>6. (m.c # None => m.c.period \in Int) /\ (l.c # None => l.c.period \in Int)
      BY MonthsTyped DEF Proc
    <2>7. l.c # None => l.c.period <= PeriodYMAt(now') /\ (clobbered' \/ l.c.period <= contract'.period)
      <3>1. l.c # None => \/ l.c.period = contract.period
                          \/ m.c # None /\ l.c.period = m.c.period
        BY <2>3 DEF KeepsDate
      <3>2. m.c # None => m.c.period <= PeriodYMAt(now) /\ (clobbered \/ m.c.period <= contract.period)
        BY <2>1, <2>3 DEF Dated
      <3>3. contract.period <= PeriodYMAt(now)
        BY DEF DatesOK
      <3> QED
        BY <2>4, <2>5, <2>6, <3>1, <3>2, <3>3 DEF Advance
    <2>8. /\ l.pc \in ReachedPCs => clobbered' \/ contract'.period >= PeriodYMAt(span'[l.u].from)
          /\ l.pc \in LeftPCs => clobbered' \/ contract'.period > PeriodYMAt(span'[l.u].from)
      <3>1. /\ l.pc \in ReachedPCs => m.pc \in ReachedPCs /\ l.u = m.u
            /\ l.pc \in LeftPCs => m.pc \in LeftPCs /\ l.u = m.u
        BY <2>3 DEF KeepsDate
      <3>2. m.pc \in ReachedPCs \cup LeftPCs =>
              m.u \in Relays /\ span[m.u] # None /\ MonthOf(m.u) \in Int
        <4>1. m.pc \in ReachedPCs \cup LeftPCs => m.pc \in SettlePCs \cup FinalPCs \cup {"done"}
          BY DEF ReachedPCs, LeftPCs, SettlePCs, FinalPCs
        <4> QED
          BY <2>1, <4>1, InHand
      <3>3. /\ m.pc \in ReachedPCs => clobbered \/ contract.period >= MonthOf(m.u)
            /\ m.pc \in LeftPCs => clobbered \/ contract.period > MonthOf(m.u)
        BY <2>1, <2>3 DEF Dated, Reached, Left
      <3>4. m.pc \in ReachedPCs \cup LeftPCs => PeriodYMAt(span'[m.u].from) = MonthOf(m.u)
        BY <3>2 DEF Advance, MonthOf
      <3> QED
        BY <2>5, <3>1, <3>2, <3>3, <3>4 DEF Advance
    <2>9. l.ens = "look"
      BY <2>3 DEF KeepsDate
    <2> QED
      BY <2>2, <2>7, <2>8, <2>9 DEF Dated, Reached, Left, MonthOf
  <1> QED
    BY <1>1, <1>2 DEF DatesOK, Advance

\* Where a goroutine that is in EnsureContractPeriod goes.
LEMMA EnsureFacts ==
  ASSUME BillingTypeOK, KnowsAll, NEW p \in Procs, EnsureStep(p)
  PROVE  /\ \A q \in Procs : q # p => loc'[q] = loc[q]
         /\ loc[p].pc \in Ensuring /\ loc[p].c \in Copies
         /\ loc'[p].u = loc[p].u /\ loc'[p].a = loc[p].a /\ loc'[p].seg = loc[p].seg
         /\ \/ /\ loc'[p].pc = Returns[loc[p].pc] /\ loc'[p].ens = "look" /\ loc'[p].c = loc[p].c
               /\ loc[p].c.period = PeriodYMAt(now) /\ UNCHANGED <<contract, clobbered>>
            \/ /\ loc'[p].pc = loc[p].pc /\ loc'[p].ens # "look" /\ loc'[p].c = loc[p].c
               /\ loc'[p].period = PeriodYMAt(now) /\ loc[p].c.period # PeriodYMAt(now)
               /\ UNCHANGED <<contract, clobbered>>
            \/ /\ loc'[p].pc = loc[p].pc /\ loc'[p].ens # "look" /\ loc'[p].c = loc[p].c
               /\ loc'[p].period = loc[p].period /\ loc[p].ens # "look"
               /\ UNCHANGED <<contract, clobbered>>
            \/ /\ loc'[p].pc = Returns[loc[p].pc] /\ loc'[p].ens = "look"
               /\ loc'[p].c = contract' /\ loc[p].ens # "look"
               /\ contract'.period = loc[p].period /\ contract'.remaining = INCLUDED
               /\ clobbered' = (clobbered \/ loc[p].c # contract)
  <1>1. PICK m \in Proc : m = loc[p] /\ m.pc \in Ensuring
    BY DEF BillingTypeOK, EnsureStep, EnsureLook, EnsureFill, EnsureRoll, InCall
  <1>2. m.c \in Copies /\ m.c # None
    <2>1. m.c # None
      BY <1>1 DEF KnowsAll, Knows
    <2> QED
      BY <2>1 DEF Proc
  <1>3. loc \in [Procs -> Proc] /\ PeriodYMAt(now) \in Months
    BY PeriodFacts DEF BillingTypeOK
  <1>4. CASE EnsureLook(p)
    <2>1. CASE m.c.period = PeriodYMAt(now)
      <3>1. PICK l : l = [m EXCEPT !.ens = "look"]
        OBVIOUS
      <3>2. /\ l \in Proc /\ l.u = m.u /\ l.a = m.a /\ l.seg = m.seg /\ l.c = m.c
            /\ l.ens = "look"
        BY <3>1 DEF Proc
      <3>3. Goto(p, l, Returns[m.pc])
        BY <1>1, <1>4, <2>1, <3>1 DEF EnsureLook, Return
      <3>4. UNCHANGED <<contract, clobbered>>
        BY <1>4 DEF EnsureLook, db, history
      <3> QED
        BY <1>1, <1>2, <1>3, <2>1, <3>2, <3>3, <3>4, GotoFacts
    <2>2. CASE m.c.period # PeriodYMAt(now)
      <3>1. PICK l : l = [m EXCEPT !.period = PeriodYMAt(now),
                                   !.ens = IF m.c.period >= 0 /\ total[m.c.period] = None
                                           THEN "fill" ELSE "roll"]
        OBVIOUS
      <3>2. /\ l \in Proc /\ l.u = m.u /\ l.a = m.a /\ l.seg = m.seg /\ l.c = m.c
            /\ l.ens # "look" /\ l.period = PeriodYMAt(now)
        BY <1>3, <3>1 DEF Proc
      <3>3. Goto(p, l, m.pc)
        BY <1>1, <1>4, <2>2, <3>1, ZenonT(30) DEF EnsureLook
      <3>4. UNCHANGED <<contract, clobbered>>
        BY <1>4 DEF EnsureLook, db, history
      <3> QED
        BY <1>1, <1>2, <1>3, <2>2, <3>2, <3>3, <3>4, GotoFacts
    <2> QED
      BY <2>1, <2>2
  <1>5. CASE EnsureFill(p)
    <2>1. PICK l : l = [m EXCEPT !.ens = "roll"]
      OBVIOUS
    <2>2. /\ l \in Proc /\ l.u = m.u /\ l.a = m.a /\ l.seg = m.seg /\ l.c = m.c /\ l.pc = m.pc
          /\ l.ens # "look" /\ l.period = m.period
      BY <2>1 DEF Proc
    <2>3. loc' = [loc EXCEPT ![p] = l] /\ m.ens = "fill"
      BY <1>1, <1>5, <2>1 DEF EnsureFill, InCall
    <2>4. loc'[p] = l /\ \A q \in Procs : q # p => loc'[q] = loc[q]
      BY <1>3, <2>3
    <2>5. UNCHANGED <<contract, clobbered>>
      BY <1>5 DEF EnsureFill
    <2> QED
      BY <1>1, <1>2, <2>2, <2>3, <2>4, <2>5
  <1>6. CASE EnsureRoll(p)
    <2>1. PICK c : c = [m.c EXCEPT !.remaining = INCLUDED, !.period = m.period]
      OBVIOUS
    <2>2. c \in Copies /\ c.remaining = INCLUDED /\ c.period = m.period
      <3>1. INCLUDED \in 0..INCLUDED /\ m.period \in Months
        BY BillingAssumption DEF Proc
      <3> QED
        BY <1>2, <2>1, <3>1 DEF Copies
    <2>3. PICK l : l = [m EXCEPT !.c = c, !.period = 0]
      OBVIOUS
    <2>4. l \in Proc /\ l.u = m.u /\ l.a = m.a /\ l.seg = m.seg /\ l.c = c /\ l.pc = m.pc
      <3>1. 0 \in Months
        BY BillingAssumption, PeriodFacts DEF Months
      <3> QED
        BY <2>2, <2>3, <3>1 DEF Proc
    <2>5. PICK k : k = [l EXCEPT !.ens = "look"]
      OBVIOUS
    <2>6. /\ k \in Proc /\ k.u = m.u /\ k.a = m.a /\ k.seg = m.seg /\ k.c = c
          /\ k.ens = "look"
      BY <2>4, <2>5 DEF Proc
    <2>7. Goto(p, k, Returns[m.pc])
      BY <1>1, <1>6, <2>1, <2>3, <2>4, <2>5 DEF EnsureRoll, Return
    <2>8. contract' = c /\ clobbered' = (clobbered \/ m.c # contract) /\ m.ens = "roll"
      BY <1>1, <1>6, <2>1, ZenonT(30) DEF EnsureRoll, UpdateBillingContract, InCall
    <2> QED
      BY <1>1, <1>2, <1>3, <2>2, <2>6, <2>7, <2>8, GotoFacts
  <1> QED
    BY <1>4, <1>5, <1>6 DEF EnsureStep

\* EnsureContractPeriod moves the contract to a later month, or finds it there.
LEMMA EnsureAdvances ==
  ASSUME BillingTypeOK, KnowsAll, SessionsOK, BillingTypeOK', DatesOK, NEW p \in Procs, EnsureStep(p)
  PROVE  Advance
  <1>1. UNCHANGED <<now, span>>
    BY DEF EnsureStep, EnsureLook, EnsureFill, EnsureRoll, history
  <1>2. now \in 0..MaxTime /\ now \in Int /\ contract \in Copies /\ contract' \in Copies
    BY BillingAssumption DEF BillingTypeOK
  <1>3. contract.period \in Int /\ contract'.period \in Int /\ PeriodYMAt(now) \in Int
    BY <1>2, MonthsTyped
  <1>4. contract.period <= PeriodYMAt(now) /\ Dated(p)
    BY DEF DatesOK
  <1>5. CASE UNCHANGED <<contract, clobbered>>
    BY <1>1, <1>2, <1>3, <1>4, <1>5 DEF Advance
  <1>6. CASE /\ loc[p].ens # "look" /\ contract'.period = loc[p].period
             /\ clobbered' = (clobbered \/ loc[p].c # contract)
    <2>1. loc[p].c.period < loc[p].period /\ loc[p].period <= PeriodYMAt(now)
      BY <1>4, <1>6 DEF Dated
    <2>2. clobbered' \/ contract'.period >= contract.period
      <3>1. clobbered' \/ loc[p].c = contract
        BY <1>6, Zenon
      <3> QED
        BY <1>3, <1>6, <2>1, <3>1
    <2>3. clobbered => clobbered'
      BY <1>6, Zenon
    <2> QED
      BY <1>1, <1>2, <1>6, <2>1, <2>2, <2>3 DEF Advance
  <1> QED
    BY <1>5, <1>6, EnsureFacts

\* When it returns, its caller knows the month the contract has reached.
LEMMA DatesEnsured ==
  ASSUME BillingTypeOK, KnowsAll, SessionsOK, BillingTypeOK', DatesOK, BeginsOK, Advance,
         NEW p \in Procs, EnsureStep(p)
  PROVE  DatesOK'
  <1>1. ASSUME NEW q \in Procs, q # p PROVE Dated(q)'
    <2>1. Dated(q) /\ loc'[q] = loc[q]
      BY <1>1, EnsureFacts DEF DatesOK
    <2> QED
      BY <2>1, StillDated
  <1>2. PICK m \in Proc, l \in Proc : m = loc[p] /\ l = loc'[p]
    BY DEF BillingTypeOK
  <1>3. UNCHANGED <<now, span>>
    BY DEF EnsureStep, EnsureLook, EnsureFill, EnsureRoll, history
  <1>4. PICK P \in Int : P = PeriodYMAt(now)
    BY MonthsTyped
  <1>5. /\ contract.period \in Int /\ contract'.period \in Int /\ contract.period <= P
        /\ m.c \in Copies /\ m.c.period \in Int /\ m.period \in Int /\ l.period \in Int
    BY <1>2, <1>4, MonthsTyped, EnsureFacts DEF Advance, DatesOK, Proc, Months
  <1>6. m.pc \in Ensuring /\ l.u = m.u
    BY <1>2, EnsureFacts
  <1>7. m.pc \in {"segment", "final"} => /\ m.u \in Relays /\ span[m.u] # None
                                         /\ MonthOf(m.u) \in Int /\ MonthOf(m.u) <= P
    BY <1>2, <1>4, InHand DEF SettlePCs, FinalPCs
  <1>8. m.pc = "segment" => MonthOf(m.u) < P
    <2> SUFFICES ASSUME m.pc = "segment" PROVE MonthOf(m.u) < P
      OBVIOUS
    <2>1. m.pc \in SettlePCs
      BY DEF SettlePCs
    <2>2. /\ m.a \in Sessions /\ m.until \in 0..MaxTime /\ SplitAtMonthBoundary(m.a.start, m.until)
          /\ m.until <= now
      <3>1. p \in Relays \cup {Ticker}
        <4>1. Knows(p, m)
          BY <1>2 DEF KnowsAll
        <4> QED
          BY <4>1, <2>1 DEF Knows, Procs
      <3> QED
        BY <1>2, <2>1, <3>1, SettlerFacts
    <2>3. Begins(m.u, m.a.start)
      BY <1>2, <2>1 DEF BeginsOK
    <2>4. PICK s \in 0..MaxTime, f \in 0..MaxTime : s = m.a.start /\ f = span[m.u].from /\ f <= s
      BY <1>7, <2>2, <2>3, MonthsTyped DEF Sessions, Begins
    <2>5. PeriodYMAt(f) <= PeriodYMAt(s) /\ PeriodYMAt(f) \in Int /\ PeriodYMAt(s) \in Int
      BY <2>4, PeriodFacts
    <2>6. /\ PeriodYMAt(s) <= PeriodYMAt(m.until) /\ PeriodYMAt(s) # PeriodYMAt(m.until)
          /\ PeriodYMAt(m.until) \in Int
      <3>1. s <= m.until
        <4>1. MonthEnd(s) \in Int /\ s < MonthEnd(s) /\ m.until > MonthEnd(s)
          BY <2>2, <2>4, MonthEndFacts, BillingAssumption DEF SplitAtMonthBoundary
        <4> QED
          BY <2>2, <2>4, <4>1, BillingAssumption
      <3> QED
        BY <2>2, <2>4, <3>1, PeriodFacts DEF SplitAtMonthBoundary
    <2>7. PeriodYMAt(m.until) <= P
      BY <1>4, <2>2, PeriodFacts DEF BillingTypeOK
    <2> QED
      BY <1>4, <2>4, <2>5, <2>6, <2>7 DEF MonthOf
  <1>9. /\ m.c.period <= P /\ (clobbered \/ m.c.period <= contract.period)
        /\ m.ens # "look" => /\ m.c.period < m.period /\ m.period <= P
                             /\ m.pc = "final" => m.period >= MonthOf(m.u)
                             /\ m.pc = "segment" => m.period > MonthOf(m.u)
    <2>1. Dated(p) /\ m.c # None
      BY <1>5, ProcsAssumption DEF DatesOK
    <2> QED
      BY <1>2, <1>4, <2>1 DEF Dated
  <1>10. SUFFICES
           /\ l.c.period <= P /\ (clobbered' \/ l.c.period <= contract'.period)
           /\ l.ens # "look" => /\ l.c.period < l.period /\ l.period <= P
                                /\ l.pc = "final" => l.period >= MonthOf(l.u)
                                /\ l.pc = "segment" => l.period > MonthOf(l.u)
           /\ l.pc \in ReachedPCs => clobbered' \/ contract'.period >= MonthOf(l.u)
           /\ l.pc \in LeftPCs => clobbered' \/ contract'.period > MonthOf(l.u)
    <2>1. Dated(p)'
      BY <1>2, <1>3, <1>4, <1>10 DEF Dated, Reached, Left, MonthOf
    <2> QED
      BY <1>1, <2>1 DEF DatesOK, Advance
  <1>11. ASSUME l.pc = Returns[m.pc] 
         PROVE  /\ l.pc \in ReachedPCs => m.pc = "final"
                /\ l.pc \in LeftPCs => m.pc = "segment"
    BY <1>6, <1>11 DEF Ensuring, Returns, ReachedPCs, LeftPCs
  <1>12. m.pc \notin ReachedPCs /\ m.pc \notin LeftPCs
    BY <1>6 DEF Ensuring, ReachedPCs, LeftPCs
  <1>13. CASE /\ l.pc = Returns[m.pc] /\ l.ens = "look" /\ l.c = m.c
              /\ m.c.period = P /\ UNCHANGED <<contract, clobbered>>
    BY <1>5, <1>6, <1>7, <1>8, <1>9, <1>11, <1>13
  <1>14. CASE /\ l.pc = m.pc /\ l.ens # "look" /\ l.c = m.c
              /\ l.period = P /\ m.c.period # P /\ UNCHANGED <<contract, clobbered>>
    BY <1>4, <1>5, <1>6, <1>7, <1>8, <1>9, <1>12, <1>14
  <1>15. CASE /\ l.pc = m.pc /\ l.ens # "look" /\ l.c = m.c
              /\ l.period = m.period /\ m.ens # "look" /\ UNCHANGED <<contract, clobbered>>
    BY <1>5, <1>6, <1>9, <1>12, <1>15
  <1>16. CASE /\ l.pc = Returns[m.pc] /\ l.ens = "look" /\ l.c = contract' /\ m.ens # "look"
              /\ contract'.period = m.period
    BY <1>5, <1>6, <1>9, <1>11, <1>16
  <1> QED
    BY <1>2, <1>4, <1>13, <1>14, <1>15, <1>16, EnsureFacts

-----------------------------------------------------------------------------
(* Where a session is said to begin, and what its row holds.                *)

WorkKept == \A q \in Procs : KeepsWork(loc[q], loc'[q]) /\ KeepsSession(loc[q], loc'[q])

\* When one goroutine moves and keeps its work, all do.
LEMMA AllKeep ==
  ASSUME \/ loc' = loc
         \/ \E p \in Procs : /\ \A q \in Procs : q # p => loc'[q] = loc[q]
                             /\ KeepsWork(loc[p], loc'[p]) /\ KeepsSession(loc[p], loc'[p])
  PROVE  WorkKept
  BY DEF WorkKept, KeepsWork, KeepsSession

\* Inside EnsureContractPeriod a goroutine keeps its work.
LEMMA EnsureKeeps ==
  ASSUME BillingTypeOK, KnowsAll, NEW p \in Procs, EnsureStep(p)
  PROVE  /\ WorkKept
         /\ \A u \in Relays : loc'[u].pc \in {"finTotal", "done"} => loc[u].pc = loc'[u].pc
  <1>1. /\ \A q \in Procs : q # p => loc'[q] = loc[q]
        /\ loc[p].pc \in Ensuring
        /\ loc'[p].u = loc[p].u /\ loc'[p].a = loc[p].a /\ loc'[p].seg = loc[p].seg
        /\ loc'[p].pc = loc[p].pc \/ loc'[p].pc = Returns[loc[p].pc]
    BY EnsureFacts
  <1>2. KeepsWork(loc[p], loc'[p]) /\ KeepsSession(loc[p], loc'[p])
    BY <1>1 DEF KeepsWork, KeepsSession, Ensuring, Returns, LatePCs, WrittenPCs, SettlePCs, FinalPCs
  <1>3. loc'[p].pc \notin {"finTotal", "done"}
    BY <1>1 DEF Ensuring, Returns
  <1> QED
    BY <1>1, <1>2, <1>3, AllKeep DEF Procs

\* A session begins where it was said to begin.
LEMMA BeginsStays ==
  ASSUME BillingTypeOK, BillingTypeOK', Advance, NEW u \in Relays, span[u] # None, NEW t,
         Begins(u, t)
  PROVE  /\ t >= span'[u].from
         /\ t # span'[u].from => Left(u)' /\ now' > MonthEnd(span'[u].from)
  BY StaysReached DEF Begins, Advance

\* Everything that says where a session begins says so of one that has begun.
LEMMA BegunFacts ==
  ASSUME BillingTypeOK, KnowsAll, SessionsOK
  PROVE  /\ \A u \in Relays : active[u] # None \/ snap[u] # None => span[u] # None
         /\ \A q \in Procs : loc[q].pc \in SettlePCs \cup FinalPCs =>
              loc[q].u \in Relays /\ span[loc[q].u] # None
         /\ \A u \in Relays : loc[u].pc \in LatePCs \cup {"finWrite"} => span[u] # None
  <1>1. \A u \in Relays : active[u] # None \/ snap[u] # None => span[u] # None
    BY DEF SessionsOK, SessionOK, Begun
  <1>2. \A q \in Procs : loc[q].pc \in SettlePCs \cup FinalPCs =>
          loc[q].u \in Relays /\ span[loc[q].u] # None
    BY InHand
  <1>3. \A u \in Relays : loc[u].pc \in LatePCs \cup {"finWrite"} => span[u] # None
    BY DEF SessionsOK, SessionOK, Begun, LatePCs, WrittenPCs, FinalPCs
  <1> QED
    BY <1>1, <1>2, <1>3

\* Steps that keep the work and touch neither active nor snap nor span.
LEMMA BeginsKept ==
  ASSUME BillingTypeOK, KnowsAll, SessionsOK, BillingTypeOK', Advance, BeginsOK,
         UNCHANGED <<active, snap, span>>, WorkKept,
         \A u \in Relays : loc'[u].pc = "finWrite" => loc[u].pc = "finWrite"
  PROVE  BeginsOK'
  <1>1. ASSUME NEW u \in Relays, active'[u] # None PROVE Begins(u, active[u].start)'
    <2>1. span[u] # None /\ Begins(u, active[u].start)
      BY <1>1, BegunFacts DEF BeginsOK
    <2>2. PICK t : t = active[u].start /\ t = active'[u].start
      OBVIOUS
    <2> QED
      BY <2>1, <2>2, BeginsStays DEF Begins
  <1>2. ASSUME NEW u \in Relays, snap'[u] # None PROVE Begins(u, snap[u].start)'
    <2>1. span[u] # None /\ Begins(u, snap[u].start)
      BY <1>2, BegunFacts DEF BeginsOK
    <2>2. PICK t : t = snap[u].start /\ t = snap'[u].start
      OBVIOUS
    <2> QED
      BY <2>1, <2>2, BeginsStays DEF Begins
  <1>3. ASSUME NEW q \in Procs, loc'[q].pc \in SettlePCs \cup FinalPCs
        PROVE  Begins(loc[q].u, loc[q].a.start)'
    <2>1. /\ loc[q].pc \in SettlePCs \cup FinalPCs /\ loc'[q].a = loc[q].a /\ loc'[q].u = loc[q].u
      BY <1>3 DEF WorkKept, KeepsSession
    <2>2. PICK u \in Relays : u = loc[q].u /\ u = loc'[q].u /\ span[u] # None
      BY <2>1, BegunFacts
    <2>3. PICK t : t = loc[q].a.start /\ t = loc'[q].a.start
      BY <2>1
    <2>4. Begins(u, t)
      BY <2>1, <2>2, <2>3 DEF BeginsOK
    <2> QED
      BY <2>2, <2>3, <2>4, BeginsStays DEF Begins, Left, MonthOf
  <1>4. ASSUME NEW u \in Relays, loc'[u].pc \in LatePCs \cup {"finWrite"},
               loc'[u].a.start # span'[u].from
        PROVE  span'[u].to > MonthEnd(span'[u].from)
    <2>1. u \in Procs
      BY DEF Procs
    <2>2. "finWrite" \in FinalPCs
      BY DEF FinalPCs
    <2>3. loc[u].pc \in LatePCs \cup {"finWrite"} /\ loc'[u].a = loc[u].a
      BY <1>4, <2>1, <2>2 DEF WorkKept, KeepsWork, KeepsSession
    <2> QED
      BY <1>4, <2>3 DEF BeginsOK
  <1> QED
    BY <1>1, <1>2, <1>3, <1>4 DEF BeginsOK

\* The part of session u is not touched.
PartFrame(u) ==
  /\ span'[u] = span[u] /\ active'[u] = active[u]
  /\ SameStage(u, loc[u], loc'[u]) /\ KeepsWork(loc[u], loc'[u])
  /\ \/ SameStage(Ticker, loc[Ticker], loc'[Ticker])
     \/ ~TickerHas(u) /\ ~TickerHas(u)'
  /\ u \notin torn' => u \notin torn /\ row'[u].included = row[u].included
  /\ u \notin late' => u \notin late

\* What the end of a relay has recorded stays as it is.
EndKept(u) ==
  Sound(u)' /\ loc'[u].pc \in {"finTotal", "done"} =>
    Sound(u) /\ span'[u] = span[u] /\ row'[u].included = row[u].included

\* Such a step keeps the part.
LEMMA PartKept ==
  ASSUME KnowsAll, NEW u \in Relays, OnePart(u), PartFrame(u)
  PROVE  OnePart(u)' /\ EndKept(u)
  <1>1. TickerHas(u)' <=> TickerHas(u)
    BY DEF PartFrame, TickerHas, SameStage
  <1>2. Sound(u)' => Sound(u) /\ row'[u].included = row[u].included
    BY <1>1 DEF Sound, Undisturbed, Doomed, PartFrame
  <1>3. EndKept(u)
    BY <1>2 DEF EndKept, PartFrame
  <1>4. SUFFICES ASSUME Sound(u)' PROVE OnePart(u)'
    BY <1>2, <1>3 DEF OnePart
  <1>5. /\ Sound(u) /\ row'[u].included = row[u].included /\ span'[u] = span[u]
        /\ active'[u] = active[u]
    BY <1>2, <1>4 DEF PartFrame
  <1>6. ASSUME active'[u] # None
        PROVE  IF TickerHas(u)' THEN Blank(Ticker, u)'
               ELSE active'[u].start = span'[u].from => row'[u].included = 0
    <2>1. CASE TickerHas(u)'
      <3>1. loc[Ticker].pc \in SettlePCs
        <4>1. Ticker \in Procs /\ loc[Ticker].pc # "idle"
          BY <1>1, <2>1 DEF Procs, TickerHas
        <4> QED
          BY <4>1 DEF KnowsAll, Knows
      <3>2. /\ loc'[Ticker].a = loc[Ticker].a
            /\ loc'[Ticker].pc = "segSync" <=> loc[Ticker].pc = "segSync"
        BY <1>1, <2>1, <3>1 DEF PartFrame, SameStage
      <3>3. Blank(Ticker, u)
        BY <1>1, <1>5, <1>6, <2>1 DEF OnePart
      <3> QED
        BY <1>5, <2>1, <3>2, <3>3 DEF Blank
    <2>2. CASE ~TickerHas(u)'
      BY <1>1, <1>5, <1>6, <2>2 DEF OnePart
    <2> QED
      BY <2>1, <2>2
  <1>7. ASSUME loc'[u].pc \in SettlePCs \cup {"finRow", "finWrite"} PROVE Blank(u, u)'
    <2>1. /\ loc[u].pc \in SettlePCs \cup {"finRow", "finWrite"} /\ loc'[u].a = loc[u].a
          /\ loc'[u].pc = "segSync" <=> loc[u].pc = "segSync"
      BY <1>7 DEF PartFrame, SameStage
    <2>2. Blank(u, u)
      BY <1>5, <2>1 DEF OnePart
    <2> QED
      BY <1>5, <2>1, <2>2 DEF Blank
  <1>8. ASSUME loc'[u].pc \in LatePCs, loc'[u].a.start = span'[u].from
        PROVE  row'[u].included = loc'[u].seg.included
    <2>1. loc[u].pc \in LatePCs /\ loc'[u].a = loc[u].a /\ loc'[u].seg = loc[u].seg
      <3>1. "finWrite" \notin LatePCs
        BY DEF LatePCs, WrittenPCs
      <3> QED
        BY <1>8, <3>1 DEF PartFrame, SameStage, KeepsWork
    <2> QED
      BY <1>5, <1>8, <2>1 DEF OnePart
  <1> QED
    BY <1>6, <1>7, <1>8 DEF OnePart

PartStep == \A u \in Relays : OnePart(u)' /\ EndKept(u)

\* A quiet step touches no part.
LEMMA QuietParts ==
  ASSUME BillingTypeOK, KnowsAll, PartsOK, QuietFrame, WorkKept
  PROVE  PartStep
  <1> SUFFICES ASSUME NEW u \in Relays PROVE OnePart(u)' /\ EndKept(u)
    BY DEF PartStep
  <1>1. PartFrame(u)
    BY DEF QuietFrame, WorkKept, PartFrame, Procs
  <1> QED
    BY <1>1, PartKept DEF PartsOK

\* Nor does a step of goroutine p touch that of another session.
LEMMA Beside ==
  ASSUME KnowsAll, PartsOK, NEW p \in Procs, \A q \in Procs : q # p => loc'[q] = loc[q],
         NEW v \in Relays, v # p, p = Ticker => ~TickerHas(v) /\ ~TickerHas(v)',
         span'[v] = span[v], active'[v] = active[v],
         v \notin torn' => v \notin torn /\ row'[v].included = row[v].included,
         v \notin late' => v \notin late
  PROVE  OnePart(v)' /\ EndKept(v)
  <1>1. v \in Procs /\ Ticker \in Procs
    BY DEF Procs
  <1>2. loc'[v] = loc[v] /\ KeepsWork(loc[v], loc'[v])
    BY <1>1 DEF KeepsWork
  <1>3. p = Ticker \/ loc'[Ticker] = loc[Ticker]
    BY <1>1
  <1>4. PartFrame(v)
    BY <1>2, <1>3, SameStageRefl DEF PartFrame
  <1> QED
    BY <1>4, PartKept DEF PartsOK

\* A session begins at its beginning, with nothing in its row.
LEMMA CreateParts ==
  ASSUME BillingInv, BillingTypeOK', Advance, BeginsOK, PartsOK, NEW u \in Relays,
         CreateBillingSession(u)
  PROVE  BeginsOK' /\ PartStep
  <1>1. BillingTypeOK /\ KnowsAll /\ SessionsOK
    BY DEF BillingInv
  <1>2. u \in Procs /\ Ticker \in Procs /\ u # Ticker /\ \A v \in Relays : v \in Procs
    BY ProcsAssumption DEF Procs
  <1>3. PICK m \in Proc : m = loc[u] /\ m.pc = "create"
    BY <1>1, <1>2 DEF BillingTypeOK, CreateBillingSession, At
  <1>4. PICK l : l = [m EXCEPT !.c = None]
    OBVIOUS
  <1>5. l \in Proc /\ Goto(u, l, "live")
    BY <1>3, <1>4 DEF Proc, CreateBillingSession
  <1>6. loc'[u].pc = "live" /\ \A q \in Procs : q # u => loc'[q] = loc[q]
    BY <1>1, <1>2, <1>5, GotoFacts DEF BillingTypeOK
  <1>7. UNCHANGED <<now, snap, torn, late, contract, clobbered>>
    BY DEF CreateBillingSession
  <1>8. /\ row'[u].included = 0 /\ active'[u].start = now /\ span'[u].from = now
        /\ \A v \in Relays : v # u => row'[v] = row[v] /\ active'[v] = active[v] /\ span'[v] = span[v]
    <2>1. /\ row'[u] = [status |-> "active", billed |-> 0, included |-> 0, overage |-> 0]
          /\ active'[u] = [start |-> now, remaining |-> loc[u].c.remaining]
          /\ span'[u] = [from |-> now, to |-> now]
          /\ \A v \in Relays : v # u => row'[v] = row[v] /\ active'[v] = active[v] /\ span'[v] = span[v]
      BY <1>1 DEF CreateBillingSession, BillingTypeOK
    <2> QED
      BY <2>1
  <1>9. row[u] = None /\ snap[u] = None /\ span[u] = None
    BY <1>1, <1>3 DEF SessionsOK, SessionOK, Begun, SettlePCs, FinalPCs
  <1>10. ~TickerHas(u) /\ loc'[Ticker] = loc[Ticker]
    BY <1>1, <1>2, <1>6, <1>9 DEF TickerHas, KnowsAll, Knows
  <1>11. OnePart(u)' /\ EndKept(u)
    <2>1. ~TickerHas(u)'
      BY <1>10 DEF TickerHas
    <2> QED
      BY <1>6, <1>8, <2>1 DEF OnePart, EndKept, SettlePCs, LatePCs, WrittenPCs
  <1>12. ASSUME NEW v \in Relays, v # u PROVE OnePart(v)' /\ EndKept(v)
    BY <1>1, <1>2, <1>6, <1>7, <1>8, <1>12, Beside
  <1>13. PartStep
    BY <1>11, <1>12 DEF PartStep
  <1>14. ASSUME NEW v \in Relays, active'[v] # None PROVE Begins(v, active[v].start)'
    <2>1. CASE v = u
      <3>1. now \in Int
        BY <1>1, BillingAssumption DEF BillingTypeOK
      <3> QED
        BY <1>8, <2>1, <3>1 DEF Begins
    <2>2. CASE v # u
      <3>1. span[v] # None /\ Begins(v, active[v].start)
        BY <1>1, <1>8, <1>14, <2>2, BegunFacts DEF BeginsOK
      <3>2. PICK t : t = active[v].start /\ t = active'[v].start
        BY <1>8, <2>2
      <3> QED
        BY <1>1, <3>1, <3>2, BeginsStays DEF Begins
    <2> QED
      BY <2>1, <2>2
  <1>15. ASSUME NEW v \in Relays, snap'[v] # None PROVE Begins(v, snap[v].start)'
    <2>1. span[v] # None /\ Begins(v, snap[v].start)
      BY <1>1, <1>7, <1>15, BegunFacts DEF BeginsOK
    <2>2. PICK t : t = snap[v].start /\ t = snap'[v].start
      BY <1>7
    <2> QED
      BY <1>1, <2>1, <2>2, BeginsStays DEF Begins
  <1>16. ASSUME NEW q \in Procs, loc'[q].pc \in SettlePCs \cup FinalPCs
         PROVE  Begins(loc[q].u, loc[q].a.start)'
    <2>1. q # u
      BY <1>6, <1>16 DEF SettlePCs, FinalPCs
    <2>2. PICK v \in Relays : v = loc[q].u /\ v = loc'[q].u /\ span[v] # None
      BY <1>1, <1>6, <1>16, <2>1, BegunFacts
    <2>3. PICK t : t = loc[q].a.start /\ t = loc'[q].a.start
      BY <1>6, <2>1
    <2>4. Begins(v, t)
      BY <1>6, <1>16, <2>1, <2>2, <2>3 DEF BeginsOK
    <2> QED
      BY <1>1, <2>2, <2>3, <2>4, BeginsStays DEF Begins, Left, MonthOf
  <1>17. ASSUME NEW v \in Relays, loc'[v].pc \in LatePCs \cup {"finWrite"},
                loc'[v].a.start # span'[v].from
         PROVE  span'[v].to > MonthEnd(span'[v].from)
    <2>1. v # u
      BY <1>6, <1>17 DEF LatePCs, WrittenPCs
    <2> QED
      BY <1>2, <1>6, <1>8, <1>17, <2>1 DEF BeginsOK
  <1> QED
    BY <1>13, <1>14, <1>15, <1>16, <1>17 DEF BeginsOK

\* settleCrossingMonth writes the part of a month.
LEMMA SegmentWriteParts ==
  ASSUME BillingInv, PartsOK, NEW p \in Relays \cup {Ticker}, SegmentWrite(p)
  PROVE  PartStep
  <1>1. BillingTypeOK /\ KnowsAll /\ SessionsOK
    BY DEF BillingInv
  <1>2. loc[p].pc = "segWrite" /\ loc[p].pc \in SettlePCs
    BY DEF SegmentWrite, At, SettlePCs
  <1>3. PICK m \in Proc : m = loc[p]
    BY <1>1, <1>2, SettlerFacts
  <1>4. /\ p \in Procs /\ Knows(p, m) /\ m.u \in Relays /\ m.seg \in Segments
        /\ (p \in Relays => m.u = p)
    BY <1>1, <1>2, <1>3, SettlerFacts
  <1>5. PICK u \in Relays : u = m.u
    BY <1>4
  <1>6. PICK r \in Rows : r = Billed(m.r, m.seg)
    <2>1. m.r \in Rows
      BY <1>2, <1>3, <1>4 DEF Knows, Proc
    <2> QED
      BY <1>4, <2>1, BilledFacts
  <1>7. \A v \in Relays : v # u => row'[v] = row[v] /\ (v \in torn' <=> v \in torn)
    <2>1. UpdateBillingSession(p, r)
      BY <1>3, <1>6 DEF SegmentWrite
    <2> QED
      BY <1>1, <1>3, <1>4, <1>5, <2>1, RowWritten
  <1>8. UNCHANGED <<active, span, late>>
    BY DEF SegmentWrite, memory
  <1>9. PICK l : l = [m EXCEPT !.r = None]
    OBVIOUS
  <1>10. l \in Proc /\ l.u = u /\ Goto(p, l, "segSync")
    BY <1>3, <1>5, <1>9 DEF Proc, SegmentWrite
  <1>11. loc'[p].pc = "segSync" /\ loc'[p].u = u /\ \A q \in Procs : q # p => loc'[q] = loc[q]
    BY <1>1, <1>4, <1>10, GotoFacts DEF BillingTypeOK
  <1>12. u \in Procs /\ u # Ticker
    BY ProcsAssumption DEF Procs
  <1>13. ASSUME NEW v \in Relays, v # u PROVE OnePart(v)' /\ EndKept(v)
    <2>1. v # p /\ (p = Ticker => ~TickerHas(v) /\ ~TickerHas(v)')
      BY <1>3, <1>4, <1>5, <1>11, <1>13, ProcsAssumption DEF TickerHas
    <2> QED
      BY <1>1, <1>4, <1>7, <1>8, <1>11, <1>13, <2>1, Beside
  <1>14. OnePart(u)' /\ EndKept(u)
    <2>1. CASE p = Ticker
      <3>1. TickerHas(u)'
        BY <1>11, <2>1 DEF TickerHas
      <3> SUFFICES ASSUME Sound(u)' PROVE OnePart(u)' /\ EndKept(u)
        BY DEF OnePart, EndKept
      <3>2. active[u] # None
        BY <1>8, <3>1 DEF Sound, Doomed
      <3>3. loc[u].pc = "live" /\ loc'[u] = loc[u]
        BY <1>1, <1>11, <1>12, <2>1, <3>2 DEF SessionsOK, SessionOK
      <3>4. Blank(Ticker, u)'
        BY <1>11, <2>1 DEF Blank
      <3> QED
        BY <3>1, <3>3, <3>4 DEF OnePart, EndKept, SettlePCs, LatePCs, WrittenPCs
    <2>2. CASE p # Ticker
      <3>1. p = u
        BY <1>4, <1>5, <2>2
      <3>2. active'[u] = None
        BY <1>1, <1>2, <1>8, <3>1 DEF SessionsOK, SessionOK
      <3>3. Blank(u, u)'
        BY <1>11, <3>1 DEF Blank
      <3> QED
        BY <1>11, <3>1, <3>2, <3>3 DEF OnePart, EndKept, LatePCs, WrittenPCs
    <2> QED
      BY <2>1, <2>2
  <1> QED
    BY <1>13, <1>14 DEF PartStep


\* A later month ends later.
LEMMA MonthEndMonotone ==
  ASSUME NEW s \in 0..MaxTime, NEW t \in 0..MaxTime, s <= t
  PROVE  MonthEnd(s) <= MonthEnd(t)
  <1>1. PICK j \in Nat, k \in Nat : j = PeriodYMAt(s) /\ k = PeriodYMAt(t) /\ j <= k
    BY PeriodFacts
  <1>2. (j + 1) * MONTH <= (k + 1) * MONTH
    BY <1>1, BillingAssumption
  <1> QED
    BY <1>1, <1>2 DEF MonthEnd

\* A step after which every beginning is one that was known.
LEMMA BeginsMoved ==
  ASSUME BillingTypeOK, BillingTypeOK', Advance,
         \A u \in Relays : active'[u] # None => span[u] # None /\ Begins(u, active'[u].start),
         \A u \in Relays : snap'[u] # None => span[u] # None /\ Begins(u, snap'[u].start),
         \A q \in Procs : loc'[q].pc \in SettlePCs \cup FinalPCs =>
           /\ loc'[q].u \in Relays /\ span[loc'[q].u] # None
           /\ Begins(loc'[q].u, loc'[q].a.start),
         \A u \in Relays : loc'[u].pc \in LatePCs \cup {"finWrite"} /\ loc'[u].a.start # span'[u].from =>
           span'[u].to > MonthEnd(span'[u].from)
  PROVE  BeginsOK'
  <1>1. ASSUME NEW u \in Relays, active'[u] # None PROVE Begins(u, active[u].start)'
    <2>1. PICK t : t = active'[u].start
      OBVIOUS
    <2>2. span[u] # None /\ Begins(u, t)
      BY <1>1, <2>1
    <2> QED
      BY <2>1, <2>2, BeginsStays DEF Begins
  <1>2. ASSUME NEW u \in Relays, snap'[u] # None PROVE Begins(u, snap[u].start)'
    <2>1. PICK t : t = snap'[u].start
      OBVIOUS
    <2>2. span[u] # None /\ Begins(u, t)
      BY <1>2, <2>1
    <2> QED
      BY <2>1, <2>2, BeginsStays DEF Begins
  <1>3. ASSUME NEW q \in Procs, loc'[q].pc \in SettlePCs \cup FinalPCs
        PROVE  Begins(loc[q].u, loc[q].a.start)'
    <2>1. PICK u \in Relays : u = loc'[q].u /\ span[u] # None
      BY <1>3
    <2>2. PICK t : t = loc'[q].a.start
      OBVIOUS
    <2>3. Begins(u, t)
      BY <1>3, <2>1, <2>2
    <2> QED
      BY <2>1, <2>2, <2>3, BeginsStays DEF Begins, Left, MonthOf
  <1> QED
    BY <1>1, <1>2, <1>3 DEF BeginsOK

\* settleCrossingMonth goes on with the next month.
LEMMA SegmentSyncParts ==
  ASSUME BillingInv, BillingTypeOK', Advance, DatesOK, BeginsOK, PartsOK,
         NEW p \in Relays \cup {Ticker}, SegmentSync(p)
  PROVE  BeginsOK' /\ PartStep
  <1>1. BillingTypeOK /\ KnowsAll /\ SessionsOK
    BY DEF BillingInv
  <1>2. loc[p].pc = "segSync" /\ loc[p].pc \in SettlePCs
    BY DEF SegmentSync, At, SettlePCs
  <1>3. PICK m \in Proc : m = loc[p]
    BY <1>1, <1>2, SettlerFacts
  <1>4. /\ p \in Procs /\ m.a \in Sessions /\ m.until \in 0..MaxTime /\ (p \in Relays => m.u = p)
        /\ SplitAtMonthBoundary(m.a.start, m.until) /\ m.until <= now
    BY <1>1, <1>2, <1>3, SettlerFacts
  <1>5. PICK u \in Relays : u = m.u /\ u \in Procs /\ u # Ticker
    BY <1>1, <1>2, <1>3, SettlerFacts, ProcsAssumption DEF Procs
  <1>6. PICK a \in Sessions :
          /\ a = [start |-> loc[p].seg.to, remaining |-> loc[p].c.remaining]
          /\ loc[p].seg.to = MonthEnd(loc[p].a.start)
          /\ \A q \in Procs : q # p => loc'[q] = loc[q]
          /\ \/ /\ loc'[p].pc = "segCharge" /\ loc'[p].u = loc[p].u /\ loc'[p].a = a
             \/ /\ p = Ticker /\ loc'[p].pc = "idle"
             \/ /\ p # Ticker /\ loc'[p].pc = "finRow" /\ loc'[p].u = loc[p].u /\ loc'[p].a = a
    BY <1>1, SegmentSyncMoves
  <1>7. a.start = MonthEnd(m.a.start)
    BY <1>3, <1>6
  <1>8. /\ active'[u] = IF active[u] = None THEN None ELSE a
        /\ \A v \in Relays : v # u => active'[v] = active[v] /\ (v \in late' <=> v \in late)
        /\ p = Ticker /\ active[u] = None => u \in late'
        /\ a # None /\ UNCHANGED <<row, span, snap, torn>>
    <2>1. /\ active' = IF active[u] = None THEN active ELSE [active EXCEPT ![u] = a]
          /\ late' = IF p = Ticker /\ active[u] = None THEN late \cup {u} ELSE late
      BY <1>3, <1>5, <1>6 DEF SegmentSync
    <2> QED
      BY <1>1, <1>6, <2>1, ProcsAssumption DEF SegmentSync, db, BillingTypeOK
  <1>9. span[u] # None /\ Begins(u, a.start) /\ a.start # span[u].from
    <2>1. span[u] # None /\ Begins(u, m.a.start)
      BY <1>1, <1>2, <1>3, <1>4, <1>5, BegunFacts DEF BeginsOK
    <2>2. PICK f \in 0..MaxTime, s \in 0..MaxTime : f = span[u].from /\ s = m.a.start /\ f <= s
      BY <1>1, <1>4, <2>1, MonthsTyped DEF Begins, Sessions
    <2>3. f \in Nat /\ s \in Nat /\ now \in Int /\ m.until \in Int
      BY <1>1, <1>4, <2>2, BillingAssumption DEF BillingTypeOK
    <2>4. s < MonthEnd(s) /\ MonthEnd(f) <= MonthEnd(s) /\ MonthEnd(s) \in Nat /\ MonthEnd(f) \in Nat
      BY <2>2, <2>3, MonthEndFacts, MonthEndMonotone
    <2>5. MonthEnd(s) < m.until
      BY <1>4, <2>2 DEF SplitAtMonthBoundary
    <2>6. Left(u)
      <3>1. Dated(p) /\ loc[p].pc \in LeftPCs
        BY <1>2, <1>4 DEF DatesOK, LeftPCs
      <3> QED
        BY <1>3, <1>5, <3>1 DEF Dated
    <2>7. a.start > f /\ now > MonthEnd(f)
      BY <1>4, <1>7, <2>2, <2>3, <2>4, <2>5
    <2> QED
      BY <1>7, <2>1, <2>2, <2>3, <2>4, <2>6, <2>7 DEF Begins
  <1>10. BeginsOK'
    <2>1. \A v \in Relays : active'[v] # None => span[v] # None /\ Begins(v, active'[v].start)
      BY <1>1, <1>8, <1>9, BegunFacts DEF BeginsOK
    <2>2. \A v \in Relays : snap'[v] # None => span[v] # None /\ Begins(v, snap'[v].start)
      BY <1>1, <1>8, BegunFacts DEF BeginsOK
    <2>3. \A q \in Procs : loc'[q].pc \in SettlePCs \cup FinalPCs =>
            /\ loc'[q].u \in Relays /\ span[loc'[q].u] # None
            /\ Begins(loc'[q].u, loc'[q].a.start)
      <3>1. ASSUME NEW q \in Procs, loc'[q].pc \in SettlePCs \cup FinalPCs
            PROVE  /\ loc'[q].u \in Relays /\ span[loc'[q].u] # None
                   /\ Begins(loc'[q].u, loc'[q].a.start)
        <4>1. CASE q = p
          <5>1. loc'[p].u = u /\ loc'[p].a = a
            BY <1>3, <1>5, <1>6, <3>1, <4>1 DEF SettlePCs, FinalPCs
          <5> QED
            BY <1>9, <4>1, <5>1
        <4>2. CASE q # p
          BY <1>1, <1>6, <3>1, <4>2, BegunFacts DEF BeginsOK
        <4> QED
          BY <4>1, <4>2
      <3> QED
        BY <3>1
    <2>4. \A v \in Relays :
            loc'[v].pc \in LatePCs \cup {"finWrite"} /\ loc'[v].a.start # span'[v].from =>
              span'[v].to > MonthEnd(span'[v].from)
      <3>1. ASSUME NEW v \in Relays, loc'[v].pc \in LatePCs \cup {"finWrite"}
            PROVE  loc'[v] = loc[v]
        <4>1. v \in Procs /\ v # Ticker
          BY ProcsAssumption DEF Procs
        <4> QED
          BY <1>6, <3>1, <4>1 DEF LatePCs, WrittenPCs
      <3> QED
        BY <1>8, <3>1 DEF BeginsOK
    <2> QED
      BY <1>1, <2>1, <2>2, <2>3, <2>4, BeginsMoved
  <1>11. ASSUME NEW v \in Relays, v # u PROVE OnePart(v)' /\ EndKept(v)
    <2>1. v # p /\ (p = Ticker => ~TickerHas(v) /\ ~TickerHas(v)')
      BY <1>3, <1>4, <1>5, <1>6, <1>11, ProcsAssumption DEF TickerHas
    <2> QED
      BY <1>1, <1>4, <1>6, <1>8, <1>11, <2>1, Beside
  <1>12. OnePart(u)' /\ EndKept(u)
    <2>1. CASE p = Ticker
      <3> SUFFICES ASSUME Sound(u)' PROVE OnePart(u)' /\ EndKept(u)
        BY DEF OnePart, EndKept
      <3>1. active[u] # None
        BY <1>8, <2>1 DEF Sound, Undisturbed
      <3>2. loc[u].pc = "live" /\ loc'[u] = loc[u]
        BY <1>1, <1>5, <1>6, <2>1, <3>1 DEF SessionsOK, SessionOK
      <3>3. active'[u].start # span'[u].from
        BY <1>8, <1>9, <3>1
      <3>4. TickerHas(u)' => Blank(Ticker, u)'
        BY <1>6, <1>8, <1>9, <2>1 DEF TickerHas, Blank
      <3> QED
        BY <3>2, <3>3, <3>4 DEF OnePart, EndKept, SettlePCs, LatePCs, WrittenPCs
    <2>2. CASE p # Ticker
      <3>1. p = u
        BY <1>4, <1>5, <2>2
      <3>2. active'[u] = None
        BY <1>1, <1>2, <1>8, <3>1 DEF SessionsOK, SessionOK
      <3>3. loc'[u].pc \in {"segCharge", "finRow"} /\ Blank(u, u)'
        BY <1>6, <1>8, <1>9, <2>2, <3>1 DEF Blank
      <3> QED
        BY <3>2, <3>3 DEF OnePart, EndKept, LatePCs, WrittenPCs
    <2> QED
      BY <2>1, <2>2
  <1> QED
    BY <1>10, <1>11, <1>12 DEF PartStep

\* The ticker copies the live sessions and takes up a copy.
LEMMA TickParts ==
  ASSUME BillingInv, BillingTypeOK', Advance, BeginsOK, PartsOK,
         tickActive \/ \E u \in Relays : TickNext(u)
  PROVE  BeginsOK' /\ PartStep
  <1>1. BillingTypeOK /\ KnowsAll /\ SessionsOK
    BY DEF BillingInv
  <1>2. CASE tickActive
    <2>1. snap' = active /\ UNCHANGED <<row, span, active, torn, late, loc>>
      BY <1>2 DEF tickActive, db, history
    <2>2. BeginsOK'
      <3>1. /\ \A v \in Relays : active'[v] # None => span[v] # None /\ Begins(v, active'[v].start)
            /\ \A v \in Relays : snap'[v] # None => span[v] # None /\ Begins(v, snap'[v].start)
        BY <1>1, <2>1, BegunFacts DEF BeginsOK
      <3>2. \A q \in Procs : loc'[q].pc \in SettlePCs \cup FinalPCs =>
              /\ loc'[q].u \in Relays /\ span[loc'[q].u] # None
              /\ Begins(loc'[q].u, loc'[q].a.start)
        BY <1>1, <2>1, BegunFacts DEF BeginsOK
      <3>3. \A v \in Relays :
              loc'[v].pc \in LatePCs \cup {"finWrite"} /\ loc'[v].a.start # span'[v].from =>
                span'[v].to > MonthEnd(span'[v].from)
        BY <2>1 DEF BeginsOK
      <3> QED
        BY <1>1, <3>1, <3>2, <3>3, BeginsMoved
    <2>3. ASSUME NEW v \in Relays PROVE OnePart(v)' /\ EndKept(v)
      <3>1. PartFrame(v)
        BY <2>1, SameStageRefl DEF PartFrame, KeepsWork
      <3> QED
        BY <1>1, <3>1, PartKept DEF PartsOK
    <2> QED
      BY <2>2, <2>3 DEF PartStep
  <1>3. ASSUME NEW u \in Relays, TickNext(u) PROVE BeginsOK' /\ PartStep
    <2>1. Ticker \in Procs /\ \A v \in Relays : v \in Procs /\ v # Ticker
      BY ProcsAssumption DEF Procs
    <2>2. /\ \A q \in Procs : q # Ticker => loc'[q] = loc[q]
          /\ \/ /\ loc'[Ticker].pc = "segCharge" /\ loc'[Ticker].u = u /\ loc'[Ticker].a = snap[u]
             \/ /\ loc'[Ticker].pc = "idle"
      BY <1>1, <1>3, TickNextMoves
    <2>3. loc[Ticker].pc = "idle" /\ snap[u] # None /\ UNCHANGED <<row, active, span, torn, late>>
      BY <1>3, ZenonT(30) DEF TickNext, Enters, At, db, history
    <2>4. snap'[u] = None /\ \A v \in Relays : v # u => snap'[v] = snap[v]
      <3>1. snap' = [snap EXCEPT ![u] = None]
        BY <1>3, ZenonT(30) DEF TickNext
      <3> QED
        BY <1>1, <3>1 DEF BillingTypeOK
    <2>5. BeginsOK'
      <3>1. /\ \A v \in Relays : active'[v] # None => span[v] # None /\ Begins(v, active'[v].start)
            /\ \A v \in Relays : snap'[v] # None => span[v] # None /\ Begins(v, snap'[v].start)
        BY <1>1, <2>3, <2>4, BegunFacts DEF BeginsOK
      <3>2. \A q \in Procs : loc'[q].pc \in SettlePCs \cup FinalPCs =>
              /\ loc'[q].u \in Relays /\ span[loc'[q].u] # None
              /\ Begins(loc'[q].u, loc'[q].a.start)
        <4>1. ASSUME loc'[Ticker].pc \in SettlePCs \cup FinalPCs
              PROVE  loc'[Ticker].u = u /\ loc'[Ticker].a = snap[u]
          BY <2>2, <4>1 DEF SettlePCs, FinalPCs
        <4>2. span[u] # None /\ Begins(u, snap[u].start)
          BY <1>1, <2>3, BegunFacts DEF BeginsOK
        <4>3. ASSUME NEW q \in Procs, q # Ticker, loc'[q].pc \in SettlePCs \cup FinalPCs
              PROVE  /\ loc'[q].u \in Relays /\ span[loc'[q].u] # None
                     /\ Begins(loc'[q].u, loc'[q].a.start)
          BY <1>1, <2>2, <4>3, BegunFacts DEF BeginsOK
        <4> QED
          BY <4>1, <4>2, <4>3
      <3>3. \A v \in Relays :
              loc'[v].pc \in LatePCs \cup {"finWrite"} /\ loc'[v].a.start # span'[v].from =>
                span'[v].to > MonthEnd(span'[v].from)
        BY <2>1, <2>2, <2>3 DEF BeginsOK
      <3> QED
        BY <1>1, <3>1, <3>2, <3>3, BeginsMoved
    <2>6. ~TickerHas(u) /\ loc'[u] = loc[u]
      BY <2>1, <2>2, <2>3 DEF TickerHas
    <2>7. ASSUME NEW v \in Relays, v # u \/ ~TickerHas(u)' PROVE OnePart(v)' /\ EndKept(v)
      <3>1. ~TickerHas(v) /\ ~TickerHas(v)'
        BY <2>2, <2>3, <2>7 DEF TickerHas
      <3> QED
        BY <1>1, <2>1, <2>2, <2>3, <3>1, Beside
    <2>8. ASSUME TickerHas(u)' PROVE OnePart(u)' /\ EndKept(u)
      <3> SUFFICES ASSUME Sound(u)' PROVE OnePart(u)' /\ EndKept(u)
        BY DEF OnePart, EndKept
      <3>1. active[u] # None /\ Sound(u)
        BY <2>3, <2>6, <2>8 DEF Sound, Undisturbed, Doomed
      <3>2. loc'[u].pc = "live"
        BY <1>1, <2>6, <3>1 DEF SessionsOK, SessionOK
      <3>3. loc'[Ticker].pc = "segCharge" /\ loc'[Ticker].a = active[u]
        BY <2>2, <2>3, <2>8, <3>1 DEF BillingInv, CopiesFresh, Fresh, TickerHas
      <3>4. active[u].start = span[u].from => row[u].included = 0
        BY <2>6, <3>1 DEF PartsOK, OnePart
      <3>5. Blank(Ticker, u)'
        BY <2>3, <3>3, <3>4 DEF Blank
      <3> QED
        BY <2>8, <3>2, <3>5 DEF OnePart, EndKept, SettlePCs, LatePCs, WrittenPCs
    <2> QED
      BY <2>5, <2>7, <2>8 DEF PartStep
  <1> QED
    BY <1>2, <1>3

\* EndRelay takes its session out of active.
LEMMA EndRelayParts ==
  ASSUME BillingInv, BillingTypeOK', Advance, BeginsOK, PartsOK, NEW u \in Relays, EndRelay(u)
  PROVE  BeginsOK' /\ PartStep
  <1>1. BillingTypeOK /\ KnowsAll /\ SessionsOK
    BY DEF BillingInv
  <1>2. Ticker \in Procs /\ \A v \in Relays : v \in Procs /\ v # Ticker
    BY ProcsAssumption DEF Procs
  <1>3. /\ \A q \in Procs : q # u => loc'[q] = loc[q]
        /\ loc[u].pc = "live" /\ active[u] # None
        /\ loc'[u].pc \in {"segCharge", "finRow"} /\ loc'[u].u = u /\ loc'[u].a = active[u]
    BY <1>1, EndRelayMoves
  <1>4. UNCHANGED <<row, snap, span, torn, late>>
    BY DEF EndRelay, db, history
  <1>5. active'[u] = None /\ \A v \in Relays : v # u => active'[v] = active[v]
    BY <1>1 DEF EndRelay, BillingTypeOK
  <1>6. loc'[Ticker] = loc[Ticker]
    BY <1>2, <1>3
  <1>7. BeginsOK'
    <2>1. /\ \A v \in Relays : active'[v] # None => span[v] # None /\ Begins(v, active'[v].start)
          /\ \A v \in Relays : snap'[v] # None => span[v] # None /\ Begins(v, snap'[v].start)
      BY <1>1, <1>4, <1>5, BegunFacts DEF BeginsOK
    <2>2. \A q \in Procs : loc'[q].pc \in SettlePCs \cup FinalPCs =>
            /\ loc'[q].u \in Relays /\ span[loc'[q].u] # None
            /\ Begins(loc'[q].u, loc'[q].a.start)
      <3>1. span[u] # None /\ Begins(u, active[u].start)
        BY <1>1, <1>3, BegunFacts DEF BeginsOK
      <3>2. ASSUME NEW q \in Procs, q # u, loc'[q].pc \in SettlePCs \cup FinalPCs
            PROVE  /\ loc'[q].u \in Relays /\ span[loc'[q].u] # None
                   /\ Begins(loc'[q].u, loc'[q].a.start)
        BY <1>1, <1>3, <3>2, BegunFacts DEF BeginsOK
      <3> QED
        BY <1>3, <3>1, <3>2
    <2>3. \A v \in Relays :
            loc'[v].pc \in LatePCs \cup {"finWrite"} /\ loc'[v].a.start # span'[v].from =>
              span'[v].to > MonthEnd(span'[v].from)
      <3>1. \A v \in Relays : loc'[v].pc \in LatePCs \cup {"finWrite"} => loc'[v] = loc[v]
        BY <1>2, <1>3 DEF LatePCs, WrittenPCs
      <3> QED
        BY <1>4, <3>1 DEF BeginsOK
    <2> QED
      BY <1>1, <2>1, <2>2, <2>3, BeginsMoved
  <1>8. ASSUME NEW v \in Relays, v # u PROVE OnePart(v)' /\ EndKept(v)
    BY <1>1, <1>2, <1>3, <1>4, <1>5, <1>8, Beside
  <1>9. OnePart(u)' /\ EndKept(u)
    <2> SUFFICES ASSUME Sound(u)' PROVE OnePart(u)' /\ EndKept(u)
      BY DEF OnePart, EndKept
    <2>1. ~TickerHas(u) /\ Sound(u)
      BY <1>3, <1>4, <1>5, <1>6 DEF Sound, Undisturbed, Doomed, TickerHas
    <2>2. active[u].start = span[u].from => row[u].included = 0
      BY <1>3, <2>1 DEF PartsOK, OnePart
    <2>3. Blank(u, u)'
      BY <1>3, <1>4, <2>2 DEF Blank
    <2> QED
      BY <1>3, <1>5, <2>3 DEF OnePart, EndKept, LatePCs, WrittenPCs
  <1> QED
    BY <1>7, <1>8, <1>9 DEF PartStep

\* finalizeSession reads the row and computes the last part.
LEMMA FinalRowParts ==
  ASSUME BillingInv, BillingTypeOK', Advance, BeginsOK, PartsOK, NEW u \in Relays, FinalRow(u)
  PROVE  BeginsOK' /\ PartStep
  <1>1. BillingTypeOK /\ KnowsAll /\ SessionsOK
    BY DEF BillingInv
  <1>2. Ticker \in Procs /\ \A v \in Relays : v \in Procs /\ v # Ticker
    BY ProcsAssumption DEF Procs
  <1>3. /\ \A q \in Procs : q # u => loc'[q] = loc[q]
        /\ loc[u].pc = "finRow" /\ loc'[u].pc = "finWrite" /\ loc'[u].a = loc[u].a
        /\ span[u] # None /\ span'[u].to = now /\ span'[u].from = span[u].from
        /\ \A v \in Relays : v # u => span'[v] = span[v]
    BY <1>1, FinalRowMoves
  <1>4. UNCHANGED <<row, active, snap, torn, late>> /\ loc'[Ticker] = loc[Ticker]
    BY <1>2, <1>3 DEF FinalRow, db, memory
  <1>5. loc[u].u = u /\ loc'[u].u = u /\ Begins(u, loc[u].a.start) /\ active[u] = None
    <2>1. loc[u].u = u /\ loc'[u].u = u
      BY <1>1, <1>2, FinalRowMoves DEF KnowsAll, Knows
    <2>2. Begins(u, loc[u].a.start)
      BY <1>2, <1>3, <2>1 DEF BeginsOK, FinalPCs
    <2> QED
      BY <1>1, <1>3, <2>1, <2>2 DEF SessionsOK, SessionOK
  <1>6. BeginsOK'
    <2>1. /\ \A v \in Relays : active'[v] # None => span[v] # None /\ Begins(v, active'[v].start)
          /\ \A v \in Relays : snap'[v] # None => span[v] # None /\ Begins(v, snap'[v].start)
      BY <1>1, <1>4, BegunFacts DEF BeginsOK
    <2>2. \A q \in Procs : loc'[q].pc \in SettlePCs \cup FinalPCs =>
            /\ loc'[q].u \in Relays /\ span[loc'[q].u] # None
            /\ Begins(loc'[q].u, loc'[q].a.start)
      <3>1. ASSUME NEW q \in Procs, q # u, loc'[q].pc \in SettlePCs \cup FinalPCs
            PROVE  /\ loc'[q].u \in Relays /\ span[loc'[q].u] # None
                   /\ Begins(loc'[q].u, loc'[q].a.start)
        BY <1>1, <1>3, <3>1, BegunFacts DEF BeginsOK
      <3> QED
        BY <1>3, <1>5, <3>1
    <2>3. \A v \in Relays :
            loc'[v].pc \in LatePCs \cup {"finWrite"} /\ loc'[v].a.start # span'[v].from =>
              span'[v].to > MonthEnd(span'[v].from)
      <3>1. loc'[u].a.start # span'[u].from => span'[u].to > MonthEnd(span'[u].from)
        BY <1>3, <1>5 DEF Begins
      <3>2. \A v \in Relays : v # u => loc'[v] = loc[v] /\ span'[v] = span[v]
        BY <1>2, <1>3
      <3> QED
        BY <3>1, <3>2 DEF BeginsOK
    <2> QED
      BY <1>1, <2>1, <2>2, <2>3, BeginsMoved
  <1>7. ASSUME NEW v \in Relays, v # u PROVE OnePart(v)' /\ EndKept(v)
    BY <1>1, <1>2, <1>3, <1>4, <1>7, Beside
  <1>8. OnePart(u)' /\ EndKept(u)
    <2> SUFFICES ASSUME Sound(u)' PROVE OnePart(u)' /\ EndKept(u)
      BY DEF OnePart, EndKept
    <2>1. Sound(u)
      BY <1>3, <1>4 DEF Sound, Undisturbed, Doomed, TickerHas
    <2>2. Blank(u, u)
      BY <1>3, <2>1 DEF PartsOK, OnePart
    <2>3. Blank(u, u)'
      BY <1>3, <1>4, <2>2 DEF Blank
    <2> QED
      BY <1>3, <1>4, <1>5, <2>3 DEF OnePart, EndKept, LatePCs, WrittenPCs
  <1> QED
    BY <1>6, <1>7, <1>8 DEF PartStep

\* finalizeSession writes the last part.
LEMMA FinalWriteParts ==
  ASSUME BillingInv, PartsOK, NEW u \in Relays, FinalWrite(u)
  PROVE  PartStep
  <1>1. BillingTypeOK /\ KnowsAll /\ SessionsOK
    BY DEF BillingInv
  <1>2. loc[u].pc = "finWrite" /\ loc[u].pc \in FinalPCs
    BY DEF FinalWrite, At, FinalPCs
  <1>3. PICK m \in Proc : m = loc[u]
    BY <1>1, <1>2, FinalFacts
  <1>4. /\ u \in Procs /\ Ticker \in Procs /\ u # Ticker /\ Knows(u, m) /\ m.u = u
        /\ row[u] \in Rows /\ m.seg \in Segments
    BY <1>1, <1>2, <1>3, FinalFacts DEF Procs
  <1>5. m.r \in Rows
    BY <1>2, <1>3, <1>4 DEF Knows, Proc
  <1>6. PICK r \in Rows : /\ r = [Billed(m.r, m.seg) EXCEPT !.status = FinalStatus]
                          /\ r.included = m.r.included + m.seg.included
    <2>1. PICK b \in Rows : b = Billed(m.r, m.seg) /\ b.included = m.r.included + m.seg.included
      BY <1>4, <1>5, BilledFacts DEF Billed
    <2>2. PICK s \in {"pending_report", "closed"} : s = FinalStatus
      BY DEF FinalStatus
    <2>3. PICK r : r = [b EXCEPT !.status = s]
      OBVIOUS
    <2>4. r \in Rows /\ r.included = b.included
      BY <2>3 DEF Rows
    <2> QED
      BY <2>1, <2>2, <2>3, <2>4
  <1>7. /\ row' = [row EXCEPT ![u] = r] /\ torn \subseteq torn'
        /\ \A v \in Relays : v # u => row'[v] = row[v] /\ (v \in torn' <=> v \in torn)
        /\ u \notin torn' => row[u] = m.r
    <2>1. UpdateBillingSession(u, r)
      BY <1>3, <1>6 DEF FinalWrite
    <2> QED
      BY <1>1, <1>3, <1>4, <2>1, RowWritten
  <1>8. row'[u] = r /\ UNCHANGED <<active, span, late>>
    BY <1>1, <1>7 DEF FinalWrite, memory, BillingTypeOK
  <1>9. PICK l : l = [m EXCEPT !.r = None]
    OBVIOUS
  <1>10. l \in Proc /\ l.a = m.a /\ l.seg = m.seg /\ Goto(u, l, "finRead")
    BY <1>3, <1>9 DEF Proc, FinalWrite
  <1>11. /\ loc'[u].pc = "finRead" /\ loc'[u].a = m.a /\ loc'[u].seg = m.seg
         /\ \A q \in Procs : q # u => loc'[q] = loc[q]
    BY <1>1, <1>4, <1>10, GotoFacts DEF BillingTypeOK
  <1>12. ASSUME NEW v \in Relays, v # u PROVE OnePart(v)' /\ EndKept(v)
    BY <1>1, <1>4, <1>7, <1>8, <1>11, <1>12, Beside
  <1>13. OnePart(u)' /\ EndKept(u)
    <2> SUFFICES ASSUME Sound(u)' PROVE OnePart(u)' /\ EndKept(u)
      BY DEF OnePart, EndKept
    <2>1. Sound(u) /\ row[u] = m.r
      BY <1>4, <1>7, <1>8, <1>11 DEF Sound, Undisturbed, Doomed, TickerHas
    <2>2. m.a.start = span[u].from => m.r.included = 0
      BY <1>2, <1>3, <2>1 DEF PartsOK, OnePart, Blank
    <2>3. m.seg.included \in Nat
      BY <1>4 DEF Segments
    <2>4. m.a.start = span[u].from => row'[u].included = m.seg.included
      BY <1>6, <1>8, <2>2, <2>3
    <2>5. active'[u] = None
      BY <1>1, <1>2, <1>8 DEF SessionsOK, SessionOK
    <2> QED
      BY <1>8, <1>11, <2>4, <2>5 DEF OnePart, EndKept, SettlePCs
  <1> QED
    BY <1>12, <1>13 DEF PartStep

\* A report leaves what is included alone.
LEMMA CloseParts ==
  ASSUME BillingInv, PartsOK, CloseReported
  PROVE  PartStep
  <1>1. BillingTypeOK /\ KnowsAll /\ SessionsOK
    BY DEF BillingInv
  <1>2. /\ Operator \in Procs /\ Ticker \in Procs /\ Ticker # Operator
        /\ \A v \in Relays : v \in Procs /\ v # Operator
    BY ProcsAssumption DEF Procs
  <1>3. PICK m \in Proc : m = loc[Operator] /\ Knows(Operator, m)
    BY <1>1, <1>2 DEF BillingTypeOK, KnowsAll
  <1>4. m.u \in Relays /\ m.r \in Rows
    BY <1>3 DEF CloseReported, At, Knows, Proc
  <1>5. PICK r : r = [m.r EXCEPT !.status = "closed"]
    OBVIOUS
  <1>6. r \in Rows /\ r.included = m.r.included
    BY <1>4, <1>5 DEF Rows
  <1>7. UpdateBillingSession(Operator, r) /\ Goto(Operator, NewProc, "idle")
    BY <1>3, <1>5 DEF CloseReported
  <1>8. /\ row' = [row EXCEPT ![m.u] = r] /\ torn \subseteq torn'
        /\ \A v \in Relays : v # m.u => row'[v] = row[v] /\ (v \in torn' <=> v \in torn)
        /\ m.u \notin torn' => row[m.u] = m.r
    BY <1>1, <1>2, <1>3, <1>4, <1>6, <1>7, RowWritten
  <1>9. row'[m.u] = r /\ UNCHANGED <<active, span, late>>
    BY <1>1, <1>4, <1>8 DEF CloseReported, memory, BillingTypeOK
  <1>10. \A q \in Procs : q # Operator => loc'[q] = loc[q]
    BY <1>1, <1>2, <1>7, NewProcTyped, GotoFacts DEF BillingTypeOK
  <1>11. ASSUME NEW v \in Relays PROVE OnePart(v)' /\ EndKept(v)
    <2>1. v \notin torn' => v \notin torn /\ row'[v].included = row[v].included
      BY <1>6, <1>8, <1>9
    <2> QED
      BY <1>1, <1>2, <1>9, <1>10, <2>1, Beside
  <1> QED
    BY <1>11 DEF PartStep

-----------------------------------------------------------------------------
(* What a step does to the contract, the totals and the set of sessions.    *)

TotalsGrow ==
  \A m \in Months \ overwritten' :
    /\ m \notin overwritten
    /\ total[m] # None => total'[m] # None /\ total'[m] >= total[m]

\* A session is added by CreateBillingSession only.
SessionsAdded ==
  \/ \A u \in Relays : row[u] = None => row'[u] = None
  \/ \E w \in Relays : \A u \in Relays \ {w} : row[u] = None => row'[u] = None

\* A finite number of sessions stays finite.
LEMMA WithRowFinite ==
  ASSUME IsFiniteSet(WithRow), SessionsAdded
  PROVE  IsFiniteSet(WithRow')
  <1>1. CASE \A u \in Relays : row[u] = None => row'[u] = None
    <2>1. WithRow' \subseteq WithRow
      BY <1>1 DEF WithRow
    <2> QED
      BY <2>1, FS_Subset
  <1>2. CASE \E w \in Relays : \A u \in Relays \ {w} : row[u] = None => row'[u] = None
    <2>1. PICK w \in Relays : WithRow' \subseteq WithRow \cup {w}
      BY <1>2 DEF WithRow
    <2>2. IsFiniteSet(WithRow \cup {w})
      BY FS_AddElement
    <2> QED
      BY <2>1, <2>2, FS_Subset
  <1> QED
    BY <1>1, <1>2 DEF SessionsAdded

\* The totals do not change.
LEMMA TotalsUnchanged ==
  ASSUME BillingTypeOK, UNCHANGED <<total, overwritten>>
  PROVE  TotalsGrow
  <1>1. \A m \in Months : total[m] # None => total[m] \in Nat
    BY DEF BillingTypeOK
  <1> QED
    BY <1>1 DEF TotalsGrow

\* The usage of a segment is added to the total of a month.
LEMMA TotalsAdded ==
  ASSUME BillingTypeOK, NEW m \in Months, NEW seg \in Segments, AddBillingPeriodUsage(m, seg),
         UNCHANGED overwritten
  PROVE  /\ TotalsGrow /\ total'[m] \in Nat
         /\ total[m] # None => total'[m] = seg.included + total[m]
         /\ total[m] = None => total'[m] = seg.included
  <1>1. seg.included \in Nat /\ \A k \in Months : total[k] # None => total[k] \in Nat
    BY DEF BillingTypeOK, Segments
  <1>2. /\ total'[m] = seg.included + (IF total[m] = None THEN 0 ELSE total[m])
        /\ \A k \in Months : k # m => total'[k] = total[k]
    BY DEF AddBillingPeriodUsage, BillingTypeOK
  <1>3. /\ total'[m] \in Nat
        /\ total[m] # None => total'[m] = seg.included + total[m]
        /\ total[m] = None => total'[m] = seg.included
    BY <1>1, <1>2
  <1>4. ASSUME NEW k \in Months, total[k] # None PROVE total'[k] # None /\ total'[k] >= total[k]
    <2>1. CASE k = m
      BY <1>1, <1>3, <1>4, <2>1, ProcsAssumption
    <2>2. CASE k # m
      BY <1>1, <1>2, <1>4, <2>2
    <2> QED
      BY <2>1, <2>2
  <1> QED
    BY <1>3, <1>4 DEF TotalsGrow

\* A gap that is filled where there was none counts as overwritten.
LEMMA TotalsFilled ==
  ASSUME BillingTypeOK, KnowsAll, NEW p \in Procs, EnsureStep(p)
  PROVE  TotalsGrow
  <1>1. CASE EnsureLook(p) \/ EnsureRoll(p)
    <2>1. UNCHANGED <<total, overwritten>>
      BY <1>1 DEF EnsureLook, EnsureRoll, db, history
    <2> QED
      BY <2>1, TotalsUnchanged
  <1>2. CASE EnsureFill(p)
    <2>1. PICK m : m = loc[p].c.period
      OBVIOUS
    <2>2. PICK t : t = Max({0, INCLUDED - loc[p].c.remaining})
      OBVIOUS
    <2>3. /\ total' = [total EXCEPT ![m] = t]
          /\ overwritten' = IF total[m] # None THEN overwritten \cup {m} ELSE overwritten
      BY <1>2, <2>1, <2>2 DEF EnsureFill
    <2>4. \A k \in Months : k # m => total'[k] = total[k]
      BY <2>3 DEF BillingTypeOK
    <2>5. \A k \in Months : total[k] # None => total[k] \in Nat
      BY DEF BillingTypeOK
    <2>6. ASSUME NEW k \in Months \ overwritten', total[k] # None PROVE k # m
      BY <2>3, <2>6
    <2>7. \A k \in Months \ overwritten' : k \notin overwritten
      BY <2>3
    <2> QED
      BY <2>4, <2>5, <2>6, <2>7 DEF TotalsGrow
  <1> QED
    BY <1>1, <1>2 DEF EnsureStep

\* The contract is not written.
LEMMA FallsUnchanged ==
  ASSUME BillingTypeOK, UNCHANGED <<contract, clobbered>>
  PROVE  PoolFalls
  <1>1. contract.remaining \in Nat
    BY MonthsTyped DEF BillingTypeOK
  <1> QED
    BY <1>1 DEF PoolFalls

\* It is written from a copy, with its month and no more minutes.
LEMMA FallsWritten ==
  ASSUME BillingTypeOK, NEW p \in Procs, NEW c, loc[p].c \in Copies, UpdateBillingContract(p, c),
         c.period = loc[p].c.period, c.remaining <= loc[p].c.remaining
  PROVE  PoolFalls
  <1>1. contract' = c /\ (clobbered => clobbered') /\ (clobbered' \/ loc[p].c = contract)
    BY ZenonT(30) DEF UpdateBillingContract
  <1>2. loc[p].c # None
    BY ProcsAssumption
  <1> QED
    BY <1>1, <1>2 DEF PoolFalls

\* The sessions counted are finitely many, and their rows hold numbers.
LEMMA CountedFacts ==
  ASSUME BillingTypeOK, SessionsOK, IsFiniteSet(WithRow), NEW m
  PROVE  /\ IsFiniteSet(Totalled(m)) /\ \A u \in Totalled(m) : row[u].included \in Nat
         /\ IsFiniteSet(Charged(m)) /\ \A u \in Charged(m) : row[u].included \in Nat
  <1>1. \A u \in Relays : Sound(u) => row[u] # None
    BY DEF Sound, SessionsOK, SessionOK
  <1>2. \A u \in Relays : row[u] # None => row[u].included \in Nat
    BY DEF BillingTypeOK, Rows
  <1>3. Totalled(m) \subseteq WithRow /\ Charged(m) \subseteq WithRow
    BY <1>1 DEF Totalled, Charged, WithRow
  <1>4. \A u \in WithRow : row[u].included \in Nat
    BY <1>2 DEF WithRow
  <1> QED
    BY <1>3, <1>4, FS_Subset

\* The total of a month to which no session is added.
LEMMA TotalShrinks ==
  ASSUME BillingTypeOK, SessionsOK, BillingTypeOK', IsFiniteSet(WithRow), PartStep, TotalsGrow,
         TotalsOK, NEW m \in Months \ overwritten', Totalled(m)' \subseteq Totalled(m),
         Totalled(m)' # {}
  PROVE  total'[m] # None /\ total'[m] >= IncludedIn(row', Totalled(m)')
  <1>1. PICK S, T : S = Totalled(m)' /\ T = Totalled(m) /\ S \subseteq T /\ T # {}
    OBVIOUS
  <1>2. IsFiniteSet(T) /\ \A u \in T : row[u].included \in Nat
    BY <1>1, CountedFacts
  <1>3. \A u \in S : row'[u].included = row[u].included
    <2>1. \A u \in S : u \in Relays /\ Sound(u)' /\ loc'[u].pc = "done"
      BY <1>1 DEF Totalled, Over, At
    <2> QED
      BY <2>1 DEF PartStep, EndKept
  <1>4. IsFiniteSet(S)
    BY <1>1, <1>2, FS_Subset
  <1>5. IncludedIn(row', S) = IncludedIn(row, S)
    BY <1>3, <1>4, IncludedSame
  <1>6. IncludedIn(row, S) <= IncludedIn(row, T)
    BY <1>1, <1>2, IncludedSubset
  <1>7. IncludedIn(row, S) \in Nat /\ IncludedIn(row, T) \in Nat
    BY <1>1, <1>2, <1>4, IncludedNat
  <1>8. /\ total[m] # None /\ total[m] >= IncludedIn(row, T)
        /\ total'[m] # None /\ total'[m] >= total[m]
    BY <1>1 DEF TotalsOK, TotalsGrow
  <1>9. total[m] \in Nat /\ total'[m] \in Nat
    BY <1>8 DEF BillingTypeOK
  <1> QED
    BY <1>1, <1>5, <1>6, <1>7, <1>8, <1>9

\* Until a relay ends the totals hold what they should.
LEMMA TotalsKept ==
  ASSUME BillingTypeOK, SessionsOK, BillingTypeOK', IsFiniteSet(WithRow), PartStep, TotalsGrow,
         TotalsOK, \A u \in Relays : loc'[u].pc = "done" => loc[u].pc = "done"
  PROVE  TotalsOK'
  <1>1. ASSUME NEW m PROVE Totalled(m)' \subseteq Totalled(m)
    <2>1. ASSUME NEW u \in Totalled(m)' PROVE u \in Totalled(m)
      <3>1. /\ u \in Relays /\ Sound(u)' /\ loc'[u].pc = "done" /\ PeriodYMAt(span'[u].from) = m
            /\ ~SplitAtMonthBoundary(span'[u].from, span'[u].to)
        BY <2>1 DEF Totalled, Over, At, MonthOf
      <3>2. Sound(u) /\ span'[u] = span[u]
        BY <3>1 DEF PartStep, EndKept
      <3> QED
        BY <3>1, <3>2 DEF Totalled, Over, At, MonthOf
    <2> QED
      BY <2>1
  <1> QED
    BY <1>1, TotalShrinks DEF TotalsOK

\* finalizeSession adds the usage of a session that did not outlast its month.
LEMMA TotalsEnded ==
  ASSUME BillingInv, BillingTypeOK', IsFiniteSet(WithRow), BeginsOK, PartsOK, PartStep, TotalsOK,
         NEW u \in Relays, FinalTotal(u)
  PROVE  TotalsOK'
  <1>1. BillingTypeOK /\ KnowsAll /\ SessionsOK
    BY DEF BillingInv
  <1>2. loc[u].pc = "finTotal" /\ loc[u].pc \in FinalPCs
    BY DEF FinalTotal, At, FinalPCs
  <1>3. PICK s \in 0..MaxTime : s = loc[u].a.start
    BY <1>1, <1>2, FinalFacts DEF Sessions
  <1>4. PICK seg \in Segments : seg = loc[u].seg
    BY <1>1, <1>2, FinalFacts
  <1>5. PICK k \in Months : k = PeriodYMAt(s)
    BY <1>3, PeriodFacts
  <1>6. AddBillingPeriodUsage(k, seg) /\ UNCHANGED <<overwritten, span, row>>
    BY <1>3, <1>4, <1>5 DEF FinalTotal, history
  <1>7. /\ TotalsGrow /\ total'[k] \in Nat
        /\ total[k] # None => total'[k] = seg.included + total[k]
        /\ total[k] = None => total'[k] = seg.included
    BY <1>1, <1>6, TotalsAdded
  <1>8. \A v \in Relays : v # u => loc'[v] = loc[v]
    <2>1. PICK l : l = [NewProc EXCEPT !.u = u]
      OBVIOUS
    <2>2. l \in Proc /\ Goto(u, l, "done")
      BY <2>1, NewProcTyped DEF FinalTotal
    <2> QED
      BY <1>1, <2>2, GotoFacts DEF BillingTypeOK, Procs
  <1>9. ASSUME NEW m, NEW v \in Totalled(m)'
        PROVE  /\ v \in Relays /\ Sound(v) /\ MonthOf(v) = m
               /\ ~SplitAtMonthBoundary(span[v].from, span[v].to)
               /\ v # u => v \in Totalled(m)
    <2>1. /\ v \in Relays /\ Sound(v)' /\ loc'[v].pc = "done" /\ PeriodYMAt(span'[v].from) = m
          /\ ~SplitAtMonthBoundary(span'[v].from, span'[v].to)
      BY <1>9 DEF Totalled, Over, At, MonthOf
    <2>2. Sound(v)
      BY <2>1 DEF PartStep, EndKept
    <2> QED
      BY <1>6, <1>8, <2>1, <2>2 DEF Totalled, Over, At, MonthOf
  <1>10. SUFFICES ASSUME NEW m \in Months \ overwritten', Totalled(m)' # {}
                  PROVE  total'[m] # None /\ total'[m] >= IncludedIn(row', Totalled(m)')
    BY DEF TotalsOK
  <1>11. CASE u \notin Totalled(m)'
    <2>1. Totalled(m)' \subseteq Totalled(m)
      BY <1>9, <1>11
    <2> QED
      BY <1>1, <1>7, <1>10, <2>1, TotalShrinks
  <1>12. CASE u \in Totalled(m)'
    <2>1. /\ Sound(u) /\ MonthOf(u) = m /\ span[u] # None
          /\ ~SplitAtMonthBoundary(span[u].from, span[u].to)
      BY <1>9, <1>12 DEF Sound
    <2>2. s = span[u].from
      <3> SUFFICES ASSUME s # span[u].from PROVE FALSE
        OBVIOUS
      <3>1. span[u].to > MonthEnd(span[u].from)
        BY <1>2, <1>3 DEF BeginsOK, LatePCs, WrittenPCs
      <3>2. PICK f \in 0..MaxTime, t \in 0..MaxTime : f = span[u].from /\ t = span[u].to
        BY <1>1, <2>1, MonthsTyped
      <3>3. PICK e \in Nat : e = MonthEnd(f) /\ PeriodYMAt(e) = PeriodYMAt(f) + 1 /\ PeriodYMAt(f) \in Nat
        BY <3>2, MonthEndFacts, BillingAssumption
      <3>4. e \in 0..MaxTime /\ e <= t
        BY <3>1, <3>2, <3>3, BillingAssumption
      <3>5. PeriodYMAt(e) <= PeriodYMAt(t) /\ PeriodYMAt(t) \in Nat
        BY <3>4, PeriodFacts
      <3> QED
        BY <2>1, <3>1, <3>2, <3>3, <3>5 DEF SplitAtMonthBoundary
    <2>3. row[u].included = seg.included
      BY <1>2, <1>3, <1>4, <2>1, <2>2 DEF PartsOK, OnePart, LatePCs, WrittenPCs
    <2>4. k = m
      BY <1>5, <2>1, <2>2 DEF MonthOf
    <2>5. PICK S, T : S = Totalled(m)' /\ T = Totalled(m) /\ S \subseteq T \cup {u} /\ u \notin T
      <3>1. u \notin Totalled(m)
        BY <1>2 DEF Totalled, Over, At
      <3>2. Totalled(m)' \subseteq Totalled(m) \cup {u}
        BY <1>9
      <3> QED
        BY <3>1, <3>2
    <2>6. IsFiniteSet(T) /\ (\A v \in T : row[v].included \in Nat)
      BY <1>1, <2>5, CountedFacts
    <2>7. seg.included \in Nat /\ \A v \in T \cup {u} : row[v].included \in Nat
      BY <2>3, <2>6 DEF Segments
    <2>8. IncludedIn(row, T \cup {u}) = row[u].included + IncludedIn(row, T)
      BY <2>5, <2>6, <2>7, IncludedAdd
    <2>9. IncludedIn(row, S) <= IncludedIn(row, T \cup {u})
      <3>1. IsFiniteSet(T \cup {u})
        BY <2>6, FS_AddElement
      <3> QED
        BY <2>5, <2>7, <3>1, IncludedSubset
    <2>10. IncludedIn(row, S) \in Nat /\ IncludedIn(row, T) \in Nat
      <3>1. IsFiniteSet(T \cup {u}) 
        BY <2>6, FS_AddElement
      <3>2. IsFiniteSet(S)
        BY <2>5, <3>1, FS_Subset
      <3> QED
        BY <2>5, <2>6, <2>7, <3>2, IncludedNat
    <2>11. total[m] = None => IncludedIn(row, T) = 0
      <3>1. m \notin overwritten
        BY <1>6, <1>10
      <3>2. total[m] = None => T = {}
        BY <1>10, <2>5, <3>1 DEF TotalsOK
      <3> QED
        BY <3>2, IncludedEmpty
    <2>12. total[m] # None => total[m] >= IncludedIn(row, T) /\ total[m] \in Nat
      <3>1. m \notin overwritten
        BY <1>6, <1>10
      <3>2. T = {} => IncludedIn(row, T) = 0
        BY IncludedEmpty
      <3>3. total[m] # None => total[m] \in Nat
        BY <1>1, <1>10 DEF BillingTypeOK
      <3> QED
        BY <1>10, <2>5, <3>1, <3>2, <3>3 DEF TotalsOK
    <2>13. total'[m] >= IncludedIn(row, S)
      BY <1>7, <2>3, <2>4, <2>7, <2>8, <2>9, <2>10, <2>11, <2>12
    <2>14. total'[m] # None
      BY <1>7, <2>4, ProcsAssumption
    <2> QED
      BY <1>6, <2>5, <2>13, <2>14
  <1> QED
    BY <1>11, <1>12

\* The pool when no session is added to those it has paid for.
LEMMA PoolKept ==
  ASSUME BillingTypeOK, SessionsOK, BillingTypeOK', IsFiniteSet(WithRow), PartStep, PoolFalls,
         PoolOK,
         \A u \in Relays : loc'[u].pc \in {"finTotal", "done"} => loc[u].pc \in {"finTotal", "done"}
  PROVE  PoolOK'
  <1> SUFFICES ASSUME ~clobbered', contract'.remaining > 0
               PROVE  IncludedIn(row', Charged(contract.period)') <= INCLUDED - contract'.remaining
    BY DEF PoolOK
  <1>1. PICK k : k = contract.period /\ k = contract'.period
    BY DEF PoolFalls
  <1>2. ~clobbered /\ contract'.remaining <= contract.remaining
    BY DEF PoolFalls
  <1>3. contract.remaining \in Nat /\ contract'.remaining \in Nat /\ INCLUDED \in Nat
    BY MonthsTyped, BillingAssumption DEF BillingTypeOK
  <1>4. Charged(contract.period)' = Charged(k)'
    BY <1>1 DEF Charged
  <1>5. PICK S, T : S = Charged(k)' /\ T = Charged(k)
    OBVIOUS
  <1>6. ASSUME NEW u \in S PROVE u \in T /\ row'[u].included = row[u].included
    <2>1. /\ u \in Relays /\ Sound(u)' /\ loc'[u].pc \in {"finTotal", "done"}
          /\ PeriodYMAt(span'[u].from) = k
      BY <1>5, <1>6 DEF Charged, MonthOf
    <2>2. Sound(u) /\ span'[u] = span[u] /\ row'[u].included = row[u].included
      BY <2>1 DEF PartStep, EndKept
    <2> QED
      BY <1>5, <2>1, <2>2 DEF Charged, MonthOf
  <1>7. IsFiniteSet(T) /\ \A u \in T : row[u].included \in Nat
    BY <1>5, CountedFacts
  <1>8. IsFiniteSet(S) /\ S \subseteq T
    BY <1>6, <1>7, FS_Subset
  <1>9. IncludedIn(row', S) = IncludedIn(row, S)
    BY <1>6, <1>8, IncludedSame
  <1>10. IncludedIn(row, S) <= IncludedIn(row, T)
    BY <1>7, <1>8, IncludedSubset
  <1>11. IncludedIn(row, S) \in Nat /\ IncludedIn(row, T) \in Nat
    BY <1>7, <1>8, IncludedNat
  <1>12. IncludedIn(row, T) <= INCLUDED - contract.remaining
    BY <1>1, <1>2, <1>3, <1>5 DEF PoolOK
  <1> QED
    BY <1>2, <1>3, <1>4, <1>5, <1>9, <1>10, <1>11, <1>12

\* The end of a relay takes what it used off the pool.
LEMMA PoolCharged ==
  ASSUME BillingInv, BillingTypeOK', IsFiniteSet(WithRow), BeginsOK, PartsOK, PartStep, PoolOK,
         NEW u \in Relays, FinalCharge(u)
  PROVE  PoolOK' /\ PoolFalls
  <1>1. BillingTypeOK /\ KnowsAll /\ SessionsOK
    BY DEF BillingInv
  <1>2. loc[u].pc = "finCharge" /\ loc[u].pc \in FinalPCs
    BY DEF FinalCharge, At, FinalPCs
  <1>3. PICK m \in Proc : m = loc[u] /\ m.seg \in Segments /\ m.c \in Copies /\ m.u = u
    <2>1. loc[u] \in Proc /\ Knows(u, loc[u]) /\ loc[u].seg \in Segments /\ loc[u].u = u
      BY <1>1, <1>2, FinalFacts
    <2>2. loc[u].c # None
      BY <1>2, <2>1 DEF Knows
    <2> QED
      BY <2>1, <2>2 DEF Proc
  <1>4. PICK c \in Copies : /\ c = Charge(m.c, m.seg) /\ c.period = m.c.period
                            /\ c.remaining \in Nat /\ c.remaining <= m.c.remaining
                            /\ c.remaining > 0 => c.remaining = m.c.remaining - m.seg.included
    BY <1>3, ChargeFacts, ChargeTakes
  <1>5. UpdateBillingContract(u, c) /\ UNCHANGED <<row, span>> /\ u \in Procs
    BY <1>3, <1>4 DEF FinalCharge, Procs
  <1>6. PoolFalls
    BY <1>1, <1>3, <1>4, <1>5, FallsWritten
  <1>7. contract' = c /\ (clobbered => clobbered') /\ (clobbered' \/ m.c = contract)
    BY <1>3, <1>5, ZenonT(30) DEF UpdateBillingContract
  <1>8. \A v \in Relays : v # u => loc'[v] = loc[v]
    <2>1. PICK l : l = [m EXCEPT !.c = None]
      OBVIOUS
    <2>2. l \in Proc /\ Goto(u, l, "finTotal")
      BY <1>3, <2>1 DEF Proc, FinalCharge
    <2> QED
      BY <1>1, <2>2, GotoFacts DEF BillingTypeOK, Procs
  <1>9. SUFFICES ASSUME ~clobbered', contract'.remaining > 0
                 PROVE  IncludedIn(row', Charged(contract.period)') <= INCLUDED - contract'.remaining
    BY <1>6 DEF PoolOK
  <1>10. PICK k : k = contract.period /\ k = contract'.period
    BY <1>4, <1>7, <1>9
  <1>11. Charged(contract.period)' = Charged(k)'
    BY <1>10 DEF Charged
  <1>12. PICK S, T : S = Charged(k)' /\ T = Charged(k)
    OBVIOUS
  <1>13. ~clobbered /\ m.c = contract
    BY <1>7, <1>9
  <1>14. /\ contract.remaining \in Nat /\ contract'.remaining \in Nat /\ INCLUDED \in Nat
         /\ m.seg.included \in Nat
         /\ contract'.remaining = contract.remaining - m.seg.included
    BY <1>1, <1>3, <1>4, <1>7, <1>9, <1>13, MonthsTyped, BillingAssumption DEF BillingTypeOK, Segments
  <1>15. IsFiniteSet(T) /\ \A v \in T : row[v].included \in Nat
    BY <1>1, <1>12, CountedFacts
  <1>16. IncludedIn(row, T) <= INCLUDED - contract.remaining /\ IncludedIn(row, T) \in Nat
    <2>1. contract.remaining > 0
      BY <1>9, <1>14
    <2>2. IncludedIn(row, T) <= INCLUDED - contract.remaining
      BY <1>10, <1>12, <1>13, <2>1 DEF PoolOK
    <2> QED
      BY <1>15, <2>2, IncludedNat
  <1>17. ASSUME NEW v \in S PROVE v \in Relays /\ Sound(v) /\ MonthOf(v) = k /\ (v # u => v \in T)
    <2>1. /\ v \in Relays /\ Sound(v)' /\ loc'[v].pc \in {"finTotal", "done"}
          /\ PeriodYMAt(span'[v].from) = k
      BY <1>12, <1>17 DEF Charged, MonthOf
    <2>2. Sound(v)
      BY <2>1 DEF PartStep, EndKept
    <2> QED
      BY <1>5, <1>8, <1>12, <2>1, <2>2 DEF Charged, MonthOf
  <1>18. CASE u \notin S
    <2>1. S \subseteq T
      BY <1>17, <1>18
    <2>2. IncludedIn(row, S) <= IncludedIn(row, T)
      BY <1>15, <2>1, IncludedSubset
    <2>3. IncludedIn(row, S) \in Nat
      <3>1. IsFiniteSet(S)
        BY <1>15, <2>1, FS_Subset
      <3> QED
        BY <1>15, <2>1, <3>1, IncludedNat
    <2> QED
      BY <1>5, <1>11, <1>12, <1>14, <1>16, <2>2, <2>3
  <1>19. CASE u \in S
    <2>1. Sound(u) /\ MonthOf(u) = k /\ span[u] # None
      BY <1>17, <1>19 DEF Sound
    <2>2. m.a.start = span[u].from
      <3> SUFFICES ASSUME m.a.start # span[u].from PROVE FALSE
        OBVIOUS
      <3>1. Begins(u, m.a.start)
        BY <1>2, <1>3, <1>5 DEF BeginsOK
      <3>2. contract.period > MonthOf(u)
        BY <1>13, <3>1 DEF Begins, Left
      <3>3. contract.period \in Int
        BY <1>1, MonthsTyped DEF BillingTypeOK
      <3> QED
        BY <1>10, <2>1, <3>2, <3>3
    <2>3. row[u].included = m.seg.included
      BY <1>2, <1>3, <2>1, <2>2 DEF PartsOK, OnePart, LatePCs, WrittenPCs
    <2>4. u \notin T
      BY <1>2, <1>12 DEF Charged
    <2>5. S \subseteq T \cup {u}
      BY <1>17
    <2>6. \A v \in T \cup {u} : row[v].included \in Nat
      BY <1>14, <1>15, <2>3
    <2>7. IncludedIn(row, T \cup {u}) = row[u].included + IncludedIn(row, T)
      BY <1>15, <2>4, <2>6, IncludedAdd
    <2>8. IsFiniteSet(T \cup {u})
      BY <1>15, FS_AddElement
    <2>9. IncludedIn(row, S) <= IncludedIn(row, T \cup {u})
      BY <2>5, <2>6, <2>8, IncludedSubset
    <2>10. IncludedIn(row, S) \in Nat
      <3>1. IsFiniteSet(S)
        BY <2>5, <2>8, FS_Subset
      <3> QED
        BY <2>5, <2>6, <3>1, IncludedNat
    <2> QED
      BY <1>5, <1>11, <1>12, <1>14, <1>16, <2>3, <2>7, <2>9, <2>10
  <1> QED
    BY <1>18, <1>19

\* The pool of a new month has paid for nothing.
LEMMA PoolEnsured ==
  ASSUME BillingInv, BillingTypeOK', IsFiniteSet(WithRow), DatesOK, PartStep, PoolOK,
         NEW p \in Procs, EnsureStep(p)
  PROVE  PoolOK'
  <1>1. BillingTypeOK /\ KnowsAll /\ SessionsOK
    BY DEF BillingInv
  <1>2. \A u \in Relays : loc'[u].pc \in {"finTotal", "done"} => loc[u].pc \in {"finTotal", "done"}
    BY <1>1, EnsureKeeps
  <1>3. CASE UNCHANGED <<contract, clobbered>>
    <2>1. PoolFalls
      BY <1>1, <1>3, FallsUnchanged
    <2> QED
      BY <1>1, <1>2, <2>1, PoolKept
  <1>4. CASE /\ loc[p].ens # "look" /\ contract'.period = loc[p].period
             /\ contract'.remaining = INCLUDED
             /\ clobbered' = (clobbered \/ loc[p].c # contract)
    <2> SUFFICES ASSUME ~clobbered'
                 PROVE  IncludedIn(row', Charged(contract.period)') <= INCLUDED - contract'.remaining
      BY DEF PoolOK
    <2>1. ~clobbered /\ loc[p].c = contract
      BY <1>4, Zenon
    <2>2. PICK k : k = contract'.period /\ k = loc[p].period
      BY <1>4
    <2>3. contract.period < k /\ contract.period \in Int /\ k \in Int
      <3>1. Dated(p)
        BY DEF DatesOK
      <3> QED
        BY <1>1, <1>4, <2>1, <2>2, <3>1, MonthsTyped DEF Dated, BillingTypeOK
    <2>4. Charged(contract.period)' = Charged(k)'
      BY <2>2 DEF Charged
    <2>5. ASSUME NEW u \in Charged(k)' PROVE FALSE
      <3>1. /\ u \in Relays /\ Sound(u)' /\ loc'[u].pc \in {"finTotal", "done"}
            /\ PeriodYMAt(span'[u].from) = k
        BY <2>5 DEF Charged, MonthOf
      <3>2. Sound(u) /\ span'[u] = span[u]
        BY <3>1 DEF PartStep, EndKept
      <3>3. u \in Procs /\ loc[u].u = u /\ Dated(u) /\ loc[u].pc \in ReachedPCs
        BY <1>1, <1>2, <3>1 DEF Procs, KnowsAll, Knows, DatesOK, ReachedPCs
      <3>4. Reached(u)
        BY <3>3 DEF Dated
      <3>5. contract.period >= k
        BY <2>1, <3>1, <3>2, <3>4 DEF Reached, MonthOf
      <3> QED
        BY <2>3, <3>5
    <2>6. IncludedIn(row', Charged(contract.period)') = 0
      <3>1. Charged(contract.period)' = {}
        BY <2>4, <2>5
      <3> QED
        BY <3>1, IncludedEmpty
    <2> QED
      BY <1>4, <2>6, BillingAssumption
  <1> QED
    BY <1>1, <1>3, <1>4, EnsureFacts

-----------------------------------------------------------------------------
(* The second invariant.                                                    *)

\* The steps that do not end a relay.
LEMMA Unending ==
  ASSUME BillingTypeOK,
         \/ \E u \in Relays : \/ PrepareRelay(u) \/ CheckConnection(u) \/ ActivateRelay(u)
                              \/ ActivateReread(u) \/ CreateBillingSession(u)
                              \/ FinalRow(u) \/ FinalWrite(u) \/ FinalRead(u) \/ FinalReread(u)
                              \/ SubmitWorkReport(u) \/ TickNext(u) \/ EndRelay(u)
         \/ \E p \in Relays \cup {Ticker} : SettleStep(p)
         \/ CreateBillingWorkReport \/ CloseReported \/ EditRead \/ EditWrite
  PROVE  ~Ending
  <1>1. ASSUME NEW q \in Procs, NEW l, NEW pc, Goto(q, l, pc), loc[q].pc \notin {"finCharge", "finTotal"}
        PROVE  ~Ending
    <2> SUFFICES ASSUME NEW v \in Relays, FinalCharge(v) \/ FinalTotal(v) PROVE FALSE
      BY DEF Ending
    <2>1. v \in Procs /\ loc[v].pc \in {"finCharge", "finTotal"}
      BY DEF Procs, FinalCharge, FinalTotal, At
    <2>2. v # q
      BY <1>1, <2>1
    <2>3. loc'[v] = loc[v]
      BY <1>1, <2>1, <2>2 DEF Goto, BillingTypeOK
    <2>4. loc[v].pc = "finCharge" => loc'[v].pc = "finTotal"
      <3> SUFFICES ASSUME loc[v].pc = "finCharge" PROVE loc'[v].pc = "finTotal"
        OBVIOUS
      <3>1. PICK k : k = [loc[v] EXCEPT !.c = None] /\ Goto(v, k, "finTotal")
        BY ZenonT(30) DEF FinalCharge, FinalTotal, At
      <3>2. k \in Proc
        BY <2>1, <3>1 DEF BillingTypeOK, Proc
      <3> QED
        BY <2>1, <3>1, <3>2, GotoFacts DEF BillingTypeOK
    <2>5. loc[v].pc = "finTotal" => loc'[v].pc = "done"
      <3> SUFFICES ASSUME loc[v].pc = "finTotal" PROVE loc'[v].pc = "done"
        OBVIOUS
      <3>1. Goto(v, [NewProc EXCEPT !.u = v], "done")
        BY ZenonT(30) DEF FinalCharge, FinalTotal, At
      <3> QED
        BY <2>1, <3>1, NewProcTyped, GotoFacts DEF BillingTypeOK
    <2> QED
      BY <2>1, <2>3, <2>4, <2>5
  <1>2. Ticker \in Procs /\ Operator \in Procs /\ Admin \in Procs /\ \A u \in Relays : u \in Procs
    BY DEF Procs
  <1>3. ASSUME NEW q \in Procs, NEW l, Split(q, l), loc[q].pc \notin {"finCharge", "finTotal"}
        PROVE  ~Ending
    BY <1>1, <1>3 DEF Split
  <1>4. ASSUME NEW u \in Relays,
               PrepareRelay(u) \/ CheckConnection(u) \/ ActivateRelay(u) \/ ActivateReread(u)
        PROVE  ~Ending
    <2>1. \E l, pc : Goto(u, l, pc)
      BY <1>4, ZenonT(30)
         DEF PrepareRelay, CheckConnection, ActivateRelay, ActivateReread, GetBillingContract
    <2>2. loc[u].pc \in {"idle", "check", "waiting", "reread"}
      BY <1>4 DEF PrepareRelay, CheckConnection, ActivateRelay, ActivateReread, Enters, At
    <2> QED
      BY <1>1, <1>2, <2>1, <2>2
  <1>5. ASSUME NEW u \in Relays,
               \/ CreateBillingSession(u) \/ FinalRow(u) \/ FinalWrite(u) \/ FinalRead(u)
               \/ FinalReread(u)
        PROVE  ~Ending
    <2>1. \E l, pc : Goto(u, l, pc)
      BY <1>5, ZenonT(30)
         DEF CreateBillingSession, FinalRow, FinalWrite, FinalRead, FinalReread, GetBillingContract
    <2>2. loc[u].pc \in {"create", "finRow", "finWrite", "finRead", "finReread"}
      BY <1>5, ZenonT(30) DEF CreateBillingSession, FinalRow, FinalWrite, FinalRead, FinalReread, At
    <2> QED
      BY <1>1, <1>2, <2>1, <2>2
  <1>6. ASSUME NEW u \in Relays, SubmitWorkReport(u) PROVE ~Ending
    <2>1. loc[Operator].pc = "idle" /\ \E l, pc : Goto(Operator, l, pc)
      BY <1>6, ZenonT(30) DEF SubmitWorkReport, Enters, At, GetBillingSession
    <2> QED
      BY <1>1, <1>2, <2>1
  <1>7. ASSUME NEW u \in Relays, TickNext(u) PROVE ~Ending
    <2>1. loc[Ticker].pc = "idle" /\ \E l : Split(Ticker, l)
      BY <1>7, ZenonT(30) DEF TickNext, Enters, At
    <2> QED
      BY <1>2, <1>3, <2>1
  <1>8. ASSUME NEW u \in Relays, EndRelay(u) PROVE ~Ending
    <2>1. loc[u].pc = "live" /\ \E l : Split(u, l)
      BY <1>8, ZenonT(30) DEF EndRelay, Enters, At
    <2> QED
      BY <1>2, <1>3, <2>1
  <1>9. ASSUME NEW p \in Relays \cup {Ticker}, SettleStep(p) PROVE ~Ending
    <2>1. loc[p].pc \in {"segCharge", "segReread", "segTotal", "segRow", "segWrite", "segSync"}
      BY <1>9, ZenonT(30) DEF SettleStep, SegmentCharge, SegmentReread, SegmentTotal, SegmentRow,
                   SegmentWrite, SegmentSync, At
    <2>2. (\E l, pc : Goto(p, l, pc)) \/ \E l : Split(p, l)
      BY <1>9, ZenonT(30) DEF SettleStep, SegmentCharge, SegmentReread, SegmentTotal, SegmentRow,
                   SegmentWrite, SegmentSync, GetBillingContract, GetBillingSession
    <2> QED
      BY <1>1, <1>2, <1>3, <2>1, <2>2
  <1>10. ASSUME CreateBillingWorkReport \/ CloseReported PROVE ~Ending
    <2>1. /\ loc[Operator].pc \in {"create", "close"}
          /\ \E l, pc : Goto(Operator, l, pc)
      BY <1>10, ZenonT(30) DEF CreateBillingWorkReport, CloseReported, At
    <2> QED
      BY <1>1, <1>2, <2>1
  <1>11. ASSUME EditRead \/ EditWrite PROVE ~Ending
    <2>1. /\ loc[Admin].pc \in {"idle", "write"}
          /\ \E l, pc : Goto(Admin, l, pc)
      BY <1>11, ZenonT(30) DEF EditRead, EditWrite, Enters, At, GetBillingContract
    <2> QED
      BY <1>1, <1>2, <2>1
  <1> QED
    BY <1>4, <1>5, <1>6, <1>7, <1>8, <1>9, <1>10, <1>11, ZenonT(30)

\* While nobody moves, time may.
LEMMA DatesStill ==
  ASSUME BillingTypeOK, KnowsAll, SessionsOK, BillingTypeOK', Advance, DatesOK, loc' = loc
  PROVE  DatesOK'
  <1>1. \A q \in Procs : Dated(q)'
    BY StillDated DEF DatesOK
  <1> QED
    BY <1>1 DEF DatesOK, Advance

\* The parts of the invariant put together, for a step that does not end a relay.
LEMMA SumKept ==
  ASSUME BillingInv, BillingTypeOK', SumInv, DatesOK', BeginsOK', PartStep, SessionsAdded,
         TotalsGrow, PoolFalls,
         \A u \in Relays : loc'[u].pc \in {"finTotal", "done"} => loc[u].pc = loc'[u].pc
  PROVE  SumInv'
  <1>1. BillingTypeOK /\ SessionsOK
    BY DEF BillingInv
  <1>2. IsFiniteSet(WithRow) /\ TotalsOK /\ PoolOK
    BY DEF SumInv
  <1>3. IsFiniteSet(WithRow)'
    BY <1>2, WithRowFinite
  <1>4. TotalsOK'
    BY <1>1, <1>2, TotalsKept
  <1>5. PoolOK'
    BY <1>1, <1>2, PoolKept
  <1>6. PartsOK'
    BY DEF PartStep, PartsOK
  <1> QED
    BY <1>3, <1>4, <1>5, <1>6 DEF SumInv

\* When one goroutine moves without ending a relay, no other relay ends.
LEMMA EndsStay ==
  ASSUME NEW p \in Procs, Moves(p), ~Ending
  PROVE  \A u \in Relays : loc'[u].pc \in {"finTotal", "done"} => loc[u].pc = loc'[u].pc
  <1> SUFFICES ASSUME NEW u \in Relays, loc'[u].pc \in {"finTotal", "done"} PROVE loc[u].pc = loc'[u].pc
    OBVIOUS
  <1>1. u # p
    BY DEF Moves
  <1>2. u \in Procs
    BY DEF Procs
  <1> QED
    BY <1>1, <1>2 DEF Moves

\* A quiet step keeps what concerns beginnings and parts.
LEMMA SumQuiet ==
  ASSUME BillingInv, BillingTypeOK', SumInv, QuietFrame, Advance,
         \E p \in Procs : Moves(p) /\ KeepsSession(loc[p], loc'[p])
  PROVE  DatesOK' /\ BeginsOK' /\ PartStep /\ SessionsAdded
  <1>1. BillingTypeOK /\ KnowsAll /\ SessionsOK
    BY DEF BillingInv
  <1>2. DatesOK /\ BeginsOK /\ PartsOK
    BY DEF SumInv
  <1>3. WorkKept
    BY AllKeep DEF Moves
  <1>4. DatesOK'
    BY <1>1, <1>2, DatesKept
  <1>5. BeginsOK'
    <2>1. \A u \in Relays : loc'[u].pc = "finWrite" => loc[u].pc = "finWrite"
      BY DEF QuietFrame, SameStage, Procs
    <2>2. UNCHANGED <<active, snap, span>>
      BY DEF QuietFrame
    <2> QED
      BY <1>1, <1>2, <1>3, <2>1, <2>2, BeginsKept
  <1>6. PartStep
    BY <1>1, <1>2, <1>3, QuietParts
  <1>7. SessionsAdded
    BY DEF QuietFrame, SessionsAdded
  <1> QED
    BY <1>4, <1>5, <1>6, <1>7

\* EnsureContractPeriod.
LEMMA SumEnsure ==
  ASSUME BillingInv, BillingTypeOK', SumInv, NEW p \in Procs, EnsureStep(p)
  PROVE  SumInv'
  <1>1. BillingTypeOK /\ KnowsAll /\ SessionsOK
    BY DEF BillingInv
  <1>2. IsFiniteSet(WithRow) /\ DatesOK /\ BeginsOK /\ PartsOK /\ TotalsOK /\ PoolOK
    BY DEF SumInv
  <1>3. Advance
    BY <1>1, <1>2, EnsureAdvances
  <1>4. DatesOK'
    BY <1>1, <1>2, <1>3, DatesEnsured
  <1>5. /\ WorkKept
        /\ \A u \in Relays : loc'[u].pc \in {"finTotal", "done"} => loc[u].pc = loc'[u].pc
    BY <1>1, EnsureKeeps
  <1>6. QuietFrame
    BY <1>1, EnsureQuiet
  <1>7. BeginsOK'
    <2>1. \A u \in Relays : loc'[u].pc = "finWrite" => loc[u].pc = "finWrite"
      BY <1>6 DEF QuietFrame, SameStage, Procs
    <2>2. UNCHANGED <<active, snap, span>>
      BY <1>6 DEF QuietFrame
    <2> QED
      BY <1>1, <1>2, <1>3, <1>5, <2>1, <2>2, BeginsKept
  <1>8. PartStep
    BY <1>1, <1>2, <1>5, <1>6, QuietParts
  <1>9. PartsOK'
    BY <1>8 DEF PartStep, PartsOK
  <1>10. TotalsOK'
    <2>1. TotalsGrow
      BY <1>1, TotalsFilled
    <2> QED
      BY <1>1, <1>2, <1>5, <1>8, <2>1, TotalsKept
  <1>11. PoolOK'
    BY <1>2, <1>8, PoolEnsured
  <1>12. IsFiniteSet(WithRow)'
    <2>1. SessionsAdded
      BY <1>6 DEF QuietFrame, SessionsAdded
    <2> QED
      BY <1>2, <2>1, WithRowFinite
  <1> QED
    BY <1>4, <1>7, <1>9, <1>10, <1>11, <1>12 DEF SumInv

\* A quiet step that does not end a relay.
LEMMA SumQuietStep ==
  ASSUME BillingInv, BillingTypeOK', SumInv, QuietFrame, PoolFalls, TotalsGrow, ~Ending,
         \E p \in Procs : Moves(p) /\ KeepsSession(loc[p], loc'[p])
  PROVE  SumInv'
  <1>1. Advance
    BY FallsAdvance DEF BillingInv, SumInv, QuietFrame
  <1>2. DatesOK' /\ BeginsOK' /\ PartStep /\ SessionsAdded
    BY <1>1, SumQuiet
  <1>3. \A u \in Relays : loc'[u].pc \in {"finTotal", "done"} => loc[u].pc = loc'[u].pc
    BY EndsStay
  <1> QED
    BY <1>2, <1>3, SumKept

\* The quiet steps that write neither the contract nor a total.
LEMMA SumReads ==
  ASSUME BillingInv, BillingTypeOK', SumInv,
         \/ \E u \in Relays : \/ PrepareRelay(u) \/ CheckConnection(u) \/ ActivateRelay(u)
                              \/ ActivateReread(u) \/ FinalRead(u) \/ FinalReread(u)
                              \/ SubmitWorkReport(u)
         \/ \E p \in Relays \cup {Ticker} : SegmentReread(p) \/ SegmentRow(p)
         \/ CreateBillingWorkReport \/ EditRead
  PROVE  SumInv'
  <1>1. BillingTypeOK /\ KnowsAll
    BY DEF BillingInv
  <1>2. UNCHANGED <<contract, clobbered, total, overwritten>>
    BY ZenonT(30) DEF PrepareRelay, CheckConnection, ActivateRelay, ActivateReread, FinalRead, FinalReread,
           SubmitWorkReport, SegmentReread, SegmentRow, CreateBillingWorkReport, EditRead,
           db, history
  <1>3. PoolFalls /\ TotalsGrow
    BY <1>1, <1>2, FallsUnchanged, TotalsUnchanged
  <1>4. QuietFrame
    BY <1>1, CallsQuiet, SettlingQuiet, EndsQuiet, ZenonT(30)
  <1>5. ~Ending
    BY <1>1, Unending, ZenonT(30) DEF SettleStep
  <1>6. \E p \in Procs : Moves(p) /\ KeepsSession(loc[p], loc'[p])
    BY <1>1, CallsMove, RowsMove, ResetsMove, ZenonT(30)
  <1> QED
    BY <1>3, <1>4, <1>5, <1>6, SumQuietStep

\* A month that ended is charged and totalled, and the contract is edited.
LEMMA SumWrites ==
  ASSUME BillingInv, BillingTypeOK', SumInv,
         (\E p \in Relays \cup {Ticker} : SegmentCharge(p) \/ SegmentTotal(p)) \/ EditWrite
  PROVE  SumInv'
  <1>1. BillingTypeOK /\ KnowsAll
    BY DEF BillingInv
  <1>2. QuietFrame
    BY <1>1, SettlingQuiet, EndsQuiet, ZenonT(30)
  <1>3. ~Ending
    BY <1>1, Unending, ZenonT(30) DEF SettleStep
  <1>4. \E p \in Procs : Moves(p) /\ KeepsSession(loc[p], loc'[p])
    <2>1. ASSUME NEW p \in Relays \cup {Ticker}, SegmentCharge(p)
          PROVE  p \in Procs /\ Moves(p) /\ KeepsSession(loc[p], loc'[p])
      BY <1>1, <2>1, ChargeMoves DEF Procs
    <2> QED
      BY <1>1, <2>1, CallsMove, ResetsMove, ZenonT(30)
  <1>5. ASSUME NEW p \in Relays \cup {Ticker}, SegmentCharge(p) PROVE PoolFalls /\ TotalsGrow
    <2>1. loc[p].pc = "segCharge" /\ loc[p].pc \in SettlePCs
      <3>1. loc[p].pc = "segCharge"
        BY <1>5, ZenonT(30) DEF SegmentCharge, At
      <3> QED
        BY <3>1 DEF SettlePCs
    <2>2. /\ p \in Procs /\ loc[p].c \in Copies /\ loc[p].a \in Sessions
          /\ loc[p].until \in 0..MaxTime /\ SplitAtMonthBoundary(loc[p].a.start, loc[p].until)
      BY <1>1, <2>1, SettlerFacts
    <2>3. PICK seg \in Segments : seg = Segment(loc[p].a, MonthEnd(loc[p].a.start))
      BY <2>2, SegmentOfMonth
    <2>4. PICK c : /\ c = Charge(loc[p].c, seg) /\ c.period = loc[p].c.period
                   /\ c.remaining <= loc[p].c.remaining
      BY <2>2, ChargeTakes
    <2>5. UpdateBillingContract(p, c) /\ UNCHANGED <<total, overwritten>>
      BY <1>5, <2>3, <2>4, ZenonT(30) DEF SegmentCharge
    <2> QED
      BY <1>1, <2>2, <2>4, <2>5, FallsWritten, TotalsUnchanged
  <1>6. ASSUME NEW p \in Relays \cup {Ticker}, SegmentTotal(p) PROVE PoolFalls /\ TotalsGrow
    <2>1. loc[p].pc = "segTotal" /\ loc[p].pc \in SettlePCs
      <3>1. loc[p].pc = "segTotal"
        BY <1>6, ZenonT(30) DEF SegmentTotal, At
      <3> QED
        BY <3>1 DEF SettlePCs
    <2>2. PICK seg \in Segments : seg = loc[p].seg
      BY <1>1, <2>1, SettlerFacts
    <2>3. PICK m \in Months : m = PeriodYMAt(loc[p].a.start)
      BY <1>1, <2>1, SettlerFacts, PeriodFacts DEF Sessions
    <2>4. AddBillingPeriodUsage(m, seg) /\ UNCHANGED <<contract, clobbered, overwritten>>
      BY <1>6, <2>2, <2>3, ZenonT(30) DEF SegmentTotal, history
    <2> QED
      BY <1>1, <2>4, FallsUnchanged, TotalsAdded
  <1>7. ASSUME EditWrite PROVE PoolFalls /\ TotalsGrow
    <2>1. Admin \in Procs /\ loc[Admin].pc = "write"
      BY <1>7 DEF Procs, EditWrite, At
    <2>2. loc[Admin].c \in Copies
      BY <1>1, <2>1 DEF BillingTypeOK, Proc, KnowsAll, Knows
    <2>3. PICK s : UpdateBillingContract(Admin, [loc[Admin].c EXCEPT !.status = s])
      BY <1>7, ZenonT(30) DEF EditWrite
    <2>4. PICK c : c = [loc[Admin].c EXCEPT !.status = s]
      OBVIOUS
    <2>5. c.period = loc[Admin].c.period /\ c.remaining <= loc[Admin].c.remaining
      <3>1. c.period = loc[Admin].c.period /\ c.remaining = loc[Admin].c.remaining
        BY <2>2, <2>4 DEF Copies
      <3>2. loc[Admin].c.remaining \in Nat
        BY <1>1, <2>2, MonthsTyped
      <3> QED
        BY <3>1, <3>2
    <2>6. UNCHANGED <<total, overwritten>>
      BY <1>7 DEF EditWrite
    <2> QED
      BY <1>1, <2>1, <2>2, <2>3, <2>4, <2>5, <2>6, FallsWritten, TotalsUnchanged
  <1>8. PoolFalls /\ TotalsGrow
    BY <1>5, <1>6, <1>7
  <1> QED
    BY <1>2, <1>3, <1>4, <1>8, SumQuietStep

\* A relay ends: its usage is taken off the pool, then put into the total.
LEMMA SumEnds ==
  ASSUME BillingInv, BillingTypeOK', SumInv, NEW u \in Relays, FinalCharge(u) \/ FinalTotal(u)
  PROVE  SumInv'
  <1>1. BillingTypeOK /\ KnowsAll /\ SessionsOK
    BY DEF BillingInv
  <1>2. IsFiniteSet(WithRow) /\ DatesOK /\ BeginsOK /\ PartsOK /\ TotalsOK /\ PoolOK
    BY DEF SumInv
  <1>3. QuietFrame
    BY <1>1, CallsQuiet, EndsQuiet, ZenonT(30)
  <1>4. \E p \in Procs : Moves(p) /\ KeepsSession(loc[p], loc'[p])
    BY <1>1, CallsMove, ResetsMove, ZenonT(30)
  <1>5. PartStep
    <2>1. WorkKept
      BY <1>4, AllKeep DEF Moves
    <2> QED
      BY <1>1, <1>2, <1>3, <2>1, QuietParts
  <1>6. PoolFalls
    <2>1. CASE FinalCharge(u)
      BY <1>2, <1>5, <2>1, PoolCharged
    <2>2. CASE FinalTotal(u)
      <3>1. UNCHANGED <<contract, clobbered>>
        BY <2>2 DEF FinalTotal, history
      <3> QED
        BY <1>1, <3>1, FallsUnchanged
    <2> QED
      BY <2>1, <2>2
  <1>7. Advance
    BY <1>1, <1>2, <1>3, <1>6, FallsAdvance DEF QuietFrame
  <1>8. DatesOK' /\ BeginsOK' /\ SessionsAdded
    BY <1>3, <1>4, <1>7, SumQuiet
  <1>9. IsFiniteSet(WithRow)' /\ PartsOK'
    BY <1>2, <1>5, <1>8, WithRowFinite DEF PartStep, PartsOK
  <1>10. \A v \in Relays : v # u => loc'[v] = loc[v]
    <2>1. \E l, pc : Goto(u, l, pc)
      BY ZenonT(30) DEF FinalCharge, FinalTotal
    <2> QED
      BY <1>1, <2>1 DEF Goto, BillingTypeOK, Procs
  <1>11. CASE FinalCharge(u)
    <2>1. loc[u].pc = "finCharge" /\ loc'[u].pc = "finTotal"
      <3>1. PICK k : k = [loc[u] EXCEPT !.c = None] /\ Goto(u, k, "finTotal")
        BY <1>11 DEF FinalCharge
      <3>2. k \in Proc /\ u \in Procs
        BY <1>1, <3>1, SMTT(30) DEF BillingTypeOK, Proc, Procs
      <3>3. loc'[u].pc = "finTotal"
        BY <1>1, <3>1, <3>2, GotoFacts DEF BillingTypeOK
      <3> QED
        BY <1>11, <3>3 DEF FinalCharge, At
    <2>2. TotalsOK'
      <3>1. TotalsGrow
        BY <1>1, <1>11, TotalsUnchanged DEF FinalCharge
      <3>2. \A v \in Relays : loc'[v].pc = "done" => loc[v].pc = "done"
        BY <1>10, <2>1
      <3> QED
        BY <1>1, <1>2, <1>5, <3>1, <3>2, TotalsKept
    <2>3. PoolOK'
      BY <1>2, <1>5, <1>11, PoolCharged
    <2> QED
      BY <1>8, <1>9, <2>2, <2>3 DEF SumInv
  <1>12. CASE FinalTotal(u)
    <2>1. TotalsOK'
      BY <1>2, <1>5, <1>12, TotalsEnded
    <2>2. PoolOK'
      <3>1. loc[u].pc = "finTotal"
        BY <1>12 DEF FinalTotal, At
      <3>2. \A v \in Relays : loc'[v].pc \in {"finTotal", "done"} => loc[v].pc \in {"finTotal", "done"}
        BY <1>10, <3>1
      <3> QED
        BY <1>1, <1>2, <1>5, <1>6, <3>2, PoolKept
    <2> QED
      BY <1>8, <1>9, <2>1, <2>2 DEF SumInv
  <1> QED
    BY <1>11, <1>12

\* The steps that write a row or pass a session on.
LEMMA SumSessions ==
  ASSUME BillingInv, BillingTypeOK', SumInv,
         \/ \E u \in Relays : \/ CreateBillingSession(u) \/ TickNext(u) \/ EndRelay(u)
                              \/ FinalRow(u) \/ FinalWrite(u)
         \/ \E p \in Relays \cup {Ticker} : SegmentWrite(p) \/ SegmentSync(p)
         \/ CloseReported
  PROVE  SumInv'
  <1>1. BillingTypeOK /\ KnowsAll /\ SessionsOK
    BY DEF BillingInv
  <1>2. DatesOK /\ BeginsOK /\ PartsOK
    BY DEF SumInv
  <1>3. UNCHANGED <<now, contract, clobbered, total, overwritten>>
    BY ZenonT(30) DEF CreateBillingSession, TickNext, EndRelay, FinalRow, FinalWrite, SegmentWrite, SegmentSync,
           CloseReported, db, history
  <1>4. PoolFalls /\ TotalsGrow
    BY <1>1, <1>3, FallsUnchanged, TotalsUnchanged
  <1>5. \A v \in Relays : span[v] # None => span'[v] # None /\ span'[v].from = span[v].from
    <2>1. ASSUME NEW u \in Relays, CreateBillingSession(u)
          PROVE  \A v \in Relays : span[v] # None => span'[v] # None /\ span'[v].from = span[v].from
      <3>1. span' = [span EXCEPT ![u] = [from |-> now, to |-> now]] /\ loc[u].pc = "create"
        BY <2>1 DEF CreateBillingSession, At
      <3>2. span[u] = None
        BY <1>1, <3>1 DEF SessionsOK, SessionOK, Begun, SettlePCs, FinalPCs
      <3> QED
        BY <1>1, <3>1, <3>2 DEF BillingTypeOK
    <2>2. ASSUME NEW u \in Relays, FinalRow(u)
          PROVE  \A v \in Relays : span[v] # None => span'[v] # None /\ span'[v].from = span[v].from
      <3>1. /\ span'[u].from = span[u].from /\ span[u] # None
            /\ \A v \in Relays : v # u => span'[v] = span[v]
        BY <1>1, <2>2, FinalRowMoves
      <3>2. span'[u] # None
        <4>1. span'[u] = [span[u] EXCEPT !.to = now] /\ span[u] \in [from : 0..MaxTime, to : 0..MaxTime]
          <5>1. span' = [span EXCEPT ![u].to = now]
            BY <2>2, ZenonT(30) DEF FinalRow
          <5> QED
            BY <1>1, <3>1, <5>1 DEF BillingTypeOK
        <4>2. span'[u] \in [from : 0..MaxTime, to : 0..MaxTime]
          BY <1>1, <4>1 DEF BillingTypeOK
        <4> QED
          BY <4>2, ProcsAssumption
      <3> QED
        BY <3>1, <3>2
    <2>3. ASSUME \/ \E u \in Relays : TickNext(u) \/ EndRelay(u) \/ FinalWrite(u)
                 \/ \E p \in Relays \cup {Ticker} : SegmentWrite(p) \/ SegmentSync(p)
                 \/ CloseReported
          PROVE  UNCHANGED span
      BY <2>3, ZenonT(30)
         DEF TickNext, EndRelay, FinalWrite, SegmentWrite, SegmentSync, CloseReported, history
    <2> QED
      BY <2>1, <2>2, <2>3, ZenonT(30)
  <1>6. Advance
    <2>1. now <= now'
      BY <1>1, <1>3, BillingAssumption DEF BillingTypeOK
    <2> QED
      BY <1>1, <1>2, <1>4, <1>5, <2>1, FallsAdvance
  <1>7. \E p \in Procs : Moves(p)
    BY <1>1, CallsMove, RowsMove, ResetsMove, SplitsMove, ZenonT(30)
  <1>8. DatesOK'
    BY <1>1, <1>2, <1>6, <1>7, DatesKept
  <1>9. \A u \in Relays : loc'[u].pc \in {"finTotal", "done"} => loc[u].pc = loc'[u].pc
    <2>1. ~Ending
      BY <1>1, Unending, ZenonT(30) DEF SettleStep
    <2> QED
      BY <1>7, <2>1, EndsStay
  <1>10. BeginsOK' /\ PartStep
    <2>1. ASSUME \/ \E u \in Relays : FinalWrite(u)
                 \/ \E p \in Relays \cup {Ticker} : SegmentWrite(p)
                 \/ CloseReported
          PROVE  BeginsOK' /\ PartStep
      <3>1. PartStep
        BY <1>2, <2>1, FinalWriteParts, SegmentWriteParts, CloseParts, ZenonT(30)
      <3>2. WorkKept
        <4>1. \E p \in Procs : Moves(p) /\ KeepsSession(loc[p], loc'[p])
          BY <1>1, <2>1, RowsMove, ResetsMove, ZenonT(30)
        <4> QED
          BY <4>1, AllKeep DEF Moves
      <3>3. UNCHANGED <<active, snap, span>>
        BY <2>1, ZenonT(30) DEF FinalWrite, SegmentWrite, CloseReported, memory
      <3>4. \A u \in Relays : loc'[u].pc = "finWrite" => loc[u].pc = "finWrite"
        <4>1. ASSUME NEW p \in Procs, NEW k \in Proc, NEW pc \in {"finRead", "segSync", "idle"}, Goto(p, k, pc)
              PROVE  \A u \in Relays : loc'[u].pc = "finWrite" => loc[u].pc = "finWrite"
          <5>1. loc'[p].pc = pc /\ \A q \in Procs : q # p => loc'[q] = loc[q]
            BY <1>1, <4>1, GotoFacts DEF BillingTypeOK
          <5> QED
            BY <5>1 DEF Procs
        <4>2. \A p \in Procs : loc[p] \in Proc /\ [loc[p] EXCEPT !.r = None] \in Proc
          <5>1. \A k \in Proc : [k EXCEPT !.r = None] \in Proc
            BY DEF Proc
          <5> QED
            BY <1>1, <5>1 DEF BillingTypeOK
        <4>3. \/ \E p \in Procs : Goto(p, [loc[p] EXCEPT !.r = None], "finRead")
              \/ \E p \in Procs : Goto(p, [loc[p] EXCEPT !.r = None], "segSync")
              \/ Operator \in Procs /\ Goto(Operator, NewProc, "idle")
          BY <2>1, ZenonT(30) DEF FinalWrite, SegmentWrite, CloseReported, Procs
        <4> QED
          BY <4>1, <4>2, <4>3, NewProcTyped, ZenonT(30)
      <3>5. BeginsOK'
        BY <1>1, <1>2, <1>6, <3>2, <3>3, <3>4, BeginsKept
      <3> QED
        BY <3>1, <3>5
    <2> QED
      BY <1>2, <1>6, <2>1, CreateParts, TickParts, EndRelayParts, FinalRowParts, SegmentSyncParts,
         ZenonT(30)
  <1>11. SessionsAdded
    <2>1. ASSUME NEW p \in Procs, NEW r, UpdateBillingSession(p, r) PROVE SessionsAdded
      <3>1. row' = [row EXCEPT ![loc[p].u] = r]
        BY <2>1 DEF UpdateBillingSession
      <3>2. \A u \in Relays : u # loc[p].u => row'[u] = row[u]
        BY <1>1, <3>1 DEF BillingTypeOK
      <3>3. loc[p].u \notin Relays => \A u \in Relays : row[u] = None => row'[u] = None
        BY <3>2
      <3> QED
        BY <3>2, <3>3 DEF SessionsAdded
    <2>2. ASSUME NEW u \in Relays, CreateBillingSession(u) PROVE SessionsAdded
      <3>1. \A v \in Relays : v # u => row'[v] = row[v]
        BY <1>1, <2>2 DEF CreateBillingSession, BillingTypeOK
      <3> QED
        BY <3>1 DEF SessionsAdded
    <2>3. ASSUME \/ \E u \in Relays : TickNext(u) \/ EndRelay(u) \/ FinalRow(u)
                 \/ \E p \in Relays \cup {Ticker} : SegmentSync(p)
          PROVE  SessionsAdded
      <3>1. UNCHANGED row
        BY <2>3, ZenonT(30) DEF TickNext, EndRelay, FinalRow, SegmentSync, db
      <3> QED
        BY <3>1 DEF SessionsAdded
    <2>4. ASSUME \/ \E u \in Relays : FinalWrite(u)
                 \/ \E p \in Relays \cup {Ticker} : SegmentWrite(p)
                 \/ CloseReported
          PROVE  \E p \in Procs : \E r : UpdateBillingSession(p, r)
      BY <2>4, ZenonT(30) DEF FinalWrite, SegmentWrite, CloseReported, Procs
    <2> QED
      BY <2>1, <2>2, <2>3, <2>4, ZenonT(30)
  <1> QED
    BY <1>4, <1>8, <1>9, <1>10, <1>11, SumKept

\* The steps in which no goroutine moves.
LEMMA SumTime ==
  ASSUME BillingInv, BillingTypeOK', SumInv,
         tickActive \/ Minute \/ (\E u \in Relays : sweepStalePending(u)) \/ UNCHANGED vars
  PROVE  SumInv'
  <1>1. BillingTypeOK /\ KnowsAll /\ SessionsOK
    BY DEF BillingInv
  <1>2. DatesOK /\ BeginsOK /\ PartsOK
    BY DEF SumInv
  <1>3. UNCHANGED <<contract, clobbered, total, overwritten, span, row, loc>> /\ now <= now'
    <2>1. now \in Int
      BY <1>1, BillingAssumption DEF BillingTypeOK
    <2> QED
      BY <2>1 DEF tickActive, Minute, sweepStalePending, vars, db, memory, history
  <1>4. PoolFalls /\ TotalsGrow /\ SessionsAdded
    BY <1>1, <1>3, FallsUnchanged, TotalsUnchanged DEF SessionsAdded
  <1>5. Advance
    BY <1>1, <1>2, <1>3, <1>4, FallsAdvance
  <1>6. DatesOK'
    BY <1>1, <1>2, <1>3, <1>5, DatesStill
  <1>7. BeginsOK' /\ PartStep
    <2>1. CASE tickActive
      BY <1>2, <1>5, <2>1, TickParts
    <2>2. CASE Minute \/ (\E u \in Relays : sweepStalePending(u)) \/ UNCHANGED vars
      <3>1. QuietFrame
        BY <1>1, <2>2, TimeQuiet
      <3>2. WorkKept
        BY <1>3, AllKeep
      <3>3. PartStep
        BY <1>1, <1>2, <3>1, <3>2, QuietParts
      <3>4. UNCHANGED <<active, snap, span>>
        BY <3>1 DEF QuietFrame
      <3>5. BeginsOK'
        BY <1>1, <1>2, <1>3, <1>5, <3>2, <3>4, BeginsKept
      <3> QED
        BY <3>3, <3>5
    <2> QED
      BY <2>1, <2>2
  <1> QED
    BY <1>3, <1>4, <1>6, <1>7, SumKept

\* When the server starts no session has begun.
LEMMA SumInitial == Init => SumInv
  <1> SUFFICES ASSUME Init PROVE SumInv
    OBVIOUS
  <1>1. BillingTypeOK
    BY BillingInitial DEF BillingInv
  <1>2. \A u \in Relays : row[u] = None /\ active[u] = None /\ snap[u] = None /\ span[u] = None
    BY DEF Init
  <1>3. ASSUME NEW q \in Procs
        PROVE  loc[q].pc = "idle" /\ loc[q].ens = "look" /\ loc[q].c = None
    <2>1. PICK l : l = [NewProc EXCEPT !.u = q]
      OBVIOUS
    <2>2. l.pc = "idle" /\ l.ens = "look" /\ l.c = None
      BY <2>1 DEF NewProc
    <2>3. NewProc.pc = "idle" /\ NewProc.ens = "look" /\ NewProc.c = None
      BY DEF NewProc
    <2>4. loc[q] = l \/ loc[q] = NewProc
      BY <2>1 DEF Init
    <2> QED
      BY <2>2, <2>3, <2>4
  <1>4. IsFiniteSet(WithRow)
    <2>1. WithRow = {}
      BY <1>2 DEF WithRow
    <2> QED
      BY <2>1, FS_EmptySet
  <1>5. DatesOK
    <2>1. contract.period <= PeriodYMAt(now)
      <3>1. contract.period = -1 /\ PeriodYMAt(now) \in Nat
        BY <1>1, MonthsTyped DEF Init
      <3> QED
        BY <3>1
    <2>2. \A q \in Procs : Dated(q)
      BY <1>3 DEF Dated, ReachedPCs, LeftPCs
    <2> QED
      BY <2>1, <2>2 DEF DatesOK
  <1>6. BeginsOK
    <2>1. \A q \in Procs : loc[q].pc \notin SettlePCs \cup FinalPCs \cup LatePCs \cup {"finWrite"}
      BY <1>3 DEF SettlePCs, FinalPCs, LatePCs, WrittenPCs
    <2> QED
      BY <1>2, <2>1 DEF BeginsOK, Procs
  <1>7. \A u \in Relays : ~Sound(u)
    BY <1>2 DEF Sound
  <1>8. PartsOK /\ TotalsOK
    BY <1>7 DEF PartsOK, OnePart, TotalsOK, Totalled
  <1>9. PoolOK
    <2>1. Charged(contract.period) = {} /\ contract.remaining = INCLUDED
      BY <1>7 DEF Charged, Init
    <2>2. IncludedIn(row, Charged(contract.period)) = 0
      BY <2>1, IncludedEmpty
    <2> QED
      BY <2>1, <2>2, BillingAssumption DEF PoolOK
  <1> QED
    BY <1>4, <1>5, <1>6, <1>8, <1>9 DEF SumInv

\* Every step keeps it.
LEMMA SumStep == BillingInv /\ SumInv /\ [Next]_vars => SumInv'
  <1> SUFFICES ASSUME BillingInv, SumInv, [Next]_vars PROVE SumInv'
    OBVIOUS
  <1>1. BillingTypeOK'
    BY BillingStep DEF BillingInv
  <1>2. ASSUME NEW p \in Relays \cup {Ticker}, EnsureStep(p) PROVE SumInv'
    BY <1>1, <1>2, SumEnsure DEF Procs
  <1>3. ASSUME NEW p \in Relays \cup {Ticker}, SettleStep(p) PROVE SumInv'
    BY <1>1, <1>3, SumReads, SumWrites, SumSessions, ZenonT(30) DEF SettleStep
  <1>4. ASSUME NEW u \in Relays, FinalStep(u) PROVE SumInv'
    BY <1>1, <1>4, SumReads, SumEnds, SumSessions, ZenonT(30) DEF FinalStep
  <1>5. ASSUME NEW u \in Relays,
               \/ PrepareRelay(u) \/ CheckConnection(u) \/ ActivateRelay(u) \/ ActivateReread(u)
               \/ SubmitWorkReport(u)
        PROVE  SumInv'
    BY <1>1, <1>5, SumReads, ZenonT(30)
  <1>6. ASSUME NEW u \in Relays, CreateBillingSession(u) \/ EndRelay(u) \/ TickNext(u) PROVE SumInv'
    BY <1>1, <1>6, SumSessions, ZenonT(30)
  <1>7. ASSUME NEW u \in Relays, sweepStalePending(u) PROVE SumInv'
    BY <1>1, <1>7, SumTime, ZenonT(30)
  <1>8. CASE CreateBillingWorkReport \/ EditRead
    BY <1>1, <1>8, SumReads, ZenonT(30)
  <1>9. CASE CloseReported
    BY <1>1, <1>9, SumSessions, ZenonT(30)
  <1>10. CASE EditWrite
    BY <1>1, <1>10, SumWrites, ZenonT(30)
  <1>11. CASE tickActive \/ Minute \/ UNCHANGED vars
    BY <1>1, <1>11, SumTime, ZenonT(30)
  <1> QED
    BY <1>2, <1>3, <1>4, <1>5, <1>6, <1>7, <1>8, <1>9, <1>10, <1>11 DEF Next, RelayStep, TickerStep

\* It holds in every reachable state.
LEMMA SumInvariant == Spec => [](BillingInv /\ SumInv)
  <1>1. Init => BillingInv /\ SumInv
    BY BillingInitial, SumInitial
  <1>2. (BillingInv /\ SumInv) /\ [Next]_vars => (BillingInv /\ SumInv)'
    BY BillingStep, SumStep
  <1> QED
    BY <1>1, <1>2, PTL DEF Spec

\* When everything is quiet the ticker holds no session: the sessions that are over
\* and undisturbed are sound.
LEMMA QuietlySound ==
  ASSUME BillingInv, Quiet, NEW u \in Relays, Over(u), Undisturbed(u)
  PROVE  Sound(u)
  <1>1. span[u] # None
    BY DEF BillingInv, SessionsOK, SessionOK, Begun, Over, At
  <1>2. Ticker \in Procs /\ loc[Ticker].pc \in {"idle"} \cup SettlePCs
    BY ProcsAssumption DEF Procs, BillingInv, KnowsAll, Knows
  <1>3. loc[Ticker].pc \in AtRest
    BY <1>2 DEF Quiet, Busy
  <1>4. loc[Ticker].pc = "idle"
    BY <1>2, <1>3 DEF AtRest, SettlePCs
  <1> QED
    BY <1>1, <1>4 DEF Sound, Doomed, TickerHas

\* IncludedBy is the sum over the rows there are.
LEMMA IncludedByRow == \A S : IncludedBy(S) = IncludedIn(row, S)
  BY DEF IncludedBy, IncludedIn, MapThenSumSet, MapThenFoldSet

\* Whatever the number of relays, the ticker, the ends of relays, EnsureContractPeriod
\* and the administrator interleave: as long as no copy out of date was written to
\* the contract, its pool has paid for all that the sessions of its month record as
\* included, or is empty.
THEOREM PoolPays == Spec => []PoolPaysIncluded
  <1>1. BillingInv /\ SumInv => PoolPaysIncluded
    <2> SUFFICES ASSUME BillingInv, SumInv, Quiet, ~clobbered, contract.remaining > 0
                 PROVE  IncludedBy(InMonth(contract.period)) <= INCLUDED - contract.remaining
      BY DEF PoolPaysIncluded
    <2>1. PICK k, S, T : k = contract.period /\ S = InMonth(k) /\ T = Charged(k)
      OBVIOUS
    <2>2. S \subseteq T
      <3>1. ASSUME NEW u \in S PROVE u \in T
        <4>1. u \in Relays /\ Over(u) /\ Undisturbed(u) /\ MonthOf(u) = k
          BY <2>1, <3>1 DEF InMonth, MonthOf
        <4>2. Sound(u) /\ loc[u].pc = "done"
          BY <4>1, QuietlySound DEF Over, At
        <4> QED
          BY <2>1, <4>1, <4>2 DEF Charged
      <3> QED
        BY <3>1
    <2>3. IsFiniteSet(T) /\ \A u \in T : row[u].included \in Nat
      BY <2>1, CountedFacts DEF BillingInv, SumInv
    <2>4. IsFiniteSet(S)
      BY <2>2, <2>3, FS_Subset
    <2>5. IncludedIn(row, S) <= IncludedIn(row, T)
      BY <2>2, <2>3, IncludedSubset
    <2>6. IncludedIn(row, S) \in Nat /\ IncludedIn(row, T) \in Nat
      BY <2>2, <2>3, <2>4, IncludedNat
    <2>7. IncludedIn(row, T) <= INCLUDED - contract.remaining
      BY <2>1 DEF SumInv, PoolOK
    <2>8. contract.remaining \in Nat /\ INCLUDED \in Nat
      BY MonthsTyped, BillingAssumption DEF BillingInv, BillingTypeOK
    <2>9. IncludedBy(S) = IncludedIn(row, S)
      BY IncludedByRow
    <2> QED
      BY <2>1, <2>5, <2>6, <2>7, <2>8, <2>9
  <1> QED
    BY <1>1, SumInvariant, PTL

\* The history of a month (AddBillingPeriodUsage) holds at least what the sessions
\* that did not outlast the month recorded as included, unless EnsureContractPeriod
\* overwrote it when it filled what it took for a gap.
THEOREM MonthTotalsKept == Spec => []MonthKept
  <1>1. BillingInv /\ SumInv => MonthKept
    <2> SUFFICES ASSUME BillingInv, SumInv, Quiet, NEW m \in Months \ overwritten,
                        NEW S, S # {},
                        S = {u \in InMonth(m) : ~SplitAtMonthBoundary(span[u].from, span[u].to)}
                 PROVE  total[m] # None /\ total[m] >= IncludedBy(S)
      BY DEF MonthKept
    <2>1. PICK T : T = Totalled(m)
      OBVIOUS
    <2>2. S \subseteq T
      <3>1. ASSUME NEW u \in S PROVE u \in T
        <4>1. /\ u \in Relays /\ Over(u) /\ Undisturbed(u) /\ MonthOf(u) = m
              /\ ~SplitAtMonthBoundary(span[u].from, span[u].to)
          BY <3>1 DEF InMonth, MonthOf
        <4>2. Sound(u)
          BY <4>1, QuietlySound
        <4> QED
          BY <2>1, <4>1, <4>2 DEF Totalled
      <3> QED
        BY <3>1
    <2>3. IsFiniteSet(T) /\ \A u \in T : row[u].included \in Nat
      BY <2>1, CountedFacts DEF BillingInv, SumInv
    <2>4. IsFiniteSet(S)
      BY <2>2, <2>3, FS_Subset
    <2>5. IncludedIn(row, S) <= IncludedIn(row, T)
      BY <2>2, <2>3, IncludedSubset
    <2>6. IncludedIn(row, S) \in Nat /\ IncludedIn(row, T) \in Nat
      BY <2>2, <2>3, <2>4, IncludedNat
    <2>7. total[m] # None /\ total[m] >= IncludedIn(row, T)
      BY <2>1, <2>2 DEF SumInv, TotalsOK
    <2>8. total[m] \in Nat
      BY <2>7 DEF BillingInv, BillingTypeOK
    <2>9. IncludedBy(S) = IncludedIn(row, S)
      BY IncludedByRow
    <2> QED
      BY <2>5, <2>6, <2>7, <2>8, <2>9
  <1> QED
    BY <1>1, SumInvariant, PTL

=============================================================================
