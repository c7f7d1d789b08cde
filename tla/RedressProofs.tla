--------------------------- MODULE RedressProofs ---------------------------
(***************************************************************************)
(* Machine-checked proofs about Redress, for any references, workers,      *)
(* number of business days and clock: what the loop of _add_business_days  *)
(* returns, and hence the dates visitors are given and their order; that   *)
(* decided requests are averaged; and that the two stores implement        *)
(* Ledger.                                                                 *)
(***************************************************************************)
EXTENDS Redress, FiniteSetTheorems, TLAPS

----------------------------------------------------------------------------
(* Induction, as the least element of a set.                               *)

LEMMA LeastNat ==
  ASSUME NEW T \in SUBSET Nat, T # {}
  PROVE  \E m \in T : \A k \in T : m <= k
  <1> DEFINE R == OpToRel(<, Nat)
  <1>1. IsWellFoundedOn(R, Nat)
    BY NatLessThanWellFounded
  <1>2. \A x, y \in Nat : <<y, x>> \in R <=> y < x
    BY DEF OpToRel
  <1> HIDE DEF R
  <1>3. \E x \in T : \A y \in T : ~ (<<y, x>> \in R)
    BY <1>1, WFMin
  <1>4. PICK x \in T : \A y \in T : ~(y < x)
    BY <1>2, <1>3
  <1>5. \A y \in T : x <= y
    BY <1>4
  <1> QED BY <1>5

----------------------------------------------------------------------------
(* The due date.                                                           *)

LEMMA ADayLater ==
  ASSUME NEW d \in Nat
  PROVE  /\ d + SlotsPerDay \in Nat /\ Day(d) \in Nat /\ d % SlotsPerDay \in Nat
         /\ Day(d + SlotsPerDay) = Day(d) + 1 /\ (d + SlotsPerDay) % SlotsPerDay = d % SlotsPerDay
         /\ d = SlotsPerDay * Day(d) + (d % SlotsPerDay) /\ d % SlotsPerDay < SlotsPerDay
  BY RedressAssumption DEF Day

\* An upper bound on the passes of the loop: two for every business day to go,
\* and those of the weekend it may yet meet.
Skipped(day) == CASE Weekday(day) = 3 -> 1 [] Weekday(day) = 4 -> 2 [] Weekday(day) = 5 -> 1 [] OTHER -> 0
Passes(left, d) == 2 * left + Skipped(Day(d))

LEMMA PassesDescend ==
  ASSUME NEW left \in Nat, NEW d \in Nat
  PROVE  /\ Passes(left, d) \in Nat /\ Passes(left, d) <= 2 * left + 2
         /\ left # 0 => /\ Pass(left, d) \in Nat \X Nat /\ Pass(left, d)[2] = d + SlotsPerDay
                        /\ Passes(Pass(left, d)[1], Pass(left, d)[2]) < Passes(left, d)
  <1>1. Day(d) \in Nat /\ d + SlotsPerDay \in Nat /\ Day(d + SlotsPerDay) = Day(d) + 1
    BY ADayLater
  <1>2. \A day \in Nat : /\ Skipped(day) \in 0..2
                         /\ Business(day + 1) => Skipped(day + 1) <= Skipped(day) + 1
                         /\ ~Business(day + 1) => Skipped(day + 1) < Skipped(day)
    BY RedressAssumption DEF Skipped, Weekday, Business
  <1> QED BY <1>1, <1>2 DEF Passes, Pass

\* The loop passes from state to state, each with fewer passes to go, until it
\* stops: that defines a function.
LEMMA LoopUnfolds ==
  ASSUME NEW left \in Nat, NEW d \in Nat
  PROVE  after[<<left, d>>] = IF left = 0 THEN d ELSE after[Pass(left, d)]
  <1> DEFINE S == Nat \X Nat
             stop == {p \in S : p[1] = 0}
             result == [p \in S |-> p[2]]
             pass == [p \in S |-> IF p[1] = 0 THEN p ELSE Pass(p[1], p[2])]
             rank == [p \in S |-> Passes(p[1], p[2])]
             Loop(f) == [p \in S |-> IF p[1] = 0 THEN p[2] ELSE f[Pass(p[1], p[2])]]
  <1>1. \E f \in [S -> Nat] : \A p \in S : f[p] = IF p \in stop THEN result[p] ELSE f[pass[p]]
    <2>1. /\ stop \in SUBSET S /\ pass \in [S -> S] /\ rank \in [S -> Nat] /\ result \in [S -> Nat]
      BY PassesDescend
    <2>2. \A p \in S \ stop : rank[pass[p]] < rank[p]
      BY PassesDescend
    <2> HIDE DEF S, stop, result, pass, rank
    <2> USE <2>1, <2>2
    <2> DEFINE Turn(f, x) == IF x \in stop THEN result[x] ELSE f[pass[x]]
               Good(f, n) == f \in [S -> Nat] /\ \A x \in S : rank[x] < n => f[x] = Turn(f, x)
               Bad == {n \in Nat : ~\E f : Good(f, n)}
    <2>3. \A n \in Nat : \E f : Good(f, n)
      <3> SUFFICES ASSUME Bad # {} PROVE FALSE
        OBVIOUS
      <3>1. PICK m \in Bad : \A k \in Bad : m <= k
        <4> Bad \in SUBSET Nat
          OBVIOUS
        <4> HIDE DEF Bad
        <4> QED BY LeastNat
      <3>2. CASE m = 0
        <4>1. Good([x \in S |-> result[x]], 0)
          OBVIOUS
        <4> QED BY <3>2, <4>1
      <3>3. CASE m # 0
        <4>0. m \in Nat
          OBVIOUS
        <4>1. m - 1 \in Nat /\ m - 1 \notin Bad
          <5> HIDE DEF Bad
          <5> QED BY <3>1, <3>3, <4>0
        <4>2. PICK f : Good(f, m - 1)
          BY <4>1
        <4> DEFINE g == [x \in S |-> Turn(f, x)]
        <4>3. g \in [S -> Nat]
          BY <4>2
        <4>4. ASSUME NEW x \in S, rank[x] < m PROVE g[x] = Turn(g, x)
          <5>1. CASE x \in stop
            BY <5>1
          <5>2. CASE x \notin stop
            <6>1. pass[x] \in S /\ rank[pass[x]] < m - 1
              BY <4>4, <5>2, <4>1
            <6>2. f[pass[x]] = g[pass[x]]
              BY <4>2, <6>1
            <6> QED BY <5>2, <6>2
          <5> QED BY <5>1, <5>2
        <4>5. Good(g, m)
          BY <4>3, <4>4
        <4> HIDE DEF g
        <4> QED BY <4>5
      <3> QED BY <3>2, <3>3
    <2>4. \A f, g : \A m, n \in Nat : \A x \in S :
            Good(f, m) /\ Good(g, n) /\ rank[x] < m /\ rank[x] < n => f[x] = g[x]
      <3> HIDE DEF Good
      <3> SUFFICES ASSUME NEW f, NEW g, NEW m \in Nat, NEW n \in Nat, Good(f, m), Good(g, n)
                   PROVE  \A x \in S : rank[x] < m /\ rank[x] < n => f[x] = g[x]
        OBVIOUS
      <3> USE DEF Good
      <3> DEFINE Differ == {x \in S : rank[x] < m /\ rank[x] < n /\ f[x] # g[x]}
                 T == {rank[x] : x \in Differ}
      <3>1. ASSUME Differ # {} PROVE FALSE
        <4>1. T \in SUBSET Nat /\ T # {}
          <5>1. \A x \in Differ : rank[x] \in Nat
            OBVIOUS
          <5> HIDE DEF Differ
          <5> QED BY <3>1, <5>1
        <4>2. PICK k \in T : \A l \in T : k <= l
          <5> HIDE DEF T
          <5> QED BY <4>1, LeastNat
        <4>3. PICK x \in Differ : rank[x] = k
          <5> HIDE DEF Differ
          <5> QED OBVIOUS
        <4>4. f[x] = Turn(f, x) /\ g[x] = Turn(g, x)
          OBVIOUS
        <4>5. x \notin stop /\ f[pass[x]] # g[pass[x]]
          BY <4>4
        <4>6. pass[x] \in S /\ rank[pass[x]] < rank[x] /\ rank[pass[x]] \in Nat /\ rank[x] \in Nat
          BY <4>5
        <4>7. pass[x] \in Differ
          BY <4>5, <4>6
        <4>8. k <= rank[pass[x]]
          <5> HIDE DEF Differ
          <5> QED BY <4>2, <4>7
        <4> QED BY <4>3, <4>6, <4>8
      <3> QED BY <3>1
    <2> DEFINE h == [n \in Nat |-> CHOOSE f : Good(f, n)]
               F == [x \in S |-> h[rank[x] + 1][x]]
    <2>5. \A n \in Nat : Good(h[n], n)
      BY <2>3
    <2> HIDE DEF h
    <2>6. ASSUME NEW x \in S PROVE F[x] = Turn(F, x)
      <3>1. h[rank[x] + 1][x] = Turn(h[rank[x] + 1], x)
        <4>1. rank[x] \in Nat /\ rank[x] + 1 \in Nat /\ rank[x] < rank[x] + 1
          OBVIOUS
        <4>2. Good(h[rank[x] + 1], rank[x] + 1)
          <5> HIDE DEF Good
          <5> QED BY <2>5, <4>1
        <4> QED BY <4>1, <4>2
      <3>2. CASE x \notin stop
        <4>1. pass[x] \in S /\ rank[pass[x]] < rank[x]
          BY <3>2
        <4>2. h[rank[x] + 1][pass[x]] = h[rank[pass[x]] + 1][pass[x]]
          <5>1. /\ rank[x] + 1 \in Nat /\ rank[pass[x]] + 1 \in Nat
                /\ rank[pass[x]] < rank[x] + 1 /\ rank[pass[x]] < rank[pass[x]] + 1
            BY <4>1
          <5> HIDE DEF Good
          <5> QED BY <2>4, <2>5, <4>1, <5>1
        <4> QED BY <3>1, <3>2, <4>1, <4>2
      <3>3. CASE x \in stop
        BY <3>1, <3>3
      <3> QED BY <3>2, <3>3
    <2>7. F \in [S -> Nat]
      <3>1. \A x \in S : h[rank[x] + 1] \in [S -> Nat]
        BY <2>5
      <3> QED BY <3>1
    <2> HIDE DEF F
    <2> QED BY <2>6, <2>7
  <1>2. PICK f \in [S -> Nat] : \A p \in S : f[p] = IF p \in stop THEN result[p] ELSE f[pass[p]]
    BY <1>1
  <1>3. \E g : g = Loop(g)
    <2>1. f = Loop(f)
      BY <1>2
    <2> HIDE DEF Loop
    <2> QED BY <2>1
  <1>4. after = CHOOSE g : g = Loop(g)
    BY DEF after
  <1>5. after = Loop(after)
    <2> HIDE DEF Loop
    <2> QED BY <1>3, <1>4
  <1>6. <<left, d>> \in S
    OBVIOUS
  <1> QED BY <1>5, <1>6

WorkingDays(first, last) == {d \in first..last : Business(d)}

\* What the loop returns when it starts at d with n business days to go.
Dated(n, d) ==
  LET r == after[<<n, d>>] IN
  /\ r \in Nat /\ Day(r) >= Day(d) /\ r % SlotsPerDay = d % SlotsPerDay
  /\ r <= d + SlotsPerDay * Passes(n, d)
  /\ n > 0 => Business(Day(r)) /\ Day(r) > Day(d)
  /\ IsFiniteSet(WorkingDays(Day(d) + 1, Day(r)))
  /\ Cardinality(WorkingDays(Day(d) + 1, Day(r))) = n

LEMMA OneDayMore ==
  ASSUME NEW n \in Nat \ {0}, NEW d \in Nat, Dated(Pass(n, d)[1], Pass(n, d)[2])
  PROVE  Dated(n, d)
  <1> DEFINE D == Day(d)
             m == IF Business(D + 1) THEN n - 1 ELSE n
             r == after[<<n, d>>]
  <1>1. D \in Nat /\ d + SlotsPerDay \in Nat /\ Day(d + SlotsPerDay) = D + 1
        /\ (d + SlotsPerDay) % SlotsPerDay = d % SlotsPerDay
    BY ADayLater
  <1>2. Pass(n, d) = <<m, d + SlotsPerDay>> /\ m \in Nat
    BY <1>1 DEF Pass
  <1>3. r = after[<<m, d + SlotsPerDay>>]
    BY <1>2, LoopUnfolds
  <1>4. /\ r \in Nat /\ Day(r) >= D + 1 /\ r % SlotsPerDay = d % SlotsPerDay
        /\ r <= d + SlotsPerDay + SlotsPerDay * Passes(m, d + SlotsPerDay)
        /\ m > 0 => Business(Day(r)) /\ Day(r) > D + 1
        /\ IsFiniteSet(WorkingDays(D + 2, Day(r))) /\ Cardinality(WorkingDays(D + 2, Day(r))) = m
    <2>1. (D + 1) + 1 = D + 2
      BY <1>1
    <2> HIDE DEF D, m, r
    <2> QED BY <1>1, <1>2, <1>3, <2>1 DEF Dated
  <1>5. Day(r) \in Nat
    BY <1>4, ADayLater
  <1>6. WorkingDays(D + 1, Day(r)) =
          IF Business(D + 1) THEN WorkingDays(D + 2, Day(r)) \cup {D + 1} ELSE WorkingDays(D + 2, Day(r))
    <2> HIDE DEF D, m, r
    <2> QED BY <1>1, <1>4, <1>5 DEF WorkingDays
  <1>7. D + 1 \notin WorkingDays(D + 2, Day(r))
    <2> HIDE DEF D, m, r
    <2> QED BY <1>1, <1>5 DEF WorkingDays
  <1>8. IsFiniteSet(WorkingDays(D + 1, Day(r))) /\ Cardinality(WorkingDays(D + 1, Day(r))) = n
    <2>1. CASE Business(D + 1)
      <3>1. m + 1 = n
        BY <2>1
      <3> HIDE DEF D, m, r
      <3> QED BY <2>1, <3>1, <1>4, <1>6, <1>7, FS_AddElement
    <2>2. CASE ~Business(D + 1)
      BY <2>2, <1>4, <1>6
    <2> QED BY <2>1, <2>2
  <1>9. Business(Day(r)) /\ Day(r) > D
    <2>1. CASE m > 0
      <3> HIDE DEF D, m, r
      <3> QED BY <2>1, <1>1, <1>4, <1>5
    <2>2. CASE m = 0
      <3>1. Business(D + 1)
        BY <2>2
      <3>2. WorkingDays(D + 2, Day(r)) = {}
        BY <2>2, <1>4, FS_EmptySet
      <3>3. Passes(0, d + SlotsPerDay) <= 2
        BY PassesDescend, <1>1
      <3>4. r = d + SlotsPerDay
        BY <2>2, <1>1, <1>3, LoopUnfolds
      <3> HIDE DEF D, m, r
      <3> QED BY <3>1, <3>4, <1>1
    <2> HIDE DEF D, r
    <2> QED BY <1>2, <2>1, <2>2
  <1>10. r <= d + SlotsPerDay * Passes(n, d)
    <2>1. Passes(m, d + SlotsPerDay) < Passes(n, d) /\ Passes(n, d) \in Nat
          /\ Passes(m, d + SlotsPerDay) \in Nat
      <3>1. Pass(n, d)[1] = m /\ Pass(n, d)[2] = d + SlotsPerDay
        BY <1>2
      <3> HIDE DEF m
      <3> QED BY <3>1, <1>1, <1>2, PassesDescend
    <2>2. \A a, b \in Nat : a < b => SlotsPerDay + SlotsPerDay * a <= SlotsPerDay * b
      BY RedressAssumption
    <2>3. \A a \in Nat : SlotsPerDay * a \in Nat
      BY RedressAssumption
    <2>4. /\ SlotsPerDay * Passes(m, d + SlotsPerDay) \in Nat /\ SlotsPerDay * Passes(n, d) \in Nat
          /\ SlotsPerDay + SlotsPerDay * Passes(m, d + SlotsPerDay) <= SlotsPerDay * Passes(n, d)
      BY <2>1, <2>2, <2>3
    <2> HIDE DEF D, m, r
    <2> QED BY <2>4, <1>4, RedressAssumption
  <1> HIDE DEF D, r
  <1>11. r % SlotsPerDay = d % SlotsPerDay /\ r \in Nat /\ Day(r) >= D
    BY <1>1, <1>4, <1>5
  <1> QED BY <1>8, <1>9, <1>10, <1>11 DEF Dated, D, r

LEMMA LoopReturns ==
  ASSUME NEW n \in Nat, NEW d \in Nat
  PROVE  Dated(n, d)
  <1> DEFINE Bad == {p \in Nat \X Nat : ~Dated(p[1], p[2])}
             T == {Passes(p[1], p[2]) : p \in Bad}
  <1>1. ASSUME NEW b \in Nat PROVE Dated(0, b)
    <2>1. after[<<0, b>>] = b
      BY LoopUnfolds
    <2>2. Day(b) \in Nat /\ WorkingDays(Day(b) + 1, Day(b)) = {}
      BY ADayLater DEF WorkingDays
    <2>3. b <= b + SlotsPerDay * Passes(0, b)
      <3>1. \A a \in Nat : SlotsPerDay * a \in Nat
        BY RedressAssumption
      <3>2. SlotsPerDay * Passes(0, b) \in Nat
        BY <3>1, PassesDescend
      <3> QED BY <3>2
    <2>4. IsFiniteSet({}) /\ Cardinality({}) = 0
      BY FS_EmptySet
    <2>5. b % SlotsPerDay = b % SlotsPerDay /\ Day(b) >= Day(b)
      BY <2>2
    <2>6. /\ IsFiniteSet(WorkingDays(Day(b) + 1, Day(b)))
          /\ Cardinality(WorkingDays(Day(b) + 1, Day(b))) = 0
      BY <2>2, <2>4
    <2>7. ~(0 > 0)
      OBVIOUS
    <2> QED BY <2>1, <2>3, <2>5, <2>6, <2>7, Zenon DEF Dated
  <1>2. ASSUME Bad # {} PROVE FALSE
    <2>1. T \in SUBSET Nat /\ T # {}
      <3>1. \A p \in Bad : Passes(p[1], p[2]) \in Nat
        BY PassesDescend
      <3> HIDE DEF Bad
      <3> QED BY <1>2, <3>1
    <2>2. PICK k \in T : \A l \in T : k <= l
      <3> HIDE DEF T
      <3> QED BY <2>1, LeastNat
    <2>3. PICK p \in Bad : Passes(p[1], p[2]) = k
      <3> HIDE DEF Bad
      <3> QED OBVIOUS
    <2>4. p[1] \in Nat \ {0} /\ p[2] \in Nat
      BY <1>1
    <2> DEFINE q == Pass(p[1], p[2])
    <2>5. q \in Nat \X Nat /\ Passes(q[1], q[2]) < k /\ Passes(q[1], q[2]) \in Nat /\ k \in Nat
      BY <2>3, <2>4, PassesDescend
    <2>6. q \in Bad
      BY <2>4, <2>5, OneDayMore
    <2>7. Passes(q[1], q[2]) \in T
      <3> HIDE DEF Bad, q
      <3> QED BY <2>6
    <2> HIDE DEF T, Bad, q
    <2> QED BY <2>2, <2>5, <2>7
  <1>3. <<n, d>> \in Nat \X Nat /\ <<n, d>> \notin Bad
    BY <1>2
  <1> QED BY <1>3

----------------------------------------------------------------------------
(* The inductive invariant.                                                *)

\* A worker that files has not answered; SQLite has no row of it yet, and
\* Postgres one with its date if a commit was applied without an answer.  One
\* that counted a decision will find a dated row where it counted.
WorkInv(w) ==
  LET x == work[w] IN
  /\ x.op \in {"file", "update"} => x.ref \in Refs
  /\ x.op = "file" =>
       /\ filed[x.ref] # NotFiled /\ acked[x.ref] = NotFiled
       /\ x.due = AddBusinessDays(filed[x.ref], SLA_BUSINESS_DAYS)
       /\ lite[x.ref] = NoRow
       /\ pg[x.ref] # NoRow => x.at = "lite" /\ pg[x.ref].due = x.due
  /\ x.op = "average" /\ x.decided => \E r \in Refs : StoreOf(w)[r].dated

FiledOnce ==
  \A v, w \in Workers :
    work[v].op = "file" /\ work[w].op = "file" /\ work[v].ref = work[w].ref => v = w

RefInv(r) ==
  /\ filed[r] = NotFiled => pg[r] = NoRow /\ lite[r] = NoRow /\ acked[r] = NotFiled
  /\ acked[r] # NotFiled => acked[r] = AddBusinessDays(filed[r], SLA_BUSINESS_DAYS)
  /\ pg[r].status \in Terminal => pg[r].dated
  /\ lite[r].status \in Terminal => lite[r].dated

IInv ==
  /\ TypeOK /\ DecisionsAreAveraged /\ FiledOnce
  /\ \A w \in Workers : WorkInv(w)
  /\ \A r \in Refs : RefInv(r)

LEMMA DueDates ==
  ASSUME NEW t \in 0..MaxSlot
  PROVE  AddBusinessDays(t, SLA_BUSINESS_DAYS) \in Dues
  <1> DEFINE n == SLA_BUSINESS_DAYS
  <1>1. n \in Nat /\ t \in Nat /\ t <= MaxSlot /\ MaxSlot \in Nat /\ SlotsPerDay \in Nat
    BY RedressAssumption
  <1>2. Passes(n, t) \in Nat /\ Passes(n, t) <= 2 * n + 2 /\ Dated(n, t)
    BY <1>1, PassesDescend, LoopReturns
  <1>3. SlotsPerDay * Passes(n, t) <= (2 * n + 2) * SlotsPerDay
    <2>1. \A a, b, c \in Nat : a <= b => c * a <= b * c
      OBVIOUS
    <2>2. 2 * n + 2 \in Nat
      BY <1>1
    <2> QED BY <1>1, <1>2, <2>1, <2>2
  <1>4. /\ (2 * n + 2) * SlotsPerDay \in Nat /\ SlotsPerDay * Passes(n, t) \in Nat
    <2>1. \A a, b \in Nat : a * b \in Nat
      OBVIOUS
    <2> QED BY <1>1, <1>2, <2>1
  <1>5. /\ AddBusinessDays(t, n) \in Nat
        /\ AddBusinessDays(t, n) <= t + SlotsPerDay * Passes(n, t)
    BY <1>2 DEF Dated, AddBusinessDays
  <1> HIDE DEF n
  <1>6. AddBusinessDays(t, n) \in 0..(MaxSlot + (2 * n + 2) * SlotsPerDay)
    BY <1>1, <1>3, <1>4, <1>5
  <1> QED BY <1>6 DEF Dues, n

LEMMA NoRowOK == NoRow \notin Row /\ NoRow.due = NotFiled /\ NoRow.status = "pending" /\ ~NoRow.dated
  <1>1. NotFiled \notin Dues
    <2>1. Dues \subseteq Nat
      BY DEF Dues
    <2> QED BY <2>1, RedressAssumption
  <1> QED BY <1>1 DEF NoRow, Row

LEMMA IdleOK == Idle \in Work /\ Idle.op = "idle" /\ Idle.at = "pg" /\ ~Idle.decided /\ Idle.ref = NoRef
  BY DEF Idle, Work, Statuses

\* From store to after: rows stay, with their date and their resolved_at, and a
\* new one is the one the request x files.
Grows(store, next, x) ==
  /\ next \in [Refs -> Row \cup {NoRow}]
  /\ \A r \in Refs :
       /\ store[r].dated => next[r].dated
       /\ store[r] # NoRow => next[r] # NoRow /\ next[r].due = store[r].due
       /\ store[r] = NoRow /\ next[r] # NoRow => x.op = "file" /\ r = x.ref /\ next[r].due = x.due
       /\ next[r].status \in Terminal => next[r].dated

LEMMA SameStores ==
  ASSUME IInv, NEW x
  PROVE  Grows(pg, pg, x) /\ Grows(lite, lite, x)
  BY DEF IInv, TypeOK, RefInv, Grows

LEMMA WritesGrow ==
  ASSUME NEW store \in [Refs -> Row \cup {NoRow}], NEW x \in Work, x.op \in {"file", "update"},
         x.ref \in Refs, \A r \in Refs : store[r].status \in Terminal => store[r].dated,
         x.op = "file" => x.due \in Dues /\ store[x.ref] = NoRow
  PROVE  /\ Grows(store, Written(store, x), x)
         /\ x.op = "file" => /\ Written(store, x)[x.ref] # NoRow
                             /\ Written(store, x)[x.ref].due = x.due
  <1> DEFINE next == Written(store, x)
  <1>1. CASE x.op = "file"
    <2> DEFINE row == [status |-> "pending", due |-> x.due, dated |-> FALSE]
    <2>1. row \in Row /\ row # NoRow /\ row.due = x.due /\ row.status \notin Terminal
      <3>1. row \in Row
        BY <1>1 DEF Row, Statuses
      <3> QED BY <3>1, NoRowOK DEF Terminal
    <2>2. next = [store EXCEPT ![x.ref] = row]
      BY <1>1 DEF Written
    <2> HIDE DEF row, next
    <2>3. next \in [Refs -> Row \cup {NoRow}] /\ next[x.ref] = row
          /\ \A r \in Refs \ {x.ref} : next[r] = store[r]
      BY <2>1, <2>2
    <2>4. Grows(store, next, x)
      BY <1>1, <2>1, <2>3, NoRowOK DEF Grows
    <2> QED BY <2>1, <2>3, <2>4 DEF next
  <1>2. CASE x.op = "update" /\ store[x.ref] = NoRow
    <2>1. next = store
      BY <1>2 DEF Written, Updated
    <2> HIDE DEF next
    <2>2. Grows(store, next, x)
      BY <2>1 DEF Grows
    <2> QED BY <1>2, <2>2 DEF next
  <1>3. CASE x.op = "update" /\ store[x.ref] # NoRow
    <2> DEFINE row == [store[x.ref] EXCEPT !.status = x.status,
                                           !.dated = store[x.ref].dated \/ x.status \in Terminal]
    <2>1. store[x.ref] \in Row /\ x.status \in Statuses
      BY <1>3 DEF Work
    <2>2. /\ row \in Row /\ row.due = store[x.ref].due /\ row.status = x.status
          /\ row.dated = (store[x.ref].dated \/ x.status \in Terminal)
      BY <2>1 DEF Row
    <2>3. next = [store EXCEPT ![x.ref] = row]
      BY <1>3 DEF Written, Updated
    <2>4. row # NoRow
      BY <2>2, NoRowOK
    <2> HIDE DEF row, next
    <2>5. next \in [Refs -> Row \cup {NoRow}] /\ next[x.ref] = row
          /\ \A r \in Refs \ {x.ref} : next[r] = store[r]
      BY <2>2, <2>3
    <2>6. Grows(store, next, x)
      BY <1>3, <2>2, <2>4, <2>5 DEF Grows
    <2> QED BY <1>3, <2>6 DEF next
  <1> QED BY <1>1, <1>2, <1>3

----------------------------------------------------------------------------
(* Every step keeps the invariant.                                         *)

\* A step of worker w that takes up no new request to file; x is what it
\* serves afterwards.
StepTo(w, x) ==
  /\ filed' = filed /\ now' \in 0..MaxSlot
  /\ stats' \in Stats /\ DecisionsAreAveraged'
  /\ \A r \in Refs :
       \/ acked'[r] = acked[r]
       \/ /\ work[w].op = "file" /\ r = work[w].ref /\ acked'[r] = work[w].due
          /\ work[w].due \in Dues /\ x.op # "file"
  /\ acked' \in [Refs -> Dues \cup {NotFiled}]
  /\ Grows(pg, pg', work[w]) /\ Grows(lite, lite', work[w])
  /\ work' = [work EXCEPT ![w] = x]
  /\ x.op \in {"file", "update"} => x.ref \in Refs
  /\ x.op = "file" => /\ work[w].op = "file" /\ x.ref = work[w].ref /\ x.due = work[w].due
                      /\ x.at = "lite" /\ lite' = lite
  /\ x.op = "average" /\ x.decided =>
       \E r \in Refs : (IF x.at = "pg" THEN pg' ELSE lite')[r].dated

LEMMA StepOK ==
  ASSUME IInv, NEW w \in Workers, NEW x \in Work, StepTo(w, x)
  PROVE  IInv'
  <1>1. /\ pg' \in [Refs -> Row \cup {NoRow}] /\ lite' \in [Refs -> Row \cup {NoRow}]
        /\ work' \in [Workers -> Work] /\ work'[w] = x
        /\ \A v \in Workers \ {w} : work'[v] = work[v]
    BY DEF StepTo, Grows, IInv, TypeOK
  <1>2. TypeOK' /\ DecisionsAreAveraged'
    BY <1>1 DEF StepTo, IInv, TypeOK
  <1>3. FiledOnce'
    BY <1>1 DEF StepTo, IInv, FiledOnce
  <1>4. ASSUME NEW r \in Refs PROVE RefInv(r)'
    <2>1. RefInv(r) /\ filed'[r] = filed[r]
      BY DEF IInv, StepTo
    <2>2. /\ pg'[r].status \in Terminal => pg'[r].dated
          /\ lite'[r].status \in Terminal => lite'[r].dated
      BY DEF StepTo, Grows
    <2>3. work[w].op = "file" /\ r = work[w].ref =>
            filed[r] # NotFiled /\ work[w].due = AddBusinessDays(filed[r], SLA_BUSINESS_DAYS)
      BY DEF IInv, WorkInv
    <2>4. filed[r] = NotFiled => pg'[r] = NoRow /\ lite'[r] = NoRow /\ acked'[r] = acked[r]
      BY <2>1, <2>3 DEF RefInv, StepTo, Grows
    <2>5. acked'[r] # NotFiled => acked'[r] = AddBusinessDays(filed[r], SLA_BUSINESS_DAYS)
      BY <2>1, <2>3 DEF RefInv, StepTo
    <2> QED BY <2>1, <2>2, <2>4, <2>5 DEF RefInv
  <1>5. ASSUME NEW v \in Workers \ {w} PROVE WorkInv(v)'
    <2> DEFINE y == work[v]
    <2>0. WorkInv(v) /\ work'[v] = y
      BY <1>1 DEF IInv
    <2>1. ASSUME y.op = "file"
          PROVE  /\ filed'[y.ref] # NotFiled /\ acked'[y.ref] = NotFiled
                 /\ y.due = AddBusinessDays(filed'[y.ref], SLA_BUSINESS_DAYS)
                 /\ lite'[y.ref] = NoRow
                 /\ pg'[y.ref] # NoRow => y.at = "lite" /\ pg'[y.ref].due = y.due
      <3>1. y.ref \in Refs /\ ~(work[w].op = "file" /\ work[w].ref = y.ref)
        BY <2>0, <2>1 DEF WorkInv, IInv, FiledOnce
      <3>2. acked'[y.ref] = acked[y.ref] /\ filed' = filed
        BY <3>1 DEF StepTo
      <3>3. /\ lite[y.ref] = NoRow => lite'[y.ref] = NoRow
            /\ pg[y.ref] = NoRow => pg'[y.ref] = NoRow
            /\ pg[y.ref] # NoRow => pg'[y.ref].due = pg[y.ref].due
        BY <3>1 DEF StepTo, Grows
      <3> QED BY <2>0, <2>1, <3>2, <3>3 DEF WorkInv
    <2>2. ASSUME y.op = "average", y.decided
          PROVE  \E r \in Refs : (IF y.at = "pg" THEN pg' ELSE lite')[r].dated
      <3>1. PICK r \in Refs : StoreOf(v)[r].dated
        BY <2>0, <2>2 DEF WorkInv
      <3>2. (IF y.at = "pg" THEN pg' ELSE lite')[r].dated
        BY <3>1 DEF StoreOf, StepTo, Grows
      <3> QED BY <3>2
    <2> HIDE DEF y
    <2> QED BY <2>0, <2>1, <2>2 DEF WorkInv, StoreOf, y
  <1>6. WorkInv(w)'
    <2>1. ASSUME x.op = "file"
          PROVE  /\ filed'[x.ref] # NotFiled /\ acked'[x.ref] = NotFiled
                 /\ x.due = AddBusinessDays(filed'[x.ref], SLA_BUSINESS_DAYS)
                 /\ lite'[x.ref] = NoRow
                 /\ pg'[x.ref] # NoRow => x.at = "lite" /\ pg'[x.ref].due = x.due
      <3>1. /\ work[w].op = "file" /\ x.ref = work[w].ref /\ x.due = work[w].due /\ x.ref \in Refs
            /\ x.at = "lite" /\ lite' = lite /\ filed' = filed /\ acked'[x.ref] = acked[x.ref]
        BY <2>1 DEF StepTo
      <3>2. pg'[x.ref] # NoRow => pg'[x.ref].due = x.due
        BY <3>1 DEF StepTo, Grows, IInv, WorkInv
      <3> QED BY <3>1, <3>2 DEF IInv, WorkInv
    <2> QED BY <1>1, <2>1 DEF StepTo, WorkInv, StoreOf
  <1> QED BY <1>2, <1>3, <1>4, <1>5, <1>6 DEF IInv

LEMMA FileStep ==
  ASSUME IInv, NEW w \in Workers, NEW r \in Refs, File(w, r)
  PROVE  IInv'
  <1> DEFINE due == AddBusinessDays(now, SLA_BUSINESS_DAYS)
             x == [Idle EXCEPT !.op = "file", !.ref = r, !.due = due]
  <1>1. due \in Dues /\ now \in 0..MaxSlot
    BY DueDates DEF IInv, TypeOK
  <1> HIDE DEF due
  <1>2. /\ x \in Work /\ x.op = "file" /\ x.ref = r /\ x.due = due
    BY <1>1 DEF Idle, Work, Statuses
  <1>3. work[w] = Idle /\ work' = [work EXCEPT ![w] = x] /\ filed' = [filed EXCEPT ![r] = now]
        /\ filed[r] = NotFiled /\ UNCHANGED <<pg, lite, acked, stats, now>>
    BY DEF File, due
  <1>4. now # NotFiled /\ now \in 0..MaxSlot
    BY <1>1, RedressAssumption
  <1> HIDE DEF x
  <1>5. /\ filed' \in [Refs -> 0..MaxSlot \cup {NotFiled}] /\ filed'[r] = now
        /\ \A q \in Refs \ {r} : filed'[q] = filed[q]
        /\ work' \in [Workers -> Work] /\ work'[w] = x
        /\ \A v \in Workers \ {w} : work'[v] = work[v]
    BY <1>2, <1>3, <1>4 DEF IInv, TypeOK
  <1>6. TypeOK' /\ DecisionsAreAveraged'
    BY <1>3, <1>5 DEF IInv, TypeOK, DecisionsAreAveraged
  <1>7. \A v \in Workers : work[v].op = "file" => work[v].ref # r /\ work[v].ref \in Refs
    BY <1>3 DEF IInv, WorkInv
  <1>8. FiledOnce'
    BY <1>2, <1>5, <1>7 DEF FiledOnce, IInv
  <1>9. /\ pg[r] = NoRow /\ lite[r] = NoRow /\ acked[r] = NotFiled
    BY <1>3 DEF IInv, RefInv
  <1>10. ASSUME NEW q \in Refs PROVE RefInv(q)'
    BY <1>3, <1>4, <1>5, <1>9 DEF IInv, RefInv
  <1>11. ASSUME NEW v \in Workers PROVE WorkInv(v)'
    <2>1. CASE v = w
      BY <2>1, <1>2, <1>3, <1>4, <1>5, <1>9 DEF WorkInv, due
    <2>2. CASE v # w
      BY <2>2, <1>3, <1>5, <1>7 DEF IInv, WorkInv, StoreOf
    <2> QED BY <2>1, <2>2
  <1> QED BY <1>6, <1>8, <1>10, <1>11 DEF IInv

\* A step that writes nothing and answers nobody.
LEMMA Quietly ==
  ASSUME IInv, NEW w \in Workers, NEW x \in Work, work' = [work EXCEPT ![w] = x],
         UNCHANGED <<pg, lite, filed, acked, now>>, stats' \in Stats, DecisionsAreAveraged',
         x.op # "file", x.op = "update" => x.ref \in Refs,
         x.op = "average" /\ x.decided =>
           \E r \in Refs : (IF x.at = "pg" THEN pg ELSE lite)[r].dated
  PROVE  StepTo(w, x)
  <1>1. Grows(pg, pg', work[w]) /\ Grows(lite, lite', work[w])
    BY SameStores
  <1> QED BY <1>1 DEF StepTo, IInv, TypeOK

LEMMA ResolveStep ==
  ASSUME IInv, NEW w \in Workers, NEW r \in Refs, NEW s \in Decisions, Resolve(w, r, s)
  PROVE  IInv'
  <1> DEFINE x == [Idle EXCEPT !.op = "update", !.ref = r, !.status = s]
  <1>1. x \in Work /\ x.op = "update" /\ x.ref = r
    BY RedressAssumption DEF Idle, Work, Statuses
  <1>2. work' = [work EXCEPT ![w] = x]
    BY DEF Resolve
  <1> HIDE DEF x
  <1>3. StepTo(w, x)
    BY <1>1, <1>2, Quietly DEF Resolve, IInv, TypeOK, DecisionsAreAveraged
  <1> QED BY <1>1, <1>3, StepOK

LEMMA IdleStep ==
  ASSUME IInv, NEW w \in Workers, work' = [work EXCEPT ![w] = Idle],
         UNCHANGED <<pg, lite, filed, acked, now>>, stats' \in Stats, DecisionsAreAveraged'
  PROVE  IInv'
  BY IdleOK, Quietly, StepOK

\* What a writing worker finds in the stores.
LEMMA Writes ==
  ASSUME IInv, NEW w \in Workers, Writing(w)
  PROVE  /\ work[w] \in Work /\ work[w].ref \in Refs /\ work[w].op \in {"file", "update"}
         /\ work[w].op = "file" => /\ work[w].due \in Dues /\ lite[work[w].ref] = NoRow
                                   /\ acked[work[w].ref] = NotFiled
         /\ work[w].at = "pg" =>
              /\ Grows(pg, Written(pg, work[w]), work[w])
              /\ work[w].op = "file" => /\ pg[work[w].ref] = NoRow
                                        /\ Written(pg, work[w])[work[w].ref] # NoRow
                                        /\ Written(pg, work[w])[work[w].ref].due = work[w].due
         /\ Grows(lite, Written(lite, work[w]), work[w])
         /\ work[w].op = "file" => /\ Written(lite, work[w])[work[w].ref] # NoRow
                                   /\ Written(lite, work[w])[work[w].ref].due = work[w].due
  <1> DEFINE x == work[w]
  <1>1. x \in Work /\ x.op \in {"file", "update"} /\ x.ref \in Refs /\ x.at \in {"pg", "lite"}
    BY DEF IInv, TypeOK, WorkInv, Writing, Work
  <1>2. ASSUME x.op = "file"
        PROVE  x.due \in Dues /\ lite[x.ref] = NoRow /\ (x.at = "pg" => pg[x.ref] = NoRow)
               /\ acked[x.ref] = NotFiled
    <2>1. x.due = AddBusinessDays(filed[x.ref], SLA_BUSINESS_DAYS) /\ filed[x.ref] \in 0..MaxSlot
          /\ lite[x.ref] = NoRow /\ (x.at = "pg" => pg[x.ref] = NoRow) /\ acked[x.ref] = NotFiled
      BY <1>1, <1>2 DEF IInv, WorkInv, TypeOK
    <2> QED BY <2>1, DueDates
  <1>3. /\ pg \in [Refs -> Row \cup {NoRow}] /\ lite \in [Refs -> Row \cup {NoRow}]
        /\ \A r \in Refs : pg[r].status \in Terminal => pg[r].dated
        /\ \A r \in Refs : lite[r].status \in Terminal => lite[r].dated
    BY DEF IInv, TypeOK, RefInv
  <1> HIDE DEF x
  <1>4. x.at = "pg" => /\ Grows(pg, Written(pg, x), x)
                       /\ x.op = "file" => /\ Written(pg, x)[x.ref] # NoRow
                                           /\ Written(pg, x)[x.ref].due = x.due
    BY <1>1, <1>2, <1>3, WritesGrow
  <1>5. /\ Grows(lite, Written(lite, x), x)
        /\ x.op = "file" => /\ Written(lite, x)[x.ref] # NoRow
                            /\ Written(lite, x)[x.ref].due = x.due
    BY <1>1, <1>2, <1>3, WritesGrow
  <1> QED BY <1>1, <1>2, <1>4, <1>5 DEF x

LEMMA AnswerStep ==
  ASSUME IInv, NEW w \in Workers, PgWrites(w) \/ LiteWrites(w)
  PROVE  IInv'
  <1> DEFINE x == work[w]
  <1>1. /\ work' = [work EXCEPT ![w] = Idle] /\ UNCHANGED <<filed, stats, now>>
        /\ acked' = IF x.op = "file" THEN [acked EXCEPT ![x.ref] = x.due] ELSE acked
    BY DEF PgWrites, LiteWrites, Answers
  <1>2. Grows(pg, pg', x) /\ Grows(lite, lite', x)
    BY Writes, SameStores DEF PgWrites, LiteWrites
  <1>3. x.op = "file" => x.ref \in Refs /\ x.due \in Dues
    BY Writes DEF PgWrites, LiteWrites
  <1>4. DecisionsAreAveraged' /\ stats' \in Stats /\ now' \in 0..MaxSlot
        /\ acked \in [Refs -> Dues \cup {NotFiled}]
    BY <1>1 DEF IInv, TypeOK, DecisionsAreAveraged
  <1>5. StepTo(w, Idle)
    BY <1>1, <1>2, <1>3, <1>4, IdleOK DEF StepTo
  <1> QED BY <1>5, IdleOK, StepOK

LEMMA PgFailsStep == ASSUME IInv, NEW w \in Workers, PgFails(w) PROVE IInv'
  <1> DEFINE q == work[w]
             x == [work[w] EXCEPT !.at = "lite"]
  <1>1. q \in Work /\ q.op \in {"file", "update"} /\ q.ref \in Refs /\ q.at = "pg"
    BY Writes DEF PgFails
  <1>2. x \in Work /\ x.op = q.op /\ x.ref = q.ref /\ x.due = q.due /\ x.at = "lite"
    BY <1>1 DEF Work
  <1>3. work' = [work EXCEPT ![w] = x] /\ UNCHANGED <<lite, filed, acked, stats, now>>
    BY <1>1 DEF PgFails, IInv, TypeOK
  <1>4. Grows(pg, pg', q) /\ Grows(lite, lite', q)
    BY <1>3, Writes, SameStores DEF PgFails
  <1>5. DecisionsAreAveraged' /\ stats' \in Stats /\ now' \in 0..MaxSlot
        /\ acked' \in [Refs -> Dues \cup {NotFiled}]
    BY <1>3 DEF IInv, TypeOK, DecisionsAreAveraged
  <1> HIDE DEF x
  <1>6. StepTo(w, x)
    BY <1>1, <1>2, <1>3, <1>4, <1>5 DEF StepTo
  <1> QED BY <1>2, <1>6, StepOK

LEMMA GetStatsStep == ASSUME IInv, NEW w \in Workers, GetStats(w) PROVE IInv'
  <1> DEFINE x == [work[w] EXCEPT !.op = "count"]
  <1>1. x \in Work /\ x.op = "count" /\ work' = [work EXCEPT ![w] = x]
    BY DEF IInv, TypeOK, GetStats, Work
  <1> HIDE DEF x
  <1>2. StepTo(w, x)
    BY <1>1, Quietly DEF GetStats, IInv, TypeOK, DecisionsAreAveraged
  <1> QED BY <1>1, <1>2, StepOK

\* A decision that is counted has its date in the same store.
LEMMA CountStep == ASSUME IInv, NEW w \in Workers, CountByStatus(w) PROVE IInv'
  <1> DEFINE b == \E r \in Stored(StoreOf(w)) : StoreOf(w)[r].status \in Terminal
             x == [work[w] EXCEPT !.op = "average", !.decided = b]
  <1>1. b \in BOOLEAN
    OBVIOUS
  <1>2. b => \E r \in Refs : StoreOf(w)[r].dated
    BY DEF IInv, RefInv, StoreOf, Stored
  <1> HIDE DEF b
  <1>3. x \in Work /\ x.op = "average" /\ x.decided = b /\ x.at = work[w].at
    BY <1>1 DEF IInv, TypeOK, Work
  <1>4. work' = [work EXCEPT ![w] = x]
    BY DEF CountByStatus, b
  <1> HIDE DEF x
  <1>5. x.op = "average" /\ x.decided => \E r \in Refs : (IF x.at = "pg" THEN pg ELSE lite)[r].dated
    BY <1>2, <1>3 DEF StoreOf
  <1>6. StepTo(w, x)
    BY <1>3, <1>4, <1>5, Quietly DEF CountByStatus, IInv, TypeOK, DecisionsAreAveraged
  <1> QED BY <1>3, <1>6, StepOK

\* The row that was counted is still there, dated, when the average is taken.
LEMMA AverageStep == ASSUME IInv, NEW w \in Workers, Average(w) PROVE IInv'
  <1> DEFINE b == \E r \in Stored(StoreOf(w)) : StoreOf(w)[r].dated
  <1>1. stats' = [decided |-> work[w].decided, average |-> b] /\ b \in BOOLEAN
    BY DEF Average
  <1>2. work[w].decided => b
    <2>1. ASSUME work[w].decided PROVE \E r \in Stored(StoreOf(w)) : StoreOf(w)[r].dated
      <3>1. PICK r \in Refs : StoreOf(w)[r].dated
        BY <2>1 DEF Average, IInv, WorkInv
      <3>2. r \in Stored(StoreOf(w))
        BY <3>1, NoRowOK DEF Stored
      <3> QED BY <3>1, <3>2
    <2> QED BY <2>1
  <1> HIDE DEF b
  <1>3. stats' \in Stats /\ DecisionsAreAveraged'
    BY <1>1, <1>2 DEF Stats, IInv, TypeOK, Work, DecisionsAreAveraged
  <1> QED BY <1>3, IdleStep DEF Average

LEMMA PgStatsFailStep == ASSUME IInv, NEW w \in Workers, PgStatsFail(w) PROVE IInv'
  <1> DEFINE x == [Idle EXCEPT !.op = "count", !.at = "lite"]
  <1>1. x \in Work /\ x.op = "count" /\ work' = [work EXCEPT ![w] = x]
    BY DEF PgStatsFail, Idle, Work, Statuses
  <1> HIDE DEF x
  <1>2. StepTo(w, x)
    BY <1>1, Quietly DEF PgStatsFail, IInv, TypeOK, DecisionsAreAveraged
  <1> QED BY <1>1, <1>2, StepOK

LEMMA FailuresStep ==
  ASSUME IInv, NEW w \in Workers, LiteFails(w) \/ LiteStatsFail(w)
  PROVE  IInv'
  <1>1. stats \in Stats /\ DecisionsAreAveraged
    BY DEF IInv, TypeOK
  <1>2. CASE LiteFails(w)
    BY <1>1, <1>2, IdleStep DEF LiteFails, DecisionsAreAveraged
  <1>3. CASE LiteStatsFail(w)
    <2>1. stats' \in Stats /\ DecisionsAreAveraged'
      BY <1>3 DEF LiteStatsFail, NoStats, Stats, DecisionsAreAveraged
    <2> QED BY <1>3, <2>1, IdleStep DEF LiteStatsFail
  <1> QED BY <1>2, <1>3

LEMMA ClockStep ==
  ASSUME IInv, now' \in 0..MaxSlot, UNCHANGED <<pg, lite, filed, acked, work, stats>>
  PROVE  IInv'
  BY DEF IInv, TypeOK, DecisionsAreAveraged, FiledOnce, WorkInv, RefInv, StoreOf

LEMMA InitStep == Init => IInv
  BY RedressAssumption, IdleOK, NoRowOK
  DEF Init, IInv, TypeOK, DecisionsAreAveraged, FiledOnce, WorkInv, RefInv, NoStats, Stats, Terminal

LEMMA NextStep == IInv /\ [Next]_vars => IInv'
  <1> SUFFICES ASSUME IInv, [Next]_vars PROVE IInv'
    OBVIOUS
  <1>1. CASE Tick
    <2>1. now' \in 0..MaxSlot
      BY <1>1, RedressAssumption DEF Tick, IInv, TypeOK
    <2> QED BY <1>1, <2>1, ClockStep DEF Tick
  <1>2. CASE UNCHANGED vars
    BY <1>2, ClockStep DEF vars, IInv, TypeOK
  <1>3. ASSUME NEW w \in Workers,
               \/ PgWrites(w) \/ PgFails(w) \/ LiteWrites(w) \/ LiteFails(w)
               \/ GetStats(w) \/ CountByStatus(w) \/ Average(w) \/ PgStatsFail(w) \/ LiteStatsFail(w)
        PROVE  IInv'
    BY <1>3, AnswerStep, PgFailsStep, FailuresStep, GetStatsStep, CountStep, AverageStep, PgStatsFailStep
  <1> QED BY <1>1, <1>2, <1>3, FileStep, ResolveStep DEF Next

\* The inductive invariant holds of every behaviour of the handlers.
THEOREM Invariance == Spec => []IInv
  BY InitStep, NextStep, PTL DEF Spec

\* The declared types hold in every reachable state; the due dates stay within
\* the bound declared for them.
THEOREM TypeCorrect == Spec => []TypeOK
  <1>1. IInv => TypeOK
    BY DEF IInv
  <1> QED BY <1>1, Invariance, PTL

\* Statistics that count a decision average it too, however the two queries
\* interleave with decisions being made and taken back.
THEOREM DecidedIsAveraged == Spec => []DecisionsAreAveraged
  <1>1. IInv => DecisionsAreAveraged
    BY DEF IInv
  <1> QED BY <1>1, Invariance, PTL

----------------------------------------------------------------------------
(* The dates visitors are given.                                           *)

LEMMA TheDateGiven ==
  ASSUME IInv, NEW r \in Refs, acked[r] # NotFiled
  PROVE  /\ filed[r] \in 0..MaxSlot
         /\ acked[r] = AddBusinessDays(filed[r], SLA_BUSINESS_DAYS)
  BY DEF IInv, TypeOK, RefInv

\* The due date of a request is a business day, at the time of day it was
\* filed, with exactly SLA_BUSINESS_DAYS business days in between.
THEOREM DatesAreBusinessDays == Spec => []SlaIsBusinessDays
  <1>1. IInv => SlaIsBusinessDays
    <2> SUFFICES ASSUME IInv, NEW r \in Refs, acked[r] # NotFiled
                 PROVE  /\ Business(Day(acked[r]))
                        /\ acked[r] % SlotsPerDay = filed[r] % SlotsPerDay
                        /\ BusinessDays(Day(filed[r]) + 1, Day(acked[r])) = SLA_BUSINESS_DAYS
      BY DEF SlaIsBusinessDays
    <2>1. filed[r] \in Nat /\ SLA_BUSINESS_DAYS \in Nat /\ SLA_BUSINESS_DAYS > 0
      BY TheDateGiven, RedressAssumption
    <2>2. Dated(SLA_BUSINESS_DAYS, filed[r])
      BY <2>1, LoopReturns
    <2> QED BY <2>1, <2>2, TheDateGiven DEF Dated, AddBusinessDays, BusinessDays, WorkingDays
  <1> QED BY <1>1, Invariance, PTL

LEMMA SlotOrder ==
  ASSUME NEW a \in Nat, NEW b \in Nat, a < b
  PROVE  /\ Day(a) <= Day(b)
         /\ Day(a) = Day(b) => a % SlotsPerDay < b % SlotsPerDay
  <1>1. /\ Day(a) \in Nat /\ Day(b) \in Nat /\ a % SlotsPerDay \in Nat /\ b % SlotsPerDay \in Nat
        /\ a = SlotsPerDay * Day(a) + (a % SlotsPerDay) /\ b = SlotsPerDay * Day(b) + (b % SlotsPerDay)
        /\ b % SlotsPerDay < SlotsPerDay
    BY ADayLater
  <1>2. \A c, d \in Nat : c > d => SlotsPerDay * c >= SlotsPerDay * d + SlotsPerDay
    BY RedressAssumption
  <1>3. SlotsPerDay * Day(a) \in Nat /\ SlotsPerDay * Day(b) \in Nat
    BY <1>1, RedressAssumption
  <1>4. Day(a) <= Day(b)
    <2>1. ASSUME Day(a) > Day(b) PROVE FALSE
      <3>1. SlotsPerDay * Day(a) >= SlotsPerDay * Day(b) + SlotsPerDay
        BY <1>1, <1>2, <2>1
      <3> QED BY <1>1, <1>3, <3>1, RedressAssumption
    <2> QED BY <1>1, <2>1
  <1> QED BY <1>1, <1>3, <1>4

\* Who files later and is due sooner has filed on the weekend.
LEMMA Overtaking ==
  ASSUME NEW n \in Nat \ {0}, NEW s \in Nat, NEW t \in Nat, s < t,
         AddBusinessDays(t, n) < AddBusinessDays(s, n)
  PROVE  /\ Weekday(Day(t)) \in 5..6 /\ Day(t) - Day(s) \in 1..2
         /\ t % SlotsPerDay < s % SlotsPerDay
  <1> DEFINE p == AddBusinessDays(s, n)
             q == AddBusinessDays(t, n)
             P == WorkingDays(Day(s) + 1, Day(p))
             Q == WorkingDays(Day(t) + 1, Day(q))
  <1>1. /\ p \in Nat /\ Business(Day(p)) /\ Day(p) > Day(s) /\ p % SlotsPerDay = s % SlotsPerDay
        /\ IsFiniteSet(P) /\ Cardinality(P) = n
        /\ q \in Nat /\ Business(Day(q)) /\ Day(q) > Day(t) /\ q % SlotsPerDay = t % SlotsPerDay
        /\ IsFiniteSet(Q) /\ Cardinality(Q) = n
    <2>1. Dated(n, s) /\ Dated(n, t) /\ n > 0
      BY LoopReturns
    <2> QED BY <2>1 DEF Dated, AddBusinessDays
  <1>2. Day(s) \in Nat /\ Day(t) \in Nat /\ Day(p) \in Nat /\ Day(q) \in Nat
        /\ s % SlotsPerDay \in Nat /\ t % SlotsPerDay \in Nat
    BY <1>1, ADayLater
  <1> HIDE DEF p, q
  <1>3. Day(s) <= Day(t) /\ Day(q) <= Day(p)
    BY <1>1, SlotOrder DEF p, q
  <1>4. P = Q
    <2>1. Q \subseteq P
      BY <1>2, <1>3 DEF WorkingDays
    <2> HIDE DEF P, Q
    <2>2. P \ Q = {}
      <3>1. ASSUME NEW x \in P \ Q PROVE FALSE
        <4>1. IsFiniteSet(P \ {x}) /\ Cardinality(P \ {x}) = Cardinality(P) - 1
          BY <1>1, FS_RemoveElement
        <4>2. Q \subseteq P \ {x}
          BY <2>1, <3>1
        <4>3. Cardinality(Q) <= Cardinality(P \ {x})
          BY <4>1, <4>2, FS_Subset
        <4> QED BY <1>1, <4>1, <4>3
      <3> QED BY <3>1
    <2> QED BY <2>1, <2>2
  <1>5. Day(p) = Day(q)
    <2>1. Day(p) \in P
      BY <1>1, <1>2 DEF WorkingDays
    <2>2. Day(p) <= Day(q)
      BY <2>1, <1>2, <1>4 DEF WorkingDays
    <2> QED BY <2>2, <1>2, <1>3
  <1>6. t % SlotsPerDay < s % SlotsPerDay
    BY <1>1, <1>5, SlotOrder DEF p, q
  <1>7. Day(t) > Day(s)
    BY <1>2, <1>3, <1>6, SlotOrder
  <1>8. ASSUME NEW d \in Nat, Day(s) < d, d <= Day(t) PROVE ~Business(d)
    <2>1. d \notin Q
      BY <1>2, <1>8 DEF WorkingDays
    <2>2. d \in (Day(s) + 1)..Day(p)
      BY <1>1, <1>2, <1>5, <1>8
    <2> QED BY <2>1, <2>2, <1>4 DEF WorkingDays
  <1>9. ~Business(Day(t))
    BY <1>2, <1>7, <1>8
  <1>10. Day(t) - Day(s) <= 2
    <2> SUFFICES ASSUME Day(t) - Day(s) > 2 PROVE FALSE
      BY <1>2
    <2>1. /\ Day(t) - 1 \in Nat /\ Day(s) < Day(t) - 1 /\ Day(t) - 1 <= Day(t)
          /\ Day(t) - 2 \in Nat /\ Day(s) < Day(t) - 2 /\ Day(t) - 2 <= Day(t)
      BY <1>2
    <2>2. ~Business(Day(t) - 1) /\ ~Business(Day(t) - 2)
      BY <1>8, <2>1
    <2>3. \A d \in Nat : Business(d) \/ Business(d + 1) \/ Business(d + 2)
      BY RedressAssumption DEF Business, Weekday
    <2>4. (Day(t) - 2) + 1 = Day(t) - 1 /\ (Day(t) - 2) + 2 = Day(t)
      BY <1>2
    <2> QED BY <2>1, <2>2, <2>3, <2>4, <1>9
  <1>11. Weekday(Day(t)) \in 5..6
    BY <1>2, <1>9, RedressAssumption DEF Business, Weekday
  <1> QED BY <1>2, <1>6, <1>7, <1>10, <1>11

\* The queue of the soonest due is first come, first served, except that a
\* request filed on the weekend may pass one filed just before, later in the day.
THEOREM FirstComeFirstServed == Spec => []OvertakenOnlyOnTheWeekend
  <1>1. IInv => OvertakenOnlyOnTheWeekend
    <2> SUFFICES ASSUME IInv, NEW r \in Refs, NEW t \in 0..MaxSlot, acked[r] # NotFiled,
                        filed[r] < t, AddBusinessDays(t, SLA_BUSINESS_DAYS) < acked[r]
                 PROVE  /\ Weekday(Day(t)) \in 5..6 /\ Day(t) - Day(filed[r]) \in 1..2
                        /\ t % SlotsPerDay < filed[r] % SlotsPerDay
      BY DEF OvertakenOnlyOnTheWeekend
    <2>1. filed[r] \in Nat /\ t \in Nat /\ SLA_BUSINESS_DAYS \in Nat \ {0}
      BY TheDateGiven, RedressAssumption
    <2> QED BY <2>1, TheDateGiven, Overtaking
  <1> QED BY <1>1, Invariance, PTL

----------------------------------------------------------------------------
(* The two stores implement Ledger.                                        *)

StoreNamed(s) == IF s = "pg" THEN pg ELSE lite
TriesOf == [r \in Refs |-> IF filed[r] = NotFiled THEN 0 ELSE 1]
CopiesOf == [s \in {"pg", "lite"} |-> [r \in Refs |-> IF Kept(StoreNamed(s), r) THEN 1 ELSE 0]]
Acked == {r \in Refs : acked[r] # NotFiled}

\* A decision neither makes nor unmakes the copy of a request.
LEMMA DecisionsKeep ==
  ASSUME IInv, NEW x, x.op # "file", Grows(pg, pg', x), Grows(lite, lite', x),
         filed' = filed, acked' = acked
  PROVE  UNCHANGED <<TriesOf, CopiesOf, Acked>>
  <1>1. TriesOf' = TriesOf /\ Acked' = Acked
    BY DEF TriesOf, Acked
  <1>2. ASSUME NEW r \in Refs PROVE Kept(pg, r)' = Kept(pg, r) /\ Kept(lite, r)' = Kept(lite, r)
    BY DEF Grows, Kept
  <1>3. CopiesOf' = CopiesOf
    BY <1>2, Zenon DEF CopiesOf, StoreNamed
  <1> QED BY <1>1, <1>3

\* The filed request is recorded in the store that is written, no other.
LEMMA FilingRecords ==
  ASSUME IInv, NEW w \in Workers, Writing(w), work[w].op = "file", filed' = filed,
         pg' = IF work[w].at = "pg" THEN Written(pg, work[w]) ELSE pg,
         lite' = IF work[w].at = "lite" THEN Written(lite, work[w]) ELSE lite,
         acked' \in {acked, [acked EXCEPT ![work[w].ref] = work[w].due]}
  PROVE  \E r \in Refs, s \in {"pg", "lite"} : Promise!Record(r, s)
  <1> DEFINE x == work[w]
  <1> PICK r, s, due : r = work[w].ref /\ s = work[w].at /\ due = work[w].due
    OBVIOUS
  <1>0. s \in {"pg", "lite"} /\ (s = "pg" => lite' = lite) /\ (s = "lite" => pg' = pg)
    BY DEF IInv, TypeOK, Work
  <1>1. /\ r \in Refs /\ due \in Dues /\ due # NotFiled /\ acked[r] = NotFiled
        /\ lite[r] = NoRow /\ (s = "pg" => pg[r] = NoRow) /\ filed[r] # NotFiled
        /\ pg[r] # NoRow => pg[r].due = due
    <2>1. \A d \in Dues : d # NotFiled
      BY NoRowOK, RedressAssumption DEF Dues
    <2> QED BY <2>1, Writes DEF IInv, WorkInv
  <1>2. /\ s = "pg" => pg'[r] # NoRow /\ pg'[r].due = due
        /\ s = "lite" => lite'[r] # NoRow /\ lite'[r].due = due
        /\ Grows(pg, pg', x) /\ Grows(lite, lite', x)
    BY Writes, SameStores
  <1>3. acked \in [Refs -> Dues \cup {NotFiled}]
    BY DEF IInv, TypeOK
  <1> HIDE DEF x
  <1>4. acked'[r] \in {NotFiled, due} /\ \A q \in Refs \ {r} : acked'[q] = acked[q]
    BY <1>1, <1>3 DEF x
  <1>5. ASSUME NEW q \in Refs \ {r}
        PROVE  Kept(pg, q)' = Kept(pg, q) /\ Kept(lite, q)' = Kept(lite, q)
    BY <1>2, <1>4 DEF Grows, Kept, x
  <1>6. /\ s = "pg" => Kept(pg, r)' /\ ~Kept(pg, r) /\ ~Kept(lite, r)' /\ ~Kept(lite, r)
        /\ s = "lite" => Kept(lite, r)' /\ ~Kept(lite, r) /\ Kept(pg, r)' = Kept(pg, r)
    <2>1. CASE s = "pg"
      BY <2>1, <1>0, <1>1, <1>2, <1>4 DEF Kept
    <2>2. CASE s = "lite"
      BY <2>2, <1>0, <1>1, <1>2, <1>4 DEF Kept
    <2> QED BY <1>0, <2>1, <2>2
  <1>7. TriesOf' = TriesOf /\ CopiesOf[s][r] = 0 /\ TriesOf[r] = 1
    <2>1. ~Kept(StoreNamed(s), r)
      BY <1>0, <1>6 DEF StoreNamed, Kept
    <2> QED BY <2>1, <1>0, <1>1 DEF TriesOf, CopiesOf
  <1>8. CopiesOf' = [CopiesOf EXCEPT ![s][r] = @ + 1]
    <2>1. ASSUME NEW t \in {"pg", "lite"}, NEW q \in Refs
          PROVE  CopiesOf'[t][q] = IF t = s /\ q = r THEN CopiesOf[t][q] + 1 ELSE CopiesOf[t][q]
      <3>1. CopiesOf[t][q] = (IF Kept(StoreNamed(t), q) THEN 1 ELSE 0)
            /\ CopiesOf'[t][q] = (IF Kept(StoreNamed(t), q)' THEN 1 ELSE 0)
        BY DEF CopiesOf
      <3>0. /\ Kept(StoreNamed(t), q) = IF t = "pg" THEN Kept(pg, q) ELSE Kept(lite, q)
            /\ Kept(StoreNamed(t), q)' = IF t = "pg" THEN Kept(pg, q)' ELSE Kept(lite, q)'
        BY DEF StoreNamed, Kept
      <3>2. CASE q # r
        BY <3>0, <3>1, <3>2, <1>5
      <3>3. CASE q = r /\ t = s
        BY <3>0, <3>1, <3>3, <1>6
      <3>4. CASE q = r /\ t # s
        BY <3>0, <3>1, <3>4, <1>0, <1>6
      <3> QED BY <3>2, <3>3, <3>4
    <2>2. /\ CopiesOf' = [t \in {"pg", "lite"} |-> CopiesOf'[t]]
          /\ \A t \in {"pg", "lite"} : /\ CopiesOf[t] = [q \in Refs |-> CopiesOf[t][q]]
                                       /\ CopiesOf'[t] = [q \in Refs |-> CopiesOf'[t][q]]
          /\ CopiesOf = [t \in {"pg", "lite"} |-> CopiesOf[t]]
      BY DEF CopiesOf
    <2> HIDE DEF CopiesOf
    <2> QED BY <1>0, <1>1, <2>1, <2>2
  <1>9. Acked' \in {Acked, Acked \cup {r}}
    <2>1. CASE acked' = acked
      BY <2>1 DEF Acked
    <2>2. CASE acked' # acked
      <3>1. acked'[r] = due
        BY <2>2, <1>1, <1>3 DEF x
      <3> QED BY <3>1, <1>1, <1>4 DEF Acked
    <2> QED BY <2>1, <2>2
  <1>10. Promise!Record(r, s)
    BY <1>0, <1>7, <1>8, <1>9 DEF Promise!Record, Promise!Recorded, TriesOf, CopiesOf, Acked, StoreNamed
  <1> QED BY <1>0, <1>1, <1>10

\* A visitor who was given a reference and a date has a row with that date in
\* one of the stores, and filing leaves at most one row in each, whatever
\* fails and whoever decides meanwhile.
THEOREM Refinement == Spec => ImplementsLedger
  <1>1. Init => Promise!Init
    <2> SUFFICES ASSUME Init PROVE Promise!Init
      OBVIOUS
    <2>1. TriesOf = [r \in Refs |-> 0] /\ Acked = {}
      BY DEF Init, TriesOf, Acked
    <2>2. CopiesOf = [s \in {"pg", "lite"} |-> [r \in Refs |-> 0]]
      BY DEF Init, CopiesOf, StoreNamed, Kept
    <2> QED BY <2>1, <2>2 DEF Promise!Init, TriesOf, CopiesOf, Acked, StoreNamed
  <1>2. IInv /\ [Next]_vars => [Promise!Next]_(Promise!lvars)
    <2> SUFFICES ASSUME IInv, [Next]_vars PROVE Promise!Next \/ UNCHANGED Promise!lvars
      OBVIOUS
    <2>0. UNCHANGED <<TriesOf, CopiesOf, Acked>> => UNCHANGED Promise!lvars
      BY DEF Promise!lvars, TriesOf, CopiesOf, Acked, StoreNamed
    <2>1. ASSUME NEW w \in Workers, NEW r \in Refs, File(w, r) PROVE Promise!Next
      <3>1. filed' = [filed EXCEPT ![r] = now] /\ filed[r] = NotFiled /\ now # NotFiled
        BY <2>1, RedressAssumption DEF File, IInv, TypeOK
      <3>2. TriesOf' = [TriesOf EXCEPT ![r] = @ + 1]
        <4>1. \A q \in Refs : filed'[q] = IF q = r THEN now ELSE filed[q]
          BY <3>1 DEF IInv, TypeOK
        <4>2. \A q \in Refs : TriesOf'[q] = IF q = r THEN 1 ELSE TriesOf[q]
          BY <3>1, <4>1 DEF TriesOf
        <4>3. TriesOf[r] = 0 /\ TriesOf' = [q \in Refs |-> TriesOf'[q]] /\ TriesOf = [q \in Refs |-> TriesOf[q]]
          BY <3>1 DEF TriesOf
        <4> HIDE DEF TriesOf
        <4> QED BY <4>2, <4>3
      <3>3. CopiesOf' = CopiesOf /\ Acked' = Acked
        BY <2>1 DEF File, CopiesOf, Acked, StoreNamed, Kept
      <3>4. Promise!Submit(r)
        BY <3>2, <3>3 DEF Promise!Submit, TriesOf, CopiesOf, Acked, StoreNamed
      <3> QED BY <3>4 DEF Promise!Next
    <2>2. ASSUME NEW w \in Workers, PgWrites(w) \/ PgFails(w) \/ LiteWrites(w)
          PROVE  Promise!Next \/ UNCHANGED Promise!lvars
      <3> DEFINE x == work[w]
      <3>1. Writing(w) /\ x.op \in {"file", "update"} /\ x.at \in {"pg", "lite"} /\ filed' = filed
        BY <2>2, Writes DEF PgWrites, PgFails, LiteWrites, Answers
      <3>2. CASE UNCHANGED <<pg, lite, acked>>
        BY <2>0, <3>1, <3>2 DEF TriesOf, CopiesOf, Acked, StoreNamed, Kept
      <3>3. CASE x.op = "update"
        <4>1. Grows(pg, pg', x) /\ Grows(lite, lite', x) /\ acked' = acked
          BY <2>2, <3>1, <3>3, Writes, SameStores DEF PgWrites, PgFails, LiteWrites, Answers
        <4> HIDE DEF x
        <4> QED BY <2>0, <3>1, <3>3, <4>1, DecisionsKeep
      <3>4. CASE x.op = "file" /\ ~UNCHANGED <<pg, lite, acked>>
        <4>1. /\ pg' = IF x.at = "pg" THEN Written(pg, x) ELSE pg
              /\ lite' = IF x.at = "lite" THEN Written(lite, x) ELSE lite
              /\ acked' \in {acked, [acked EXCEPT ![x.ref] = x.due]}
          BY <2>2, <3>4 DEF PgWrites, PgFails, LiteWrites, Answers
        <4>2. \E r \in Refs, s \in {"pg", "lite"} : Promise!Record(r, s)
          BY <3>1, <3>4, <4>1, FilingRecords
        <4> QED BY <4>2 DEF Promise!Next
      <3> QED BY <3>1, <3>2, <3>3, <3>4
    <2>3. ASSUME NEW w \in Workers,
                 \/ LiteFails(w) \/ GetStats(w) \/ CountByStatus(w) \/ Average(w)
                 \/ PgStatsFail(w) \/ LiteStatsFail(w)
                 \/ \E r \in Refs, s \in Decisions : Resolve(w, r, s)
          PROVE  UNCHANGED <<pg, lite, acked, filed>>
      BY <2>3 DEF LiteFails, GetStats, CountByStatus, Average, PgStatsFail, LiteStatsFail, Resolve
    <2>4. CASE UNCHANGED <<pg, lite, acked, filed>>
      BY <2>0, <2>4 DEF TriesOf, CopiesOf, Acked, StoreNamed, Kept
    <2>5. Tick \/ UNCHANGED vars => UNCHANGED <<pg, lite, acked, filed>>
      BY DEF Tick, vars
    <2> QED BY <2>1, <2>2, <2>3, <2>4, <2>5 DEF Next
  <1> QED BY <1>1, <1>2, Invariance, PTL DEF Spec, ImplementsLedger, Promise!Spec
=============================================================================
