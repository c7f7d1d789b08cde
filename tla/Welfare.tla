------------------------------ MODULE Welfare ------------------------------
(***************************************************************************)
(* The public welfare grade: services/welfare_engine.py calculate_welfare  *)
(* and its readers in routes/welfare_routes.py (the summary, the badge and *)
(* the daily history), over the welfare events of one organisation.        *)
(*                                                                         *)
(* _fetch_welfare_rows has no ORDER BY: a read gets the rows of its window *)
(* in any order, or no rows at all when Postgres fails and the SQLite file *)
(* holds none.  Scores are in tenths of a point; one tick is a day.        *)
(***************************************************************************)
EXTENDS Integers, FiniteSets, FiniteSetsExt, Sequences, SequencesExt, Folds

CONSTANTS DIMENSIONS,
          Kinds,        \* events: metadata.dimension (or "none") and event_type
          Severities,
          WELFARE_MIN_EVENTS, WELFARE_MIN_DIMENSIONS, WELFARE_MIN_SPAN_DAYS,
          WindowDays,
          MaxDay, MaxEvents  \* bounds: clock and table size

SEVERITY_WEIGHTS == [info |-> 0, warning |-> 1, violation |-> 3, critical |-> 5]
max_weight == 5
\* The table, and after it one name for each way past it: a type that only begins
\* with that of a dimension, one that is a dimension's name, and no match.
TypeDimension ==
  [welfare_hours |-> "hours", welfare_tokens |-> "tokens", welfare_actions |-> "actions",
   welfare_stress |-> "stress", welfare_break_violated |-> "actions",
   welfare_break_honored |-> "actions",
   welfare_tokens_over |-> "tokens", stress |-> "stress",
   break_honored |-> "none", break_violated |-> "none", break_skipped |-> "none"]
BREAK_HONORED_TYPES == {"welfare_break_honored", "break_honored"}
BREAK_VIOLATED_TYPES == {"welfare_break_violated", "break_violated", "break_skipped"}

ASSUME WelfareAssumption ==
  /\ Kinds \subseteq [meta : DIMENSIONS \cup {"none"}, type : DOMAIN TypeDimension]
  /\ Severities \subseteq DOMAIN SEVERITY_WEIGHTS /\ "none" \notin DIMENSIONS
  /\ {WELFARE_MIN_EVENTS, WELFARE_MIN_DIMENSIONS, WELFARE_MIN_SPAN_DAYS,
      WindowDays, MaxDay, MaxEvents} \subseteq Nat

VARIABLES rows,    \* the organisation's welfare events, oldest first
          today,
          page     \* the response being served, until the table or the day moves on

vars == <<rows, today, page>>

Event == [kind : Kinds, sev : Severities, day : 0..MaxDay]

----------------------------------------------------------------------------
(* services/welfare_engine.py.                                             *)

\* metadata.dimension first, then the event type.
Dimension(e) == IF e.kind.meta # "none" THEN e.kind.meta ELSE TypeDimension[e.kind.type]
Penalty(e) == SEVERITY_WEIGHTS[e.sev]

Round(n, d) == (2 * n + d) \div (2 * d)
Rate_ViolationMax(weight, n) == Round(1000 * (3 * n - weight), 3 * n)
Rate(weight, n) == Round(1000 * (max_weight * n - weight), max_weight * n)
Thresholds == <<<<950, "A+">>, <<900, "A">>, <<850, "B+">>, <<800, "B">>, <<700, "C">>, <<600, "D">>>>
Grade(score) ==
  LET met == {i \in DOMAIN Thresholds : score >= Thresholds[i][1]}
  IN  IF met = {} THEN "F" ELSE Thresholds[Min(met)][2]

\* One event of the loop.  t.ewma is exact, over t.scale: with alpha 0.3,
\* every event but the first divides by ten once more.
EventScore(e) == (1000 \div max_weight) * (max_weight - Penalty(e))
Ewma_Sum(t, e) ==
  IF t.n = 0 THEN EventScore(e) ELSE 10 * EventScore(e) * t.scale + 7 * t.ewma
Ewma(t, e) ==
  IF t.n = 0 THEN EventScore(e) ELSE 3 * EventScore(e) * t.scale + 7 * t.ewma
Accumulate(t, e) ==
  [n |-> t.n + 1, weight |-> t.weight + Penalty(e),
   ewma |-> Ewma(t, e), scale |-> IF t.n = 0 THEN 1 ELSE 10 * t.scale,
   honored |-> t.honored + IF e.kind.type \in BREAK_HONORED_TYPES THEN 1 ELSE 0,
   breaks |-> t.breaks + IF e.kind.type \in BREAK_HONORED_TYPES \cup BREAK_VIOLATED_TYPES THEN 1 ELSE 0,
   dimWeight |-> [d \in DIMENSIONS |-> t.dimWeight[d] + IF d = Dimension(e) THEN Penalty(e) ELSE 0],
   dimCount |-> [d \in DIMENSIONS |-> t.dimCount[d] + IF d = Dimension(e) THEN 1 ELSE 0]]

\* The loop over the events at the positions S, in the order of the feed.
NoDims == [d \in DIMENSIONS |-> 0]
NoTally == [n |-> 0, weight |-> 0, ewma |-> 0, scale |-> 1, honored |-> 0, breaks |-> 0,
            dimWeight |-> NoDims, dimCount |-> NoDims]
Tally(events, S) ==
  MapThenFoldSet(LAMBDA e, t : Accumulate(t, e), NoTally,
                 LAMBDA i : events[i], LAMBDA U : Max(U), S)

NoScore == -1
Empty == [count |-> 0, overall_raw |-> NoScore, ewma_score |-> NoScore, grade |-> "PROVISIONAL",
          dims |-> [d \in DIMENSIONS |-> NoScore], break_honor_rate |-> NoScore, provisional |-> TRUE]
calculate_welfare(events, S, span) ==
  LET t == Tally(events, S)
      overall == Rate(t.weight, t.n)
      gated == ~ /\ t.n >= WELFARE_MIN_EVENTS
                 /\ Cardinality({d \in DIMENSIONS : t.dimCount[d] > 0}) >= WELFARE_MIN_DIMENSIONS
                 /\ span >= WELFARE_MIN_SPAN_DAYS
  IN  IF S = {} THEN Empty
      ELSE [count |-> t.n, overall_raw |-> overall, ewma_score |-> Round(t.ewma, t.scale),
            grade |-> IF gated THEN "PROVISIONAL" ELSE Grade(overall),
            dims |-> [d \in DIMENSIONS |-> IF t.dimCount[d] = 0 THEN NoScore
                                           ELSE Rate(t.dimWeight[d], t.dimCount[d])],
            break_honor_rate |-> IF t.breaks = 0 THEN NoScore ELSE Round(1000 * t.honored, t.breaks),
            provisional |-> gated]

----------------------------------------------------------------------------
(* routes/welfare_routes.py.                                               *)

Window == {i \in DOMAIN rows : rows[i].day >= today - WindowDays}
Orders == {[i \in DOMAIN p |-> rows[p[i]]] : p \in SetToSeqs(Window)}
Fetched == Orders \cup {<<>>}
SpanDays_Ends(events) ==
  IF events = <<>> THEN 0 ELSE Last(events).day - Head(events).day
SpanDays(events) ==
  IF events = <<>> THEN 0
  ELSE LET days == {events[i].day : i \in DOMAIN events} IN Max(days) - Min(days)

\* The summary, the totals of the history, and a day of it.
Summary(events) == calculate_welfare(events, DOMAIN events, SpanDays(events))
On(events, day) == {i \in DOMAIN events : events[i].day = day}
DayRecord(events, day) ==
  LET c == calculate_welfare(events, On(events, day), 0)
  IN  [date |-> day, event_count |-> c.count, overall_raw |-> c.overall_raw,
       grade |-> Grade(c.overall_raw), break_honor_rate |-> c.break_honor_rate]
DaysOf_Complete(events) == {d \in {events[i].day : i \in DOMAIN events} : d < today}
DaysOf(events) == {events[i].day : i \in DOMAIN events}
Series(events) == {DayRecord(events, d) : d \in DaysOf(events)}

\* The badge of a summary: a letter and a whole percent, or the word alone.
NoBadge == [grade |-> "PROVISIONAL", percent |-> NoScore]
Badge(c) ==
  IF c.provisional THEN NoBadge ELSE [grade |-> c.grade, percent |-> c.overall_raw \div 10]

Page(events, series, badge) ==
  [read |-> events, totals |-> Summary(events), series |-> series, badge |-> badge]
NoPage == Page(<<>>, {}, NoBadge)
Init == rows = <<>> /\ today = 0 /\ page = NoPage

EmitEvent(k, s) ==
  /\ Len(rows) < MaxEvents
  /\ rows' = Append(rows, [kind |-> k, sev |-> s, day |-> today])
  /\ page' = NoPage /\ UNCHANGED today
GetWelfare ==
  /\ \E events \in Fetched : page' = Page(events, {}, NoBadge)
  /\ UNCHANGED <<rows, today>>
WelfareBadge ==
  /\ \E events \in Fetched : page' = Page(events, {}, Badge(Summary(events)))
  /\ UNCHANGED <<rows, today>>
WelfareHistory ==
  /\ \E events \in Fetched : page' = Page(events, Series(events), NoBadge)
  /\ UNCHANGED <<rows, today>>
Tick ==
  /\ today < MaxDay /\ today' = today + 1
  /\ page' = NoPage /\ UNCHANGED rows

Next ==
  \/ \E k \in Kinds, s \in Severities : EmitEvent(k, s)
  \/ GetWelfare \/ WelfareBadge \/ WelfareHistory \/ Tick

Spec == Init /\ [][Next]_vars

----------------------------------------------------------------------------
Between(x, values) == Min(values) <= x /\ x <= Max(values)
Score == 0..1000 \cup {NoScore}
TypeOK ==
  /\ rows \in Seq(Event) /\ Len(rows) <= MaxEvents /\ today \in 0..MaxDay
  /\ page.read \in Seq(Event) /\ page.totals.count \in 0..MaxEvents
  /\ {page.totals.overall_raw, page.totals.ewma_score} \subseteq Score
  /\ page.totals.dims \in [DIMENSIONS -> Score] /\ page.totals.break_honor_rate \in Score
  /\ page.badge.percent \in 0..100 \cup {NoScore}
  /\ \A d \in page.series : d.overall_raw \in Score \ {NoScore} /\ d.event_count \in 1..MaxEvents

\* Whatever order the database returns the rows in, the grade, the gate, the
\* overall, the break rate and every dimension are those of any other order;
\* only ewma_score may differ.  A badge with a letter has passed the gate in
\* every order, and its whole percent earns the letter.
GradeIgnoresRowOrder ==
  page.read # <<>> =>
    \A events \in Orders :
      /\ [page.totals EXCEPT !.ewma_score = 0] = [Summary(events) EXCEPT !.ewma_score = 0]
      /\ page.badge # NoBadge =>
           ~Summary(events).provisional /\ Grade(10 * page.badge.percent) = page.badge.grade

\* The smoothed score stays between the worst and the best event of the feed,
\* whatever the order.
EwmaIsAnAverage ==
  page.read # <<>> =>
    Between(page.totals.ewma_score, {EventScore(page.read[i]) : i \in DOMAIN page.read})

\* History and totals tell one story: the days' counts add up to the totals,
\* and the window's score and break rate are between those of the worst and
\* the best day that has one.
DaysMakeUpTheTotals ==
  page.series # {} =>
    LET rates == {d.break_honor_rate : d \in page.series} \ {NoScore}
    IN  /\ MapThenSumSet(LAMBDA d : d.event_count, page.series) = page.totals.count
        /\ Between(page.totals.overall_raw, {d.overall_raw : d \in page.series})
        /\ IF rates = {} THEN page.totals.break_honor_rate = NoScore
           ELSE Between(page.totals.break_honor_rate, rates)
============================================================================
