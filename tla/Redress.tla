------------------------------ MODULE Redress ------------------------------
(***************************************************************************)
(* Redress requests against AI decisions: redress_store.py, filed by       *)
(* public_routes.py public_redress_request and decided by internal_routes  *)
(* .py internal_redress_resolve.                                           *)
(*                                                                         *)
(* A request tries Postgres and, on any exception, the SQLite file; an     *)
(* exception from the commit may come after the rows have changed.  Every  *)
(* statement is one step, those of other workers in between.               *)
(***************************************************************************)
EXTENDS Integers, FiniteSets

CONSTANTS Workers, Refs,
          Decisions,           \* the statuses reviewers ask for
          SLA_BUSINESS_DAYS,
          SlotsPerDay, FirstWeekday, MaxSlot,  \* bound: the clock; 0 is a Monday
          NotFiled, NoRef

Statuses == {"pending", "under_review", "resolved", "denied"}
Terminal == {"resolved", "denied"}

ASSUME RedressAssumption ==
  /\ Decisions \subseteq Statuses /\ NotFiled \notin Nat /\ NoRef \notin Refs
  /\ SLA_BUSINESS_DAYS \in Nat \ {0} /\ SlotsPerDay \in Nat \ {0}
  /\ FirstWeekday \in 0..6 /\ MaxSlot \in Nat

VARIABLES pg, lite,  \* redress_requests in the two stores
          filed,     \* when each reference was drawn
          acked,     \* the sla_due_at of the requests answered 201
          work,      \* the request each worker is serving
          stats,     \* the last statistics served
          now

vars == <<pg, lite, filed, acked, work, stats, now>>

Day(slot) == slot \div SlotsPerDay
Weekday(day) == (FirstWeekday + day) % 7
Business(day) == Weekday(day) < 5

\* _add_business_days: a day at a time, `left` business days to go at date d.
Pass(left, d) ==
  <<IF Business(Day(d + SlotsPerDay)) THEN left - 1 ELSE left, d + SlotsPerDay>>
after[p \in Nat \X Nat] == IF p[1] = 0 THEN p[2] ELSE after[Pass(p[1], p[2])]
AddBusinessDays_ThenSkip(start, n) ==
  start + SlotsPerDay * (n + (CASE Weekday(Day(start) + n) = 5 -> 2
                                [] Weekday(Day(start) + n) = 6 -> 1
                                [] OTHER -> 0))
AddBusinessDays(start, n) == after[<<n, start>>]

BusinessDays(first, last) == Cardinality({d \in first..last : Business(d)})
Dues == 0..(MaxSlot + (2 * SLA_BUSINESS_DAYS + 2) * SlotsPerDay)
Row == [status : Statuses, due : Dues, dated : BOOLEAN]
NoRow == [status |-> "pending", due |-> NotFiled, dated |-> FALSE]
Stored(store) == {r \in Refs : store[r] # NoRow}
Idle == [op |-> "idle", ref |-> NoRef, status |-> "pending", due |-> NotFiled, at |-> "pg", decided |-> FALSE]
Work == [op : {"idle", "file", "update", "count", "average"}, ref : Refs \cup {NoRef}, status : Statuses,
         due : Dues \cup {NotFiled}, at : {"pg", "lite"}, decided : BOOLEAN]

\* Of the statistics, whether they count a decision and give an average.
Stats == [decided : BOOLEAN, average : BOOLEAN]
NoStats == [decided |-> FALSE, average |-> FALSE]

Init ==
  /\ pg = [r \in Refs |-> NoRow] /\ lite = pg
  /\ filed = [r \in Refs |-> NotFiled] /\ acked = filed
  /\ work = [w \in Workers |-> Idle]
  /\ stats = NoStats /\ now = 0

----------------------------------------------------------------------------
\* uuid4 draws a new reference; store_redress_request computes the due date.
File(w, r) ==
  /\ work[w] = Idle /\ filed[r] = NotFiled
  /\ filed' = [filed EXCEPT ![r] = now]
  /\ work' = [work EXCEPT ![w] = [Idle EXCEPT !.op = "file", !.ref = r,
                                     !.due = AddBusinessDays(now, SLA_BUSINESS_DAYS)]]
  /\ UNCHANGED <<pg, lite, acked, stats, now>>

\* A reviewer names a reference and a status in STATUSES.
Resolve(w, r, s) ==
  /\ work[w] = Idle /\ filed[r] # NotFiled
  /\ work' = [work EXCEPT ![w] = [Idle EXCEPT !.op = "update", !.ref = r, !.status = s]]
  /\ UNCHANGED <<pg, lite, filed, acked, stats, now>>

\* The INSERT or the UPDATE of a request x.
Updated_DeniedUndated(store, x) ==
  IF store[x.ref] = NoRow THEN store
  ELSE [store EXCEPT ![x.ref].status = x.status, ![x.ref].dated = @ \/ x.status = "resolved"]
Updated_Upsert(store, x) ==
  [store EXCEPT ![x.ref].status = x.status, ![x.ref].dated = @ \/ x.status \in Terminal]
Updated(store, x) ==
  IF store[x.ref] = NoRow THEN store
  ELSE [store EXCEPT ![x.ref].status = x.status, ![x.ref].dated = @ \/ x.status \in Terminal]
Written(store, x) ==
  IF x.op = "file" THEN [store EXCEPT ![x.ref] = [status |-> "pending", due |-> x.due, dated |-> FALSE]]
  ELSE Updated(store, x)

\* 201 with the due date; what a reviewer is told, 200 or 404, is in no state.
Answers(w) ==
  LET x == work[w] IN
  /\ acked' = IF x.op = "file" THEN [acked EXCEPT ![x.ref] = x.due] ELSE acked
  /\ work' = [work EXCEPT ![w] = Idle]
  /\ UNCHANGED <<filed, stats, now>>

Writing(w) == work[w].op \in {"file", "update"}
PgWrites_NoCommit(w) ==
  /\ Writing(w) /\ work[w].at = "pg"
  /\ Answers(w) /\ UNCHANGED <<pg, lite>>
PgWrites(w) ==
  /\ Writing(w) /\ work[w].at = "pg"
  /\ pg' = Written(pg, work[w])
  /\ Answers(w) /\ UNCHANGED lite

\* Postgres is away, fails, or fails after it has committed.
PgFails(w) ==
  /\ Writing(w) /\ work[w].at = "pg"
  /\ pg' \in {pg, Written(pg, work[w])}
  /\ work' = [work EXCEPT ![w].at = "lite"]
  /\ UNCHANGED <<lite, filed, acked, stats, now>>
LiteWrites(w) ==
  /\ Writing(w) /\ work[w].at = "lite"
  /\ lite' = Written(lite, work[w])
  /\ Answers(w) /\ UNCHANGED pg

\* 502 or 500.
LiteFails(w) ==
  /\ Writing(w) /\ work[w].at = "lite"
  /\ work' = [work EXCEPT ![w] = Idle]
  /\ UNCHANGED <<pg, lite, filed, acked, stats, now>>

----------------------------------------------------------------------------
\* get_redress_stats: the requests by status, then the average time of those
\* with a resolved_at, on the same connection; from the start in SQLite if
\* Postgres fails.
GetStats(w) ==
  /\ work[w] = Idle
  /\ work' = [work EXCEPT ![w].op = "count"]
  /\ UNCHANGED <<pg, lite, filed, acked, stats, now>>
StoreOf(w) == IF work[w].at = "pg" THEN pg ELSE lite
CountByStatus(w) ==
  /\ work[w].op = "count"
  /\ work' = [work EXCEPT ![w].op = "average",
                ![w].decided = \E r \in Stored(StoreOf(w)) : StoreOf(w)[r].status \in Terminal]
  /\ UNCHANGED <<pg, lite, filed, acked, stats, now>>
Average(w) ==
  /\ work[w].op = "average"
  /\ stats' = [decided |-> work[w].decided,
               average |-> \E r \in Stored(StoreOf(w)) : StoreOf(w)[r].dated]
  /\ work' = [work EXCEPT ![w] = Idle]
  /\ UNCHANGED <<pg, lite, filed, acked, now>>
PgStatsFail(w) ==
  /\ work[w].op \in {"count", "average"} /\ work[w].at = "pg"
  /\ work' = [work EXCEPT ![w] = [Idle EXCEPT !.op = "count", !.at = "lite"]]
  /\ UNCHANGED <<pg, lite, filed, acked, stats, now>>

\* public_accountability shows zeros then.
LiteStatsFail(w) ==
  /\ work[w].op \in {"count", "average"} /\ work[w].at = "lite"
  /\ stats' = NoStats
  /\ work' = [work EXCEPT ![w] = Idle]
  /\ UNCHANGED <<pg, lite, filed, acked, now>>

Tick ==
  /\ now < MaxSlot /\ now' = now + 1
  /\ UNCHANGED <<pg, lite, filed, acked, work, stats>>

Next ==
  \/ \E w \in Workers, r \in Refs : File(w, r) \/ \E s \in Decisions : Resolve(w, r, s)
  \/ \E w \in Workers : PgWrites(w) \/ PgFails(w) \/ LiteWrites(w) \/ LiteFails(w)
                          \/ GetStats(w) \/ CountByStatus(w) \/ Average(w)
                          \/ PgStatsFail(w) \/ LiteStatsFail(w)
  \/ Tick

Spec == Init /\ [][Next]_vars

----------------------------------------------------------------------------
TypeOK ==
  /\ pg \in [Refs -> Row \cup {NoRow}] /\ lite \in [Refs -> Row \cup {NoRow}]
  /\ filed \in [Refs -> 0..MaxSlot \cup {NotFiled}]
  /\ acked \in [Refs -> Dues \cup {NotFiled}]
  /\ work \in [Workers -> Work]
  /\ stats \in Stats /\ now \in 0..MaxSlot

\* Statistics that count a decision give the average of avg_resolution_days:
\* whatever is decided, or taken back, between the two queries, and however
\* often, a decision keeps the resolved_at it is averaged by.
DecisionsAreAveraged == stats.decided => stats.average

\* SLA_BUSINESS_DAYS = 5: the date a visitor is given is a business day, with
\* exactly that many business days after the day of filing up to it.
SlaIsBusinessDays ==
  \A r \in Refs : acked[r] # NotFiled =>
    /\ Business(Day(acked[r])) /\ acked[r] % SlotsPerDay = filed[r] % SlotsPerDay
    /\ BusinessDays(Day(filed[r]) + 1, Day(acked[r])) = SLA_BUSINESS_DAYS

\* The queue is "soonest-SLA-due first".  That is first come, first served:
\* whoever files at a later time t is due before a request only if t is on
\* the weekend, at most two days later and earlier in the day.
OvertakenOnlyOnTheWeekend ==
  \A r \in Refs, t \in 0..MaxSlot :
    acked[r] # NotFiled /\ filed[r] < t /\ AddBusinessDays(t, SLA_BUSINESS_DAYS) < acked[r] =>
      /\ Weekday(Day(t)) \in 5..6 /\ Day(t) - Day(filed[r]) \in 1..2
      /\ t % SlotsPerDay < filed[r] % SlotsPerDay

\* A request has one submission: the two stores, with commits whose answer is
\* lost, implement Ledger.  Filing leaves at most one row in each store, and a
\* visitor who was given a reference and a date has a row with that date in one
\* of them, whatever failed and whoever decided meanwhile.
Kept(store, r) == store[r] # NoRow /\ acked[r] \in {NotFiled, store[r].due}
Promise == INSTANCE Ledger WITH
  Items <- Refs, Stores <- {"pg", "lite"},
  tries <- [r \in Refs |-> IF filed[r] = NotFiled THEN 0 ELSE 1],
  copies <- [s \in {"pg", "lite"} |->
               [r \in Refs |-> IF Kept(IF s = "pg" THEN pg ELSE lite, r) THEN 1 ELSE 0]],
  told <- {r \in Refs : acked[r] # NotFiled}
ImplementsLedger == Promise!Spec
============================================================================
