------------------------------ MODULE Scoring ------------------------------
(***************************************************************************)
(* The public ethics score of one organisation (services/                  *)
(* scoring_engine.py) and the substance gate in front of it (routes/       *)
(* orgs_routes.py _tenant_stats, routes/tenant_portal_routes.py            *)
(* tp_dashboard), over a governance_events table that grows, ages and is   *)
(* corrected once by migrations/backfill_4138_bias_artifact.sql.           *)
(*                                                                         *)
(* Every page is made of two reads, each a statement of its own: the gate  *)
(* over the whole table, then the score over the last days, on a second    *)
(* connection or the same one; the portal's dashboard reads the events     *)
(* first and the gate afterwards.  A page shows several letters of that    *)
(* one score, and not all of them are behind the gate; the model follows   *)
(* one letter of each page, any of them.                                   *)
(* Scores are integers, in tenths of a point.                              *)
(***************************************************************************)
EXTENDS Integers, FiniteSets, FiniteSetsExt, Sequences, SequencesExt

CONSTANTS Pillars,         \* the ethics CATEGORIES
          Others,          \* valid categories that are no pillar: "welfare"
          Retirable,       \* the pillar the migration takes events from
          Severities,      \* some of the keys of Weight
          PillarMinEvents, MinEvents, MinCategories, MinSpanDays,
          WindowDays,      \* days of events a score is made of
          SlotsPerDay, MaxSlot, MaxEvents  \* bounds: clock and table size

Weight == [info |-> 0, warning |-> 1, violation |-> 3, critical |-> 5]
MaxWeight == 5

ASSUME ScoringAssumption ==
  /\ Severities \subseteq DOMAIN Weight /\ Retirable \in Pillars
  /\ Pillars \cap Others = {} /\ "retired" \notin Pillars \cup Others
  /\ {PillarMinEvents, MinEvents, MinCategories, MinSpanDays, WindowDays,
      SlotsPerDay} \subseteq Nat \ {0}
  /\ "overall" \notin Pillars /\ IsFiniteSet(Pillars)
  /\ MaxSlot \in Nat /\ MaxEvents \in Nat

VARIABLES rows,     \* the organisation's rows of governance_events, oldest first
          now,      \* the clock, in slots
          retired,  \* the migration has run
          page      \* the page being made, or the last one made

vars == <<rows, now, retired, page>>

Categories == Pillars \cup Others \cup {"retired"}
Event == [cat : Categories, sev : Severities, at : 0..MaxSlot]
Letters == {"A+", "A", "B+", "B", "C", "D", "F"}
\* What a letter is about, a pillar or all of them, and where it stands: the
\* "headline" of a page or of an answer is about the overall, a "badge" about
\* either; a "row" is a pillar's line on the public profile (org_profile.html:106),
\* an "entry" a pillar's record in by_category of org_scores.
Overview == "overall"
Places == {"headline", "badge", "row", "entry"}
Gated == {"headline", "badge"}
\* `thin`: the score read is itself marked provisional; `second`: the events
\* are read on a connection of their own.
Page == [at : {"gated", "scored", "shown"}, gate : BOOLEAN, second : BOOLEAN,
         what : Pillars \cup {Overview}, place : Places,
         grade : Letters \cup {"none", "PROVISIONAL"}, thin : BOOLEAN]
NoPage == [at |-> "shown", gate |-> FALSE, second |-> FALSE, what |-> Overview,
           place |-> "headline", grade |-> "none", thin |-> FALSE]

----------------------------------------------------------------------------
(* services/scoring_engine.py, on a set E of positions in the table.       *)

In(E, c) == {i \in E : rows[i].cat = c}
Weighted(E) ==
  LET n(s) == Cardinality({i \in E : rows[i].sev = s})
  IN  Weight.warning * n("warning") + Weight.violation * n("violation")
        + Weight.critical * n("critical")

\* round(x, 1) of n/d, in tenths.  A tie goes up: Python decides it by the
\* float next to it, and no property here depends on a tie.
Round(n, d) == (2 * n + d) \div (2 * d)

Thresholds == <<<<950, "A+">>, <<900, "A">>, <<850, "B+">>, <<800, "B">>, <<700, "C">>, <<600, "D">>>>
Grade(score) ==
  LET met == {i \in DOMAIN Thresholds : score >= Thresholds[i][1]}
  IN  IF met = {} THEN "F" ELSE Thresholds[Min(met)][2]

CategoryScore_Rate(E, c) ==
  LET n == Cardinality(In(E, c))
  IN  IF n = 0 THEN 1000 ELSE Round(1000 * Weighted(In(E, c)), MaxWeight * n)
CategoryScore_ViolationMax(E, c) ==
  LET n == Cardinality(In(E, c))
  IN  IF n = 0 THEN 1000
      ELSE Round(1000 * (Weight.violation * n - Weighted(In(E, c))), Weight.violation * n)
CategoryScore(E, c) ==
  LET n == Cardinality(In(E, c))
  IN  IF n = 0 THEN 1000 ELSE Round(1000 * (MaxWeight * n - Weighted(In(E, c))), MaxWeight * n)

Scored == Pillars
Qualified(E) == {c \in Scored : Cardinality(In(E, c)) >= PillarMinEvents}
Active(E) == {c \in Scored : In(E, c) # {}}
OverallProvisional(E) == Qualified(E) = {}
OverallCategories_Active(E) == Active(E)
OverallCategories(E) == IF OverallProvisional(E) THEN Active(E) ELSE Qualified(E)
cat_scores(E) == [c \in Scored |-> CategoryScore(E, c)]
Total(f, S) == MapThenSumSet(LAMBDA c : f[c], S)
Overall(E) ==
  LET cs == OverallCategories(E)
  IN  IF cs = {} THEN 1000 ELSE Round(Total(cat_scores(E), cs), Cardinality(cs))

----------------------------------------------------------------------------
(* The gate and the windows.                                               *)

AllTime == DOMAIN rows
CategoriesSeen == {rows[i].cat : i \in AllTime}
Span == IF rows = <<>> THEN 0 ELSE Last(rows).at - Head(rows).at
Provisional ==
  ~ /\ Len(rows) >= MinEvents
    /\ Cardinality(CategoriesSeen) >= MinCategories
    /\ Span >= MinSpanDays * SlotsPerDay
\* _get_recent_events leaves welfare out; the dashboard reads every row.
Recent == {i \in AllTime : rows[i].cat \notin Others /\ rows[i].at >= now - WindowDays * SlotsPerDay}
\* What the second connection finds when Postgres refuses it: the SQLite file
\* holds no event of an organisation in Postgres.
Fallback == {}

----------------------------------------------------------------------------
Init ==
  /\ rows = <<>> /\ now = 0 /\ retired = FALSE
  /\ page = NoPage

PostEvent(c, s) ==
  /\ Len(rows) < MaxEvents
  /\ rows' = Append(rows, [cat |-> c, sev |-> s, at |-> now])
  /\ UNCHANGED <<now, retired, page>>

\* The migration moves the events of one pillar that match its conditions.
Retire_Delete ==
  /\ ~retired /\ retired' = TRUE
  /\ \E E \in SUBSET In(AllTime, Retirable) :
       rows' = FoldFunction(LAMBDA e, t : <<e>> \o t, <<>>,
                            [i \in AllTime \ E |-> rows[i]])
  /\ UNCHANGED <<now, page>>
Retire ==
  /\ ~retired /\ retired' = TRUE
  /\ \E E \in SUBSET In(AllTime, Retirable) :
       rows' = [i \in AllTime |-> IF i \in E THEN [rows[i] EXCEPT !.cat = "retired"] ELSE rows[i]]
  /\ UNCHANGED <<now, page>>

\* What a score over E says: of the overall, or of one pillar.
Score(E, what) == IF what = Overview THEN Overall(E) ELSE CategoryScore(E, what)
Thin_OverallOnly(E, what) == OverallProvisional(E)
Thin(E, what) ==
  OverallProvisional(E) \/ (what # Overview /\ what \notin OverallCategories(E))
\* A headline or a badge says PROVISIONAL for a feed before the gate; a row of
\* the profile does for a pillar that its score marks so, and does not read the
\* gate; an entry has its letter always, with the mark beside it.
Withheld(E, what, place, gate) ==
  \/ place \in Gated /\ gate
  \/ place = "row" /\ Thin(E, what)
Letter(E, what, place, gate) ==
  IF Withheld(E, what, place, gate) THEN "PROVISIONAL" ELSE Grade(Score(E, what))

\* org_scores, list_orgs, directory_page, org_profile_page and get_tenant_badge
\* on two connections, internal_tenants on one: _tenant_stats first ...
ReadStats(second) ==
  /\ page.at = "shown"
  /\ page' = [NoPage EXCEPT !.at = "gated", !.gate = Provisional, !.second = second]
  /\ UNCHANGED <<rows, now, retired>>

\* ... then calculate_scores(_get_recent_events(30, tenant_id)), and a letter of
\* what it returns.  internal_tenants has a headline and nothing else.
ReadScores(what, place) ==
  /\ page.at = "gated" /\ (place = "headline" \/ page.second)
  /\ place = "headline" => what = Overview
  /\ place \in {"row", "entry"} => what # Overview
  /\ \E E \in {Recent} \cup (IF page.second THEN {Fallback} ELSE {}) :
       page' = [NoPage EXCEPT !.what = what, !.place = place,
                              !.grade = Letter(E, what, place, page.gate), !.thin = Thin(E, what)]
  /\ UNCHANGED <<rows, now, retired>>

\* tp_dashboard: the score of all events first, its own gate in a later
\* statement of the same transaction.
DashboardScore ==
  /\ page.at = "shown"
  /\ page' = [NoPage EXCEPT !.at = "scored", !.grade = Grade(Overall(AllTime)),
                            !.thin = OverallProvisional(AllTime)]
  /\ UNCHANGED <<rows, now, retired>>
DashboardGate ==
  /\ page.at = "scored"
  /\ page' = [NoPage EXCEPT !.grade = IF Provisional THEN "PROVISIONAL" ELSE page.grade,
                            !.thin = page.thin]
  /\ UNCHANGED <<rows, now, retired>>

Tick ==
  /\ now < MaxSlot
  /\ now' = now + 1
  /\ UNCHANGED <<rows, retired, page>>

Next ==
  \/ \E c \in Pillars \cup Others, s \in Severities : PostEvent(c, s)
  \/ \E second \in BOOLEAN : ReadStats(second)
  \/ \E what \in Pillars \cup {Overview}, place \in Places : ReadScores(what, place)
  \/ Retire \/ DashboardScore \/ DashboardGate \/ Tick

Spec == Init /\ [][Next]_vars

----------------------------------------------------------------------------
TypeOK ==
  /\ rows \in Seq(Event) /\ Len(rows) <= MaxEvents
  /\ now \in 0..MaxSlot /\ retired \in BOOLEAN
  /\ page \in Page
  /\ Overall(AllTime) \in 0..1000 /\ \A c \in Scored : CategoryScore(AllTime, c) \in 0..1000

\* "A 2-event pillar must neither tank nor inflate" the overall: a pillar
\* below the volume threshold has no influence on a non-provisional score,
\* whatever its events are.
ThinPillarsAreNeutral ==
  ~OverallProvisional(AllTime) =>
    Overall(AllTime) =
      Overall({i \in AllTime : Cardinality(In(AllTime, rows[i].cat)) >= PillarMinEvents})

\* A violation weighs: another critical event in a pillar never raises the
\* overall, as long as it does not change which pillars count.
CriticalNeverHelps ==
  [][\A c \in Pillars : PostEvent(c, "critical")
         /\ OverallCategories(AllTime)' = OverallCategories(AllTime) =>
       /\ CategoryScore(AllTime, c)' <= CategoryScore(AllTime, c)
       /\ Overall(AllTime)' <= Overall(AllTime)]_vars

Published == page.at = "shown" /\ page.grade \in Letters

\* No headline and no badge shows a letter over a feed without substance:
\* whether the gate was read before the score or after it, everything that
\* happens to the table since (more events, time, the migration) leaves the
\* feed past the gate.
GatedLettersHaveSubstance == Published /\ page.place \in Gated => ~Provisional

\* What a pillar has been reported: its events, those the migration took too.
EverOf(c) ==
  {i \in AllTime : rows[i].cat = c \/ (c = Retirable /\ rows[i].cat = "retired")}

\* A pillar's letter on the profile stands for a pillar with enough events of
\* its own, whichever other pillars have them, whatever store the events were
\* read from, and however little the organisation's gate has to say there.
RowLettersHaveVolume ==
  Published /\ page.place = "row" => Cardinality(EverOf(page.what)) >= PillarMinEvents

\* org_profile.html:91: "A grade is published once the feed has substance."  No
\* letter is shown before, unless it is marked provisional itself.
NoGradeBeforeSubstance == Published /\ ~page.thin => ~Provisional

\* scoring_engine.py: "a 50-event tenant must not display a confident grade".
\* Where the gate decides about a letter, it is only shown for a score that is
\* not itself provisional.
ConfidentMeansQualified == Published /\ page.place \in Gated => ~page.thin
============================================================================
