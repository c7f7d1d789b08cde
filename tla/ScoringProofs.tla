--------------------------- MODULE ScoringProofs ---------------------------
(***************************************************************************)
(* Machine-checked proofs about Scoring, for any pillars, thresholds,      *)
(* windows and bounds of clock and table: the ranges of the scores, what   *)
(* may move the overall and in which direction, that every letter behind   *)
(* the gate stands for a feed with substance, and every letter of a        *)
(* pillar's row for a pillar with enough events of its own.                *)
(***************************************************************************)
EXTENDS Scoring, FiniteSetTheorems, NaturalsInduction, TLAPS

----------------------------------------------------------------------------
(* Sums.  What MapThenSumSet computes recursively, from one choice after   *)
(* another, is the number of points under the function: that gives its     *)
(* bounds and its order without an induction for each.                     *)

LEMMA LeastNat ==
  ASSUME NEW T \in SUBSET Nat, T # {}
  PROVE  \E m \in T : \A k \in T : m <= k
  <1> DEFINE R == OpToRel(<, Nat)
  <1>1. IsWellFoundedOn(R, Nat)
    BY NatLessThanWellFounded
  <1>2. \A x, y \in Nat : <<y, x>> \in R <=> y < x
    BY DEF OpToRel
  <1> HIDE DEF R
  <1>3. \E x \in T : \A y \in T : ~ (<<y, x>> \in R)
    BY <1>1, WFMin
  <1>4. PICK x \in T : \A y \in T : ~(y < x)
    BY <1>2, <1>3
  <1>5. \A y \in T : x <= y
    BY <1>4
  <1> QED BY <1>5

Points(f, S) == UNION {{c} \X (1..f[c]) : c \in S}

LEMMA PointsAdd ==
  ASSUME NEW T, IsFiniteSet(T), NEW f \in [T -> Nat], NEW S \in SUBSET T, NEW c \in T \ S
  PROVE  /\ IsFiniteSet(Points(f, S)) => IsFiniteSet(Points(f, S \cup {c}))
         /\ IsFiniteSet(Points(f, S)) =>
              Cardinality(Points(f, S \cup {c})) = f[c] + Cardinality(Points(f, S))
  <1> SUFFICES ASSUME IsFiniteSet(Points(f, S))
               PROVE  /\ IsFiniteSet(Points(f, S \cup {c}))
                      /\ Cardinality(Points(f, S \cup {c})) = f[c] + Cardinality(Points(f, S))
    OBVIOUS
  <1> DEFINE A == Points(f, S)
             B == {c} \X (1..f[c])
  <1>1. Points(f, S \cup {c}) = A \cup B
    BY DEF Points
  <1>2. A \cap B = {}
    BY DEF Points
  <1>3. IsFiniteSet(1..f[c]) /\ Cardinality(1..f[c]) = f[c]
    BY FS_Interval
  <1>4. IsFiniteSet({c}) /\ Cardinality({c}) = 1
    BY FS_Singleton
  <1>5. IsFiniteSet(B) /\ Cardinality(B) = f[c]
    <2>1. IsFiniteSet(B) /\ Cardinality(B) = 1 * f[c]
      BY <1>3, <1>4, FS_Product
    <2>2. 1 * f[c] = f[c]
      OBVIOUS
    <2> QED BY <2>1, <2>2
  <1>6. Cardinality({}) = 0
    BY FS_EmptySet
  <1> HIDE DEF A, B
  <1>7. IsFiniteSet(A) /\ Cardinality(A) \in Nat
    BY FS_CardinalityType DEF A
  <1>8. IsFiniteSet(A \cup B) /\ Cardinality(A \cup B) = Cardinality(A) + Cardinality(B) - Cardinality(A \cap B)
    BY <1>5, <1>7, FS_Union
  <1>9. \A x, y \in Nat : x + y - 0 = y + x
    OBVIOUS
  <1>10. Cardinality(A \cup B) = f[c] + Cardinality(A)
    BY <1>2, <1>5, <1>6, <1>7, <1>8, <1>9
  <1> QED BY <1>1, <1>8, <1>10 DEF A

LEMMA PointsFinite ==
  ASSUME NEW T, IsFiniteSet(T), NEW f \in [T -> Nat], NEW S \in SUBSET T
  PROVE  IsFiniteSet(Points(f, S)) /\ Cardinality(Points(f, S)) \in Nat
  <1>1. \A U \in SUBSET T : IsFiniteSet(U) /\ Cardinality(U) \in Nat
    BY FS_Subset, FS_CardinalityType
  <1> DEFINE Bad == {U \in SUBSET T : ~IsFiniteSet(Points(f, U))}
             N == {Cardinality(U) : U \in Bad}
  <1>2. ASSUME Bad # {} PROVE FALSE
    <2>1. N \in SUBSET Nat /\ N # {}
      BY <1>1, <1>2
    <2>2. PICK k \in N : \A l \in N : k <= l
      <3> HIDE DEF N
      <3> QED BY <2>1, LeastNat
    <2>3. PICK U \in Bad : Cardinality(U) = k
      OBVIOUS
    <2>4. U # {}
      <3>1. Points(f, {}) = {}
        BY DEF Points
      <3> QED BY <3>1, <2>3, FS_EmptySet
    <2>5. PICK c \in U : TRUE
      BY <2>4
    <2>6. IsFiniteSet(U \ {c}) /\ Cardinality(U \ {c}) = Cardinality(U) - 1 /\ U \ {c} \in SUBSET T
      BY <1>1, <2>3, FS_RemoveElement
    <2>7. U \ {c} \notin Bad
      <3>1. Cardinality(U) \in Nat /\ ~(Cardinality(U) <= Cardinality(U) - 1)
        BY <1>1
      <3> QED BY <2>2, <2>3, <2>6, <3>1
    <2>8. IsFiniteSet(Points(f, U \ {c}))
      BY <2>6, <2>7
    <2>9. c \in T \ (U \ {c}) /\ (U \ {c}) \cup {c} = U
      BY <2>3, <2>5
    <2>10. IsFiniteSet(Points(f, U))
      <3>1. IsFiniteSet(Points(f, (U \ {c}) \cup {c}))
        BY <2>6, <2>8, <2>9, PointsAdd
      <3> QED BY <3>1, <2>9
    <2> QED BY <2>3, <2>10
  <1> QED BY <1>2, FS_CardinalityType

LEMMA TotalIsCount ==
  ASSUME NEW T, IsFiniteSet(T), NEW f \in [T -> Nat], NEW S \in SUBSET T
  PROVE  Total(f, S) = Cardinality(Points(f, S))
  <1> DEFINE pick(s) == CHOOSE x \in s : TRUE
             Body(g) == [s \in SUBSET S |-> IF s = {} THEN 0 ELSE f[pick(s)] + g[s \ {pick(s)}]]
             count == [s \in SUBSET S |-> Cardinality(Points(f, s))]
             iter == CHOOSE g : g = Body(g)
  <1>1. Total(f, S) = iter[S]
    BY DEF Total, MapThenSumSet, MapThenFoldSet
  <1>2. \A s \in SUBSET S : IsFiniteSet(s) /\ Cardinality(s) \in Nat /\ s \in SUBSET T
    BY FS_Subset, FS_CardinalityType
  <1>3. ASSUME NEW s \in SUBSET S PROVE count[s] = IF s = {} THEN 0 ELSE f[pick(s)] + count[s \ {pick(s)}]
    <2>1. CASE s = {}
      <3>1. Points(f, {}) = {}
        BY DEF Points
      <3> QED BY <2>1, <3>1, FS_EmptySet
    <2>2. CASE s # {}
      <3>1. pick(s) \in s
        BY <2>2
      <3> DEFINE c == pick(s)
      <3> HIDE DEF pick
      <3>2. c \in T \ (s \ {c}) /\ s \ {c} \in SUBSET T /\ (s \ {c}) \cup {c} = s /\ s \ {c} \in SUBSET S
        BY <3>1
      <3> HIDE DEF c
      <3>3. Cardinality(Points(f, (s \ {c}) \cup {c})) = f[c] + Cardinality(Points(f, s \ {c}))
        BY <3>2, PointsAdd, PointsFinite
      <3>4. count[s] = f[c] + count[s \ {c}]
        BY <3>2, <3>3
      <3> QED BY <2>2, <3>4 DEF c
    <2> QED BY <2>1, <2>2
  <1>4. count = Body(count)
    <2> HIDE DEF pick
    <2> QED BY <1>3
  <1>5. iter = Body(iter)
    <2>1. \E g : g = Body(g)
      <3> HIDE DEF Body
      <3> QED BY <1>4
    <2> HIDE DEF Body
    <2> QED BY <2>1
  <1> HIDE DEF iter, count
  <1>6. ASSUME NEW s \in SUBSET S PROVE iter[s] = IF s = {} THEN 0 ELSE f[pick(s)] + iter[s \ {pick(s)}]
    <2> HIDE DEF pick
    <2> QED BY <1>5
  <1> DEFINE Bad == {s \in SUBSET S : iter[s] # count[s]}
             N == {Cardinality(s) : s \in Bad}
  <1>7. ASSUME Bad # {} PROVE FALSE
    <2>1. N \in SUBSET Nat /\ N # {}
      BY <1>2, <1>7
    <2>2. PICK k \in N : \A l \in N : k <= l
      <3> HIDE DEF N
      <3> QED BY <2>1, LeastNat
    <2>3. PICK s \in Bad : Cardinality(s) = k
      OBVIOUS
    <2>4. s # {}
      BY <1>3, <1>6
    <2>5. pick(s) \in s
      BY <2>4
    <2> DEFINE c == pick(s)
    <2> HIDE DEF pick
    <2>6. Cardinality(s \ {c}) = Cardinality(s) - 1 /\ s \ {c} \in SUBSET S
      BY <1>2, <2>5, FS_RemoveElement
    <2>7. s \ {c} \in Bad
      BY <1>3, <1>6, <2>4, <2>6
    <2>8. k <= Cardinality(s) - 1 /\ Cardinality(s) \in Nat
      BY <1>2, <2>2, <2>6, <2>7
    <2> QED BY <2>3, <2>8
  <1>8. iter[S] = count[S]
    BY <1>7
  <1> QED BY <1>1, <1>8 DEF count

LEMMA TotalBounded ==
  ASSUME NEW T, IsFiniteSet(T), NEW f \in [T -> Nat], NEW S \in SUBSET T, NEW b \in Nat,
         \A c \in S : f[c] <= b
  PROVE  Total(f, S) \in Nat /\ Cardinality(S) \in Nat /\ Total(f, S) <= b * Cardinality(S)
  <1>1. IsFiniteSet(S) /\ Cardinality(S) \in Nat
    BY FS_Subset, FS_CardinalityType
  <1>2. Points(f, S) \in SUBSET (S \X (1..b))
    BY DEF Points
  <1>3. IsFiniteSet(1..b) /\ Cardinality(1..b) = b
    BY FS_Interval
  <1>4. IsFiniteSet(S \X (1..b)) /\ Cardinality(S \X (1..b)) = Cardinality(S) * b
    BY <1>1, <1>3, FS_Product
  <1>5. Cardinality(Points(f, S)) <= Cardinality(S) * b
    BY <1>2, <1>4, FS_Subset
  <1>6. \A m \in Nat : m * b = b * m
    OBVIOUS
  <1> QED BY <1>1, <1>5, <1>6, TotalIsCount, PointsFinite

LEMMA TotalMonotone ==
  ASSUME NEW T, IsFiniteSet(T), NEW f \in [T -> Nat], NEW g \in [T -> Nat], NEW S \in SUBSET T,
         \A c \in S : f[c] <= g[c]
  PROVE  Total(f, S) <= Total(g, S)
  <1>1. Points(f, S) \in SUBSET Points(g, S)
    <2>1. ASSUME NEW c \in S PROVE {c} \X (1..f[c]) \subseteq {c} \X (1..g[c])
      <3>1. f[c] \in Nat /\ g[c] \in Nat /\ f[c] <= g[c]
        OBVIOUS
      <3> QED BY <3>1
    <2> QED BY <2>1 DEF Points
  <1> QED BY <1>1, TotalIsCount, PointsFinite, FS_Subset

----------------------------------------------------------------------------
(* Rounding.                                                               *)

LEMMA Division ==
  ASSUME NEW x \in Nat, NEW y \in Nat \ {0}
  PROVE  /\ x \div y \in Nat
         /\ y * (x \div y) <= x /\ x < y * (x \div y) + y
  OBVIOUS

\* The average of scores is rounded to a score.
LEMMA RoundBounded ==
  ASSUME NEW a \in Nat, NEW n \in Nat \ {0}, a <= 1000 * n
  PROVE  Round(a, n) \in 0..1000
  <1> DEFINE q == Round(a, n)
  <1>1. q \in Nat /\ (2 * n) * q <= 2 * a + n
    <2>1. 2 * a + n \in Nat /\ 2 * n \in Nat \ {0}
      OBVIOUS
    <2> QED BY <2>1, Division DEF Round
  <1> HIDE DEF q
  <1>2. ASSUME q >= 1001 PROVE FALSE
    <2>1. \A u, v, w \in Nat : u <= v => w * u <= w * v
      OBVIOUS
    <2>2. (2 * n) * 1001 <= (2 * n) * q
      BY <2>1, <1>1, <1>2
    <2>3. (2 * n) * q \in Nat
      BY <1>1
    <2> QED BY <1>1, <2>2, <2>3
  <1>3. q \in Nat
    BY <1>1
  <1>4. q \in 0..1000
    BY <1>2, <1>3
  <1> QED BY <1>4 DEF q

LEMMA RoundMonotone ==
  ASSUME NEW a \in Nat, NEW b \in Nat, NEW n \in Nat \ {0}, a <= b
  PROVE  Round(a, n) <= Round(b, n)
  <1> DEFINE p == Round(a, n)
             q == Round(b, n)
  <1>1. /\ p \in Nat /\ (2 * n) * p <= 2 * a + n
        /\ q \in Nat /\ 2 * b + n < (2 * n) * q + 2 * n
    <2>1. 2 * a + n \in Nat /\ 2 * b + n \in Nat /\ 2 * n \in Nat \ {0}
      OBVIOUS
    <2> QED BY <2>1, Division DEF Round
  <1> HIDE DEF p, q
  <1>2. ASSUME p >= q + 1 PROVE FALSE
    <2>1. \A u, v, w \in Nat : u <= v => w * u <= w * v
      OBVIOUS
    <2>2. (2 * n) * (q + 1) <= (2 * n) * p
      BY <2>1, <1>1, <1>2
    <2>3. (2 * n) * (q + 1) = (2 * n) * q + 2 * n
      BY <1>1
    <2>4. (2 * n) * p \in Nat /\ (2 * n) * q \in Nat
      BY <1>1
    <2> QED BY <1>1, <2>2, <2>3, <2>4
  <1> QED BY <1>1, <1>2 DEF p, q

\* The same sum over more is no larger an average.
LEMMA RoundShrinks ==
  ASSUME NEW a \in Nat, NEW m \in Nat \ {0}, NEW n \in Nat \ {0}, m <= n
  PROVE  Round(a, n) <= Round(a, m)
  <1> DEFINE p == Round(a, n)
             q == Round(a, m)
  <1>1. /\ p \in Nat /\ (2 * n) * p <= 2 * a + n
        /\ q \in Nat /\ 2 * a + m < (2 * m) * q + 2 * m
    <2>1. 2 * a + n \in Nat /\ 2 * a + m \in Nat /\ 2 * n \in Nat \ {0} /\ 2 * m \in Nat \ {0}
      OBVIOUS
    <2> QED BY <2>1, Division DEF Round
  <1> HIDE DEF p, q
  <1>2. ASSUME p >= q + 1 PROVE FALSE
    <2>1. \A u, v, w \in Nat : u <= v => w * u <= w * v
      OBVIOUS
    <2>2. n * (2 * q + 1) <= n * (2 * p - 1)
      <3>1. 2 * q + 1 \in Nat /\ 2 * p - 1 \in Nat /\ 2 * q + 1 <= 2 * p - 1
        BY <1>1, <1>2
      <3> QED BY <2>1, <3>1
    <2>3. (2 * q + 1) * m <= (2 * q + 1) * n
      <3>1. 2 * q + 1 \in Nat
        BY <1>1
      <3> QED BY <2>1, <3>1
    <2>4. n * (2 * p - 1) = (2 * n) * p - n /\ n * (2 * q + 1) = (2 * q + 1) * n
      BY <1>1
    <2>5. (2 * q + 1) * m = (2 * m) * q + m
      BY <1>1
    <2>6. (2 * n) * p \in Nat /\ (2 * m) * q \in Nat /\ (2 * q + 1) * n \in Nat
      BY <1>1
    <2> QED BY <1>1, <2>2, <2>3, <2>4, <2>5, <2>6
  <1> QED BY <1>1, <1>2 DEF p, q

----------------------------------------------------------------------------
(* Scores.  The table is a parameter here, so that the same facts serve    *)
(* the table before a step and the one after it.                           *)

InAt(t, E, c) == {i \in E : t[i].cat = c}
SevAt(t, E, s) == {i \in E : t[i].sev = s}
WeightedAt(t, E) ==
  1 * Cardinality(SevAt(t, E, "warning")) + 3 * Cardinality(SevAt(t, E, "violation"))
    + 5 * Cardinality(SevAt(t, E, "critical"))
ScoreAt(t, E, c) ==
  IF Cardinality(InAt(t, E, c)) = 0 THEN 1000
  ELSE Round(1000 * (5 * Cardinality(InAt(t, E, c)) - WeightedAt(t, InAt(t, E, c))),
             5 * Cardinality(InAt(t, E, c)))
ScoresAt(t, E) == [c \in Pillars |-> ScoreAt(t, E, c)]
QualifiedAt(t, E) == {c \in Pillars : Cardinality(InAt(t, E, c)) >= PillarMinEvents}
ActiveAt(t, E) == {c \in Pillars : InAt(t, E, c) # {}}
CategoriesAt(t, E) == IF QualifiedAt(t, E) = {} THEN ActiveAt(t, E) ELSE QualifiedAt(t, E)
OverallAt(t, E) ==
  IF CategoriesAt(t, E) = {} THEN 1000
  ELSE Round(Total(ScoresAt(t, E), CategoriesAt(t, E)), Cardinality(CategoriesAt(t, E)))

LEMMA ModelScores ==
  ASSUME NEW E
  PROVE  /\ \A c : In(E, c) = InAt(rows, E, c)
         /\ \A c : CategoryScore(E, c) = ScoreAt(rows, E, c)
         /\ Qualified(E) = QualifiedAt(rows, E) /\ OverallCategories(E) = CategoriesAt(rows, E)
         /\ OverallProvisional(E) <=> QualifiedAt(rows, E) = {}
         /\ Overall(E) = OverallAt(rows, E)
  <1>1. \A c : In(E, c) = InAt(rows, E, c)
    BY DEF In, InAt
  <1>2. \A F : Weighted(F) = WeightedAt(rows, F)
    BY DEF Weighted, WeightedAt, SevAt, Weight
  <1>3. \A c : CategoryScore(E, c) = ScoreAt(rows, E, c)
    BY <1>1, <1>2 DEF CategoryScore, ScoreAt, MaxWeight
  <1>4. Qualified(E) = QualifiedAt(rows, E) /\ Active(E) = ActiveAt(rows, E)
    BY <1>1 DEF Qualified, QualifiedAt, Active, ActiveAt, Scored
  <1>5. OverallCategories(E) = CategoriesAt(rows, E) /\ (OverallProvisional(E) <=> QualifiedAt(rows, E) = {})
    BY <1>4 DEF OverallCategories, CategoriesAt, OverallProvisional
  <1>6. cat_scores(E) = ScoresAt(rows, E)
    BY <1>3 DEF ScoresAt, Scored, cat_scores
  <1>7. Overall(E) = IF CategoriesAt(rows, E) = {} THEN 1000
                     ELSE Round(Total(cat_scores(E), CategoriesAt(rows, E)),
                                Cardinality(CategoriesAt(rows, E)))
    BY <1>5 DEF Overall
  <1>8. Overall(E) = OverallAt(rows, E)
    BY <1>6, <1>7 DEF OverallAt
  <1> QED BY <1>1, <1>3, <1>4, <1>5, <1>8

LEMMA AllTimeNext ==
  /\ \A c : CategoryScore(AllTime, c)' = ScoreAt(rows', AllTime', c)
  /\ OverallCategories(AllTime)' = CategoriesAt(rows', AllTime')
  /\ OverallProvisional(AllTime)' <=> QualifiedAt(rows', AllTime') = {}
  /\ Overall(AllTime)' = OverallAt(rows', AllTime')
  <1>1. \A c : In(AllTime, c)' = InAt(rows', AllTime', c)
    BY DEF In, InAt
  <1>2. \A c : Weighted(In(AllTime, c))' = WeightedAt(rows', InAt(rows', AllTime', c))
    BY <1>1 DEF Weighted, WeightedAt, SevAt, Weight, In, InAt
  <1>3. \A c : CategoryScore(AllTime, c)' = ScoreAt(rows', AllTime', c)
    BY <1>1, <1>2 DEF CategoryScore, ScoreAt, MaxWeight
  <1>4. Qualified(AllTime)' = QualifiedAt(rows', AllTime') /\ Active(AllTime)' = ActiveAt(rows', AllTime')
    BY <1>1 DEF Qualified, QualifiedAt, Active, ActiveAt, Scored
  <1>5. /\ OverallCategories(AllTime)' = CategoriesAt(rows', AllTime')
        /\ OverallProvisional(AllTime)' <=> QualifiedAt(rows', AllTime') = {}
    BY <1>4 DEF OverallCategories, CategoriesAt, OverallProvisional
  <1>6. cat_scores(AllTime)' = ScoresAt(rows', AllTime')
    BY <1>3 DEF ScoresAt, Scored, cat_scores
  <1>7. Overall(AllTime)' = IF CategoriesAt(rows', AllTime') = {} THEN 1000
                      ELSE Round(Total(cat_scores(AllTime)', CategoriesAt(rows', AllTime')),
                                 Cardinality(CategoriesAt(rows', AllTime')))
    BY <1>5 DEF Overall
  <1> QED BY <1>3, <1>5, <1>6, <1>7 DEF OverallAt

LEMMA WeightBounded ==
  ASSUME NEW t, NEW E, IsFiniteSet(E)
  PROVE  /\ Cardinality(E) \in Nat /\ WeightedAt(t, E) \in Nat
         /\ WeightedAt(t, E) <= 5 * Cardinality(E)
  <1> DEFINE W == SevAt(t, E, "warning")
             V == SevAt(t, E, "violation")
             C == SevAt(t, E, "critical")
  <1>1. W \in SUBSET E /\ V \in SUBSET E /\ C \in SUBSET E /\ W \cap V = {} /\ (W \cup V) \cap C = {}
    BY DEF SevAt
  <1>2. WeightedAt(t, E) = 1 * Cardinality(W) + 3 * Cardinality(V) + 5 * Cardinality(C)
    BY DEF WeightedAt
  <1> HIDE DEF W, V, C
  <1>3. IsFiniteSet(W) /\ IsFiniteSet(V) /\ IsFiniteSet(C)
    BY <1>1, FS_Subset
  <1>4. Cardinality(W) \in Nat /\ Cardinality(V) \in Nat /\ Cardinality(C) \in Nat /\ Cardinality(E) \in Nat
    BY <1>3, FS_CardinalityType
  <1>5. Cardinality({}) = 0
    BY FS_EmptySet
  <1>6. IsFiniteSet(W \cup V) /\ Cardinality(W \cup V) = Cardinality(W) + Cardinality(V) - Cardinality(W \cap V)
    BY <1>3, FS_Union
  <1>7. Cardinality((W \cup V) \cup C) = Cardinality(W \cup V) + Cardinality(C) - Cardinality((W \cup V) \cap C)
    BY <1>3, <1>6, FS_Union
  <1>8. (W \cup V) \cup C \in SUBSET E
    BY <1>1
  <1>9. Cardinality((W \cup V) \cup C) <= Cardinality(E)
    BY <1>8, FS_Subset
  <1> DEFINE a == Cardinality(W)
             b == Cardinality(V)
             c == Cardinality(C)
             d == Cardinality(W \cup V)
             e == Cardinality((W \cup V) \cup C)
  <1>10. d = a + b - 0 /\ e = d + c - 0
    BY <1>1, <1>5, <1>6, <1>7
  <1> HIDE DEF a, b, c, d, e
  <1>11. e = a + b + c
    BY <1>4, <1>10 DEF a, b, c
  <1>12. a \in Nat /\ b \in Nat /\ c \in Nat /\ WeightedAt(t, E) = 1 * a + 3 * b + 5 * c
    BY <1>2, <1>4 DEF a, b, c
  <1>13. a + b + c <= Cardinality(E)
    BY <1>9, <1>11 DEF e
  <1> QED BY <1>4, <1>12, <1>13

\* A score lies between 0 and 100 points, in tenths.
LEMMA ScoreBounded ==
  ASSUME NEW t, NEW E, IsFiniteSet(E), NEW c
  PROVE  ScoreAt(t, E, c) \in 0..1000
  <1> DEFINE F == InAt(t, E, c)
             n == Cardinality(F)
             w == WeightedAt(t, F)
  <1>1. F \in SUBSET E
    BY DEF InAt
  <1>2. IsFiniteSet(F)
    BY <1>1, FS_Subset
  <1>3. n \in Nat /\ w \in Nat /\ w <= 5 * n
    <2> HIDE DEF F
    <2> QED BY <1>2, WeightBounded
  <1>4. ScoreAt(t, E, c) = IF n = 0 THEN 1000 ELSE Round(1000 * (5 * n - w), 5 * n)
    BY DEF ScoreAt
  <1> HIDE DEF n, w
  <1>5. CASE n # 0
    <2> DEFINE a == 1000 * (5 * n - w)
               m == 5 * n
    <2>1. a \in Nat /\ m \in Nat \ {0} /\ a <= 1000 * m
      BY <1>3, <1>5
    <2> HIDE DEF a, m
    <2>2. Round(a, m) \in 0..1000
      BY <2>1, RoundBounded
    <2> QED BY <1>4, <1>5, <2>2 DEF a, m
  <1> QED BY <1>4, <1>5

LEMMA OverallBounded ==
  ASSUME NEW t, NEW E, IsFiniteSet(E)
  PROVE  /\ OverallAt(t, E) \in 0..1000
         /\ ScoresAt(t, E) \in [Pillars -> Nat] /\ CategoriesAt(t, E) \in SUBSET Pillars
         /\ Total(ScoresAt(t, E), CategoriesAt(t, E)) \in Nat
         /\ CategoriesAt(t, E) # {} => Cardinality(CategoriesAt(t, E)) \in Nat \ {0}
  <1> DEFINE cs == CategoriesAt(t, E)
             f == ScoresAt(t, E)
  <1>1. \A c \in Pillars : f[c] \in 0..1000
    BY ScoreBounded DEF ScoresAt
  <1>2. f \in [Pillars -> Nat]
    <2>1. f = [c \in Pillars |-> f[c]]
      BY DEF ScoresAt
    <2> HIDE DEF f
    <2> QED BY <1>1, <2>1
  <1>3. cs \in SUBSET Pillars
    BY DEF CategoriesAt, QualifiedAt, ActiveAt
  <1>4. OverallAt(t, E) = IF cs = {} THEN 1000 ELSE Round(Total(f, cs), Cardinality(cs))
    BY DEF OverallAt
  <1> HIDE DEF cs, f
  <1>5. Total(f, cs) \in Nat /\ Cardinality(cs) \in Nat /\ Total(f, cs) <= 1000 * Cardinality(cs)
    <2>1. \A c \in cs : f[c] <= 1000
      BY <1>1, <1>3
    <2> QED BY <1>2, <1>3, <2>1, TotalBounded, ScoringAssumption
  <1>6. cs # {} => Cardinality(cs) # 0
    <2>1. IsFiniteSet(cs)
      BY <1>3, FS_Subset, ScoringAssumption
    <2> QED BY <2>1, FS_EmptySet
  <1>7. cs # {} => Round(Total(f, cs), Cardinality(cs)) \in 0..1000
    <2> DEFINE a == Total(f, cs)
               n == Cardinality(cs)
    <2>1. a \in Nat /\ n \in Nat /\ a <= 1000 * n /\ (cs # {} => n # 0)
      BY <1>5, <1>6
    <2> HIDE DEF a, n
    <2>2. cs # {} => Round(a, n) \in 0..1000
      BY <2>1, RoundBounded
    <2> QED BY <2>2 DEF a, n
  <1> QED BY <1>2, <1>3, <1>4, <1>5, <1>6, <1>7 DEF cs, f

\* Two readings of two tables agree on the overall if they agree on which
\* categories count and on the scores of those.
LEMMA OverallDetermined ==
  ASSUME NEW t, NEW E, IsFiniteSet(E), NEW u, NEW F, IsFiniteSet(F),
         CategoriesAt(t, E) = CategoriesAt(u, F),
         \A c \in CategoriesAt(t, E) : ScoreAt(t, E, c) <= ScoreAt(u, F, c)
  PROVE  OverallAt(t, E) <= OverallAt(u, F)
  <1> DEFINE cs == CategoriesAt(t, E)
  <1>1. /\ ScoresAt(t, E) \in [Pillars -> Nat] /\ ScoresAt(u, F) \in [Pillars -> Nat]
        /\ cs \in SUBSET Pillars /\ Total(ScoresAt(t, E), cs) \in Nat /\ Total(ScoresAt(u, F), cs) \in Nat
        /\ cs # {} => Cardinality(cs) \in Nat \ {0}
    BY OverallBounded
  <1>2. \A c \in cs : ScoresAt(t, E)[c] <= ScoresAt(u, F)[c]
    BY <1>1 DEF ScoresAt
  <1>3. OverallAt(t, E) = IF cs = {} THEN 1000 ELSE Round(Total(ScoresAt(t, E), cs), Cardinality(cs))
    BY DEF OverallAt
  <1>4. OverallAt(u, F) = IF cs = {} THEN 1000 ELSE Round(Total(ScoresAt(u, F), cs), Cardinality(cs))
    BY DEF OverallAt
  <1> HIDE DEF cs
  <1>5. Total(ScoresAt(t, E), cs) <= Total(ScoresAt(u, F), cs)
    BY <1>1, <1>2, TotalMonotone, ScoringAssumption
  <1>6. cs # {} => Round(Total(ScoresAt(t, E), cs), Cardinality(cs)) <= Round(Total(ScoresAt(u, F), cs), Cardinality(cs))
    BY <1>1, <1>5, RoundMonotone
  <1> QED BY <1>3, <1>4, <1>6

LEMMA ScoreDecided ==
  ASSUME NEW t, NEW E, NEW u, NEW F, NEW c, InAt(t, E, c) = InAt(u, F, c),
         \A i \in InAt(t, E, c) : t[i].sev = u[i].sev
  PROVE  ScoreAt(t, E, c) = ScoreAt(u, F, c)
  <1>1. \A s : SevAt(t, InAt(t, E, c), s) = SevAt(u, InAt(u, F, c), s)
    BY DEF SevAt
  <1>2. WeightedAt(t, InAt(t, E, c)) = WeightedAt(u, InAt(u, F, c))
    BY <1>1 DEF WeightedAt
  <1> QED BY <1>2 DEF ScoreAt

\* Another critical event in a pillar: as much is lost as its weight adds to
\* what there was to lose.
LEMMA CriticalCounts ==
  ASSUME NEW t, NEW E, IsFiniteSet(E), NEW u, NEW k, k \notin E, NEW c,
         \A i \in E : u[i] = t[i], u[k].cat = c, u[k].sev = "critical"
  PROVE  ScoreAt(u, E \cup {k}, c) <= ScoreAt(t, E, c)
  <1> DEFINE A == InAt(t, E, c)
             B == InAt(u, E \cup {k}, c)
             m == Cardinality(A)
             w == WeightedAt(t, A)
  <1>1. A \in SUBSET E /\ B = A \cup {k} /\ k \notin A
    BY DEF InAt
  <1>2. IsFiniteSet(A)
    BY <1>1, FS_Subset
  <1>3. m \in Nat /\ w \in Nat /\ w <= 5 * m
    <2> HIDE DEF A
    <2> QED BY <1>2, WeightBounded
  <1>4. Cardinality(B) = m + 1
    <2> HIDE DEF A, B
    <2> QED BY <1>1, <1>2, FS_AddElement
  <1>5. /\ SevAt(u, B, "warning") = SevAt(t, A, "warning")
        /\ SevAt(u, B, "violation") = SevAt(t, A, "violation")
        /\ SevAt(u, B, "critical") = SevAt(t, A, "critical") \cup {k}
    <2>1. \A i \in A : u[i] = t[i]
      BY <1>1
    <2> HIDE DEF A, B
    <2> QED BY <1>1, <2>1 DEF SevAt
  <1>6. Cardinality(SevAt(t, A, "critical") \cup {k}) = Cardinality(SevAt(t, A, "critical")) + 1
    <2>1. SevAt(t, A, "critical") \in SUBSET A /\ k \notin SevAt(t, A, "critical")
      BY <1>1 DEF SevAt
    <2>2. IsFiniteSet(SevAt(t, A, "critical"))
      BY <1>2, <2>1, FS_Subset
    <2> QED BY <2>1, <2>2, FS_AddElement
  <1>7. WeightedAt(u, B) = w + 5
    <2>1. /\ SevAt(t, A, "warning") \in SUBSET A /\ SevAt(t, A, "violation") \in SUBSET A
          /\ SevAt(t, A, "critical") \in SUBSET A
      BY DEF SevAt
    <2>2. /\ Cardinality(SevAt(t, A, "warning")) \in Nat /\ Cardinality(SevAt(t, A, "violation")) \in Nat
          /\ Cardinality(SevAt(t, A, "critical")) \in Nat
      BY <1>2, <2>1, FS_Subset, FS_CardinalityType
    <2> DEFINE x == Cardinality(SevAt(t, A, "warning"))
               y == Cardinality(SevAt(t, A, "violation"))
               z == Cardinality(SevAt(t, A, "critical"))
    <2>3. w = 1 * x + 3 * y + 5 * z
      BY DEF WeightedAt
    <2> HIDE DEF A, B, w
    <2>4. WeightedAt(u, B) = 1 * x + 3 * y + 5 * (z + 1)
      BY <1>5, <1>6 DEF WeightedAt
    <2>5. x \in Nat /\ y \in Nat /\ z \in Nat
      BY <2>2
    <2> HIDE DEF x, y, z
    <2> QED BY <2>3, <2>4, <2>5
  <1>8. ScoreAt(t, E, c) = IF m = 0 THEN 1000 ELSE Round(1000 * (5 * m - w), 5 * m)
    BY DEF ScoreAt
  <1>9. ScoreAt(u, E \cup {k}, c) = Round(1000 * (5 * (m + 1) - (w + 5)), 5 * (m + 1))
    <2>1. ScoreAt(u, E \cup {k}, c) = IF m + 1 = 0 THEN 1000
            ELSE Round(1000 * (5 * (m + 1) - (w + 5)), 5 * (m + 1))
      BY <1>4, <1>7 DEF ScoreAt
    <2> QED BY <2>1, <1>3
  <1>10. ScoreAt(u, E \cup {k}, c) \in 0..1000
    <2>1. IsFiniteSet(E \cup {k})
      BY FS_AddElement
    <2> QED BY <2>1, ScoreBounded
  <1> HIDE DEF A, B, m, w
  <1>11. CASE m # 0
    <2> DEFINE a == 1000 * (5 * m - w)
               d == 5 * m
               e == 5 * (m + 1)
    <2>1. a \in Nat /\ d \in Nat \ {0} /\ e \in Nat \ {0} /\ d <= e
      BY <1>3, <1>11
    <2>2. 1000 * (5 * (m + 1) - (w + 5)) = a
      BY <1>3
    <2>3. ScoreAt(t, E, c) = Round(a, d) /\ ScoreAt(u, E \cup {k}, c) = Round(a, e)
      BY <1>8, <1>9, <1>11, <2>2
    <2> HIDE DEF a, d, e
    <2> QED BY <2>1, <2>3, RoundShrinks
  <1>12. CASE m = 0
    BY <1>8, <1>10, <1>12
  <1> QED BY <1>11, <1>12

----------------------------------------------------------------------------
(* The gate.                                                               *)

SpanAt(t) == IF t = <<>> THEN 0 ELSE t[Len(t)].at - t[1].at
SeenIn(t) == {t[i].cat : i \in DOMAIN t}
HasSubstance(t) ==
  /\ Len(t) >= MinEvents
  /\ Cardinality(SeenIn(t)) >= MinCategories
  /\ SpanAt(t) >= MinSpanDays * SlotsPerDay

LEMMA ModelGate ==
  /\ ~Provisional <=> HasSubstance(rows)
  /\ (~Provisional)' <=> HasSubstance(rows')
  <1>1. Span = SpanAt(rows) /\ CategoriesSeen = SeenIn(rows)
    BY DEF Span, SpanAt, CategoriesSeen, SeenIn, AllTime, Last
  <1>2. Span' = SpanAt(rows') /\ CategoriesSeen' = SeenIn(rows')
    BY DEF Span, SpanAt, CategoriesSeen, SeenIn, AllTime, Last
  <1> QED BY <1>1, <1>2 DEF Provisional, HasSubstance

LEMMA SeenFinite ==
  ASSUME NEW t \in Seq(Event)
  PROVE  IsFiniteSet(DOMAIN t) /\ IsFiniteSet(SeenIn(t)) /\ Cardinality(SeenIn(t)) \in Nat
  <1> DEFINE f == [i \in DOMAIN t |-> t[i].cat]
  <1>1. f \in Surjection(DOMAIN t, SeenIn(t))
    BY DEF Surjection, SeenIn
  <1>2. IsFiniteSet(DOMAIN t)
    <2>1. DOMAIN t = 1..Len(t) /\ Len(t) \in Int
      OBVIOUS
    <2> QED BY <2>1, FS_Interval
  <1> HIDE DEF f
  <1> QED BY <1>1, <1>2, FS_Surjection, FS_CardinalityType

Ordered(t, n) ==
  /\ \A i, j \in DOMAIN t : i <= j => t[i].at <= t[j].at
  /\ \A i \in DOMAIN t : t[i].at <= n

\* Events that come later only add substance.
LEMMA AppendKeepsSubstance ==
  ASSUME NEW t \in Seq(Event), NEW n \in Nat, Ordered(t, n), NEW e \in Event, e.at = n, HasSubstance(t)
  PROVE  HasSubstance(Append(t, e))
  <1> DEFINE u == Append(t, e)
  <1>1. /\ u \in Seq(Event) /\ Len(u) = Len(t) + 1 /\ u[Len(t) + 1] = e /\ Len(t) \in Nat
        /\ \A i \in 1..Len(t) : u[i] = t[i]
        /\ DOMAIN t = 1..Len(t) /\ DOMAIN u = 1..Len(t) + 1
    OBVIOUS
  <1> HIDE DEF u
  <1>2. Len(t) >= 1 /\ Len(u) >= MinEvents
    BY <1>1, ScoringAssumption DEF HasSubstance
  <1>3. SeenIn(t) \in SUBSET SeenIn(u)
    BY <1>1 DEF SeenIn
  <1>4. Cardinality(SeenIn(u)) >= MinCategories
    <2>1. Cardinality(SeenIn(t)) <= Cardinality(SeenIn(u))
      BY <1>1, <1>3, SeenFinite, FS_Subset
    <2>2. Cardinality(SeenIn(t)) \in Nat /\ Cardinality(SeenIn(u)) \in Nat /\ MinCategories \in Nat
      BY <1>1, SeenFinite, ScoringAssumption
    <2> QED BY <2>1, <2>2 DEF HasSubstance
  <1>5. SpanAt(u) >= SpanAt(t) /\ SpanAt(u) \in Int /\ SpanAt(t) \in Int
    <2>1. 1 \in DOMAIN t /\ Len(t) \in DOMAIN t
      BY <1>1, <1>2
    <2>2. ASSUME NEW i \in DOMAIN t PROVE t[i].at \in Nat
      <3>1. t[i] \in Event
        OBVIOUS
      <3> QED BY <3>1, ScoringAssumption DEF Event
    <2>3. SpanAt(t) = t[Len(t)].at - t[1].at
      BY <1>2, <2>1 DEF SpanAt
    <2>4. SpanAt(u) = n - t[1].at
      BY <1>1, <1>2 DEF SpanAt
    <2>5. t[Len(t)].at <= n /\ t[Len(t)].at \in Nat /\ t[1].at \in Nat
      BY <2>1, <2>2 DEF Ordered
    <2> QED BY <2>3, <2>4, <2>5
  <1>6. MinSpanDays * SlotsPerDay \in Int
    BY ScoringAssumption
  <1>7. SpanAt(u) >= MinSpanDays * SlotsPerDay
    <2> DEFINE m == MinSpanDays * SlotsPerDay
    <2>1. SpanAt(t) >= m /\ m \in Int
      BY <1>6 DEF HasSubstance
    <2> HIDE DEF m
    <2>2. SpanAt(u) >= m
      BY <2>1, <1>5
    <2> QED BY <2>2 DEF m
  <1> QED BY <1>2, <1>4, <1>7 DEF HasSubstance, u

\* The migration takes events out of a pillar, but not out of the table: for a
\* category that is gone there is a new one.
LEMMA RetireKeepsSubstance ==
  ASSUME NEW t \in Seq(Event), NEW u \in Seq(Event), NEW E, NEW p,
         Len(u) = Len(t), \A i \in DOMAIN t : t[i].cat # "retired",
         \A i \in DOMAIN t : u[i].at = t[i].at,
         \A i \in DOMAIN t : u[i].cat = IF i \in E THEN "retired" ELSE t[i].cat,
         \A i \in E : t[i].cat = p, E \subseteq DOMAIN t,
         HasSubstance(t)
  PROVE  HasSubstance(u)
  <1>1. DOMAIN t = 1..Len(t) /\ DOMAIN u = 1..Len(t) /\ Len(t) \in Nat
    OBVIOUS
  <1>2. SpanAt(u) = SpanAt(t)
    <2>1. CASE Len(t) = 0
      BY <2>1 DEF SpanAt
    <2>2. CASE Len(t) # 0
      <3>1. 1 \in DOMAIN t /\ Len(t) \in DOMAIN t /\ t # <<>> /\ u # <<>>
        BY <1>1, <2>2
      <3> QED BY <3>1 DEF SpanAt
    <2> QED BY <2>1, <2>2
  <1>3. /\ IsFiniteSet(SeenIn(t)) /\ Cardinality(SeenIn(t)) \in Nat
        /\ IsFiniteSet(SeenIn(u)) /\ Cardinality(SeenIn(u)) \in Nat
    BY SeenFinite
  <1>4. Cardinality(SeenIn(t)) <= Cardinality(SeenIn(u))
    <2>1. CASE SeenIn(t) \subseteq SeenIn(u)
      BY <2>1, <1>3, FS_Subset
    <2>2. CASE ~(SeenIn(t) \subseteq SeenIn(u))
      <3>1. PICK i \in DOMAIN t : t[i].cat \notin SeenIn(u)
        BY <2>2 DEF SeenIn
      <3>2. i \in E /\ t[i].cat = p /\ p \in SeenIn(t)
        BY <3>1, <1>1 DEF SeenIn
      <3>3. "retired" \in SeenIn(u) /\ "retired" \notin SeenIn(t)
        BY <3>2, <1>1 DEF SeenIn
      <3> DEFINE R == SeenIn(t) \ {p}
      <3>4. R \cup {"retired"} \in SUBSET SeenIn(u)
        <4>1. ASSUME NEW c \in R PROVE c \in SeenIn(u)
          <5>1. PICK j \in DOMAIN t : t[j].cat = c
            BY DEF SeenIn
          <5>2. j \notin E
            BY <5>1
          <5> QED BY <5>1, <5>2, <1>1 DEF SeenIn
        <4> QED BY <4>1, <3>3
      <3>5. IsFiniteSet(R) /\ Cardinality(R) = Cardinality(SeenIn(t)) - 1 /\ "retired" \notin R
        BY <1>3, <3>2, <3>3, FS_RemoveElement
      <3> HIDE DEF R
      <3>6. IsFiniteSet(R \cup {"retired"}) /\ Cardinality(R \cup {"retired"}) = Cardinality(R) + 1
        BY <3>5, FS_AddElement
      <3>7. Cardinality(R \cup {"retired"}) <= Cardinality(SeenIn(u))
        BY <1>3, <3>4, FS_Subset
      <3> QED BY <1>3, <3>5, <3>6, <3>7
    <2> QED BY <2>1, <2>2
  <1>5. MinCategories \in Nat
    BY ScoringAssumption
  <1> QED BY <1>2, <1>3, <1>4, <1>5 DEF HasSubstance

----------------------------------------------------------------------------
(* What a pillar has been reported, with what the migration took.          *)

EverAt(t, c) == {i \in DOMAIN t : t[i].cat = c \/ (c = Retirable /\ t[i].cat = "retired")}
HasVolume(t, c) == Cardinality(EverAt(t, c)) >= PillarMinEvents

\* More is enough still.
LEMMA VolumeGrows ==
  ASSUME NEW t \in Seq(Event), NEW F, NEW c, F \subseteq EverAt(t, c), Cardinality(F) >= PillarMinEvents
  PROVE  HasVolume(t, c)
  <1>1. IsFiniteSet(EverAt(t, c)) /\ Cardinality(EverAt(t, c)) \in Nat
    <2>1. EverAt(t, c) \in SUBSET DOMAIN t
      BY DEF EverAt
    <2> QED BY <2>1, SeenFinite, FS_Subset, FS_CardinalityType
  <1> DEFINE V == EverAt(t, c)
  <1> HIDE DEF V
  <1>2. F \in SUBSET V /\ IsFiniteSet(V) /\ Cardinality(V) \in Nat
    BY <1>1 DEF V
  <1>3. IsFiniteSet(F) /\ Cardinality(F) <= Cardinality(V)
    BY <1>2, FS_Subset
  <1>4. Cardinality(F) \in Nat /\ PillarMinEvents \in Nat
    BY <1>3, FS_CardinalityType, ScoringAssumption
  <1>5. Cardinality(V) >= PillarMinEvents
    BY <1>2, <1>3, <1>4
  <1> QED BY <1>5 DEF HasVolume, V

----------------------------------------------------------------------------
(* The invariant.  The gate may be read long before the letter is: what    *)
(* carries it over is that substance, once there, stays.                   *)

OldestFirst == Ordered(rows, now)
RetiredLast == ~retired => \A i \in DOMAIN rows : rows[i].cat # "retired"
GatePassed == page.at = "gated" /\ ~page.gate => HasSubstance(rows)
ShownPassed == page.at = "shown" /\ page.grade \in Letters /\ page.place \in Gated => HasSubstance(rows)
RowPassed == page.at = "shown" /\ page.grade \in Letters /\ page.place = "row" => HasVolume(rows, page.what)
Table == rows \in Seq(Event) /\ Len(rows) <= MaxEvents /\ now \in 0..MaxSlot /\ retired \in BOOLEAN

IInv == TypeOK /\ OldestFirst /\ RetiredLast /\ GatePassed /\ ShownPassed /\ RowPassed

LEMMA ScoresType ==
  /\ rows \in Seq(Event) =>
       Overall(AllTime) \in 0..1000 /\ \A c \in Scored : CategoryScore(AllTime, c) \in 0..1000
  /\ rows' \in Seq(Event) =>
       Overall(AllTime)' \in 0..1000 /\ \A c \in Scored : CategoryScore(AllTime, c)' \in 0..1000
  <1>1. ASSUME NEW t \in Seq(Event)
        PROVE  OverallAt(t, DOMAIN t) \in 0..1000 /\ \A c : ScoreAt(t, DOMAIN t, c) \in 0..1000
    <2>1. IsFiniteSet(DOMAIN t)
      BY SeenFinite
    <2> DEFINE E == DOMAIN t
    <2> HIDE DEF E
    <2>2. IsFiniteSet(E)
      BY <2>1 DEF E
    <2>3. OverallAt(t, E) \in 0..1000
      BY <2>2, OverallBounded
    <2>4. \A c : ScoreAt(t, E, c) \in 0..1000
      BY <2>2, ScoreBounded
    <2> QED BY <2>3, <2>4 DEF E
  <1>2. ASSUME rows \in Seq(Event)
        PROVE  Overall(AllTime) \in 0..1000 /\ \A c \in Scored : CategoryScore(AllTime, c) \in 0..1000
    <2>1. OverallAt(rows, AllTime) \in 0..1000 /\ \A c : ScoreAt(rows, AllTime, c) \in 0..1000
      BY <1>1, <1>2 DEF AllTime
    <2> QED BY <2>1, ModelScores
  <1>3. ASSUME rows' \in Seq(Event)
        PROVE  Overall(AllTime)' \in 0..1000 /\ \A c \in Scored : CategoryScore(AllTime, c)' \in 0..1000
    <2>1. OverallAt(rows', AllTime') \in 0..1000 /\ \A c : ScoreAt(rows', AllTime', c) \in 0..1000
      BY <1>1, <1>3 DEF AllTime
    <2> QED BY <2>1, AllTimeNext
  <1> QED BY <1>2, <1>3

LEMMA GradeType ==
  ASSUME NEW score
  PROVE  Grade(score) \in Letters
  <1> DEFINE met == {i \in DOMAIN Thresholds : score >= Thresholds[i][1]}
  <1>1. Grade(score) = IF met = {} THEN "F" ELSE Thresholds[Min(met)][2]
    BY DEF Grade
  <1>2. met \subseteq 1..6
    BY DEF Thresholds
  <1> HIDE DEF met
  <1>3. met # {} => Min(met) \in 1..6
    <2>1. met # {} => \E x \in met : \A y \in met : x <= y
      BY <1>2, LeastNat
    <2> QED BY <1>2, <2>1 DEF Min
  <1>4. \A i \in 1..6 : Thresholds[i][2] \in Letters
    BY DEF Thresholds, Letters
  <1> QED BY <1>1, <1>3, <1>4 DEF Letters

LEMMA InitIInv == Init => IInv
  <1> SUFFICES ASSUME Init PROVE IInv
    OBVIOUS
  <1>1. rows = <<>> /\ now = 0 /\ retired = FALSE /\ page = NoPage
    BY DEF Init
  <1>2. rows \in Seq(Event) /\ Len(rows) = 0 /\ DOMAIN rows = {}
    BY <1>1
  <1>3. TypeOK
    <2>1. page \in Page
      BY <1>1 DEF Page, NoPage, Places, Overview
    <2>2. Overall(AllTime) \in 0..1000 /\ \A c \in Scored : CategoryScore(AllTime, c) \in 0..1000
      BY <1>2, ScoresType
    <2>3. 0 <= MaxEvents /\ 0 \in 0..MaxSlot
      BY ScoringAssumption
    <2> QED BY <1>1, <1>2, <2>1, <2>2, <2>3 DEF TypeOK
  <1>4. OldestFirst /\ RetiredLast
    BY <1>2 DEF OldestFirst, Ordered, RetiredLast
  <1>5. GatePassed /\ ShownPassed /\ RowPassed
    BY <1>1 DEF GatePassed, ShownPassed, RowPassed, NoPage, Letters
  <1> QED BY <1>3, <1>4, <1>5 DEF IInv

\* What a step makes of the table: it stays a table, oldest first, and keeps
\* the substance it has.
LEMMA TableStep ==
  ASSUME Table, OldestFirst, RetiredLast, [Next]_vars
  PROVE  Table' /\ OldestFirst' /\ RetiredLast' /\ (HasSubstance(rows) => HasSubstance(rows'))
  <1>1. /\ rows \in Seq(Event) /\ now \in Nat /\ now \in 0..MaxSlot /\ MaxSlot \in Nat /\ MaxEvents \in Nat
        /\ Len(rows) \in Nat /\ Len(rows) <= MaxEvents /\ DOMAIN rows = 1..Len(rows) /\ retired \in BOOLEAN
    BY ScoringAssumption DEF Table
  <1>2. CASE UNCHANGED <<rows, now, retired>>
    BY <1>2 DEF Table, OldestFirst, RetiredLast
  <1>3. ASSUME NEW c \in Pillars \cup Others, NEW s \in Severities, PostEvent(c, s)
        PROVE  Table' /\ OldestFirst' /\ RetiredLast' /\ (HasSubstance(rows) => HasSubstance(rows'))
    <2> DEFINE e == [cat |-> c, sev |-> s, at |-> now]
    <2>1. rows' = Append(rows, e) /\ now' = now /\ retired' = retired /\ Len(rows) < MaxEvents
      BY <1>3 DEF PostEvent
    <2>2. e \in Event /\ e.at = now /\ e.cat # "retired"
      BY <1>1, ScoringAssumption DEF Event, Categories
    <2> HIDE DEF e
    <2>3. /\ rows' \in Seq(Event) /\ Len(rows') = Len(rows) + 1 /\ DOMAIN rows' = 1..Len(rows) + 1
          /\ rows'[Len(rows) + 1] = e /\ \A i \in 1..Len(rows) : rows'[i] = rows[i]
      BY <1>1, <2>1, <2>2
    <2>4. Table'
      BY <1>1, <2>1, <2>3 DEF Table
    <2>5. OldestFirst'
      <3>1. \A i \in DOMAIN rows : rows[i].at <= now
        BY DEF OldestFirst, Ordered
      <3>2. \A i \in DOMAIN rows' : rows'[i].at <= now'
        BY <1>1, <2>1, <2>2, <2>3, <3>1
      <3>3. ASSUME NEW i \in DOMAIN rows', NEW j \in DOMAIN rows', i <= j PROVE rows'[i].at <= rows'[j].at
        <4>1. CASE j = Len(rows) + 1
          BY <2>1, <2>2, <2>3, <3>2, <4>1
        <4>2. CASE j # Len(rows) + 1
          <5>1. i \in DOMAIN rows /\ j \in DOMAIN rows
            BY <1>1, <2>3, <3>3, <4>2
          <5> QED BY <1>1, <2>3, <3>3, <5>1 DEF OldestFirst, Ordered
        <4> QED BY <4>1, <4>2
      <3> QED BY <3>2, <3>3 DEF OldestFirst, Ordered
    <2>6. RetiredLast'
      BY <1>1, <2>1, <2>2, <2>3 DEF RetiredLast
    <2>7. HasSubstance(rows) => HasSubstance(rows')
      BY <1>1, <2>1, <2>2, AppendKeepsSubstance DEF OldestFirst
    <2> QED BY <2>4, <2>5, <2>6, <2>7
  <1>4. CASE Retire
    <2>1. PICK E \in SUBSET In(AllTime, Retirable) :
            rows' = [i \in AllTime |-> IF i \in E THEN [rows[i] EXCEPT !.cat = "retired"] ELSE rows[i]]
      BY <1>4 DEF Retire
    <2>2. ~retired /\ retired' = TRUE /\ now' = now
      BY <1>4 DEF Retire
    <2>3. E \subseteq DOMAIN rows /\ \A i \in E : rows[i].cat = Retirable
      BY DEF In, AllTime
    <2>4. \A i \in DOMAIN rows : rows[i] \in Event
      BY <1>1
    <2>5. ASSUME NEW i \in DOMAIN rows
          PROVE  /\ rows'[i] \in Event /\ rows'[i].at = rows[i].at
                 /\ rows'[i].cat = IF i \in E THEN "retired" ELSE rows[i].cat
      <3>1. rows'[i] = IF i \in E THEN [rows[i] EXCEPT !.cat = "retired"] ELSE rows[i]
        BY <2>1 DEF AllTime
      <3>2. rows[i] \in Event
        BY <2>4
      <3> QED BY <3>1, <3>2 DEF Event, Categories
    <2>6. rows' \in Seq(Event) /\ Len(rows') = Len(rows) /\ DOMAIN rows' = DOMAIN rows
      <3>1. rows' \in [1..Len(rows) -> Event]
        BY <1>1, <2>1, <2>5 DEF AllTime
      <3> QED BY <1>1, <3>1
    <2>7. Table'
      BY <1>1, <2>2, <2>6 DEF Table
    <2>8. OldestFirst'
      BY <2>2, <2>5, <2>6 DEF OldestFirst, Ordered
    <2>9. RetiredLast'
      BY <2>2 DEF RetiredLast
    <2>10. \A i \in DOMAIN rows : rows[i].cat # "retired"
      BY <2>2 DEF RetiredLast
    <2>11. HasSubstance(rows) => HasSubstance(rows')
      BY <1>1, <2>3, <2>5, <2>6, <2>10, RetireKeepsSubstance
    <2> QED BY <2>7, <2>8, <2>9, <2>11
  <1>5. CASE Tick
    <2>1. rows' = rows /\ retired' = retired /\ now' = now + 1 /\ now < MaxSlot
      BY <1>5 DEF Tick
    <2>2. Table'
      BY <1>1, <2>1 DEF Table
    <2>3. OldestFirst'
      <3>1. ASSUME NEW i \in DOMAIN rows PROVE rows[i].at <= now + 1
        <4>1. rows[i] \in Event /\ rows[i].at <= now
          BY <1>1 DEF OldestFirst, Ordered
        <4> QED BY <1>1, <4>1 DEF Event
      <3> QED BY <2>1, <3>1 DEF OldestFirst, Ordered
    <2>4. RetiredLast'
      BY <2>1 DEF RetiredLast
    <2> QED BY <2>1, <2>2, <2>3, <2>4
  <1>6. ASSUME NEW second \in BOOLEAN, ReadStats(second) PROVE UNCHANGED <<rows, now, retired>>
    BY <1>6 DEF ReadStats
  <1>7. ASSUME NEW what \in Pillars \cup {Overview}, NEW place \in Places, ReadScores(what, place)
        PROVE  UNCHANGED <<rows, now, retired>>
    BY <1>7 DEF ReadScores
  <1>8. CASE DashboardScore
    BY <1>2, <1>8 DEF DashboardScore
  <1>9. CASE DashboardGate
    BY <1>2, <1>9 DEF DashboardGate
  <1>10. CASE UNCHANGED vars
    BY <1>2, <1>10 DEF vars
  <1> QED BY <1>2, <1>3, <1>4, <1>5, <1>6, <1>7, <1>8, <1>9, <1>10 DEF Next

\* No step takes an event from what a pillar has been reported.
LEMMA VolumeStep ==
  ASSUME Table, [Next]_vars, NEW c
  PROVE  EverAt(rows, c) \subseteq EverAt(rows', c)
  <1>1. rows \in Seq(Event) /\ DOMAIN rows = 1..Len(rows) /\ Len(rows) \in Nat
    BY DEF Table
  <1>2. CASE rows' = rows
    BY <1>2
  <1>3. ASSUME NEW d \in Pillars \cup Others, NEW s \in Severities, PostEvent(d, s)
        PROVE  EverAt(rows, c) \subseteq EverAt(rows', c)
    <2> DEFINE e == [cat |-> d, sev |-> s, at |-> now]
    <2>1. rows' = Append(rows, e)
      BY <1>3 DEF PostEvent
    <2> HIDE DEF e
    <2>2. DOMAIN rows' = 1..Len(rows) + 1 /\ \A i \in 1..Len(rows) : rows'[i] = rows[i]
      BY <1>1, <2>1
    <2>3. \A i \in DOMAIN rows : i \in DOMAIN rows' /\ rows'[i] = rows[i]
      BY <1>1, <2>2
    <2> QED BY <2>3 DEF EverAt
  <1>4. CASE Retire
    <2>1. PICK E \in SUBSET In(AllTime, Retirable) :
            rows' = [i \in AllTime |-> IF i \in E THEN [rows[i] EXCEPT !.cat = "retired"] ELSE rows[i]]
      BY <1>4 DEF Retire
    <2>2. ASSUME NEW i \in EverAt(rows, c) PROVE i \in EverAt(rows', c)
      <3>1. i \in DOMAIN rows /\ i \in DOMAIN rows' /\ rows[i] \in Event
        BY <1>1, <2>1 DEF EverAt, AllTime
      <3>2. rows'[i] = IF i \in E THEN [rows[i] EXCEPT !.cat = "retired"] ELSE rows[i]
        BY <2>1, <3>1 DEF AllTime
      <3>3. CASE i \in E
        <4>1. rows[i].cat = Retirable /\ Retirable # "retired"
          BY <3>3, ScoringAssumption DEF In
        <4>2. rows'[i].cat = "retired" /\ c = Retirable
          BY <3>1, <3>2, <3>3, <4>1 DEF Event, EverAt
        <4> QED BY <3>1, <4>2 DEF EverAt
      <3>4. CASE i \notin E
        BY <3>1, <3>2, <3>4 DEF EverAt
      <3> QED BY <3>3, <3>4
    <2> QED BY <2>2
  <1>5. ASSUME NEW second \in BOOLEAN, ReadStats(second) PROVE rows' = rows
    BY <1>5 DEF ReadStats
  <1>6. ASSUME NEW what \in Pillars \cup {Overview}, NEW place \in Places, ReadScores(what, place)
        PROVE  rows' = rows
    BY <1>6 DEF ReadScores
  <1>7. CASE DashboardScore \/ DashboardGate \/ Tick
    BY <1>2, <1>7 DEF DashboardScore, DashboardGate, Tick
  <1>8. CASE UNCHANGED vars
    BY <1>2, <1>8 DEF vars
  <1> QED BY <1>2, <1>3, <1>4, <1>5, <1>6, <1>7, <1>8 DEF Next

\* A letter in a pillar's row is that of a score read from events of which
\* enough are the pillar's.
LEMMA RowVolume ==
  ASSUME rows \in Seq(Event), NEW E, E \subseteq AllTime, NEW what \in Pillars, ~Thin(E, what)
  PROVE  HasVolume(rows, what)
  <1>1. what \in Qualified(E)
    BY ScoringAssumption DEF Thin, OverallProvisional, OverallCategories, Overview
  <1>2. Cardinality(In(E, what)) >= PillarMinEvents
    BY <1>1 DEF Qualified
  <1>3. In(E, what) \subseteq EverAt(rows, what)
    BY DEF In, EverAt, AllTime
  <1> QED BY <1>2, <1>3, VolumeGrows

PageSafe == page \in Page /\ GatePassed /\ ShownPassed /\ RowPassed

\* What a step makes of the page: a headline or a badge has a letter where the
\* gate was passed, then or now, and a row where the pillar has the volume.
LEMMA PageStep ==
  ASSUME IInv, [Next]_vars, HasSubstance(rows) => HasSubstance(rows'),
         \A c : HasVolume(rows, c) => HasVolume(rows', c)
  PROVE  PageSafe'
  <1>1. page \in Page /\ GatePassed /\ ShownPassed /\ RowPassed /\ rows \in Seq(Event)
    BY DEF IInv, TypeOK
  <1>2. CASE page' = page
    BY <1>1, <1>2 DEF PageSafe, GatePassed, ShownPassed, RowPassed
  <1>3. \A score : Grade(score) \in Letters
    BY GradeType
  <1>4. ASSUME NEW second \in BOOLEAN, ReadStats(second) PROVE PageSafe'
    <2>1. page' = [at |-> "gated", gate |-> Provisional, second |-> second, what |-> Overview,
                   place |-> "headline", grade |-> "none", thin |-> FALSE]
      BY <1>4 DEF ReadStats, NoPage
    <2>2. Provisional \in BOOLEAN
      BY DEF Provisional
    <2>3. rows' = rows
      BY <1>4 DEF ReadStats
    <2>4. page' \in Page
      BY <2>1, <2>2 DEF Page, Places
    <2>5. ~Provisional => HasSubstance(rows)
      BY ModelGate
    <2> QED BY <2>1, <2>3, <2>4, <2>5 DEF PageSafe, GatePassed, ShownPassed, RowPassed
  <1>5. ASSUME NEW what \in Pillars \cup {Overview}, NEW place \in Places, ReadScores(what, place)
        PROVE  PageSafe'
    <2>1. PICK E \in {Recent} \cup (IF page.second THEN {Fallback} ELSE {}) :
            page' = [NoPage EXCEPT !.what = what, !.place = place,
                                   !.grade = Letter(E, what, place, page.gate), !.thin = Thin(E, what)]
      BY <1>5 DEF ReadScores
    <2> DEFINE g == Letter(E, what, place, page.gate)
               b == Thin(E, what)
    <2>2. g \in Letters \cup {"PROVISIONAL"} /\ (g \in Letters => ~Withheld(E, what, place, page.gate))
      BY <1>3 DEF Letter, Letters
    <2>3. b \in BOOLEAN
      BY DEF Thin
    <2>4. g \in Letters /\ place = "row" => ~Thin(E, what)
      BY <2>2 DEF Withheld
    <2>5. g \in Letters /\ place \in Gated => ~page.gate
      BY <2>2 DEF Withheld
    <2> HIDE DEF g, b
    <2>6. page' = [at |-> "shown", gate |-> FALSE, second |-> FALSE, what |-> what, place |-> place,
                   grade |-> g, thin |-> b]
      BY <2>1 DEF NoPage, g, b
    <2>7. page' \in Page
      BY <2>2, <2>3, <2>6 DEF Page
    <2>8. page.at = "gated" /\ rows' = rows /\ (place = "row" => what \in Pillars)
      BY <1>5 DEF ReadScores
    <2>9. E \subseteq AllTime
      BY DEF Recent, Fallback
    <2>10. g \in Letters /\ place = "row" => HasVolume(rows, what)
      BY <1>1, <2>4, <2>8, <2>9, RowVolume
    <2>11. GatePassed' /\ ShownPassed'
      BY <1>1, <2>5, <2>6, <2>8 DEF GatePassed, ShownPassed
    <2>12. RowPassed'
      BY <2>6, <2>8, <2>10 DEF RowPassed
    <2> QED BY <2>7, <2>11, <2>12 DEF PageSafe
  <1>6. CASE DashboardScore
    <2> DEFINE g == Grade(Overall(AllTime))
               b == OverallProvisional(AllTime)
    <2>1. g \in Letters /\ b \in BOOLEAN
      BY <1>3 DEF OverallProvisional
    <2>2. page' = [at |-> "scored", gate |-> FALSE, second |-> FALSE, what |-> Overview,
                   place |-> "headline", grade |-> g, thin |-> b]
      BY <1>6 DEF DashboardScore, NoPage
    <2> HIDE DEF g, b
    <2>3. page' \in Page
      BY <2>1, <2>2 DEF Page, Places
    <2> QED BY <2>2, <2>3 DEF PageSafe, GatePassed, ShownPassed, RowPassed
  <1>7. CASE DashboardGate
    <2> DEFINE g == IF Provisional THEN "PROVISIONAL" ELSE page.grade
    <2>1. /\ page' = [at |-> "shown", gate |-> FALSE, second |-> FALSE, what |-> Overview,
                      place |-> "headline", grade |-> g, thin |-> page.thin]
          /\ rows' = rows
      BY <1>7 DEF DashboardGate, NoPage
    <2>2. g \in Letters \cup {"none", "PROVISIONAL"} /\ page.thin \in BOOLEAN
      BY <1>1 DEF Page
    <2>3. g \in Letters => HasSubstance(rows)
      BY ModelGate DEF Letters
    <2> HIDE DEF g
    <2>4. page' \in Page
      BY <2>1, <2>2 DEF Page, Places
    <2> QED BY <2>1, <2>3, <2>4 DEF PageSafe, GatePassed, ShownPassed, RowPassed
  <1>8. ASSUME NEW c \in Pillars \cup Others, NEW s \in Severities, PostEvent(c, s) PROVE page' = page
    BY <1>8 DEF PostEvent
  <1>9. CASE Retire
    BY <1>2, <1>9 DEF Retire
  <1>10. CASE Tick
    BY <1>2, <1>10 DEF Tick
  <1>11. CASE UNCHANGED vars
    BY <1>2, <1>11 DEF vars
  <1> QED BY <1>2, <1>4, <1>5, <1>6, <1>7, <1>8, <1>9, <1>10, <1>11 DEF Next

LEMMA NextIInv == IInv /\ [Next]_vars => IInv'
  <1> SUFFICES ASSUME IInv, [Next]_vars PROVE IInv'
    OBVIOUS
  <1>1. Table /\ OldestFirst /\ RetiredLast
    BY DEF IInv, TypeOK, Table
  <1>2. Table' /\ OldestFirst' /\ RetiredLast' /\ (HasSubstance(rows) => HasSubstance(rows'))
    BY <1>1, TableStep
  <1>3. ASSUME NEW c, HasVolume(rows, c) PROVE HasVolume(rows', c)
    <2>1. EverAt(rows, c) \subseteq EverAt(rows', c) /\ rows' \in Seq(Event)
      BY <1>1, <1>2, VolumeStep DEF Table
    <2> QED BY <1>3, <2>1, VolumeGrows DEF HasVolume
  <1>4. PageSafe'
    BY <1>2, <1>3, PageStep
  <1>5. TypeOK'
    <2>1. rows' \in Seq(Event)
      BY <1>2 DEF Table
    <2>2. Overall(AllTime)' \in 0..1000 /\ \A c \in Scored : CategoryScore(AllTime, c)' \in 0..1000
      BY <2>1, ScoresType
    <2> QED BY <1>2, <1>4, <2>2 DEF TypeOK, Table, Scored, PageSafe
  <1> QED BY <1>2, <1>4, <1>5 DEF IInv, PageSafe

\* The invariant holds of every state the service reaches.
THEOREM Invariance == Spec => []IInv
  <1>1. Init => IInv
    BY InitIInv
  <1>2. IInv /\ [Next]_vars => IInv'
    BY NextIInv
  <1> QED BY <1>1, <1>2, PTL DEF Spec

\* The table holds events, oldest first within its bound, a page carries a
\* letter or a word for it, and every score is between 0 and 100 points.
THEOREM TypeCorrect == Spec => []TypeOK
  <1>1. IInv => TypeOK
    BY DEF IInv
  <1> QED BY <1>1, Invariance, PTL

\* No headline and no badge shows a letter over a feed without substance,
\* although the gate and the score are read apart, in either order, and the
\* table moves meanwhile.
THEOREM LettersHaveSubstance == Spec => []GatedLettersHaveSubstance
  <1>1. IInv => GatedLettersHaveSubstance
    BY ModelGate DEF IInv, ShownPassed, GatedLettersHaveSubstance, Published
  <1> QED BY <1>1, Invariance, PTL

\* A pillar's letter on the profile stands for a pillar that has been reported
\* enough events of its own, although its row reads no gate, the events may
\* come from either store, and the migration takes some away.
THEOREM RowsHaveVolume == Spec => []RowLettersHaveVolume
  <1>1. EverOf(page.what) = EverAt(rows, page.what)
    BY DEF EverOf, EverAt, AllTime
  <1>2. IInv => RowLettersHaveVolume
    BY <1>1 DEF IInv, RowPassed, RowLettersHaveVolume, Published, HasVolume
  <1> QED BY <1>2, Invariance, PTL

----------------------------------------------------------------------------
(* What may move a score, and where to.                                    *)

\* A pillar below the volume threshold has no influence on a score that is not
\* provisional, whatever its events are.
THEOREM ThinPillarsStayNeutral == Spec => []ThinPillarsAreNeutral
  <1>1. ASSUME TypeOK PROVE ThinPillarsAreNeutral
    <2> DEFINE A == AllTime
               B == {i \in AllTime : Cardinality(In(AllTime, rows[i].cat)) >= PillarMinEvents}
    <2>1. IsFiniteSet(A) /\ B \in SUBSET A /\ IsFiniteSet(B)
      <3>1. IsFiniteSet(AllTime)
        BY <1>1, SeenFinite DEF TypeOK, AllTime
      <3> QED BY <3>1, FS_Subset
    <2>2. ASSUME NEW c
          PROVE  InAt(rows, B, c) = IF Cardinality(InAt(rows, A, c)) >= PillarMinEvents
                                    THEN InAt(rows, A, c) ELSE {}
      <3>1. \A d : In(AllTime, d) = InAt(rows, A, d)
        BY DEF In, InAt
      <3>2. \A i \in InAt(rows, A, c) : rows[i].cat = c /\ i \in AllTime
        BY DEF InAt
      <3>3. InAt(rows, B, c) = {i \in InAt(rows, A, c) : Cardinality(InAt(rows, A, c)) >= PillarMinEvents}
        BY <3>1 DEF InAt
      <3> HIDE DEF A, B
      <3> QED BY <3>3
    <2> HIDE DEF A, B
    <2>3. QualifiedAt(rows, B) = QualifiedAt(rows, A)
      <3>1. Cardinality({}) = 0 /\ ~(0 >= PillarMinEvents)
        BY FS_EmptySet, ScoringAssumption
      <3>2. \A c : Cardinality(InAt(rows, B, c)) >= PillarMinEvents <=> Cardinality(InAt(rows, A, c)) >= PillarMinEvents
        BY <2>2, <3>1
      <3> QED BY <3>2 DEF QualifiedAt
    <2>4. ASSUME QualifiedAt(rows, A) # {} PROVE OverallAt(rows, A) = OverallAt(rows, B)
      <3>1. CategoriesAt(rows, A) = QualifiedAt(rows, A) /\ CategoriesAt(rows, B) = QualifiedAt(rows, A)
        BY <2>3, <2>4 DEF CategoriesAt
      <3>2. ASSUME NEW c \in QualifiedAt(rows, A) PROVE ScoreAt(rows, A, c) = ScoreAt(rows, B, c)
        <4>1. InAt(rows, B, c) = InAt(rows, A, c)
          BY <2>2 DEF QualifiedAt
        <4> QED BY <4>1, ScoreDecided
      <3>3. \A c \in Pillars : ScoreAt(rows, A, c) \in 0..1000
        BY <2>1, ScoreBounded
      <3>4. \A c \in QualifiedAt(rows, A) : /\ ScoreAt(rows, A, c) <= ScoreAt(rows, B, c)
                                           /\ ScoreAt(rows, B, c) <= ScoreAt(rows, A, c)
        BY <3>2, <3>3 DEF QualifiedAt
      <3>5. OverallAt(rows, A) <= OverallAt(rows, B) /\ OverallAt(rows, B) <= OverallAt(rows, A)
        BY <2>1, <3>1, <3>4, OverallDetermined
      <3>6. OverallAt(rows, A) \in 0..1000 /\ OverallAt(rows, B) \in 0..1000
        BY <2>1, OverallBounded
      <3>7. \A x, y \in Int : x <= y /\ y <= x => x = y
        OBVIOUS
      <3>8. OverallAt(rows, A) \in Int /\ OverallAt(rows, B) \in Int
        BY <3>6
      <3> QED BY <3>5, <3>7, <3>8
    <2>5. Overall(A) = OverallAt(rows, A) /\ Overall(B) = OverallAt(rows, B)
          /\ (OverallProvisional(A) <=> QualifiedAt(rows, A) = {})
      BY ModelScores
    <2>6. ~OverallProvisional(A) => Overall(A) = Overall(B)
      BY <2>4, <2>5
    <2> QED BY <2>6 DEF ThinPillarsAreNeutral, A, B
  <1> QED BY <1>1, TypeCorrect, PTL

\* What PostEvent makes of the table.
LEMMA Posted ==
  ASSUME TypeOK, NEW c, NEW s, PostEvent(c, s)
  PROVE  /\ AllTime' = AllTime \cup {Len(rows) + 1} /\ Len(rows) + 1 \notin AllTime
         /\ IsFiniteSet(AllTime) /\ now' = now
         /\ \A i \in AllTime : rows'[i] = rows[i]
         /\ rows'[Len(rows) + 1] = [cat |-> c, sev |-> s, at |-> now]
  <1> DEFINE e == [cat |-> c, sev |-> s, at |-> now]
  <1>1. rows \in Seq(Event) /\ rows' = Append(rows, e) /\ now' = now
    BY DEF TypeOK, PostEvent
  <1> HIDE DEF e
  <1>2. /\ Len(rows) \in Nat /\ DOMAIN rows = 1..Len(rows) /\ DOMAIN rows' = 1..Len(rows) + 1
        /\ rows'[Len(rows) + 1] = e /\ \A i \in 1..Len(rows) : rows'[i] = rows[i]
    BY <1>1
  <1>3. IsFiniteSet(DOMAIN rows)
    BY <1>1, SeenFinite
  <1>4. DOMAIN rows' = DOMAIN rows \cup {Len(rows) + 1} /\ Len(rows) + 1 \notin DOMAIN rows
    BY <1>2
  <1> QED BY <1>1, <1>2, <1>3, <1>4 DEF AllTime, e

\* Another critical event in a pillar raises neither the pillar's score nor the
\* overall, as long as it does not change which pillars count.
THEOREM CriticalsNeverHelp == Spec => CriticalNeverHelps
  <1>1. ASSUME TypeOK, NEW c \in Pillars, PostEvent(c, "critical"),
               OverallCategories(AllTime)' = OverallCategories(AllTime)
        PROVE  /\ CategoryScore(AllTime, c)' <= CategoryScore(AllTime, c)
               /\ Overall(AllTime)' <= Overall(AllTime)
    <2> DEFINE k == Len(rows) + 1
               A == AllTime
    <2>1. /\ AllTime' = A \cup {k} /\ k \notin A /\ IsFiniteSet(A)
          /\ \A i \in A : rows'[i] = rows[i]
          /\ rows'[k].cat = c /\ rows'[k].sev = "critical"
      <3>1. rows'[k] = [cat |-> c, sev |-> "critical", at |-> now]
        BY <1>1, Posted
      <3>2. rows'[k].cat = c /\ rows'[k].sev = "critical"
        BY <3>1
      <3> QED BY <1>1, <3>2, Posted
    <2>2. /\ \A d : CategoryScore(AllTime, d) = ScoreAt(rows, A, d)
          /\ OverallCategories(AllTime) = CategoriesAt(rows, A) /\ Overall(AllTime) = OverallAt(rows, A)
      BY ModelScores
    <2>3. /\ \A d : CategoryScore(AllTime, d)' = ScoreAt(rows', A \cup {k}, d)
          /\ OverallCategories(AllTime)' = CategoriesAt(rows', A \cup {k})
          /\ Overall(AllTime)' = OverallAt(rows', A \cup {k})
      BY <2>1, AllTimeNext
    <2> HIDE DEF k, A
    <2>4. ScoreAt(rows', A \cup {k}, c) <= ScoreAt(rows, A, c)
      BY <2>1, CriticalCounts
    <2>5. ASSUME NEW d, d # c PROVE ScoreAt(rows', A \cup {k}, d) = ScoreAt(rows, A, d)
      <3>1. InAt(rows', A \cup {k}, d) = InAt(rows, A, d)
        BY <2>1, <2>5 DEF InAt
      <3>2. \A i \in InAt(rows', A \cup {k}, d) : rows'[i].sev = rows[i].sev
        BY <2>1, <3>1 DEF InAt
      <3> QED BY <3>1, <3>2, ScoreDecided
    <2>6. \A d : ScoreAt(rows, A, d) \in 0..1000
      BY <2>1, ScoreBounded
    <2>7. \A d \in CategoriesAt(rows', A \cup {k}) : ScoreAt(rows', A \cup {k}, d) <= ScoreAt(rows, A, d)
      BY <2>4, <2>5, <2>6
    <2>8. IsFiniteSet(A \cup {k})
      BY <2>1, FS_AddElement
    <2>9. CategoriesAt(rows', A \cup {k}) = CategoriesAt(rows, A)
      BY <1>1, <2>2, <2>3
    <2>10. OverallAt(rows', A \cup {k}) <= OverallAt(rows, A)
      BY <2>1, <2>7, <2>8, <2>9, OverallDetermined
    <2> QED BY <2>2, <2>3, <2>4, <2>10
  <1>2. TypeOK /\ [Next]_vars =>
          [\A c \in Pillars : PostEvent(c, "critical")
                /\ OverallCategories(AllTime)' = OverallCategories(AllTime) =>
             /\ CategoryScore(AllTime, c)' <= CategoryScore(AllTime, c)
             /\ Overall(AllTime)' <= Overall(AllTime)]_vars
    BY <1>1
  <1> QED BY <1>2, TypeCorrect, PTL DEF Spec, CriticalNeverHelps

============================================================================
