--------------------------- MODULE WelfareProofs ---------------------------
(***************************************************************************)
(* Machine-checked proofs about Welfare, for any dimensions, event types,  *)
(* thresholds, windows and bounds of clock and table: what the loop of     *)
(* calculate_welfare computes, that the order of the rows does not matter  *)
(* where it must not, and that the days of the history make up the totals. *)
(***************************************************************************)
EXTENDS Welfare, FiniteSetTheorems, NaturalsInduction, TLAPS

----------------------------------------------------------------------------
(* Induction over numbers and finite sets, with the set of those for which *)
(* a fact holds in the place of a predicate.                               *)

LEMMA LeastNat ==
  ASSUME NEW T \in SUBSET Nat, T # {}
  PROVE  \E m \in T : \A k \in T : m <= k
  <1> DEFINE R == OpToRel(<, Nat)
  <1>1. IsWellFoundedOn(R, Nat)
    BY NatLessThanWellFounded
  <1>2. \A x, y \in Nat : <<y, x>> \in R <=> y < x
    BY DEF OpToRel
  <1> HIDE DEF R
  <1>3. \E x \in T : \A y \in T : ~ (<<y, x>> \in R)
    BY <1>1, WFMin
  <1>4. PICK x \in T : \A y \in T : ~(y < x)
    BY <1>2, <1>3
  <1>5. \A y \in T : x <= y
    BY <1>4
  <1> QED BY <1>5

LEMMA NatInductionSet ==
  ASSUME NEW G \in SUBSET Nat, 0 \in G, \A k \in G : k + 1 \in G
  PROVE  G = Nat
  <1>1. ASSUME Nat \ G # {} PROVE FALSE
    <2>1. PICK m \in Nat \ G : \A k \in Nat \ G : m <= k
      <3> DEFINE T == Nat \ G
      <3> HIDE DEF T
      <3>1. \E m \in T : \A k \in T : m <= k
        <4>1. T \in SUBSET Nat /\ T # {}
          BY <1>1 DEF T
        <4> QED BY <4>1, LeastNat
      <3> QED BY <3>1 DEF T
    <2>2. m - 1 \in Nat /\ ~(m <= m - 1)
      <3>1. m # 0
        OBVIOUS
      <3> QED BY <3>1
    <2>3. m - 1 \in G
      BY <2>1, <2>2
    <2>4. (m - 1) + 1 = m
      OBVIOUS
    <2> QED BY <2>3, <2>4
  <1> QED BY <1>1

\* A fact that passes from the sets one element smaller to a set holds of all.
LEMMA SubsetInduction ==
  ASSUME NEW S, IsFiniteSet(S), NEW G \in SUBSET (SUBSET S), {} \in G,
         \A U \in SUBSET S : U # {} /\ (\A x \in U : U \ {x} \in G) => U \in G
  PROVE  G = SUBSET S
  <1> DEFINE K == {k \in Nat : \A U \in SUBSET S : Cardinality(U) = k => U \in G}
  <1>1. \A U \in SUBSET S : IsFiniteSet(U) /\ Cardinality(U) \in Nat
    BY FS_Subset, FS_CardinalityType
  <1>2. 0 \in K
    <2>1. \A U \in SUBSET S : Cardinality(U) = 0 => U = {}
      BY <1>1, FS_EmptySet
    <2> QED BY <2>1
  <1>3. ASSUME NEW k \in K PROVE k + 1 \in K
    <2> SUFFICES ASSUME NEW U \in SUBSET S, Cardinality(U) = k + 1 PROVE U \in G
      OBVIOUS
    <2>1. U # {}
      <3>1. Cardinality({}) = 0 /\ 0 # k + 1
        BY FS_EmptySet
      <3> QED BY <3>1
    <2>2. k + 1 - 1 = k
      OBVIOUS
    <2>3. ASSUME NEW x \in U PROVE U \ {x} \in G
      <3>1. U \ {x} \in SUBSET S /\ Cardinality(U \ {x}) = Cardinality(U) - 1
        BY <1>1, FS_RemoveElement
      <3> QED BY <2>2, <3>1
    <2> QED BY <2>1, <2>3
  <1>4. K = Nat
    <2> HIDE DEF K
    <2>1. K \in SUBSET Nat
      BY DEF K
    <2> QED BY <1>2, <1>3, <2>1, NatInductionSet
  <1> QED BY <1>1, <1>4

\* The largest and the smallest of a set of bounded numbers.
LEMMA Greatest ==
  ASSUME NEW T \in SUBSET Int, T # {}, NEW b \in Int, \A x \in T : x <= b
  PROVE  Max(T) \in T /\ \A x \in T : x <= Max(T)
  <1> DEFINE N == {b - x : x \in T}
  <1>1. N \in SUBSET Nat /\ N # {}
    <2>1. \A x \in T : b - x \in Nat
      <3> SUFFICES ASSUME NEW x \in T PROVE b - x \in Nat
        OBVIOUS
      <3>1. x \in Int /\ x <= b
        OBVIOUS
      <3> QED BY <3>1
    <2> QED BY <2>1
  <1>2. PICK n \in N : \A k \in N : n <= k
    <2> HIDE DEF N
    <2> QED BY <1>1, LeastNat
  <1>3. PICK m \in T : n = b - m
    OBVIOUS
  <1>4. \A x \in T : m >= x
    <2> SUFFICES ASSUME NEW x \in T PROVE m >= x
      OBVIOUS
    <2>1. b - m <= b - x
      BY <1>2, <1>3
    <2> QED BY <2>1
  <1>5. Max(T) \in T /\ \A x \in T : Max(T) >= x
    BY <1>4 DEF Max
  <1> QED BY <1>5

LEMMA Smallest ==
  ASSUME NEW T \in SUBSET Int, T # {}, NEW b \in Int, \A x \in T : b <= x
  PROVE  Min(T) \in T /\ \A x \in T : Min(T) <= x
  <1> DEFINE N == {x - b : x \in T}
  <1>1. N \in SUBSET Nat /\ N # {}
    <2>1. \A x \in T : x - b \in Nat
      <3> SUFFICES ASSUME NEW x \in T PROVE x - b \in Nat
        OBVIOUS
      <3>1. x \in Int /\ b <= x
        OBVIOUS
      <3> QED BY <3>1
    <2> QED BY <2>1
  <1>2. PICK n \in N : \A k \in N : n <= k
    <2> HIDE DEF N
    <2> QED BY <1>1, LeastNat
  <1>3. PICK m \in T : n = m - b
    OBVIOUS
  <1>4. \A x \in T : m <= x
    <2> SUFFICES ASSUME NEW x \in T PROVE m <= x
      OBVIOUS
    <2>1. m - b <= x - b
      BY <1>2, <1>3
    <2> QED BY <2>1
  <1> QED BY <1>4 DEF Min

LEMMA Largest ==
  ASSUME NEW n \in Nat, NEW U \in SUBSET (1..n), U # {}
  PROVE  /\ Max(U) \in U /\ \A x \in U : x <= Max(U)
         /\ U \ {Max(U)} \in SUBSET (1..n) /\ U = (U \ {Max(U)}) \cup {Max(U)}
  <1>1. U \in SUBSET Int /\ n \in Int /\ \A x \in U : x <= n
    OBVIOUS
  <1>2. Max(U) \in U /\ \A x \in U : x <= Max(U)
    BY <1>1, Greatest
  <1> QED BY <1>2

----------------------------------------------------------------------------
(* Sums, as the number of points under a function.                         *)

Points(f, S) == UNION {{c} \X (1..f[c]) : c \in S}

LEMMA PointsAdd ==
  ASSUME NEW T, IsFiniteSet(T), NEW f \in [T -> Nat], NEW S \in SUBSET T, NEW c \in T \ S
  PROVE  /\ IsFiniteSet(Points(f, S)) => IsFiniteSet(Points(f, S \cup {c}))
         /\ IsFiniteSet(Points(f, S)) =>
              Cardinality(Points(f, S \cup {c})) = f[c] + Cardinality(Points(f, S))
  <1> SUFFICES ASSUME IsFiniteSet(Points(f, S))
               PROVE  /\ IsFiniteSet(Points(f, S \cup {c}))
                      /\ Cardinality(Points(f, S \cup {c})) = f[c] + Cardinality(Points(f, S))
    OBVIOUS
  <1> DEFINE A == Points(f, S)
             B == {c} \X (1..f[c])
  <1>1. Points(f, S \cup {c}) = A \cup B
    BY DEF Points
  <1>2. A \cap B = {}
    BY DEF Points
  <1>3. IsFiniteSet(1..f[c]) /\ Cardinality(1..f[c]) = f[c]
    BY FS_Interval
  <1>4. IsFiniteSet({c}) /\ Cardinality({c}) = 1
    BY FS_Singleton
  <1>5. IsFiniteSet(B) /\ Cardinality(B) = f[c]
    <2>1. IsFiniteSet(B) /\ Cardinality(B) = 1 * f[c]
      BY <1>3, <1>4, FS_Product
    <2>2. 1 * f[c] = f[c]
      OBVIOUS
    <2> QED BY <2>1, <2>2
  <1>6. Cardinality({}) = 0
    BY FS_EmptySet
  <1> HIDE DEF A, B
  <1>7. IsFiniteSet(A) /\ Cardinality(A) \in Nat
    BY FS_CardinalityType DEF A
  <1>8. IsFiniteSet(A \cup B) /\ Cardinality(A \cup B) = Cardinality(A) + Cardinality(B) - Cardinality(A \cap B)
    BY <1>5, <1>7, FS_Union
  <1>9. \A x, y \in Nat : x + y - 0 = y + x
    OBVIOUS
  <1>10. Cardinality(A \cup B) = f[c] + Cardinality(A)
    BY <1>2, <1>5, <1>6, <1>7, <1>8, <1>9
  <1> QED BY <1>1, <1>8, <1>10 DEF A

Sum(f, S) == Cardinality(Points(f, S))

LEMMA PointsFinite ==
  ASSUME NEW T, IsFiniteSet(T), NEW f \in [T -> Nat], NEW S \in SUBSET T
  PROVE  IsFiniteSet(Points(f, S)) /\ Sum(f, S) \in Nat
  <1> DEFINE G == {U \in SUBSET T : IsFiniteSet(Points(f, U))}
  <1>1. {} \in G
    <2>1. Points(f, {}) = {}
      BY DEF Points
    <2> QED BY <2>1, FS_EmptySet
  <1>2. ASSUME NEW U \in SUBSET T, U # {}, \A x \in U : U \ {x} \in G PROVE U \in G
    <2> PICK x \in U : TRUE
      BY <1>2
    <2>1. U \ {x} \in SUBSET T /\ x \in T \ (U \ {x}) /\ (U \ {x}) \cup {x} = U /\ IsFiniteSet(Points(f, U \ {x}))
      BY <1>2
    <2>2. IsFiniteSet(Points(f, (U \ {x}) \cup {x}))
      BY <2>1, PointsAdd
    <2> QED BY <2>1, <2>2
  <1>3. G = SUBSET T
    <2>1. G \in SUBSET (SUBSET T)
      OBVIOUS
    <2> HIDE DEF G
    <2> QED BY <1>1, <1>2, <2>1, SubsetInduction
  <1>4. IsFiniteSet(Points(f, S))
    BY <1>3
  <1> QED BY <1>4, FS_CardinalityType DEF Sum

LEMMA SumStep ==
  ASSUME NEW T, IsFiniteSet(T), NEW f \in [T -> Nat]
  PROVE  /\ Sum(f, {}) = 0
         /\ \A S \in SUBSET T : Sum(f, S) \in Nat
         /\ \A S \in SUBSET T : \A c \in T \ S : Sum(f, S \cup {c}) = f[c] + Sum(f, S)
         /\ \A S \in SUBSET T : \A c \in S : Sum(f, S) = Sum(f, S \ {c}) + f[c]
  <1>1. Sum(f, {}) = 0
    <2>1. Points(f, {}) = {}
      BY DEF Points
    <2> QED BY <2>1, FS_EmptySet DEF Sum
  <1>2. \A S \in SUBSET T : Sum(f, S) \in Nat
    BY PointsFinite
  <1>3. ASSUME NEW S \in SUBSET T, NEW c \in T \ S PROVE Sum(f, S \cup {c}) = f[c] + Sum(f, S)
    BY PointsAdd, PointsFinite DEF Sum
  <1>4. ASSUME NEW S \in SUBSET T, NEW c \in S PROVE Sum(f, S) = Sum(f, S \ {c}) + f[c]
    <2>1. S \ {c} \in SUBSET T /\ c \in T \ (S \ {c}) /\ (S \ {c}) \cup {c} = S
      OBVIOUS
    <2>2. Sum(f, (S \ {c}) \cup {c}) = f[c] + Sum(f, S \ {c})
      BY <1>3, <2>1
    <2>3. Sum(f, S \ {c}) \in Nat /\ f[c] \in Nat
      BY <1>2, <2>1
    <2> QED BY <2>1, <2>2, <2>3
  <1> QED BY <1>1, <1>2, <1>3, <1>4

LEMMA SumUnion ==
  ASSUME NEW T, IsFiniteSet(T), NEW f \in [T -> Nat], NEW A \in SUBSET T, NEW B \in SUBSET T, A \cap B = {}
  PROVE  Sum(f, A \cup B) = Sum(f, A) + Sum(f, B)
  <1>1. Points(f, A \cup B) = Points(f, A) \cup Points(f, B)
    BY DEF Points
  <1>2. Points(f, A) \cap Points(f, B) = {}
    BY DEF Points
  <1>3. IsFiniteSet(Points(f, A)) /\ IsFiniteSet(Points(f, B))
    BY PointsFinite
  <1>4. Sum(f, A) \in Nat /\ Sum(f, B) \in Nat
    BY PointsFinite
  <1>5. Cardinality(Points(f, A) \cup Points(f, B)) =
          Cardinality(Points(f, A)) + Cardinality(Points(f, B)) - Cardinality(Points(f, A) \cap Points(f, B))
    BY <1>3, FS_Union
  <1>6. Sum(f, A \cup B) = Sum(f, A) + Sum(f, B) - 0
    BY <1>1, <1>2, <1>5, FS_EmptySet DEF Sum
  <1> QED BY <1>4, <1>6

LEMMA SumMonotone ==
  ASSUME NEW T, IsFiniteSet(T), NEW f \in [T -> Nat], NEW g \in [T -> Nat], NEW S \in SUBSET T,
         \A c \in S : f[c] <= g[c]
  PROVE  Sum(f, S) <= Sum(g, S)
  <1>1. Points(f, S) \in SUBSET Points(g, S)
    <2>1. ASSUME NEW c \in S PROVE {c} \X (1..f[c]) \subseteq {c} \X (1..g[c])
      <3>1. f[c] \in Nat /\ g[c] \in Nat /\ f[c] <= g[c]
        OBVIOUS
      <3> QED BY <3>1
    <2> QED BY <2>1 DEF Points
  <1> QED BY <1>1, PointsFinite, FS_Subset DEF Sum

\* A constant summed up is a product.
LEMMA SumConstant ==
  ASSUME NEW T, IsFiniteSet(T), NEW f \in [T -> Nat], NEW S \in SUBSET T, NEW b \in Nat, \A c \in S : f[c] = b
  PROVE  Sum(f, S) = Cardinality(S) * b
  <1>1. IsFiniteSet(S) /\ IsFiniteSet(1..b) /\ Cardinality(1..b) = b
    BY FS_Subset, FS_Interval
  <1>2. Points(f, S) = S \X (1..b)
    BY DEF Points
  <1> QED BY <1>1, <1>2, FS_Product DEF Sum

\* A sum does not depend on what the terms are called.
LEMMA SumRenamed ==
  ASSUME NEW S, IsFiniteSet(S), NEW R, IsFiniteSet(R), NEW T \in SUBSET R, NEW p \in Bijection(S, T),
         NEW f \in [S -> Nat], NEW g \in [R -> Nat], \A c \in S : f[c] = g[p[c]]
  PROVE  Sum(f, S) = Sum(g, T)
  <1> DEFINE q == [x \in Points(f, S) |-> <<p[x[1]], x[2]>>]
  <1>1. /\ p \in [S -> T] /\ \A a, b \in S : p[a] = p[b] => a = b
        /\ \A t \in T : \E s \in S : p[s] = t
    BY DEF Bijection, Injection, Surjection, IsInjective
  <1>2. \A x \in Points(f, S) : x = <<x[1], x[2]>> /\ x[1] \in S /\ x[2] \in 1..f[x[1]]
    BY DEF Points
  <1>3. \A s \in S : \A k \in 1..f[s] : <<s, k>> \in Points(f, S)
    BY DEF Points
  <1>4. \A t \in T : \A k \in 1..g[t] : <<t, k>> \in Points(g, T)
    BY DEF Points
  <1>5. \A y \in Points(g, T) : y = <<y[1], y[2]>> /\ y[1] \in T /\ y[2] \in 1..g[y[1]]
    BY DEF Points
  <1>6. q \in [Points(f, S) -> Points(g, T)]
    BY <1>1, <1>2, <1>4
  <1>7. ASSUME NEW x \in Points(f, S), NEW y \in Points(f, S), q[x] = q[y] PROVE x = y
    <2>1. p[x[1]] = p[y[1]] /\ x[2] = y[2]
      BY <1>7
    <2>2. x[1] = y[1]
      BY <1>1, <1>2, <2>1
    <2> QED BY <1>2, <2>1, <2>2
  <1>8. ASSUME NEW y \in Points(g, T) PROVE \E x \in Points(f, S) : q[x] = y
    <2>1. PICK s \in S : p[s] = y[1]
      BY <1>1, <1>5
    <2>2. <<s, y[2]>> \in Points(f, S)
      BY <1>3, <1>5, <2>1
    <2>3. q[<<s, y[2]>>] = <<y[1], y[2]>>
      BY <2>1, <2>2
    <2> QED BY <1>5, <2>2, <2>3
  <1> HIDE DEF q
  <1>9. q \in Bijection(Points(f, S), Points(g, T))
    BY <1>6, <1>7, <1>8 DEF Bijection, Injection, Surjection, IsInjective
  <1>10. ExistsBijection(Points(f, S), Points(g, T))
    BY <1>9 DEF ExistsBijection
  <1>11. IsFiniteSet(Points(f, S))
    BY PointsFinite
  <1> QED BY <1>10, <1>11, FS_Bijection DEF Sum

----------------------------------------------------------------------------
(* The loop of calculate_welfare: its fold satisfies the equation a reader *)
(* expects, one event after the other in the order of the positions.       *)

TallyType == [n : Nat, weight : Nat, ewma : Nat, scale : Nat \ {0}, honored : Nat, breaks : Nat,
              dimWeight : [DIMENSIONS -> Nat], dimCount : [DIMENSIONS -> Nat]]

Unfolded(events, h, U) ==
  IF U = {} THEN NoTally ELSE Accumulate(h[U \ {Max(U)}], events[Max(U)])

IsFold(events, S, h) == h = [U \in SUBSET S |-> Unfolded(events, h, U)]

LEMMA TallyIsFold ==
  ASSUME NEW events, NEW S
  PROVE  Tally(events, S) = (CHOOSE h : h = [U \in SUBSET S |-> Unfolded(events, h, U)])[S]
  BY DEF Tally, MapThenFoldSet, Unfolded

Small(n, k) == {U \in SUBSET (1..n) : Cardinality(U) <= k}

LEMMA SmallStep ==
  ASSUME NEW n \in Nat, NEW k \in Nat, NEW U \in Small(n, k + 1), U # {}
  PROVE  U \ {Max(U)} \in Small(n, k)
  <1>1. IsFiniteSet(1..n)
    BY FS_Interval
  <1>2. U \in SUBSET (1..n) /\ IsFiniteSet(U) /\ Cardinality(U) <= k + 1
    BY <1>1, FS_Subset DEF Small
  <1>3. Max(U) \in U /\ U \ {Max(U)} \in SUBSET (1..n)
    BY <1>2, Largest
  <1>4. Cardinality(U \ {Max(U)}) = Cardinality(U) - 1 /\ Cardinality(U) \in Nat
    BY <1>2, <1>3, FS_RemoveElement, FS_CardinalityType
  <1> QED BY <1>2, <1>3, <1>4 DEF Small

\* The equation has a solution on the sets of at most k positions, for every k.
LEMMA FoldExistsTo ==
  ASSUME NEW n \in Nat, NEW events
  PROVE  \A k \in Nat : \E h : h = [U \in Small(n, k) |-> Unfolded(events, h, U)]
  <1> DEFINE K == {k \in Nat : \E h : h = [U \in Small(n, k) |-> Unfolded(events, h, U)]}
  <1>1. 0 \in K
    <2>1. \A U \in Small(n, 0) : U = {}
      <3> SUFFICES ASSUME NEW U \in Small(n, 0) PROVE U = {}
        OBVIOUS
      <3>1. IsFiniteSet(1..n)
        BY FS_Interval
      <3>2. IsFiniteSet(U) /\ Cardinality(U) <= 0
        BY <3>1, FS_Subset DEF Small
      <3>3. Cardinality(U) = 0
        BY <3>2, FS_CardinalityType
      <3> QED BY <3>2, <3>3, FS_EmptySet
    <2> DEFINE h == [U \in Small(n, 0) |-> NoTally]
    <2>2. h = [U \in Small(n, 0) |-> Unfolded(events, h, U)]
      BY <2>1 DEF Unfolded
    <2> QED BY <2>2
  <1>2. ASSUME NEW k \in K PROVE k + 1 \in K
    <2>1. PICK g : g = [U \in Small(n, k) |-> Unfolded(events, g, U)]
      OBVIOUS
    <2> DEFINE h == [U \in Small(n, k + 1) |-> Unfolded(events, g, U)]
    <2>2. ASSUME NEW U \in Small(n, k) PROVE h[U] = g[U]
      <3>1. U \in Small(n, k + 1)
        <4>1. IsFiniteSet(1..n)
          BY FS_Interval
        <4>2. U \in SUBSET (1..n) /\ IsFiniteSet(U) /\ Cardinality(U) <= k
          BY <4>1, FS_Subset DEF Small
        <4>3. Cardinality(U) \in Nat
          BY <4>2, FS_CardinalityType
        <4> QED BY <4>2, <4>3 DEF Small
      <3>2. g[U] = Unfolded(events, g, U)
        BY <2>1
      <3> QED BY <3>1, <3>2
    <2>3. ASSUME NEW U \in Small(n, k + 1) PROVE Unfolded(events, h, U) = Unfolded(events, g, U)
      <3>1. CASE U = {}
        BY <3>1 DEF Unfolded
      <3>2. CASE U # {}
        <4>1. U \ {Max(U)} \in Small(n, k)
          BY <3>2, SmallStep
        <4>2. h[U \ {Max(U)}] = g[U \ {Max(U)}]
          BY <2>2, <4>1
        <4> HIDE DEF h
        <4> QED BY <4>2 DEF Unfolded
      <3> QED BY <3>1, <3>2
    <2>4. h = [U \in Small(n, k + 1) |-> Unfolded(events, h, U)]
      BY <2>3
    <2>5. \E f : f = [U \in Small(n, k + 1) |-> Unfolded(events, f, U)]
      BY <2>4
    <2>6. k + 1 \in Nat
      OBVIOUS
    <2> QED BY <2>5, <2>6
  <1>3. K = Nat
    <2>1. K \in SUBSET Nat
      OBVIOUS
    <2> HIDE DEF K
    <2> QED BY <1>1, <1>2, <2>1, NatInductionSet
  <1> QED BY <1>3

LEMMA FoldExists ==
  ASSUME NEW n \in Nat, NEW events, NEW S \in SUBSET (1..n)
  PROVE  \E h : h = [U \in SUBSET S |-> Unfolded(events, h, U)]
  <1>1. PICK g : g = [U \in Small(n, n) |-> Unfolded(events, g, U)]
    BY FoldExistsTo
  <1>2. SUBSET S \subseteq Small(n, n)
    <2> SUFFICES ASSUME NEW U \in SUBSET S PROVE U \in Small(n, n)
      OBVIOUS
    <2>1. IsFiniteSet(1..n) /\ Cardinality(1..n) = n
      BY FS_Interval
    <2>2. U \in SUBSET (1..n)
      OBVIOUS
    <2>3. Cardinality(U) <= n
      BY <2>1, <2>2, FS_Subset
    <2> QED BY <2>2, <2>3 DEF Small
  <1> DEFINE h == [U \in SUBSET S |-> g[U]]
  <1>3. ASSUME NEW U \in SUBSET S PROVE h[U] = Unfolded(events, h, U)
    <2>1. h[U] = Unfolded(events, g, U)
      BY <1>1, <1>2
    <2>2. U # {} => U \ {Max(U)} \in SUBSET S
      OBVIOUS
    <2>3. U # {} => h[U \ {Max(U)}] = g[U \ {Max(U)}]
      BY <2>2
    <2> HIDE DEF h
    <2>4. Unfolded(events, h, U) = Unfolded(events, g, U)
      BY <2>3 DEF Unfolded
    <2> QED BY <2>1, <2>4
  <1>4. h = [U \in SUBSET S |-> Unfolded(events, h, U)]
    BY <1>3
  <1> QED BY <1>4

\* Two solutions agree.
LEMMA FoldUnique ==
  ASSUME NEW n \in Nat, NEW events, NEW S \in SUBSET (1..n), NEW T \in SUBSET S
  PROVE  \A g, h : IsFold(events, T, g) /\ IsFold(events, S, h) => g[T] = h[T]
  <1> SUFFICES ASSUME NEW g, NEW h, IsFold(events, T, g), IsFold(events, S, h) PROVE g[T] = h[T]
    OBVIOUS
  <1> DEFINE G == {U \in SUBSET T : g[U] = h[U]}
  <1>1. \A U \in SUBSET T : g[U] = Unfolded(events, g, U)
    <2>1. g = [U \in SUBSET T |-> Unfolded(events, g, U)]
      BY DEF IsFold
    <2> QED BY <2>1
  <1>2. \A U \in SUBSET T : h[U] = Unfolded(events, h, U)
    <2>1. h = [U \in SUBSET S |-> Unfolded(events, h, U)]
      BY DEF IsFold
    <2> QED BY <2>1
  <1>3. {} \in G
    BY <1>1, <1>2 DEF Unfolded
  <1>4. ASSUME NEW U \in SUBSET T, U # {}, \A x \in U : U \ {x} \in G PROVE U \in G
    <2>1. Max(U) \in U
      <3>1. U \in SUBSET (1..n)
        OBVIOUS
      <3> QED BY <1>4, <3>1, Largest
    <2>2. g[U \ {Max(U)}] = h[U \ {Max(U)}]
      BY <1>4, <2>1
    <2>3. Unfolded(events, g, U) = Unfolded(events, h, U)
      BY <2>2 DEF Unfolded
    <2> QED BY <1>1, <1>2, <2>3
  <1>5. IsFiniteSet(T)
    <2>1. IsFiniteSet(1..n) /\ T \in SUBSET (1..n)
      BY FS_Interval
    <2> QED BY <2>1, FS_Subset
  <1>6. G = SUBSET T
    <2>1. G \in SUBSET (SUBSET T)
      OBVIOUS
    <2> HIDE DEF G
    <2> QED BY <1>3, <1>4, <1>5, <2>1, SubsetInduction
  <1>7. T \in G
    <2> HIDE DEF G
    <2> QED BY <1>6
  <1> QED BY <1>7

\* The loop over the positions S is the loop over all but the last of them,
\* then the event at the last.
LEMMA Unfolds ==
  ASSUME NEW n \in Nat, NEW events, NEW S \in SUBSET (1..n)
  PROVE  /\ S = {} => Tally(events, S) = NoTally
         /\ S # {} => Tally(events, S) = Accumulate(Tally(events, S \ {Max(S)}), events[Max(S)])
  <1> DEFINE F(T) == CHOOSE h : h = [U \in SUBSET T |-> Unfolded(events, h, U)]
  <1>1. \A T \in SUBSET S : F(T) = [U \in SUBSET T |-> Unfolded(events, F(T), U)]
    <2> SUFFICES ASSUME NEW T \in SUBSET S PROVE F(T) = [U \in SUBSET T |-> Unfolded(events, F(T), U)]
      OBVIOUS
    <2>1. \E h : h = [U \in SUBSET T |-> Unfolded(events, h, U)]
      BY FoldExists
    <2> QED BY <2>1
  <1>2. \A T \in SUBSET S : Tally(events, T) = F(T)[T]
    BY TallyIsFold
  <1> HIDE DEF F
  <1>3. \A T \in SUBSET S : F(T)[T] = F(S)[T]
    <2> SUFFICES ASSUME NEW T \in SUBSET S PROVE F(T)[T] = F(S)[T]
      OBVIOUS
    <2>1. IsFold(events, T, F(T)) /\ IsFold(events, S, F(S))
      BY <1>1 DEF IsFold
    <2>2. S \in SUBSET (1..n) /\ T \in SUBSET S /\ n \in Nat
      OBVIOUS
    <2>3. \A g, h : IsFold(events, T, g) /\ IsFold(events, S, h) => g[T] = h[T]
      BY <2>2, FoldUnique
    <2> QED BY <2>1, <2>3
  <1>4. F(S)[S] = Unfolded(events, F(S), S)
    BY <1>1
  <1>5. CASE S = {}
    BY <1>2, <1>4, <1>5 DEF Unfolded
  <1>6. CASE S # {}
    <2>1. S \ {Max(S)} \in SUBSET S
      OBVIOUS
    <2>2. F(S)[S \ {Max(S)}] = Tally(events, S \ {Max(S)})
      BY <1>2, <1>3, <2>1
    <2> QED BY <1>2, <1>4, <1>6, <2>2 DEF Unfolded
  <1> QED BY <1>5, <1>6

----------------------------------------------------------------------------
(* What the loop computes: types, and each of its running totals as a sum. *)

LEMMA EventType ==
  ASSUME NEW e \in Event
  PROVE  /\ Penalty(e) \in {0, 1, 3, 5} /\ EventScore(e) = 200 * (5 - Penalty(e))
         /\ EventScore(e) \in 0..1000
  <1>1. e.sev \in DOMAIN SEVERITY_WEIGHTS
    BY WelfareAssumption DEF Event
  <1>2. DOMAIN SEVERITY_WEIGHTS = {"info", "warning", "violation", "critical"}
    BY DEF SEVERITY_WEIGHTS
  <1>3. Penalty(e) \in {0, 1, 3, 5}
    BY <1>1, <1>2 DEF Penalty, SEVERITY_WEIGHTS
  <1>4. max_weight = 5 /\ 1000 \div 5 = 200
    BY DEF max_weight
  <1>5. EventScore(e) = 200 * (5 - Penalty(e))
    BY <1>4 DEF EventScore
  <1> QED BY <1>3, <1>5

Honored(e) == IF e.kind.type \in BREAK_HONORED_TYPES THEN 1 ELSE 0
Break(e) == IF e.kind.type \in BREAK_HONORED_TYPES \cup BREAK_VIOLATED_TYPES THEN 1 ELSE 0

LEMMA AccumulateType ==
  ASSUME NEW t \in TallyType, NEW e \in Event
  PROVE  Accumulate(t, e) \in TallyType
  <1>1. Penalty(e) \in Nat /\ EventScore(e) \in Nat
    BY EventType
  <1>2. /\ t.n \in Nat /\ t.weight \in Nat /\ t.ewma \in Nat /\ t.scale \in Nat /\ t.scale # 0
        /\ t.honored \in Nat /\ t.breaks \in Nat
        /\ t.dimWeight \in [DIMENSIONS -> Nat] /\ t.dimCount \in [DIMENSIONS -> Nat]
    BY DEF TallyType
  <1>3. Honored(e) \in Nat /\ Break(e) \in Nat
    BY DEF Honored, Break
  <1>4. \A a, b, c \in Nat : 3 * a * b + 7 * c \in Nat
    OBVIOUS
  <1>5. Ewma(t, e) \in Nat
    BY <1>1, <1>2, <1>4 DEF Ewma
  <1>6. (IF t.n = 0 THEN 1 ELSE 10 * t.scale) \in Nat \ {0}
    BY <1>2
  <1>7. [d \in DIMENSIONS |-> t.dimWeight[d] + IF d = Dimension(e) THEN Penalty(e) ELSE 0] \in [DIMENSIONS -> Nat]
    BY <1>1, <1>2
  <1>8. [d \in DIMENSIONS |-> t.dimCount[d] + IF d = Dimension(e) THEN 1 ELSE 0] \in [DIMENSIONS -> Nat]
    BY <1>2
  <1>9. t.n + 1 \in Nat /\ t.weight + Penalty(e) \in Nat /\ t.honored + Honored(e) \in Nat
        /\ t.breaks + Break(e) \in Nat
    BY <1>1, <1>2, <1>3
  <1> QED BY <1>5, <1>6, <1>7, <1>8, <1>9 DEF Accumulate, TallyType, Honored, Break

Feed == Seq(Event)

LEMMA PositionsFinite ==
  ASSUME NEW events \in Feed, NEW S \in SUBSET DOMAIN events
  PROVE  /\ Len(events) \in Nat /\ DOMAIN events = 1..Len(events)
         /\ IsFiniteSet(DOMAIN events) /\ Cardinality(DOMAIN events) = Len(events)
         /\ IsFiniteSet(S) /\ Cardinality(S) \in Nat /\ Cardinality(S) <= Len(events)
         /\ \A i \in DOMAIN events : events[i] \in Event
  <1>1. /\ Len(events) \in Nat /\ DOMAIN events = 1..Len(events)
        /\ \A i \in DOMAIN events : events[i] \in Event
    BY DEF Feed
  <1>2. IsFiniteSet(1..Len(events)) /\ Cardinality(1..Len(events)) = Len(events)
    <2> DEFINE n == Len(events)
    <2> HIDE DEF n
    <2>1. n \in Nat
      BY <1>1 DEF n
    <2>2. IsFiniteSet(1..n) /\ Cardinality(1..n) = n
      BY <2>1, FS_Interval
    <2> QED BY <2>2 DEF n
  <1>3. IsFiniteSet(S) /\ Cardinality(S) <= Cardinality(1..Len(events))
    BY <1>1, <1>2, FS_Subset
  <1>4. Cardinality(S) \in Nat
    BY <1>3, FS_CardinalityType
  <1> QED BY <1>1, <1>2, <1>3, <1>4

\* The equation of Unfolds, with what is known of the position it takes.
LEMMA LastStep ==
  ASSUME NEW events \in Feed, NEW S \in SUBSET DOMAIN events, S # {}
  PROVE  /\ Max(S) \in S /\ S \ {Max(S)} \in SUBSET DOMAIN events /\ events[Max(S)] \in Event
         /\ Tally(events, S) = Accumulate(Tally(events, S \ {Max(S)}), events[Max(S)])
  <1>1. /\ Len(events) \in Nat /\ DOMAIN events = 1..Len(events)
        /\ \A i \in DOMAIN events : events[i] \in Event
    BY PositionsFinite
  <1>2. S \in SUBSET (1..Len(events))
    BY <1>1
  <1>3. Max(S) \in S
    BY <1>1, <1>2, Largest
  <1>4. Tally(events, S) = Accumulate(Tally(events, S \ {Max(S)}), events[Max(S)])
    BY <1>1, <1>2, Unfolds
  <1> QED BY <1>1, <1>3, <1>4

LEMMA NoPositions ==
  ASSUME NEW events
  PROVE  Tally(events, {}) = NoTally
  <1>1. 0 \in Nat /\ {} \in SUBSET (1..0)
    OBVIOUS
  <1> QED BY <1>1, Unfolds

LEMMA TallyTyped ==
  ASSUME NEW events \in Feed
  PROVE  \A S \in SUBSET DOMAIN events : Tally(events, S) \in TallyType
  <1> DEFINE D == DOMAIN events
             G == {U \in SUBSET D : Tally(events, U) \in TallyType}
  <1>1. {} \in G
    <2>1. NoTally \in TallyType
      BY DEF NoTally, TallyType, NoDims
    <2> QED BY <2>1, NoPositions
  <1>2. ASSUME NEW U \in SUBSET D, U # {}, \A x \in U : U \ {x} \in G PROVE U \in G
    <2>1. /\ Max(U) \in U /\ events[Max(U)] \in Event
          /\ Tally(events, U) = Accumulate(Tally(events, U \ {Max(U)}), events[Max(U)])
      BY <1>2, LastStep
    <2>2. Tally(events, U \ {Max(U)}) \in TallyType
      BY <1>2, <2>1
    <2>3. Tally(events, U) \in TallyType
      BY <2>1, <2>2, AccumulateType
    <2> QED BY <2>3
  <1>3. G = SUBSET D
    <2>1. G \in SUBSET (SUBSET D) /\ IsFiniteSet(D)
      BY PositionsFinite
    <2> HIDE DEF G, D
    <2> QED BY <1>1, <1>2, <2>1, SubsetInduction
  <1> QED BY <1>3

\* A total that starts at zero and grows by a term of each event is their sum.
IsRunningTotal(n, a, f) ==
  a[{}] = 0 /\ \A U \in SUBSET (1..n) : U # {} => a[U] = a[U \ {Max(U)}] + f[Max(U)]

LEMMA RunningTotal ==
  ASSUME NEW n \in Nat, NEW f \in [1..n -> Nat]
  PROVE  \A a : IsRunningTotal(n, a, f) => \A U \in SUBSET (1..n) : a[U] = Sum(f, U)
  <1> SUFFICES ASSUME NEW a, IsRunningTotal(n, a, f) PROVE \A U \in SUBSET (1..n) : a[U] = Sum(f, U)
    OBVIOUS
  <1>0. a[{}] = 0 /\ \A U \in SUBSET (1..n) : U # {} => a[U] = a[U \ {Max(U)}] + f[Max(U)]
    BY DEF IsRunningTotal
  <1> DEFINE D == 1..n
             G == {U \in SUBSET D : a[U] = Sum(f, U)}
  <1>1. IsFiniteSet(D)
    BY FS_Interval
  <1>2. {} \in G
    BY <1>0, <1>1, SumStep
  <1>3. ASSUME NEW U \in SUBSET D, U # {}, \A x \in U : U \ {x} \in G PROVE U \in G
    <2>1. Max(U) \in U
      BY <1>3, Largest
    <2>2. a[U \ {Max(U)}] = Sum(f, U \ {Max(U)})
      BY <1>3, <2>1
    <2>3. Sum(f, U) = Sum(f, U \ {Max(U)}) + f[Max(U)]
      BY <1>1, <2>1, SumStep
    <2>4. a[U] = a[U \ {Max(U)}] + f[Max(U)]
      BY <1>0, <1>3
    <2> QED BY <2>2, <2>3, <2>4
  <1>4. G = SUBSET D
    <2>1. G \in SUBSET (SUBSET D)
      OBVIOUS
    <2> HIDE DEF G, D
    <2> QED BY <1>1, <1>2, <1>3, <2>1, SubsetInduction
  <1> QED BY <1>4

Ones(events) == [i \in DOMAIN events |-> 1]
Weights(events) == [i \in DOMAIN events |-> Penalty(events[i])]
Honors(events) == [i \in DOMAIN events |-> Honored(events[i])]
Breaks(events) == [i \in DOMAIN events |-> Break(events[i])]
DimWeights(events, d) == [i \in DOMAIN events |-> IF d = Dimension(events[i]) THEN Penalty(events[i]) ELSE 0]
DimCounts(events, d) == [i \in DOMAIN events |-> IF d = Dimension(events[i]) THEN 1 ELSE 0]

LEMMA TermTypes ==
  ASSUME NEW events \in Feed
  PROVE  /\ Ones(events) \in [DOMAIN events -> Nat] /\ Weights(events) \in [DOMAIN events -> Nat]
         /\ Honors(events) \in [DOMAIN events -> Nat] /\ Breaks(events) \in [DOMAIN events -> Nat]
         /\ \A d : DimWeights(events, d) \in [DOMAIN events -> Nat] /\ DimCounts(events, d) \in [DOMAIN events -> Nat]
         /\ \A i \in DOMAIN events : Weights(events)[i] <= 5 /\ Honors(events)[i] <= Breaks(events)[i]
         /\ \A d : \A i \in DOMAIN events : DimWeights(events, d)[i] <= 5 * DimCounts(events, d)[i]
  <1>1. \A i \in DOMAIN events : Penalty(events[i]) \in 0..5
    <2> SUFFICES ASSUME NEW i \in DOMAIN events PROVE Penalty(events[i]) \in 0..5
      OBVIOUS
    <2>1. events[i] \in Event
      BY PositionsFinite
    <2> QED BY <2>1, EventType
  <1>2. \A i \in DOMAIN events : Honored(events[i]) \in Nat /\ Break(events[i]) \in Nat /\ Honored(events[i]) <= Break(events[i])
    BY DEF Honored, Break
  <1> QED BY <1>1, <1>2 DEF Ones, Weights, Honors, Breaks, DimWeights, DimCounts

\* What the loop leaves: each of its counters is a sum over the positions.
LEMMA TallySums ==
  ASSUME NEW events \in Feed, NEW S \in SUBSET DOMAIN events
  PROVE  /\ Tally(events, S).n = Cardinality(S) /\ Tally(events, S).n = Sum(Ones(events), S)
         /\ Tally(events, S).weight = Sum(Weights(events), S)
         /\ Tally(events, S).honored = Sum(Honors(events), S)
         /\ Tally(events, S).breaks = Sum(Breaks(events), S)
         /\ \A d \in DIMENSIONS : Tally(events, S).dimWeight[d] = Sum(DimWeights(events, d), S)
         /\ \A d \in DIMENSIONS : Tally(events, S).dimCount[d] = Sum(DimCounts(events, d), S)
  <1> DEFINE N == Len(events)
             t(U) == Tally(events, U)
  <1>1. /\ N \in Nat /\ DOMAIN events = 1..N /\ IsFiniteSet(DOMAIN events)
        /\ \A i \in DOMAIN events : events[i] \in Event
    BY PositionsFinite
  <1>2. t({}) = NoTally
    BY NoPositions
  <1>3. \A U \in SUBSET (1..N) : U # {} =>
          /\ Max(U) \in 1..N /\ U \ {Max(U)} \in SUBSET (1..N)
          /\ t(U) = Accumulate(t(U \ {Max(U)}), events[Max(U)])
    <2> SUFFICES ASSUME NEW U \in SUBSET (1..N), U # {}
                 PROVE  /\ Max(U) \in 1..N /\ U \ {Max(U)} \in SUBSET (1..N)
                        /\ t(U) = Accumulate(t(U \ {Max(U)}), events[Max(U)])
      OBVIOUS
    <2>1. U \in SUBSET DOMAIN events
      BY <1>1
    <2>2. Max(U) \in U /\ t(U) = Accumulate(t(U \ {Max(U)}), events[Max(U)])
      BY <2>1, LastStep
    <2> QED BY <2>2
  <1>4. S \in SUBSET (1..N)
    BY <1>1
  <1> HIDE DEF N, t
  <1>5. t(S).n = Cardinality(S) /\ t(S).n = Sum(Ones(events), S)
    <2> DEFINE a == [U \in SUBSET (1..N) |-> t(U).n]
    <2>1. a[{}] = 0
      BY <1>2 DEF NoTally
    <2>2. \A U \in SUBSET (1..N) : U # {} => a[U] = a[U \ {Max(U)}] + Ones(events)[Max(U)]
      BY <1>1, <1>3 DEF Accumulate, Ones
    <2>3. Ones(events) \in [1..N -> Nat]
      BY <1>1, TermTypes
    <2> HIDE DEF a
    <2>4. a[S] = Sum(Ones(events), S)
      <3>1. \A b : IsRunningTotal(N, b, Ones(events)) => \A U \in SUBSET (1..N) : b[U] = Sum(Ones(events), U)
        BY <1>1, <2>3, RunningTotal
      <3>2. IsRunningTotal(N, a, Ones(events))
        BY <2>1, <2>2 DEF IsRunningTotal
      <3> QED BY <1>4, <3>1, <3>2
    <2>5. \A c \in S : Ones(events)[c] = 1
      BY DEF Ones
    <2>6. Sum(Ones(events), S) = Cardinality(S) * 1
      BY <1>1, <1>4, <2>3, <2>5, SumConstant
    <2>7. Cardinality(S) \in Nat
      BY PositionsFinite
    <2> QED BY <1>4, <2>4, <2>6, <2>7 DEF a
  <1>6. t(S).weight = Sum(Weights(events), S)
    <2> DEFINE a == [U \in SUBSET (1..N) |-> t(U).weight]
    <2>1. a[{}] = 0
      BY <1>2 DEF NoTally
    <2>2. \A U \in SUBSET (1..N) : U # {} => a[U] = a[U \ {Max(U)}] + Weights(events)[Max(U)]
      BY <1>1, <1>3 DEF Accumulate, Weights
    <2>3. Weights(events) \in [1..N -> Nat]
      BY <1>1, TermTypes
    <2> HIDE DEF a
    <2>4. a[S] = Sum(Weights(events), S)
      <3>1. \A b : IsRunningTotal(N, b, Weights(events)) => \A U \in SUBSET (1..N) : b[U] = Sum(Weights(events), U)
        BY <1>1, <2>3, RunningTotal
      <3>2. IsRunningTotal(N, a, Weights(events))
        BY <2>1, <2>2 DEF IsRunningTotal
      <3> QED BY <1>4, <3>1, <3>2
    <2> QED BY <1>4, <2>4 DEF a
  <1>7. t(S).honored = Sum(Honors(events), S)
    <2> DEFINE a == [U \in SUBSET (1..N) |-> t(U).honored]
    <2>1. a[{}] = 0
      BY <1>2 DEF NoTally
    <2>2. \A U \in SUBSET (1..N) : U # {} => a[U] = a[U \ {Max(U)}] + Honors(events)[Max(U)]
      BY <1>1, <1>3 DEF Accumulate, Honors, Honored
    <2>3. Honors(events) \in [1..N -> Nat]
      BY <1>1, TermTypes
    <2> HIDE DEF a
    <2>4. a[S] = Sum(Honors(events), S)
      <3>1. \A b : IsRunningTotal(N, b, Honors(events)) => \A U \in SUBSET (1..N) : b[U] = Sum(Honors(events), U)
        BY <1>1, <2>3, RunningTotal
      <3>2. IsRunningTotal(N, a, Honors(events))
        BY <2>1, <2>2 DEF IsRunningTotal
      <3> QED BY <1>4, <3>1, <3>2
    <2> QED BY <1>4, <2>4 DEF a
  <1>8. t(S).breaks = Sum(Breaks(events), S)
    <2> DEFINE a == [U \in SUBSET (1..N) |-> t(U).breaks]
    <2>1. a[{}] = 0
      BY <1>2 DEF NoTally
    <2>2. \A U \in SUBSET (1..N) : U # {} => a[U] = a[U \ {Max(U)}] + Breaks(events)[Max(U)]
      BY <1>1, <1>3 DEF Accumulate, Breaks, Break
    <2>3. Breaks(events) \in [1..N -> Nat]
      BY <1>1, TermTypes
    <2> HIDE DEF a
    <2>4. a[S] = Sum(Breaks(events), S)
      <3>1. \A b : IsRunningTotal(N, b, Breaks(events)) => \A U \in SUBSET (1..N) : b[U] = Sum(Breaks(events), U)
        BY <1>1, <2>3, RunningTotal
      <3>2. IsRunningTotal(N, a, Breaks(events))
        BY <2>1, <2>2 DEF IsRunningTotal
      <3> QED BY <1>4, <3>1, <3>2
    <2> QED BY <1>4, <2>4 DEF a
  <1>9. ASSUME NEW d \in DIMENSIONS PROVE t(S).dimWeight[d] = Sum(DimWeights(events, d), S)
    <2> DEFINE a == [U \in SUBSET (1..N) |-> t(U).dimWeight[d]]
    <2>1. a[{}] = 0
      BY <1>2 DEF NoTally, NoDims
    <2>2. \A U \in SUBSET (1..N) : U # {} => a[U] = a[U \ {Max(U)}] + DimWeights(events, d)[Max(U)]
      BY <1>1, <1>3 DEF Accumulate, DimWeights
    <2>3. DimWeights(events, d) \in [1..N -> Nat]
      BY <1>1, TermTypes
    <2> HIDE DEF a
    <2>4. a[S] = Sum(DimWeights(events, d), S)
      <3>1. \A b : IsRunningTotal(N, b, DimWeights(events, d)) => \A U \in SUBSET (1..N) : b[U] = Sum(DimWeights(events, d), U)
        BY <1>1, <2>3, RunningTotal
      <3>2. IsRunningTotal(N, a, DimWeights(events, d))
        BY <2>1, <2>2 DEF IsRunningTotal
      <3> QED BY <1>4, <3>1, <3>2
    <2> QED BY <1>4, <2>4 DEF a
  <1>10. ASSUME NEW d \in DIMENSIONS PROVE t(S).dimCount[d] = Sum(DimCounts(events, d), S)
    <2> DEFINE a == [U \in SUBSET (1..N) |-> t(U).dimCount[d]]
    <2>1. a[{}] = 0
      BY <1>2 DEF NoTally, NoDims
    <2>2. \A U \in SUBSET (1..N) : U # {} => a[U] = a[U \ {Max(U)}] + DimCounts(events, d)[Max(U)]
      BY <1>1, <1>3 DEF Accumulate, DimCounts
    <2>3. DimCounts(events, d) \in [1..N -> Nat]
      BY <1>1, TermTypes
    <2> HIDE DEF a
    <2>4. a[S] = Sum(DimCounts(events, d), S)
      <3>1. \A b : IsRunningTotal(N, b, DimCounts(events, d)) => \A U \in SUBSET (1..N) : b[U] = Sum(DimCounts(events, d), U)
        BY <1>1, <2>3, RunningTotal
      <3>2. IsRunningTotal(N, a, DimCounts(events, d))
        BY <2>1, <2>2 DEF IsRunningTotal
      <3> QED BY <1>4, <3>1, <3>2
    <2> QED BY <1>4, <2>4 DEF a
  <1> QED BY <1>5, <1>6, <1>7, <1>8, <1>9, <1>10 DEF t

----------------------------------------------------------------------------
(* Rounding, and the smoothed score.                                       *)

LEMMA Division ==
  ASSUME NEW x \in Nat, NEW y \in Nat \ {0}
  PROVE  /\ x \div y \in Nat
         /\ y * (x \div y) <= x /\ x < y * (x \div y) + y
  OBVIOUS

LEMMA Rounded ==
  ASSUME NEW a \in Nat, NEW b \in Nat \ {0}, NEW m \in Nat
  PROVE  /\ Round(a, b) \in Nat
         /\ Round(a, b) <= m <=> 2 * a + b < 2 * (b * m) + 2 * b
         /\ m <= Round(a, b) <=> 2 * (b * m) <= 2 * a + b
  <1> DEFINE q == Round(a, b)
             x == b * m
             y == b * q
  <1>1. q \in Nat /\ (2 * b) * q <= 2 * a + b /\ 2 * a + b < (2 * b) * q + 2 * b
    <2>1. 2 * a + b \in Nat /\ 2 * b \in Nat \ {0}
      OBVIOUS
    <2> QED BY <2>1, Division DEF Round
  <1> HIDE DEF q
  <1>2. x \in Nat /\ y \in Nat /\ (2 * b) * q = 2 * y
    BY <1>1
  <1>3. \A u, v, w \in Nat : u <= v => w * u <= w * v
    OBVIOUS
  <1>4. q <= m => y <= x
    BY <1>1, <1>3
  <1>5. m <= q => x <= y
    BY <1>1, <1>3
  <1>6. m + 1 <= q => x + b <= y
    <2>1. b * (m + 1) = x + b
      OBVIOUS
    <2> QED BY <1>1, <1>3, <2>1
  <1>7. q + 1 <= m => y + b <= x
    <2>1. b * (q + 1) = y + b
      BY <1>1
    <2> QED BY <1>1, <1>3, <2>1
  <1> HIDE DEF x, y
  <1>8. q <= m <=> 2 * a + b < 2 * x + 2 * b
    <2>1. q <= m \/ m + 1 <= q
      BY <1>1
    <2> QED BY <1>1, <1>2, <1>4, <1>6, <2>1
  <1>9. m <= q <=> 2 * x <= 2 * a + b
    <2>1. m <= q \/ q + 1 <= m
      BY <1>1
    <2> QED BY <1>1, <1>2, <1>5, <1>7, <2>1
  <1> QED BY <1>1, <1>8, <1>9 DEF q, x

\* The rounding of a fraction between two whole numbers is between them.
LEMMA RoundBetween ==
  ASSUME NEW a \in Nat, NEW b \in Nat \ {0}, NEW lo \in Nat, NEW hi \in Nat, lo * b <= a, a <= hi * b
  PROVE  Round(a, b) \in Nat /\ lo <= Round(a, b) /\ Round(a, b) <= hi
  <1> DEFINE x == b * lo
             y == b * hi
  <1>1. x \in Nat /\ y \in Nat /\ x <= a /\ a <= y
    OBVIOUS
  <1>2. /\ Round(a, b) \in Nat
        /\ Round(a, b) <= hi <=> 2 * a + b < 2 * y + 2 * b
        /\ lo <= Round(a, b) <=> 2 * x <= 2 * a + b
    BY Rounded
  <1> HIDE DEF x, y
  <1> QED BY <1>1, <1>2

\* Exponential smoothing never leaves the band its inputs are in.
LEMMA EwmaBand ==
  ASSUME NEW events \in Feed, NEW lo \in Nat, NEW hi \in Nat,
         \A i \in DOMAIN events : lo <= EventScore(events[i]) /\ EventScore(events[i]) <= hi
  PROVE  \A S \in SUBSET DOMAIN events : S # {} =>
           LET t == Tally(events, S) IN lo * t.scale <= t.ewma /\ t.ewma <= hi * t.scale
  <1> DEFINE D == DOMAIN events
             t(U) == Tally(events, U)
             InBand(U) == lo * t(U).scale <= t(U).ewma /\ t(U).ewma <= hi * t(U).scale
             G == {U \in SUBSET D : U # {} => InBand(U)}
  <1>1. {} \in G
    OBVIOUS
  <1>2. ASSUME NEW U \in SUBSET D, U # {}, \A x \in U : U \ {x} \in G PROVE U \in G
    <2> DEFINE V == U \ {Max(U)}
               e == events[Max(U)]
    <2>1. Max(U) \in U /\ V \in SUBSET D /\ e \in Event /\ t(U) = Accumulate(t(V), e)
      BY <1>2, LastStep
    <2>2. V \in G
      BY <1>2, <2>1
    <2>3. t(V) \in TallyType /\ t(V).n = Cardinality(V)
      BY <2>1, TallyTyped, TallySums
    <2>4. t(V).scale \in Nat /\ t(V).ewma \in Nat
      BY <2>3 DEF TallyType
    <2>5. EventScore(e) \in Nat /\ lo <= EventScore(e) /\ EventScore(e) <= hi
      BY <2>1, EventType
    <2>6. IsFiniteSet(V)
      BY <2>1, PositionsFinite
    <2>7. t(U).ewma = Ewma(t(V), e) /\ t(U).scale = IF t(V).n = 0 THEN 1 ELSE 10 * t(V).scale
      BY <2>1 DEF Accumulate
    <2> HIDE DEF t, e
    <2>8. CASE V = {}
      <3>1. t(V).n = 0
        BY <2>3, <2>8, FS_EmptySet
      <3>2. t(U).ewma = EventScore(e) /\ t(U).scale = 1
        BY <2>7, <3>1 DEF Ewma
      <3>3. InBand(U)
        BY <2>5, <3>2
      <3> QED BY <3>3
    <2>9. CASE V # {}
      <3>1. t(V).n # 0
        BY <2>3, <2>6, <2>9, FS_EmptySet
      <3> DEFINE s == t(V).scale
                 w == t(V).ewma
                 x == EventScore(e)
      <3>2. t(U).ewma = 3 * x * s + 7 * w /\ t(U).scale = 10 * s
        BY <2>7, <3>1 DEF Ewma
      <3>3. lo * s <= w /\ w <= hi * s
        BY <2>2, <2>9
      <3>4. s \in Nat /\ w \in Nat /\ x \in Nat /\ lo <= x /\ x <= hi
        BY <2>4, <2>5
      <3> HIDE DEF s, w, x
      <3>5. \A u, v, k \in Nat : u <= v => u * k <= v * k
        OBVIOUS
      <3>6. lo * s <= x * s /\ x * s <= hi * s
        BY <3>4, <3>5
      <3>7. /\ lo * s \in Nat /\ x * s \in Nat /\ hi * s \in Nat
            /\ 3 * x * s = 3 * (x * s) /\ lo * (10 * s) = 10 * (lo * s) /\ hi * (10 * s) = 10 * (hi * s)
        BY <3>4
      <3>8. \A a, b, c, k \in Nat : a <= b /\ b <= c /\ a <= k /\ k <= c =>
               10 * a <= 3 * b + 7 * k /\ 3 * b + 7 * k <= 10 * c
        OBVIOUS
      <3>9. 10 * (lo * s) <= 3 * (x * s) + 7 * w /\ 3 * (x * s) + 7 * w <= 10 * (hi * s)
        BY <3>3, <3>4, <3>6, <3>7, <3>8
      <3>10. InBand(U)
        BY <3>2, <3>7, <3>9
      <3> QED BY <3>10
    <2> QED BY <2>8, <2>9
  <1>3. G = SUBSET D
    <2>1. G \in SUBSET (SUBSET D) /\ IsFiniteSet(D)
      BY PositionsFinite
    <2> HIDE DEF G, D
    <2> QED BY <1>1, <1>2, <2>1, SubsetInduction
  <1>4. ASSUME NEW S \in SUBSET D, S # {} PROVE InBand(S)
    <2>1. S \in G
      <3> HIDE DEF G
      <3> QED BY <1>3
    <2> QED BY <1>4, <2>1
  <1> QED BY <1>4

----------------------------------------------------------------------------
(* A read without ORDER BY: some order of the window's rows.               *)

Table == rows \in Seq(Event) /\ Len(rows) <= MaxEvents /\ today \in 0..MaxDay

LEMMA TableFacts ==
  ASSUME Table
  PROVE  /\ IsFiniteSet(DOMAIN rows) /\ Window \in SUBSET DOMAIN rows
         /\ IsFiniteSet(Window) /\ Cardinality(Window) \in 0..MaxEvents
         /\ \A i \in DOMAIN rows : rows[i] \in Event
  <1>1. rows \in Feed /\ Len(rows) <= MaxEvents /\ MaxEvents \in Nat
    BY WelfareAssumption DEF Table, Feed
  <1>2. Window \in SUBSET DOMAIN rows
    BY DEF Window
  <1>3. /\ IsFiniteSet(DOMAIN rows) /\ IsFiniteSet(Window) /\ Cardinality(Window) \in Nat
        /\ Cardinality(Window) <= Len(rows) /\ Len(rows) \in Nat
        /\ \A i \in DOMAIN rows : rows[i] \in Event
    BY <1>1, <1>2, PositionsFinite
  <1>4. Cardinality(Window) \in 0..MaxEvents
    BY <1>1, <1>3
  <1> QED BY <1>2, <1>3, <1>4

\* events are the rows of the window, each once, where p finds them.
IsRead(events, p) ==
  /\ p \in Bijection(1..Cardinality(Window), Window)
  /\ events = [i \in 1..Cardinality(Window) |-> rows[p[i]]]
  /\ events \in Feed /\ DOMAIN events = 1..Cardinality(Window)

LEMMA ReadIs ==
  ASSUME Table, NEW events \in Orders
  PROVE  \E p : IsRead(events, p)
  <1> DEFINE k == Cardinality(Window)
  <1>1. PICK p \in SetToSeqs(Window) : events = [i \in DOMAIN p |-> rows[p[i]]]
    BY DEF Orders
  <1>2. p \in [1..k -> Window] /\ \A i, j \in 1..k : i # j => p[i] # p[j]
    BY <1>1 DEF SetToSeqs
  <1>3. k \in Nat /\ IsFiniteSet(Window)
    BY TableFacts
  <1> HIDE DEF k
  <1>4. p \in Injection(1..k, Window)
    BY <1>2 DEF Injection, IsInjective
  <1>5. IsFiniteSet(1..k) /\ Cardinality(1..k) = k
    BY <1>3, FS_Interval
  <1>6. Cardinality(1..k) = Cardinality(Window)
    BY <1>5 DEF k
  <1>7. p \in Surjection(1..k, Window)
    BY <1>3, <1>4, <1>6, FS_Injection
  <1>8. p \in Bijection(1..k, Window)
    BY <1>4, <1>7 DEF Bijection
  <1>9. events = [i \in 1..k |-> rows[p[i]]]
    BY <1>1, <1>2
  <1>10. \A i \in 1..k : rows[p[i]] \in Event
    BY <1>2, TableFacts
  <1>11. events \in [1..k -> Event]
    BY <1>9, <1>10
  <1>12. events \in Feed /\ DOMAIN events = 1..k
    BY <1>3, <1>11 DEF Feed
  <1> QED BY <1>8, <1>9, <1>12 DEF IsRead, k

\* A sum over what was read is the sum over the window.
LEMMA ReadSum ==
  ASSUME Table, NEW events, NEW p, IsRead(events, p),
         NEW f \in [DOMAIN events -> Nat], NEW g \in [DOMAIN rows -> Nat],
         \A i \in DOMAIN events : f[i] = g[p[i]]
  PROVE  Sum(f, DOMAIN events) = Sum(g, Window)
  <1> DEFINE D == DOMAIN events
             R == DOMAIN rows
             W == Window
  <1>1. p \in Bijection(D, W)
    BY DEF IsRead
  <1>2. IsFiniteSet(D)
    BY PositionsFinite DEF IsRead
  <1>3. IsFiniteSet(R) /\ W \in SUBSET R
    BY TableFacts
  <1>4. f \in [D -> Nat] /\ g \in [R -> Nat] /\ \A i \in D : f[i] = g[p[i]]
    OBVIOUS
  <1> HIDE DEF D, R, W
  <1>5. Sum(f, D) = Sum(g, W)
    BY <1>1, <1>2, <1>3, <1>4, SumRenamed
  <1> QED BY <1>5 DEF D, W

LEMMA ReadTally ==
  ASSUME Table, NEW events \in Orders
  PROVE  LET t == Tally(events, DOMAIN events)
         IN  /\ t \in TallyType /\ DOMAIN events = 1..Cardinality(Window)
             /\ t.n = Cardinality(Window) /\ t.weight = Sum(Weights(rows), Window)
             /\ t.honored = Sum(Honors(rows), Window) /\ t.breaks = Sum(Breaks(rows), Window)
             /\ t.dimWeight = [d \in DIMENSIONS |-> Sum(DimWeights(rows, d), Window)]
             /\ t.dimCount = [d \in DIMENSIONS |-> Sum(DimCounts(rows, d), Window)]
  <1> DEFINE t == Tally(events, DOMAIN events)
             D == DOMAIN events
  <1>1. PICK p : IsRead(events, p)
    BY ReadIs
  <1>2. events \in Feed /\ D = 1..Cardinality(Window) /\ \A i \in D : p[i] \in Window /\ events[i] = rows[p[i]]
    BY <1>1 DEF IsRead, Bijection, Injection
  <1>3. rows \in Feed /\ Window \in SUBSET DOMAIN rows
    BY TableFacts DEF Table, Feed
  <1>4. Cardinality(D) = Cardinality(Window)
    <2>1. Cardinality(Window) \in Nat
      BY TableFacts
    <2> DEFINE k == Cardinality(Window)
    <2> HIDE DEF k
    <2>2. Cardinality(1..k) = k
      BY <2>1, FS_Interval DEF k
    <2> QED BY <1>2, <2>2 DEF k
  <1>5. /\ t \in TallyType /\ t.n = Cardinality(D) /\ t.weight = Sum(Weights(events), D)
        /\ t.honored = Sum(Honors(events), D) /\ t.breaks = Sum(Breaks(events), D)
        /\ \A d \in DIMENSIONS : t.dimWeight[d] = Sum(DimWeights(events, d), D)
        /\ \A d \in DIMENSIONS : t.dimCount[d] = Sum(DimCounts(events, d), D)
    BY <1>2, TallySums, TallyTyped
  <1>6. Sum(Weights(events), D) = Sum(Weights(rows), Window)
    <2>1. \A i \in D : Weights(events)[i] = Weights(rows)[p[i]]
      BY <1>2, <1>3 DEF Weights
    <2>2. Weights(events) \in [D -> Nat] /\ Weights(rows) \in [DOMAIN rows -> Nat]
      BY <1>2, <1>3, TermTypes
    <2> QED BY <1>1, <2>1, <2>2, ReadSum
  <1>7. Sum(Honors(events), D) = Sum(Honors(rows), Window)
    <2>1. \A i \in D : Honors(events)[i] = Honors(rows)[p[i]]
      BY <1>2, <1>3 DEF Honors
    <2>2. Honors(events) \in [D -> Nat] /\ Honors(rows) \in [DOMAIN rows -> Nat]
      BY <1>2, <1>3, TermTypes
    <2> QED BY <1>1, <2>1, <2>2, ReadSum
  <1>8. Sum(Breaks(events), D) = Sum(Breaks(rows), Window)
    <2>1. \A i \in D : Breaks(events)[i] = Breaks(rows)[p[i]]
      BY <1>2, <1>3 DEF Breaks
    <2>2. Breaks(events) \in [D -> Nat] /\ Breaks(rows) \in [DOMAIN rows -> Nat]
      BY <1>2, <1>3, TermTypes
    <2> QED BY <1>1, <2>1, <2>2, ReadSum
  <1>9. ASSUME NEW d \in DIMENSIONS
        PROVE  /\ Sum(DimWeights(events, d), D) = Sum(DimWeights(rows, d), Window)
               /\ Sum(DimCounts(events, d), D) = Sum(DimCounts(rows, d), Window)
    <2>1. \A i \in D : /\ DimWeights(events, d)[i] = DimWeights(rows, d)[p[i]]
                       /\ DimCounts(events, d)[i] = DimCounts(rows, d)[p[i]]
      BY <1>2, <1>3 DEF DimWeights, DimCounts
    <2>2. /\ DimWeights(events, d) \in [D -> Nat] /\ DimWeights(rows, d) \in [DOMAIN rows -> Nat]
          /\ DimCounts(events, d) \in [D -> Nat] /\ DimCounts(rows, d) \in [DOMAIN rows -> Nat]
      BY <1>2, <1>3, TermTypes
    <2>3. Sum(DimWeights(events, d), D) = Sum(DimWeights(rows, d), Window)
      BY <1>1, <2>1, <2>2, ReadSum
    <2>4. Sum(DimCounts(events, d), D) = Sum(DimCounts(rows, d), Window)
      BY <1>1, <2>1, <2>2, ReadSum
    <2> QED BY <2>3, <2>4
  <1> HIDE DEF t
  <1>10. t.dimWeight = [d \in DIMENSIONS |-> Sum(DimWeights(rows, d), Window)]
    <2>1. t.dimWeight \in [DIMENSIONS -> Nat]
      BY <1>5 DEF TallyType
    <2> QED BY <1>5, <1>9, <2>1
  <1>11. t.dimCount = [d \in DIMENSIONS |-> Sum(DimCounts(rows, d), Window)]
    <2>1. t.dimCount \in [DIMENSIONS -> Nat]
      BY <1>5 DEF TallyType
    <2> QED BY <1>5, <1>9, <2>1
  <1> QED BY <1>2, <1>4, <1>5, <1>6, <1>7, <1>8, <1>10, <1>11 DEF t

WindowSpan ==
  IF Cardinality(Window) = 0 THEN 0
  ELSE Max({rows[i].day : i \in Window}) - Min({rows[i].day : i \in Window})

LEMMA ReadSpan ==
  ASSUME Table, NEW events \in Orders
  PROVE  SpanDays(events) = WindowSpan
  <1>1. PICK p : IsRead(events, p)
    BY ReadIs
  <1>2. /\ events \in Feed /\ DOMAIN events = 1..Cardinality(Window)
        /\ \A i \in DOMAIN events : p[i] \in Window /\ events[i] = rows[p[i]]
        /\ \A j \in Window : \E i \in DOMAIN events : p[i] = j
    BY <1>1 DEF IsRead, Bijection, Injection, Surjection
  <1>3. {events[i].day : i \in DOMAIN events} = {rows[i].day : i \in Window}
    BY <1>2
  <1>4. Cardinality(Window) \in Nat
    BY TableFacts
  <1>5. events = <<>> <=> Cardinality(Window) = 0
    BY <1>2, <1>4
  <1> QED BY <1>3, <1>5 DEF SpanDays, WindowSpan

\* The record that calculate_welfare makes of a tally: ewma is the rounded score.
Gated(t, span) ==
  ~ /\ t.n >= WELFARE_MIN_EVENTS
    /\ Cardinality({d \in DIMENSIONS : t.dimCount[d] > 0}) >= WELFARE_MIN_DIMENSIONS
    /\ span >= WELFARE_MIN_SPAN_DAYS
DimScore(t) ==
  [d \in DIMENSIONS |-> IF t.dimCount[d] = 0 THEN NoScore ELSE Rate(t.dimWeight[d], t.dimCount[d])]
HonorRate(t) == IF t.breaks = 0 THEN NoScore ELSE Round(1000 * t.honored, t.breaks)
RecordOf(t, span, ewma) ==
  [count |-> t.n, overall_raw |-> Rate(t.weight, t.n), ewma_score |-> ewma,
   grade |-> IF Gated(t, span) THEN "PROVISIONAL" ELSE Grade(Rate(t.weight, t.n)),
   dims |-> DimScore(t), break_honor_rate |-> HonorRate(t), provisional |-> Gated(t, span)]

LEMMA RecordIs ==
  ASSUME NEW events, NEW S, S # {}, NEW span
  PROVE  calculate_welfare(events, S, span) =
           RecordOf(Tally(events, S), span, Round(Tally(events, S).ewma, Tally(events, S).scale))
  BY DEF calculate_welfare, RecordOf, Gated, DimScore, HonorRate

\* Two orders of the same window: everything but the smoothed score agrees.
LEMMA SummaryOfOrders ==
  ASSUME Table, NEW events \in Orders, NEW others \in Orders
  PROVE  /\ [Summary(events) EXCEPT !.ewma_score = 0] = [Summary(others) EXCEPT !.ewma_score = 0]
         /\ DOMAIN events = DOMAIN others
         /\ Summary(events).provisional = Summary(others).provisional
  <1> DEFINE t == Tally(events, DOMAIN events)
             u == Tally(others, DOMAIN others)
             a == SpanDays(events)
             b == SpanDays(others)
  <1>1. DOMAIN events = DOMAIN others
    BY ReadTally
  <1>2. /\ t.n = u.n /\ t.weight = u.weight /\ t.honored = u.honored /\ t.breaks = u.breaks
        /\ t.dimWeight = u.dimWeight /\ t.dimCount = u.dimCount
    BY ReadTally
  <1>3. a = b
    BY ReadSpan
  <1>4. CASE DOMAIN events = {}
    BY <1>1, <1>4 DEF Summary, calculate_welfare
  <1>5. CASE DOMAIN events # {}
    <2>1. Summary(events) = RecordOf(t, a, Round(t.ewma, t.scale))
      BY <1>5, RecordIs DEF Summary
    <2>2. Summary(others) = RecordOf(u, b, Round(u.ewma, u.scale))
      BY <1>1, <1>5, RecordIs DEF Summary
    <2> HIDE DEF t, u, a, b
    <2>3. Gated(t, a) = Gated(u, b) /\ DimScore(t) = DimScore(u) /\ HonorRate(t) = HonorRate(u)
      BY <1>2, <1>3 DEF Gated, DimScore, HonorRate
    <2>4. [Summary(events) EXCEPT !.ewma_score = 0] = RecordOf(t, a, 0)
      BY <2>1 DEF RecordOf
    <2>5. [Summary(others) EXCEPT !.ewma_score = 0] = RecordOf(u, b, 0)
      BY <2>2 DEF RecordOf
    <2>6. RecordOf(t, a, 0) = RecordOf(u, b, 0)
      BY <1>2, <2>3 DEF RecordOf
    <2>7. Summary(events).provisional = Summary(others).provisional
      BY <2>1, <2>2, <2>3 DEF RecordOf
    <2> QED BY <1>1, <2>4, <2>5, <2>6, <2>7
  <1> QED BY <1>4, <1>5

----------------------------------------------------------------------------
(* The days of the feed: totals are made up of the days' totals, so the    *)
(* rounded ratio of two of them is between those of the days.              *)

LEMMA TallyBounds ==
  ASSUME NEW events \in Feed
  PROVE  \A S \in SUBSET DOMAIN events :
           LET t == Tally(events, S)
           IN  /\ t.weight <= 5 * t.n /\ t.honored <= t.breaks
               /\ \A d \in DIMENSIONS : t.dimWeight[d] <= 5 * t.dimCount[d]
  <1> DEFINE D == DOMAIN events
             t(U) == Tally(events, U)
             Bounded(U) == /\ t(U).weight <= 5 * t(U).n /\ t(U).honored <= t(U).breaks
                           /\ \A d \in DIMENSIONS : t(U).dimWeight[d] <= 5 * t(U).dimCount[d]
             G == {U \in SUBSET D : Bounded(U)}
  <1>1. {} \in G
    <2>1. t({}) = NoTally
      BY NoPositions
    <2> HIDE DEF t
    <2>2. Bounded({})
      BY <2>1 DEF NoTally, NoDims
    <2> QED BY <2>2
  <1>2. ASSUME NEW U \in SUBSET D, U # {}, \A x \in U : U \ {x} \in G PROVE U \in G
    <2> DEFINE V == U \ {Max(U)}
               e == events[Max(U)]
    <2>1. Max(U) \in U /\ V \in SUBSET D /\ e \in Event /\ t(U) = Accumulate(t(V), e)
      BY <1>2, LastStep
    <2>2. V \in G /\ t(V) \in TallyType /\ Penalty(e) \in 0..5
      BY <1>2, <2>1, TallyTyped, EventType
    <2> HIDE DEF t, e
    <2>3. /\ t(V).n \in Nat /\ t(V).weight \in Nat /\ t(V).honored \in Nat /\ t(V).breaks \in Nat
          /\ \A d \in DIMENSIONS : t(V).dimWeight[d] \in Nat /\ t(V).dimCount[d] \in Nat
      BY <2>2 DEF TallyType
    <2>4. t(U).n = t(V).n + 1 /\ t(U).weight = t(V).weight + Penalty(e)
      BY <2>1 DEF Accumulate
    <2>5. t(U).honored = t(V).honored + Honored(e) /\ t(U).breaks = t(V).breaks + Break(e)
      BY <2>1 DEF Accumulate, Honored, Break
    <2>6. \A d \in DIMENSIONS :
             /\ t(U).dimWeight[d] = t(V).dimWeight[d] + IF d = Dimension(e) THEN Penalty(e) ELSE 0
             /\ t(U).dimCount[d] = t(V).dimCount[d] + IF d = Dimension(e) THEN 1 ELSE 0
      BY <2>1 DEF Accumulate
    <2>7. Bounded(V)
      BY <2>2
    <2>8. t(U).weight <= 5 * t(U).n
      BY <2>2, <2>3, <2>4, <2>7
    <2>9. Honored(e) \in Nat /\ Break(e) \in Nat /\ Honored(e) <= Break(e)
      BY DEF Honored, Break
    <2>10. t(U).honored <= t(U).breaks
      BY <2>3, <2>5, <2>7, <2>9
    <2>11. ASSUME NEW d \in DIMENSIONS PROVE t(U).dimWeight[d] <= 5 * t(U).dimCount[d]
      <3> DEFINE a == t(V).dimWeight[d]
                 c == t(V).dimCount[d]
      <3>1. a \in Nat /\ c \in Nat /\ a <= 5 * c /\ Penalty(e) \in 0..5
        BY <2>2, <2>3, <2>7
      <3>2. /\ t(U).dimWeight[d] = a + IF d = Dimension(e) THEN Penalty(e) ELSE 0
            /\ t(U).dimCount[d] = c + IF d = Dimension(e) THEN 1 ELSE 0
        BY <2>6
      <3> HIDE DEF a, c
      <3>3. CASE d = Dimension(e)
        BY <3>1, <3>2, <3>3
      <3>4. CASE d # Dimension(e)
        BY <3>1, <3>2, <3>4
      <3> QED BY <3>3, <3>4
    <2>12. Bounded(U)
      BY <2>8, <2>10, <2>11
    <2> QED BY <2>12
  <1>3. G = SUBSET D
    <2>1. G \in SUBSET (SUBSET D) /\ IsFiniteSet(D)
      BY PositionsFinite
    <2> HIDE DEF G, D
    <2> QED BY <1>1, <1>2, <2>1, SubsetInduction
  <1>4. ASSUME NEW S \in SUBSET D PROVE Bounded(S)
    <2>1. S \in G
      <3> HIDE DEF G
      <3> QED BY <1>3
    <2> QED BY <2>1
  <1> QED BY <1>4

LEMMA TallyAdds ==
  ASSUME NEW events \in Feed, NEW A \in SUBSET DOMAIN events, NEW B \in SUBSET DOMAIN events,
         A \cap B = {}
  PROVE  LET t == Tally(events, A)
             u == Tally(events, B)
             v == Tally(events, A \cup B)
         IN  /\ v.n = t.n + u.n /\ v.weight = t.weight + u.weight
             /\ v.honored = t.honored + u.honored /\ v.breaks = t.breaks + u.breaks
  <1> DEFINE D == DOMAIN events
  <1>1. IsFiniteSet(D) /\ A \cup B \in SUBSET D
    BY PositionsFinite
  <1>2. \A S \in SUBSET D :
          /\ Tally(events, S).n = Sum(Ones(events), S) /\ Tally(events, S).weight = Sum(Weights(events), S)
          /\ Tally(events, S).honored = Sum(Honors(events), S) /\ Tally(events, S).breaks = Sum(Breaks(events), S)
    BY TallySums
  <1>3. /\ Ones(events) \in [D -> Nat] /\ Weights(events) \in [D -> Nat]
        /\ Honors(events) \in [D -> Nat] /\ Breaks(events) \in [D -> Nat]
    BY TermTypes
  <1>4. \A f \in [D -> Nat] : Sum(f, A \cup B) = Sum(f, A) + Sum(f, B)
    BY <1>1, SumUnion
  <1> HIDE DEF D
  <1> QED BY <1>1, <1>2, <1>3, <1>4 DEF D

\* The rounded ratio a / b, if it is one, is at most (at least) m.
AtMost(a, b, m) == IF b = 0 THEN a = 0 ELSE Round(a, b) <= m
AtLeast(a, b, m) == b # 0 => m <= Round(a, b)

LEMMA AtMostIs ==
  ASSUME NEW a \in Nat, NEW b \in Nat, NEW m \in Nat
  PROVE  AtMost(a, b, m) <=> (IF b = 0 THEN a = 0 ELSE 2 * a + b < 2 * (b * m) + 2 * b)
  <1>1. CASE b = 0
    BY <1>1 DEF AtMost
  <1>2. CASE b # 0
    BY <1>2, Rounded DEF AtMost
  <1> QED BY <1>1, <1>2

LEMMA AtLeastIs ==
  ASSUME NEW a \in Nat, NEW b \in Nat, NEW m \in Nat
  PROVE  AtLeast(a, b, m) <=> 2 * (b * m) <= 2 * a + b
  <1>1. CASE b = 0
    <2>1. 0 * m = 0
      OBVIOUS
    <2> QED BY <1>1, <2>1 DEF AtLeast
  <1>2. CASE b # 0
    BY <1>2, Rounded DEF AtLeast
  <1> QED BY <1>1, <1>2

\* The mediant of two ratios is between them.
LEMMA Mediant ==
  ASSUME NEW a \in Nat, NEW b \in Nat, NEW c \in Nat, NEW d \in Nat, NEW m \in Nat
  PROVE  /\ AtMost(a, b, m) /\ AtMost(c, d, m) => AtMost(a + c, b + d, m)
         /\ AtLeast(a, b, m) /\ AtLeast(c, d, m) => AtLeast(a + c, b + d, m)
  <1> DEFINE x == b * m
             y == d * m
  <1>1. x \in Nat /\ y \in Nat /\ (b + d) * m = x + y /\ (b = 0 => x = 0) /\ (d = 0 => y = 0)
    OBVIOUS
  <1>2. a + c \in Nat /\ b + d \in Nat
    OBVIOUS
  <1>3. /\ AtMost(a, b, m) <=> (IF b = 0 THEN a = 0 ELSE 2 * a + b < 2 * x + 2 * b)
        /\ AtMost(c, d, m) <=> (IF d = 0 THEN c = 0 ELSE 2 * c + d < 2 * y + 2 * d)
    BY AtMostIs
  <1>4. AtMost(a + c, b + d, m) <=>
          (IF b + d = 0 THEN a + c = 0 ELSE 2 * (a + c) + (b + d) < 2 * ((b + d) * m) + 2 * (b + d))
    BY <1>2, AtMostIs
  <1>5. AtLeast(a, b, m) <=> 2 * x <= 2 * a + b
    BY AtLeastIs
  <1>6. AtLeast(c, d, m) <=> 2 * y <= 2 * c + d
    BY AtLeastIs
  <1>7. AtLeast(a + c, b + d, m) <=> 2 * ((b + d) * m) <= 2 * (a + c) + (b + d)
    BY <1>2, AtLeastIs
  <1> HIDE DEF x, y
  <1>8. AtMost(a, b, m) /\ AtMost(c, d, m) => AtMost(a + c, b + d, m)
    <2> SUFFICES ASSUME AtMost(a, b, m), AtMost(c, d, m) PROVE AtMost(a + c, b + d, m)
      OBVIOUS
    <2>1. CASE b = 0 /\ d = 0
      BY <1>3, <1>4, <2>1
    <2>2. CASE b + d # 0
      <3>1. 2 * (a + c) + (b + d) < 2 * (x + y) + 2 * (b + d)
        BY <1>1, <1>3, <2>2
      <3> QED BY <1>1, <1>4, <2>2, <3>1
    <2> QED BY <2>1, <2>2
  <1>9. AtLeast(a, b, m) /\ AtLeast(c, d, m) => AtLeast(a + c, b + d, m)
    BY <1>1, <1>5, <1>6, <1>7
  <1> QED BY <1>8, <1>9

OnDays(events, T) == {i \in DOMAIN events : events[i].day \in T}
Additive(D, x) ==
  /\ x \in [SUBSET D -> Nat] /\ x[{}] = 0
  /\ \A A, B \in SUBSET D : A \cap B = {} => x[A \cup B] = x[A] + x[B]

LEMMA DaysFacts ==
  ASSUME NEW events \in Feed
  PROVE  /\ IsFiniteSet(DaysOf(events)) /\ OnDays(events, {}) = {}
         /\ OnDays(events, DaysOf(events)) = DOMAIN events
         /\ \A d \in DaysOf(events) : On(events, d) \in SUBSET DOMAIN events /\ On(events, d) # {}
         /\ \A T : OnDays(events, T) \in SUBSET DOMAIN events
         /\ \A T : \A d \in T :
              /\ OnDays(events, T) = OnDays(events, T \ {d}) \cup On(events, d)
              /\ OnDays(events, T \ {d}) \cap On(events, d) = {}
  <1>1. IsFiniteSet(DaysOf(events))
    <2>1. DaysOf(events) \in SUBSET (0..MaxDay)
      <3>1. \A i \in DOMAIN events : events[i].day \in 0..MaxDay
        <4> SUFFICES ASSUME NEW i \in DOMAIN events PROVE events[i].day \in 0..MaxDay
          OBVIOUS
        <4>1. events[i] \in Event
          BY PositionsFinite
        <4> QED BY <4>1 DEF Event
      <3> QED BY <3>1 DEF DaysOf
    <2>2. IsFiniteSet(0..MaxDay)
      BY WelfareAssumption, FS_Interval
    <2> QED BY <2>1, <2>2, FS_Subset
  <1>2. \A d \in DaysOf(events) : On(events, d) # {}
    BY DEF DaysOf, On
  <1> QED BY <1>1, <1>2 DEF OnDays, On, DaysOf

\* What holds of the ratio of every day holds of the ratio of the totals.
LEMMA OverDays ==
  ASSUME NEW events \in Feed, NEW m \in Nat
  PROVE  \A x, y : Additive(DOMAIN events, x) /\ Additive(DOMAIN events, y) =>
           /\ (\A d \in DaysOf(events) : AtMost(x[On(events, d)], y[On(events, d)], m))
                => AtMost(x[DOMAIN events], y[DOMAIN events], m)
           /\ (\A d \in DaysOf(events) : AtLeast(x[On(events, d)], y[On(events, d)], m))
                => AtLeast(x[DOMAIN events], y[DOMAIN events], m)
  <1> SUFFICES ASSUME NEW x, NEW y, Additive(DOMAIN events, x), Additive(DOMAIN events, y)
               PROVE  /\ (\A d \in DaysOf(events) : AtMost(x[On(events, d)], y[On(events, d)], m))
                           => AtMost(x[DOMAIN events], y[DOMAIN events], m)
                      /\ (\A d \in DaysOf(events) : AtLeast(x[On(events, d)], y[On(events, d)], m))
                           => AtLeast(x[DOMAIN events], y[DOMAIN events], m)
    OBVIOUS
  <1> DEFINE D == DOMAIN events
             E == DaysOf(events)
             P(T) == OnDays(events, T)
  <1>1. IsFiniteSet(E) /\ P({}) = {} /\ P(E) = D
    BY DaysFacts
  <1>2. \A T \in SUBSET E : \A d \in T : P(T) = P(T \ {d}) \cup On(events, d) /\ P(T \ {d}) \cap On(events, d) = {}
    BY DaysFacts
  <1>3. /\ \A d \in E : On(events, d) \in SUBSET D
        /\ \A T \in SUBSET E : P(T) \in SUBSET D
    BY DaysFacts
  <1>4. /\ x \in [SUBSET D -> Nat] /\ x[{}] = 0 /\ \A A, B \in SUBSET D : A \cap B = {} => x[A \cup B] = x[A] + x[B]
        /\ y \in [SUBSET D -> Nat] /\ y[{}] = 0 /\ \A A, B \in SUBSET D : A \cap B = {} => y[A \cup B] = y[A] + y[B]
    BY DEF Additive
  <1> HIDE DEF D, E, P
  <1>5. \A T \in SUBSET E : \A d \in T :
          /\ x[P(T)] = x[P(T \ {d})] + x[On(events, d)] /\ y[P(T)] = y[P(T \ {d})] + y[On(events, d)]
          /\ x[P(T \ {d})] \in Nat /\ y[P(T \ {d})] \in Nat
          /\ x[On(events, d)] \in Nat /\ y[On(events, d)] \in Nat
    <2> SUFFICES ASSUME NEW T \in SUBSET E, NEW d \in T
                 PROVE  /\ x[P(T)] = x[P(T \ {d})] + x[On(events, d)] /\ y[P(T)] = y[P(T \ {d})] + y[On(events, d)]
                        /\ x[P(T \ {d})] \in Nat /\ y[P(T \ {d})] \in Nat
                        /\ x[On(events, d)] \in Nat /\ y[On(events, d)] \in Nat
      OBVIOUS
    <2> DEFINE A == P(T \ {d})
               B == On(events, d)
    <2>1. A \in SUBSET D /\ B \in SUBSET D
      BY <1>3
    <2>2. P(T) = A \cup B /\ A \cap B = {}
      BY <1>2
    <2> HIDE DEF A, B
    <2>3. x[A \cup B] = x[A] + x[B] /\ y[A \cup B] = y[A] + y[B]
      BY <1>4, <2>1, <2>2
    <2>4. x[A] \in Nat /\ x[B] \in Nat /\ y[A] \in Nat /\ y[B] \in Nat
      BY <1>4, <2>1
    <2> QED BY <2>2, <2>3, <2>4 DEF A, B
  <1>6. ASSUME \A d \in E : AtMost(x[On(events, d)], y[On(events, d)], m)
        PROVE  AtMost(x[D], y[D], m)
    <2> DEFINE G == {T \in SUBSET E : AtMost(x[P(T)], y[P(T)], m)}
    <2>1. {} \in G
      BY <1>1, <1>4 DEF AtMost
    <2>2. ASSUME NEW T \in SUBSET E, T # {}, \A d \in T : T \ {d} \in G PROVE T \in G
      <3> PICK d \in T : TRUE
        BY <2>2
      <3>1. AtMost(x[P(T \ {d})], y[P(T \ {d})], m) /\ AtMost(x[On(events, d)], y[On(events, d)], m)
        BY <1>6, <2>2
      <3>2. AtMost(x[P(T \ {d})] + x[On(events, d)], y[P(T \ {d})] + y[On(events, d)], m)
        BY <1>5, <3>1, Mediant
      <3>3. AtMost(x[P(T)], y[P(T)], m)
        BY <1>5, <3>2
      <3> QED BY <3>3
    <2>3. G = SUBSET E
      <3>1. G \in SUBSET (SUBSET E)
        OBVIOUS
      <3> HIDE DEF G
      <3> QED BY <1>1, <2>1, <2>2, <3>1, SubsetInduction
    <2>4. E \in G
      <3> HIDE DEF G
      <3> QED BY <2>3
    <2> QED BY <1>1, <2>4
  <1>7. ASSUME \A d \in E : AtLeast(x[On(events, d)], y[On(events, d)], m)
        PROVE  AtLeast(x[D], y[D], m)
    <2> DEFINE G == {T \in SUBSET E : AtLeast(x[P(T)], y[P(T)], m)}
    <2>1. {} \in G
      BY <1>1, <1>4 DEF AtLeast
    <2>2. ASSUME NEW T \in SUBSET E, T # {}, \A d \in T : T \ {d} \in G PROVE T \in G
      <3> PICK d \in T : TRUE
        BY <2>2
      <3>1. AtLeast(x[P(T \ {d})], y[P(T \ {d})], m) /\ AtLeast(x[On(events, d)], y[On(events, d)], m)
        BY <1>7, <2>2
      <3>2. AtLeast(x[P(T \ {d})] + x[On(events, d)], y[P(T \ {d})] + y[On(events, d)], m)
        BY <1>5, <3>1, Mediant
      <3>3. AtLeast(x[P(T)], y[P(T)], m)
        BY <1>5, <3>2
      <3> QED BY <3>3
    <2>3. G = SUBSET E
      <3>1. G \in SUBSET (SUBSET E)
        OBVIOUS
      <3> HIDE DEF G
      <3> QED BY <1>1, <2>1, <2>2, <3>1, SubsetInduction
    <2>4. E \in G
      <3> HIDE DEF G
      <3> QED BY <2>3
    <2> QED BY <1>1, <2>4
  <1> QED BY <1>6, <1>7 DEF D, E

----------------------------------------------------------------------------
(* The scores of the totals and of the days.                               *)

LEMMA TallyFacts ==
  ASSUME NEW events \in Feed, NEW S \in SUBSET DOMAIN events
  PROVE  LET t == Tally(events, S)
         IN  /\ t.n \in Nat /\ t.weight \in Nat /\ t.honored \in Nat /\ t.breaks \in Nat
             /\ t.n = Cardinality(S) /\ (S # {} => t.n # 0)
             /\ t.weight <= 5 * t.n /\ t.honored <= t.breaks
             /\ t.ewma \in Nat /\ t.scale \in Nat \ {0}
             /\ \A d \in DIMENSIONS : /\ t.dimWeight[d] \in Nat /\ t.dimCount[d] \in Nat
                                      /\ t.dimWeight[d] <= 5 * t.dimCount[d]
  <1> DEFINE t == Tally(events, S)
  <1>1. t \in TallyType
    BY TallyTyped
  <1>2. t.n = Cardinality(S)
    BY TallySums
  <1>3. S # {} => Cardinality(S) # 0
    BY PositionsFinite, FS_EmptySet
  <1>4. t.weight <= 5 * t.n /\ t.honored <= t.breaks /\ \A d \in DIMENSIONS : t.dimWeight[d] <= 5 * t.dimCount[d]
    BY TallyBounds
  <1> HIDE DEF t
  <1>5. /\ t.n \in Nat /\ t.weight \in Nat /\ t.honored \in Nat /\ t.breaks \in Nat
        /\ t.ewma \in Nat /\ t.scale \in Nat \ {0}
        /\ \A d \in DIMENSIONS : t.dimWeight[d] \in Nat /\ t.dimCount[d] \in Nat
    BY <1>1 DEF TallyType
  <1> QED BY <1>2, <1>3, <1>4, <1>5 DEF t

Weighed(w, n) == w \in Nat /\ n \in Nat \ {0} /\ w <= 5 * n
Ratio(w, n) == Round(1000 * (5 * n - w), 5 * n)

LEMMA RateType ==
  ASSUME NEW w, NEW n, Weighed(w, n)
  PROVE  Rate(w, n) = Ratio(w, n) /\ Rate(w, n) \in 0..1000
  <1> DEFINE a == 1000 * (5 * n - w)
             b == 5 * n
  <1>1. a \in Nat /\ b \in Nat \ {0} /\ 0 * b <= a /\ a <= 1000 * b
    BY DEF Weighed
  <1>2. Rate(w, n) = Round(a, b) /\ Ratio(w, n) = Round(a, b)
    BY DEF Rate, max_weight, Ratio
  <1> HIDE DEF a, b
  <1>3. Round(a, b) \in Nat /\ Round(a, b) <= 1000
    BY <1>1, RoundBetween
  <1>4. Round(a, b) \in 0..1000
    BY <1>3
  <1> QED BY <1>2, <1>4 DEF a, b

LEMMA ScoresTyped ==
  ASSUME NEW events \in Feed, NEW S \in SUBSET DOMAIN events, S # {}
  PROVE  LET t == Tally(events, S)
         IN  /\ Rate(t.weight, t.n) \in 0..1000 /\ Rate(t.weight, t.n) = Ratio(t.weight, t.n)
             /\ Round(t.ewma, t.scale) \in 0..1000
             /\ HonorRate(t) \in Score /\ (HonorRate(t) = NoScore <=> t.breaks = 0)
             /\ DimScore(t) \in [DIMENSIONS -> Score]
  <1> DEFINE t == Tally(events, S)
  <1>1. /\ t.n \in Nat /\ t.weight \in Nat /\ t.honored \in Nat /\ t.breaks \in Nat /\ t.n # 0
        /\ t.weight <= 5 * t.n /\ t.honored <= t.breaks
        /\ t.ewma \in Nat /\ t.scale \in Nat \ {0}
        /\ \A d \in DIMENSIONS : /\ t.dimWeight[d] \in Nat /\ t.dimCount[d] \in Nat
                                 /\ t.dimWeight[d] <= 5 * t.dimCount[d]
    BY TallyFacts
  <1>2. 0 * t.scale <= t.ewma /\ t.ewma <= 1000 * t.scale
    <2>1. \A i \in DOMAIN events : 0 <= EventScore(events[i]) /\ EventScore(events[i]) <= 1000
      <3> SUFFICES ASSUME NEW i \in DOMAIN events PROVE 0 <= EventScore(events[i]) /\ EventScore(events[i]) <= 1000
        OBVIOUS
      <3>1. events[i] \in Event
        BY PositionsFinite
      <3>2. EventScore(events[i]) \in 0..1000
        BY <3>1, EventType
      <3> QED BY <3>2
    <2> QED BY <2>1, EwmaBand
  <1> HIDE DEF t
  <1>3. Rate(t.weight, t.n) \in 0..1000 /\ Rate(t.weight, t.n) = Ratio(t.weight, t.n)
    <2>1. Weighed(t.weight, t.n)
      BY <1>1 DEF Weighed
    <2> QED BY <2>1, RateType
  <1>4. Round(t.ewma, t.scale) \in 0..1000
    <2> DEFINE a == t.ewma
               b == t.scale
    <2>1. a \in Nat /\ b \in Nat \ {0} /\ 0 * b <= a /\ a <= 1000 * b
      BY <1>1, <1>2
    <2> HIDE DEF a, b
    <2>2. Round(a, b) \in Nat /\ Round(a, b) <= 1000
      BY <2>1, RoundBetween
    <2>3. Round(a, b) \in 0..1000
      BY <2>2
    <2> QED BY <2>3 DEF a, b
  <1>5. HonorRate(t) \in Score /\ (HonorRate(t) = NoScore <=> t.breaks = 0)
    <2>1. CASE t.breaks = 0
      BY <2>1 DEF HonorRate, Score, NoScore
    <2>2. CASE t.breaks # 0
      <3> DEFINE a == 1000 * t.honored
                 b == t.breaks
      <3>1. a \in Nat /\ b \in Nat \ {0} /\ 0 * b <= a /\ a <= 1000 * b
        BY <1>1, <2>2
      <3>2. HonorRate(t) = Round(a, b)
        BY <2>2 DEF HonorRate
      <3> HIDE DEF a, b
      <3>3. Round(a, b) \in Nat /\ Round(a, b) <= 1000
        BY <3>1, RoundBetween
      <3>4. Round(a, b) \in 0..1000 /\ Round(a, b) # -1
        BY <3>3
      <3> QED BY <2>2, <3>2, <3>4 DEF Score, NoScore
    <2> QED BY <2>1, <2>2
  <1>6. DimScore(t) \in [DIMENSIONS -> Score]
    <2> SUFFICES ASSUME NEW d \in DIMENSIONS
                 PROVE  (IF t.dimCount[d] = 0 THEN NoScore ELSE Rate(t.dimWeight[d], t.dimCount[d])) \in Score
      BY DEF DimScore
    <2>1. t.dimWeight[d] \in Nat /\ t.dimCount[d] \in Nat /\ t.dimWeight[d] <= 5 * t.dimCount[d]
      BY <1>1
    <2> DEFINE w == t.dimWeight[d]
               c == t.dimCount[d]
    <2> HIDE DEF w, c
    <2>2. c # 0 => Rate(w, c) \in 0..1000
      <3> SUFFICES ASSUME c # 0 PROVE Rate(w, c) \in 0..1000
        OBVIOUS
      <3>1. Weighed(w, c)
        BY <2>1 DEF w, c, Weighed
      <3> QED BY <3>1, RateType
    <2> QED BY <2>2 DEF Score, w, c
  <1> QED BY <1>3, <1>4, <1>5, <1>6 DEF t

Earned(events) ==
  [U \in SUBSET DOMAIN events |-> 1000 * (5 * Tally(events, U).n - Tally(events, U).weight)]
Possible(events) == [U \in SUBSET DOMAIN events |-> 5 * Tally(events, U).n]
Kept(events) == [U \in SUBSET DOMAIN events |-> 1000 * Tally(events, U).honored]
Taken(events) == [U \in SUBSET DOMAIN events |-> Tally(events, U).breaks]
Zero(events) == [U \in SUBSET DOMAIN events |-> 0]

LEMMA TotalsAdditive ==
  ASSUME NEW events \in Feed
  PROVE  /\ Additive(DOMAIN events, Earned(events)) /\ Additive(DOMAIN events, Possible(events))
         /\ Additive(DOMAIN events, Kept(events)) /\ Additive(DOMAIN events, Taken(events))
         /\ Additive(DOMAIN events, Zero(events))
  <1> DEFINE D == DOMAIN events
             t(U) == Tally(events, U)
  <1>1. \A U \in SUBSET D : /\ t(U).n \in Nat /\ t(U).weight \in Nat /\ t(U).honored \in Nat /\ t(U).breaks \in Nat
                            /\ t(U).weight <= 5 * t(U).n
    BY TallyFacts
  <1>2. t({}).n = 0 /\ t({}).weight = 0 /\ t({}).honored = 0 /\ t({}).breaks = 0
    BY NoPositions DEF NoTally
  <1>3. \A A, B \in SUBSET D : A \cap B = {} =>
          /\ t(A \cup B).n = t(A).n + t(B).n /\ t(A \cup B).weight = t(A).weight + t(B).weight
          /\ t(A \cup B).honored = t(A).honored + t(B).honored /\ t(A \cup B).breaks = t(A).breaks + t(B).breaks
    BY TallyAdds
  <1>4. \A A, B \in SUBSET D : A \cup B \in SUBSET D
    OBVIOUS
  <1>5. {} \in SUBSET D
    OBVIOUS
  <1> HIDE DEF D, t
  <1>6. Additive(D, [U \in SUBSET D |-> 1000 * (5 * t(U).n - t(U).weight)])
    <2> DEFINE x == [U \in SUBSET D |-> 1000 * (5 * t(U).n - t(U).weight)]
    <2>1. x \in [SUBSET D -> Nat]
      <3>1. \A U \in SUBSET D : 1000 * (5 * t(U).n - t(U).weight) \in Nat
        BY <1>1
      <3> QED BY <3>1
    <2>2. x[{}] = 0
      BY <1>2, <1>5
    <2>3. ASSUME NEW A \in SUBSET D, NEW B \in SUBSET D, A \cap B = {} PROVE x[A \cup B] = x[A] + x[B]
      BY <1>1, <1>3, <1>4, <2>3
    <2> QED BY <2>1, <2>2, <2>3 DEF Additive
  <1>7. Additive(D, [U \in SUBSET D |-> 5 * t(U).n])
    <2> DEFINE x == [U \in SUBSET D |-> 5 * t(U).n]
    <2>1. x \in [SUBSET D -> Nat]
      BY <1>1
    <2>2. x[{}] = 0
      BY <1>2, <1>5
    <2>3. ASSUME NEW A \in SUBSET D, NEW B \in SUBSET D, A \cap B = {} PROVE x[A \cup B] = x[A] + x[B]
      <3>1. x[A \cup B] = 5 * t(A \cup B).n /\ x[A] = 5 * t(A).n /\ x[B] = 5 * t(B).n
        BY <1>4
      <3>2. t(A \cup B).n = t(A).n + t(B).n /\ t(A).n \in Nat /\ t(B).n \in Nat
        BY <1>1, <1>3, <2>3
      <3> HIDE DEF x
      <3> QED BY <3>1, <3>2
    <2> QED BY <2>1, <2>2, <2>3 DEF Additive
  <1>8. Additive(D, [U \in SUBSET D |-> 1000 * t(U).honored])
    <2> DEFINE x == [U \in SUBSET D |-> 1000 * t(U).honored]
    <2>1. x \in [SUBSET D -> Nat]
      BY <1>1
    <2>2. x[{}] = 0
      BY <1>2, <1>5
    <2>3. ASSUME NEW A \in SUBSET D, NEW B \in SUBSET D, A \cap B = {} PROVE x[A \cup B] = x[A] + x[B]
      <3>1. x[A \cup B] = 1000 * t(A \cup B).honored /\ x[A] = 1000 * t(A).honored /\ x[B] = 1000 * t(B).honored
        BY <1>4
      <3>2. t(A \cup B).honored = t(A).honored + t(B).honored /\ t(A).honored \in Nat /\ t(B).honored \in Nat
        BY <1>1, <1>3, <2>3
      <3> HIDE DEF x
      <3> QED BY <3>1, <3>2
    <2> QED BY <2>1, <2>2, <2>3 DEF Additive
  <1>9. Additive(D, [U \in SUBSET D |-> t(U).breaks])
    <2> DEFINE x == [U \in SUBSET D |-> t(U).breaks]
    <2>1. x \in [SUBSET D -> Nat]
      BY <1>1
    <2>2. x[{}] = 0
      BY <1>2, <1>5
    <2>3. ASSUME NEW A \in SUBSET D, NEW B \in SUBSET D, A \cap B = {} PROVE x[A \cup B] = x[A] + x[B]
      BY <1>1, <1>3, <1>4, <2>3
    <2> QED BY <2>1, <2>2, <2>3 DEF Additive
  <1>10. Additive(D, [U \in SUBSET D |-> 0])
    BY <1>4, <1>5 DEF Additive
  <1> QED BY <1>6, <1>7, <1>8, <1>9, <1>10 DEF Earned, Possible, Kept, Taken, Zero, D, t

\* The overall score is between those of the worst and the best day.
LEMMA OverallOverDays ==
  ASSUME NEW events \in Feed, DOMAIN events # {}
  PROVE  Between(Summary(events).overall_raw, {d.overall_raw : d \in Series(events)})
  <1> DEFINE D == DOMAIN events
             E == DaysOf(events)
             t(U) == Tally(events, U)
             r(d) == DayRecord(events, d).overall_raw
             R == {d.overall_raw : d \in Series(events)}
             o == Summary(events).overall_raw
             x == Earned(events)
             y == Possible(events)
  <1>1. o = Rate(t(D).weight, t(D).n)
    BY RecordIs DEF Summary, RecordOf
  <1>2. \A d \in E : On(events, d) \in SUBSET D /\ On(events, d) # {}
    BY DaysFacts
  <1>3. \A d \in E : r(d) = Rate(t(On(events, d)).weight, t(On(events, d)).n)
    BY <1>2, RecordIs DEF DayRecord, RecordOf
  <1>4. R = {r(d) : d \in E}
    BY DEF Series
  <1>5. \A U \in SUBSET D : U # {} =>
          /\ Rate(t(U).weight, t(U).n) \in 0..1000 /\ Rate(t(U).weight, t(U).n) = Round(x[U], y[U])
          /\ y[U] # 0
    <2> SUFFICES ASSUME NEW U \in SUBSET D, U # {}
                 PROVE  /\ Rate(t(U).weight, t(U).n) \in 0..1000 /\ Rate(t(U).weight, t(U).n) = Round(x[U], y[U])
                        /\ y[U] # 0
      OBVIOUS
    <2>1. /\ Rate(t(U).weight, t(U).n) \in 0..1000
          /\ Rate(t(U).weight, t(U).n) = Ratio(t(U).weight, t(U).n)
      BY ScoresTyped
    <2>2. t(U).n \in Nat /\ t(U).n # 0
      BY TallyFacts
    <2>3. x[U] = 1000 * (5 * t(U).n - t(U).weight) /\ y[U] = 5 * t(U).n
      BY DEF Earned, Possible
    <2> HIDE DEF t, x, y
    <2> QED BY <2>1, <2>2, <2>3 DEF Ratio
  <1>6. Additive(D, x) /\ Additive(D, y)
    BY TotalsAdditive
  <1>7. \A m \in Nat : /\ (\A d \in E : AtMost(x[On(events, d)], y[On(events, d)], m)) => AtMost(x[D], y[D], m)
                       /\ (\A d \in E : AtLeast(x[On(events, d)], y[On(events, d)], m)) => AtLeast(x[D], y[D], m)
    BY <1>6, OverDays
  <1>8. D # {} /\ D \in SUBSET D /\ E # {}
    BY DEF DaysOf
  <1> HIDE DEF D, E, t, r, o, x, y, R
  <1>9. R \in SUBSET Int /\ R # {} /\ \A v \in R : 0 <= v /\ v <= 1000
    <2>1. \A d \in E : r(d) \in 0..1000
      BY <1>2, <1>3, <1>5
    <2> QED BY <1>4, <1>8, <2>1
  <1>10. Max(R) \in R /\ \A v \in R : v <= Max(R)
    <2>1. 1000 \in Int /\ \A v \in R : v <= 1000
      BY <1>9
    <2> QED BY <1>9, <2>1, Greatest
  <1>11. Min(R) \in R /\ \A v \in R : Min(R) <= v
    BY <1>9, Smallest
  <1>12. o <= Max(R)
    <2>1. Max(R) \in Nat
      <3>1. Max(R) \in Int /\ 0 <= Max(R)
        BY <1>9, <1>10
      <3> QED BY <3>1
    <2>2. ASSUME NEW d \in E PROVE AtMost(x[On(events, d)], y[On(events, d)], Max(R))
      <3>1. r(d) <= Max(R) /\ r(d) = Round(x[On(events, d)], y[On(events, d)]) /\ y[On(events, d)] # 0
        BY <1>2, <1>3, <1>4, <1>5, <1>10
      <3> QED BY <3>1 DEF AtMost
    <2>3. AtMost(x[D], y[D], Max(R))
      BY <1>7, <2>1, <2>2
    <2> QED BY <1>1, <1>5, <1>8, <2>3 DEF AtMost
  <1>13. Min(R) <= o
    <2>1. Min(R) \in Nat
      <3>1. Min(R) \in Int /\ 0 <= Min(R)
        BY <1>9, <1>11
      <3> QED BY <3>1
    <2>2. ASSUME NEW d \in E PROVE AtLeast(x[On(events, d)], y[On(events, d)], Min(R))
      <3>1. Min(R) <= r(d) /\ r(d) = Round(x[On(events, d)], y[On(events, d)]) /\ y[On(events, d)] # 0
        BY <1>2, <1>3, <1>4, <1>5, <1>11
      <3> QED BY <3>1 DEF AtLeast
    <2>3. AtLeast(x[D], y[D], Min(R))
      BY <1>7, <2>1, <2>2
    <2> QED BY <1>1, <1>5, <1>8, <2>3 DEF AtLeast
  <1> QED BY <1>12, <1>13 DEF Between, o, R

\* The break rate is between those of the worst and the best day that has
\* one, and there is none when no day has one.
LEMMA RateOverDays ==
  ASSUME NEW events \in Feed, DOMAIN events # {}
  PROVE  LET rates == {d.break_honor_rate : d \in Series(events)} \ {NoScore}
             rate == Summary(events).break_honor_rate
         IN  IF rates = {} THEN rate = NoScore ELSE Between(rate, rates)
  <1> DEFINE D == DOMAIN events
             E == DaysOf(events)
             t(U) == Tally(events, U)
             h(d) == HonorRate(t(On(events, d)))
             R == {d.break_honor_rate : d \in Series(events)} \ {NoScore}
             o == Summary(events).break_honor_rate
             x == Kept(events)
             y == Taken(events)
             z == Zero(events)
  <1>1. o = HonorRate(t(D))
    BY RecordIs DEF Summary, RecordOf
  <1>2. \A d \in E : On(events, d) \in SUBSET D /\ On(events, d) # {}
    BY DaysFacts
  <1>3. \A d \in E : DayRecord(events, d).break_honor_rate = h(d)
    BY <1>2, RecordIs DEF DayRecord, RecordOf
  <1>4. R = {h(d) : d \in E} \ {NoScore}
    BY <1>3 DEF Series
  <1>5. \A U \in SUBSET D :
          /\ y[U] \in Nat /\ y[U] = t(U).breaks /\ z[U] = 0 /\ (y[U] = 0 => x[U] = 0)
          /\ (y[U] # 0 => HonorRate(t(U)) = Round(x[U], y[U])) /\ (y[U] = 0 => HonorRate(t(U)) = NoScore)
    <2> SUFFICES ASSUME NEW U \in SUBSET D
                 PROVE  /\ y[U] \in Nat /\ y[U] = t(U).breaks /\ z[U] = 0 /\ (y[U] = 0 => x[U] = 0)
                        /\ (y[U] # 0 => HonorRate(t(U)) = Round(x[U], y[U]))
                        /\ (y[U] = 0 => HonorRate(t(U)) = NoScore)
      OBVIOUS
    <2>1. t(U).honored \in Nat /\ t(U).breaks \in Nat /\ t(U).honored <= t(U).breaks
      BY TallyFacts
    <2>2. x[U] = 1000 * t(U).honored /\ y[U] = t(U).breaks /\ z[U] = 0
      BY DEF Kept, Taken, Zero
    <2> HIDE DEF t, x, y, z
    <2>3. t(U).breaks = 0 => t(U).honored = 0
      BY <2>1
    <2> QED BY <2>1, <2>2, <2>3 DEF HonorRate
  <1>6. \A U \in SUBSET D : U # {} => HonorRate(t(U)) \in Score /\ (HonorRate(t(U)) = NoScore <=> t(U).breaks = 0)
    BY ScoresTyped
  <1>7. Additive(D, x) /\ Additive(D, y) /\ Additive(D, z)
    BY TotalsAdditive
  <1>8. \A m \in Nat : /\ (\A d \in E : AtMost(x[On(events, d)], y[On(events, d)], m)) => AtMost(x[D], y[D], m)
                       /\ (\A d \in E : AtLeast(x[On(events, d)], y[On(events, d)], m)) => AtLeast(x[D], y[D], m)
                       /\ (\A d \in E : AtMost(y[On(events, d)], z[On(events, d)], m)) => AtMost(y[D], z[D], m)
    BY <1>7, OverDays
  <1>9. D # {} /\ D \in SUBSET D
    OBVIOUS
  <1>10. \A d \in E : y[D] = y[On(events, d)] + y[D \ On(events, d)]
    <2> SUFFICES ASSUME NEW d \in E PROVE y[D] = y[On(events, d)] + y[D \ On(events, d)]
      OBVIOUS
    <2> DEFINE A == On(events, d)
               B == D \ A
    <2>1. A \in SUBSET D /\ B \in SUBSET D /\ A \cap B = {} /\ A \cup B = D
      BY <1>2
    <2> HIDE DEF A, B, D, y
    <2>2. y[A \cup B] = y[A] + y[B]
      BY <1>7, <2>1 DEF Additive
    <2> QED BY <2>1, <2>2 DEF A, B
  <1>11. \A d \in E : D \ On(events, d) \in SUBSET D
    OBVIOUS
  <1> HIDE DEF D, E, t, o, x, y, z, R
  <1>12. CASE R = {}
    <2>1. \A d \in E : y[On(events, d)] = 0
      BY <1>2, <1>4, <1>5, <1>6, <1>12
    <2>2. \A d \in E : AtMost(y[On(events, d)], z[On(events, d)], 0)
      BY <1>2, <1>5, <2>1 DEF AtMost
    <2>3. AtMost(y[D], z[D], 0)
      BY <1>8, <2>2
    <2>4. y[D] = 0
      BY <1>5, <1>9, <2>3 DEF AtMost
    <2>5. o = NoScore
      BY <1>1, <1>5, <1>9, <2>4
    <2> QED BY <1>12, <2>5 DEF o, R
  <1>13. CASE R # {}
    <2>1. R \in SUBSET Int /\ \A v \in R : 0 <= v /\ v <= 1000
      <3>1. \A v \in Score \ {NoScore} : v \in 0..1000
        BY DEF Score
      <3>2. R \in SUBSET (0..1000)
        BY <1>2, <1>4, <1>6, <3>1
      <3> QED BY <3>2
    <2>2. 1000 \in Int /\ 0 \in Int /\ (\A v \in R : v <= 1000) /\ (\A v \in R : 0 <= v)
      BY <2>1
    <2>3. Max(R) \in R /\ \A v \in R : v <= Max(R)
      BY <1>13, <2>1, <2>2, Greatest
    <2>4. Min(R) \in R /\ \A v \in R : Min(R) <= v
      BY <1>13, <2>1, <2>2, Smallest
    <2>5. Max(R) \in Nat /\ Min(R) \in Nat
      <3>1. Max(R) \in Int /\ 0 <= Max(R)
        BY <2>1, <2>3
      <3>2. Min(R) \in Int /\ 0 <= Min(R)
        BY <2>1, <2>4
      <3> QED BY <3>1, <3>2
    <2>6. y[D] # 0
      <3>1. PICK d \in E : h(d) # NoScore
        BY <1>4, <1>13
      <3>2. y[On(events, d)] \in Nat /\ y[On(events, d)] # 0 /\ y[D \ On(events, d)] \in Nat
        BY <1>2, <1>5, <1>11, <3>1
      <3>3. y[D] = y[On(events, d)] + y[D \ On(events, d)]
        BY <1>10
      <3> QED BY <3>2, <3>3
    <2>7. \A d \in E : y[On(events, d)] # 0 => h(d) \in R /\ h(d) = Round(x[On(events, d)], y[On(events, d)])
      BY <1>2, <1>4, <1>5, <1>6
    <2>8. \A d \in E : y[On(events, d)] = 0 => x[On(events, d)] = 0
      BY <1>2, <1>5
    <2>9. o = Round(x[D], y[D])
      BY <1>1, <1>5, <1>9, <2>6
    <2>10. o <= Max(R)
      <3>1. \A d \in E : AtMost(x[On(events, d)], y[On(events, d)], Max(R))
        BY <2>3, <2>7, <2>8 DEF AtMost
      <3>2. AtMost(x[D], y[D], Max(R))
        BY <1>8, <2>5, <3>1
      <3> QED BY <2>6, <2>9, <3>2 DEF AtMost
    <2>11. Min(R) <= o
      <3>1. \A d \in E : AtLeast(x[On(events, d)], y[On(events, d)], Min(R))
        BY <2>4, <2>7 DEF AtLeast
      <3>2. AtLeast(x[D], y[D], Min(R))
        BY <1>8, <2>5, <3>1
      <3> QED BY <2>6, <2>9, <3>2 DEF AtLeast
    <2> QED BY <1>13, <2>10, <2>11 DEF Between, o, R
  <1> QED BY <1>12, <1>13

----------------------------------------------------------------------------
(* The counts of the history.                                              *)

EventCounts(records) == [d \in records |-> d.event_count]

LEMMA CountsAreSummed ==
  ASSUME NEW S, IsFiniteSet(S), \A d \in S : d.event_count \in Nat
  PROVE  MapThenSumSet(LAMBDA d : d.event_count, S) = Sum(EventCounts(S), S)
  <1> DEFINE f == EventCounts(S)
             pick(s) == CHOOSE x \in s : TRUE
             Body(g) == [s \in SUBSET S |-> IF s = {} THEN 0 ELSE pick(s).event_count + g[s \ {pick(s)}]]
             sums == [s \in SUBSET S |-> Sum(f, s)]
             iter == CHOOSE g : g = Body(g)
  <1>1. MapThenSumSet(LAMBDA d : d.event_count, S) = iter[S]
    BY DEF MapThenSumSet, MapThenFoldSet
  <1>2. f \in [S -> Nat] /\ \A c \in S : f[c] = c.event_count
    BY DEF EventCounts
  <1>3. \A s \in SUBSET S : s # {} => pick(s) \in s /\ s \ {pick(s)} \in SUBSET S
    OBVIOUS
  <1> HIDE DEF f, pick
  <1>4. ASSUME NEW s \in SUBSET S PROVE sums[s] = IF s = {} THEN 0 ELSE pick(s).event_count + sums[s \ {pick(s)}]
    <2>1. CASE s = {}
      BY <1>2, <2>1, SumStep
    <2>2. CASE s # {}
      <3> DEFINE c == pick(s)
      <3>1. c \in s /\ c \in S /\ s \ {c} \in SUBSET S
        BY <1>3, <2>2
      <3> HIDE DEF c
      <3>2. Sum(f, s) = Sum(f, s \ {c}) + f[c] /\ Sum(f, s \ {c}) \in Nat /\ f[c] \in Nat
        BY <1>2, <3>1, SumStep
      <3>3. sums[s] = f[c] + sums[s \ {c}]
        BY <3>1, <3>2
      <3> QED BY <1>2, <2>2, <3>1, <3>3 DEF c
    <2> QED BY <2>1, <2>2
  <1>5. sums = Body(sums)
    BY <1>4
  <1>6. iter = Body(iter)
    <2>1. \E g : g = Body(g)
      <3> HIDE DEF Body
      <3> QED BY <1>5
    <2> HIDE DEF Body
    <2> QED BY <2>1
  <1> HIDE DEF iter, sums
  <1>7. ASSUME NEW s \in SUBSET S PROVE iter[s] = IF s = {} THEN 0 ELSE pick(s).event_count + iter[s \ {pick(s)}]
    BY <1>6
  <1> DEFINE G == {s \in SUBSET S : iter[s] = sums[s]}
  <1>8. {} \in G
    BY <1>4, <1>7
  <1>9. ASSUME NEW s \in SUBSET S, s # {}, \A x \in s : s \ {x} \in G PROVE s \in G
    <2>1. pick(s) \in s
      BY <1>3, <1>9
    <2>2. iter[s \ {pick(s)}] = sums[s \ {pick(s)}]
      BY <1>9, <2>1
    <2> QED BY <1>4, <1>7, <1>9, <2>2
  <1>10. G = SUBSET S
    <2>1. G \in SUBSET (SUBSET S)
      OBVIOUS
    <2> HIDE DEF G
    <2> QED BY <1>8, <1>9, <2>1, SubsetInduction
  <1>11. iter[S] = sums[S]
    <2>1. S \in G
      <3> HIDE DEF G
      <3> QED BY <1>10
    <2> QED BY <2>1
  <1> QED BY <1>1, <1>11 DEF sums, f

LEMMA CountsAddUp ==
  ASSUME NEW events \in Feed, DOMAIN events # {}
  PROVE  MapThenSumSet(LAMBDA d : d.event_count, Series(events)) = Summary(events).count
  <1> DEFINE E == DaysOf(events)
             P(T) == OnDays(events, T)
             g == [d \in E |-> Cardinality(On(events, d))]
             S == Series(events)
             p == [d \in E |-> DayRecord(events, d)]
  <1>1. IsFiniteSet(E) /\ P({}) = {} /\ P(E) = DOMAIN events
    BY DaysFacts
  <1>2. \A d \in E : On(events, d) \in SUBSET DOMAIN events /\ On(events, d) # {}
    BY DaysFacts
  <1>3. \A U \in SUBSET DOMAIN events : Tally(events, U).n = Cardinality(U) /\ Cardinality(U) \in Nat
    BY TallySums, PositionsFinite
  <1>4. \A d \in E : DayRecord(events, d).event_count = Cardinality(On(events, d)) /\ DayRecord(events, d).date = d
    BY <1>2, <1>3, RecordIs DEF DayRecord, RecordOf
  <1>5. g \in [E -> Nat]
    BY <1>2, <1>3
  <1>6. Summary(events).count = Cardinality(DOMAIN events)
    BY <1>3, RecordIs DEF Summary, RecordOf
  <1>7. \A T \in SUBSET E : \A d \in T :
          /\ P(T) \in SUBSET DOMAIN events /\ P(T \ {d}) \in SUBSET DOMAIN events
          /\ Cardinality(P(T)) = Cardinality(P(T \ {d})) + Cardinality(On(events, d))
    <2> SUFFICES ASSUME NEW T \in SUBSET E, NEW d \in T
                 PROVE  /\ P(T) \in SUBSET DOMAIN events /\ P(T \ {d}) \in SUBSET DOMAIN events
                        /\ Cardinality(P(T)) = Cardinality(P(T \ {d})) + Cardinality(On(events, d))
      OBVIOUS
    <2> DEFINE A == P(T \ {d})
               B == On(events, d)
               C == P(T)
    <2>1. C = A \cup B /\ A \cap B = {} /\ C \in SUBSET DOMAIN events /\ A \in SUBSET DOMAIN events
          /\ B \in SUBSET DOMAIN events
      BY <1>2, DaysFacts
    <2> HIDE DEF A, B, C
    <2>2. Tally(events, A \cup B).n = Tally(events, A).n + Tally(events, B).n
      BY <2>1, TallyAdds
    <2>3. Cardinality(C) = Cardinality(A) + Cardinality(B)
      BY <1>3, <2>1, <2>2
    <2> QED BY <2>1, <2>3 DEF A, B, C
  <1>8. S = {DayRecord(events, d) : d \in E}
    BY DEF Series
  <1> HIDE DEF E, P, S
  <1>9. Sum(g, E) = Cardinality(P(E))
    <2> DEFINE G == {T \in SUBSET E : Sum(g, T) = Cardinality(P(T))}
    <2> HIDE DEF g
    <2>1. {} \in G
      <3>1. Sum(g, {}) = 0
        BY <1>1, <1>5, SumStep
      <3>2. Cardinality({}) = 0
        BY FS_EmptySet
      <3> QED BY <1>1, <3>1, <3>2
    <2>2. ASSUME NEW T \in SUBSET E, T # {}, \A d \in T : T \ {d} \in G PROVE T \in G
      <3> PICK d \in T : TRUE
        BY <2>2
      <3>1. Sum(g, T) = Sum(g, T \ {d}) + g[d]
        BY <1>1, <1>5, SumStep
      <3>2. Sum(g, T \ {d}) = Cardinality(P(T \ {d})) /\ g[d] = Cardinality(On(events, d))
        BY <2>2 DEF g
      <3>3. Sum(g, T) = Cardinality(P(T))
        BY <1>7, <3>1, <3>2
      <3> QED BY <3>3
    <2>3. G = SUBSET E
      <3>1. G \in SUBSET (SUBSET E)
        OBVIOUS
      <3> HIDE DEF G
      <3> QED BY <1>1, <2>1, <2>2, <3>1, SubsetInduction
    <2>4. E \in G
      <3> HIDE DEF G
      <3> QED BY <2>3
    <2> QED BY <2>4
  <1>10. p \in Bijection(E, S)
    <2>1. p \in [E -> S]
      BY <1>8
    <2>2. \A a, b \in E : p[a] = p[b] => a = b
      BY <1>4
    <2>3. \A r \in S : \E d \in E : p[d] = r
      BY <1>8
    <2> HIDE DEF p
    <2> QED BY <2>1, <2>2, <2>3 DEF Bijection, Injection, Surjection, IsInjective
  <1>11. IsFiniteSet(S)
    <2>1. ExistsBijection(E, S)
      BY <1>10 DEF ExistsBijection
    <2> QED BY <1>1, <2>1, FS_Bijection
  <1>12. \A r \in S : r.event_count \in Nat
    BY <1>2, <1>3, <1>4, <1>8
  <1>13. EventCounts(S) \in [S -> Nat]
    BY <1>12 DEF EventCounts
  <1>14. \A d \in E : p[d] \in S /\ g[d] = EventCounts(S)[p[d]]
    BY <1>4, <1>8 DEF EventCounts
  <1> HIDE DEF g, p
  <1>15. Sum(g, E) = Sum(EventCounts(S), S)
    BY <1>1, <1>5, <1>10, <1>11, <1>13, <1>14, SumRenamed
  <1>16. MapThenSumSet(LAMBDA d : d.event_count, S) = Sum(EventCounts(S), S)
    BY <1>11, <1>12, CountsAreSummed
  <1>17. Cardinality(P(E)) = Cardinality(DOMAIN events)
    BY <1>1
  <1>18. MapThenSumSet(LAMBDA d : d.event_count, S) = Summary(events).count
    BY <1>6, <1>9, <1>15, <1>16, <1>17
  <1> QED BY <1>18 DEF S

----------------------------------------------------------------------------
(* The invariant: the page being served is one read of the present table.  *)

PageInv ==
  \E events \in Fetched : \E s \in {{}, Series(events)}, b \in {NoBadge, Badge(Summary(events))} :
    page = Page(events, s, b)
IInv == Table /\ PageInv

LEMMA InitInv == Init => IInv
  <1> SUFFICES ASSUME Init PROVE IInv
    OBVIOUS
  <1>1. rows = <<>> /\ today = 0 /\ page = Page(<<>>, {}, NoBadge)
    BY DEF Init, NoPage
  <1>2. Table
    BY <1>1, WelfareAssumption DEF Table
  <1>3. PageInv
    BY <1>1 DEF PageInv, Fetched
  <1> QED BY <1>2, <1>3 DEF IInv

LEMMA EmitKeeps ==
  ASSUME IInv, NEW k \in Kinds, NEW s \in Severities, EmitEvent(k, s)
  PROVE  IInv'
  <1> DEFINE e == [kind |-> k, sev |-> s, day |-> today]
  <1>1. /\ rows \in Seq(Event) /\ today \in 0..MaxDay /\ Len(rows) < MaxEvents
        /\ rows' = Append(rows, e) /\ page' = NoPage /\ today' = today
    BY DEF IInv, Table, EmitEvent
  <1>2. e \in Event
    BY <1>1 DEF Event
  <1> HIDE DEF e
  <1>3. rows' \in Seq(Event) /\ Len(rows') = Len(rows) + 1 /\ Len(rows) \in Nat
    BY <1>1, <1>2
  <1>4. Len(rows') <= MaxEvents
    BY <1>1, <1>3, WelfareAssumption
  <1>5. Table'
    BY <1>1, <1>3, <1>4 DEF Table
  <1>6. page' = Page(<<>>, {}, NoBadge)
    BY <1>1 DEF NoPage
  <1>7. PageInv'
    BY <1>6 DEF PageInv, Fetched
  <1> QED BY <1>5, <1>7 DEF IInv

LEMMA TickKeeps ==
  ASSUME IInv, Tick
  PROVE  IInv'
  <1>1. /\ rows' = rows /\ today < MaxDay /\ today' = today + 1 /\ page' = NoPage
        /\ rows \in Seq(Event) /\ Len(rows) <= MaxEvents /\ today \in 0..MaxDay /\ MaxDay \in Nat
    BY WelfareAssumption DEF IInv, Table, Tick
  <1>2. today' \in 0..MaxDay
    BY <1>1
  <1>3. Table'
    BY <1>1, <1>2 DEF Table
  <1>4. page' = Page(<<>>, {}, NoBadge)
    BY <1>1 DEF NoPage
  <1>5. PageInv'
    BY <1>4 DEF PageInv, Fetched
  <1> QED BY <1>3, <1>5 DEF IInv

\* A read leaves the table, and with it what a read can get.
LEMMA ReadsKeep ==
  ASSUME IInv, rows' = rows, today' = today,
         \/ page' = page
         \/ \E events \in Fetched : \E s \in {{}, Series(events)}, b \in {NoBadge, Badge(Summary(events))} :
              page' = Page(events, s, b)
  PROVE  IInv'
  <1>1. Table'
    BY DEF IInv, Table
  <1>2. Fetched' = Fetched
    BY DEF Fetched, Orders, Window
  <1>3. \E events \in Fetched : \E s \in {{}, Series(events)}, b \in {NoBadge, Badge(Summary(events))} :
          page' = Page(events, s, b)
    BY DEF IInv, PageInv
  <1>4. PageInv'
    BY <1>2, <1>3 DEF PageInv
  <1> QED BY <1>1, <1>4 DEF IInv

LEMMA NextKeeps == IInv /\ [Next]_vars => IInv'
  <1> SUFFICES ASSUME IInv, [Next]_vars PROVE IInv'
    OBVIOUS
  <1>1. ASSUME NEW k \in Kinds, NEW s \in Severities, EmitEvent(k, s) PROVE IInv'
    BY <1>1, EmitKeeps
  <1>2. CASE GetWelfare
    BY <1>2, ReadsKeep DEF GetWelfare
  <1>3. CASE WelfareBadge
    BY <1>3, ReadsKeep DEF WelfareBadge
  <1>4. CASE WelfareHistory
    BY <1>4, ReadsKeep DEF WelfareHistory
  <1>5. CASE Tick
    BY <1>5, TickKeeps
  <1>6. CASE UNCHANGED vars
    BY <1>6, ReadsKeep DEF vars
  <1> QED BY <1>1, <1>2, <1>3, <1>4, <1>5, <1>6 DEF Next

\* The page being served is always one read of the rows of the current window,
\* in some order, or of none: summary, badge and history are computed from the
\* same rows that the response was asked for (_fetch_welfare_rows).
THEOREM Invariance == Spec => []IInv
  BY InitInv, NextKeeps, PTL DEF Spec

----------------------------------------------------------------------------
(* What the invariant says of a page.                                      *)

LEMMA FetchedFacts ==
  ASSUME Table, NEW events \in Fetched
  PROVE  /\ events \in Feed /\ Cardinality(DOMAIN events) \in 0..MaxEvents
         /\ events # <<>> => events \in Orders /\ DOMAIN events # {}
  <1>1. CASE events = <<>>
    <2>1. DOMAIN events = {} /\ events \in Feed
      BY <1>1 DEF Feed
    <2>2. Cardinality({}) = 0 /\ MaxEvents \in Nat
      BY FS_EmptySet, WelfareAssumption
    <2>3. Cardinality(DOMAIN events) \in 0..MaxEvents
      BY <2>1, <2>2
    <2> QED BY <1>1, <2>1, <2>3
  <1>2. CASE events # <<>>
    <2>1. events \in Orders
      BY <1>2 DEF Fetched
    <2>2. PICK p : IsRead(events, p)
      BY <2>1, ReadIs
    <2>3. events \in Feed /\ DOMAIN events = 1..Cardinality(Window)
      BY <2>2 DEF IsRead
    <2>4. Cardinality(Window) \in 0..MaxEvents
      BY TableFacts
    <2>5. Cardinality(DOMAIN events) = Cardinality(Window)
      <3> DEFINE k == Cardinality(Window)
      <3>1. k \in Nat
        BY <2>4, WelfareAssumption
      <3> HIDE DEF k
      <3>2. Cardinality(1..k) = k
        BY <3>1, FS_Interval
      <3> QED BY <2>3, <3>2 DEF k
    <2>6. DOMAIN events # {}
      <3>1. events \in Seq(Event) /\ DOMAIN events = 1..Len(events) /\ Len(events) \in Nat
        BY <2>3 DEF Feed
      <3>2. Len(events) = 0 => events = <<>>
        BY <3>1
      <3> QED BY <1>2, <3>1, <3>2
    <2> QED BY <2>1, <2>3, <2>4, <2>5, <2>6
  <1> QED BY <1>1, <1>2

LEMMA SummaryTyped ==
  ASSUME NEW events \in Feed
  PROVE  /\ Summary(events).count = Cardinality(DOMAIN events)
         /\ Summary(events).overall_raw \in Score /\ Summary(events).ewma_score \in Score
         /\ Summary(events).dims \in [DIMENSIONS -> Score] /\ Summary(events).break_honor_rate \in Score
         /\ Badge(Summary(events)).percent \in 0..100 \cup {NoScore}
  <1> DEFINE D == DOMAIN events
             c == Summary(events)
  <1>1. CASE D = {}
    <2>1. c = Empty
      BY <1>1 DEF Summary, calculate_welfare
    <2>2. NoScore \in Score
      BY DEF Score
    <2>3. Badge(c) = NoBadge
      BY <2>1 DEF Badge, Empty
    <2>4. Cardinality(D) = 0
      BY <1>1, FS_EmptySet
    <2>5. [d \in DIMENSIONS |-> NoScore] \in [DIMENSIONS -> Score]
      BY <2>2
    <2> HIDE DEF c, D
    <2>6. c.count = 0 /\ c.overall_raw = NoScore /\ c.ewma_score = NoScore /\ c.break_honor_rate = NoScore
          /\ c.dims = [d \in DIMENSIONS |-> NoScore]
      BY <2>1 DEF Empty
    <2>7. Badge(c).percent = NoScore
      BY <2>3 DEF NoBadge
    <2> QED BY <2>2, <2>4, <2>5, <2>6, <2>7 DEF c, D
  <1>2. CASE D # {}
    <2> DEFINE t == Tally(events, D)
               o == Rate(t.weight, t.n)
               w == Round(t.ewma, t.scale)
    <2>1. c = RecordOf(t, SpanDays(events), w)
      BY <1>2, RecordIs DEF Summary
    <2>2. t.n = Cardinality(D)
      BY TallyFacts
    <2>3. D \in SUBSET D
      OBVIOUS
    <2>4. o \in 0..1000 /\ w \in 0..1000 /\ HonorRate(t) \in Score /\ DimScore(t) \in [DIMENSIONS -> Score]
      BY <1>2, <2>3, ScoresTyped
    <2> HIDE DEF c, D, t, w
    <2>5. c.count = t.n /\ c.overall_raw = o /\ c.ewma_score = w /\ c.break_honor_rate = HonorRate(t)
          /\ c.dims = DimScore(t)
      BY <2>1 DEF RecordOf
    <2> HIDE DEF o
    <2>6. o \in Score /\ w \in Score
      BY <2>4 DEF Score
    <2>7. Badge(c).percent \in {NoScore, o \div 10}
      BY <2>5 DEF Badge, NoBadge
    <2>8. o \div 10 \in 0..100
      BY <2>4
    <2> QED BY <2>2, <2>4, <2>5, <2>6, <2>7, <2>8 DEF c, D
  <1> QED BY <1>1, <1>2

LEMMA DayTyped ==
  ASSUME NEW events \in Feed, NEW d \in Series(events)
  PROVE  /\ d.overall_raw \in Score \ {NoScore}
         /\ d.event_count \in Nat /\ 1 <= d.event_count /\ d.event_count <= Cardinality(DOMAIN events)
  <1>1. PICK day \in DaysOf(events) : d = DayRecord(events, day)
    BY DEF Series
  <1> DEFINE U == On(events, day)
             t == Tally(events, U)
  <1>2. U \in SUBSET DOMAIN events /\ U # {}
    BY DaysFacts
  <1>3. t.n = Cardinality(U) /\ t.n # 0 /\ t.n \in Nat
    BY <1>2, TallyFacts
  <1>4. Rate(t.weight, t.n) \in 0..1000
    BY <1>2, ScoresTyped
  <1>5. d.event_count = t.n /\ d.overall_raw = Rate(t.weight, t.n)
    BY <1>1, <1>2, RecordIs DEF DayRecord, RecordOf
  <1>6. Cardinality(U) <= Cardinality(DOMAIN events) /\ Cardinality(DOMAIN events) \in Nat
    BY <1>2, PositionsFinite, FS_Subset, FS_CardinalityType
  <1> HIDE DEF U, t
  <1>7. d.overall_raw \in Score \ {NoScore}
    BY <1>4, <1>5 DEF Score, NoScore
  <1> QED BY <1>3, <1>5, <1>6, <1>7

LEMMA InvGivesType == IInv => TypeOK
  <1> SUFFICES ASSUME IInv PROVE TypeOK
    OBVIOUS
  <1>1. Table /\ rows \in Seq(Event) /\ Len(rows) <= MaxEvents /\ today \in 0..MaxDay
    BY DEF IInv, Table
  <1>2. PICK events \in Fetched : \E s \in {{}, Series(events)}, b \in {NoBadge, Badge(Summary(events))} :
                                    page = Page(events, s, b)
    BY DEF IInv, PageInv
  <1>3. PICK s \in {{}, Series(events)}, b \in {NoBadge, Badge(Summary(events))} : page = Page(events, s, b)
    BY <1>2
  <1>4. page.read = events /\ page.totals = Summary(events) /\ page.series = s /\ page.badge = b
    BY <1>3 DEF Page
  <1>5. events \in Feed /\ Cardinality(DOMAIN events) \in 0..MaxEvents
    BY <1>1, FetchedFacts
  <1>6. /\ Summary(events).count = Cardinality(DOMAIN events)
        /\ Summary(events).overall_raw \in Score /\ Summary(events).ewma_score \in Score
        /\ Summary(events).dims \in [DIMENSIONS -> Score] /\ Summary(events).break_honor_rate \in Score
        /\ Badge(Summary(events)).percent \in 0..100 \cup {NoScore}
    BY <1>5, SummaryTyped
  <1>7. page.read \in Seq(Event)
    BY <1>4, <1>5 DEF Feed
  <1>8. b.percent \in 0..100 \cup {NoScore}
    <2>1. NoBadge.percent = NoScore
      BY DEF NoBadge
    <2> QED BY <1>3, <1>6, <2>1
  <1>9. ASSUME NEW d \in page.series PROVE d.overall_raw \in Score \ {NoScore} /\ d.event_count \in 1..MaxEvents
    <2>1. d \in Series(events)
      BY <1>3, <1>4, <1>9
    <2>2. /\ d.overall_raw \in Score \ {NoScore} /\ d.event_count \in Nat /\ 1 <= d.event_count
          /\ d.event_count <= Cardinality(DOMAIN events)
      BY <1>5, <2>1, DayTyped
    <2>3. MaxEvents \in Nat
      BY WelfareAssumption
    <2>4. d.event_count \in 1..MaxEvents
      BY <1>5, <2>2, <2>3
    <2> QED BY <2>2, <2>4
  <1> QED BY <1>1, <1>4, <1>5, <1>6, <1>7, <1>8, <1>9 DEF TypeOK

\* Every page is well formed: scores from 0 to 1000 or none, percents from 0
\* to 100 or none, and no day of the history without an event.
THEOREM TypeCorrect == Spec => []TypeOK
  BY Invariance, InvGivesType, PTL

\* The letter on the badge is the one its whole percent earns: every
\* threshold is a whole percent.
LEMMA WholePercentKeepsGrade ==
  ASSUME NEW x \in 0..1000
  PROVE  Grade(10 * (x \div 10)) = Grade(x)
  <1> DEFINE y == 10 * (x \div 10)
  <1>1. y \in Int /\ y <= x /\ x < y + 10 /\ \E q \in Int : y = 10 * q
    OBVIOUS
  <1> HIDE DEF y
  <1>2. \A i \in DOMAIN Thresholds : y >= Thresholds[i][1] <=> x >= Thresholds[i][1]
    <2>1. DOMAIN Thresholds = 1..6
      BY DEF Thresholds
    <2>2. PICK q \in Int : y = 10 * q
      BY <1>1
    <2>3. /\ (y >= 950 <=> x >= 950) /\ (y >= 900 <=> x >= 900) /\ (y >= 850 <=> x >= 850)
          /\ (y >= 800 <=> x >= 800) /\ (y >= 700 <=> x >= 700) /\ (y >= 600 <=> x >= 600)
      BY <1>1, <2>2
    <2>4. /\ Thresholds[1][1] = 950 /\ Thresholds[2][1] = 900 /\ Thresholds[3][1] = 850
          /\ Thresholds[4][1] = 800 /\ Thresholds[5][1] = 700 /\ Thresholds[6][1] = 600
      BY DEF Thresholds
    <2>5. \A i \in 1..6 : i = 1 \/ i = 2 \/ i = 3 \/ i = 4 \/ i = 5 \/ i = 6
      OBVIOUS
    <2> QED BY <2>1, <2>3, <2>4, <2>5
  <1>3. {i \in DOMAIN Thresholds : y >= Thresholds[i][1]} = {i \in DOMAIN Thresholds : x >= Thresholds[i][1]}
    BY <1>2
  <1>4. Grade(y) = Grade(x)
    BY <1>3 DEF Grade
  <1> QED BY <1>4 DEF y

LEMMA LetteredBadge ==
  ASSUME NEW events \in Feed, DOMAIN events # {}, Badge(Summary(events)) # NoBadge
  PROVE  /\ ~Summary(events).provisional
         /\ Grade(10 * Badge(Summary(events)).percent) = Badge(Summary(events)).grade
  <1> DEFINE D == DOMAIN events
             t == Tally(events, D)
             c == Summary(events)
             o == Rate(t.weight, t.n)
             g == Gated(t, SpanDays(events))
  <1>1. c = RecordOf(t, SpanDays(events), Round(t.ewma, t.scale))
    BY RecordIs DEF Summary
  <1>2. ~c.provisional
    BY DEF Badge
  <1>3. D \in SUBSET D
    OBVIOUS
  <1>4. o \in 0..1000
    BY <1>3, ScoresTyped
  <1> HIDE DEF c, t, D
  <1>5. c.provisional = g /\ c.overall_raw = o /\ c.grade = IF g THEN "PROVISIONAL" ELSE Grade(o)
    BY <1>1 DEF RecordOf
  <1>6. Badge(c) = [grade |-> c.grade, percent |-> c.overall_raw \div 10]
    BY <1>2 DEF Badge
  <1> HIDE DEF o, g
  <1>7. Badge(c).percent = o \div 10 /\ Badge(c).grade = Grade(o)
    BY <1>2, <1>5, <1>6
  <1>8. Grade(10 * (o \div 10)) = Grade(o)
    BY <1>4, WholePercentKeepsGrade
  <1> QED BY <1>2, <1>7, <1>8 DEF c

LEMMA InvGivesOrder == IInv => GradeIgnoresRowOrder
  <1> SUFFICES ASSUME IInv, page.read # <<>>, NEW others \in Orders
               PROVE  /\ [page.totals EXCEPT !.ewma_score = 0] = [Summary(others) EXCEPT !.ewma_score = 0]
                      /\ page.badge # NoBadge =>
                           ~Summary(others).provisional /\ Grade(10 * page.badge.percent) = page.badge.grade
    BY DEF GradeIgnoresRowOrder
  <1>1. Table
    BY DEF IInv
  <1>2. PICK events \in Fetched : \E s \in {{}, Series(events)}, b \in {NoBadge, Badge(Summary(events))} :
                                    page = Page(events, s, b)
    BY DEF IInv, PageInv
  <1>3. PICK s \in {{}, Series(events)}, b \in {NoBadge, Badge(Summary(events))} : page = Page(events, s, b)
    BY <1>2
  <1>4. page.read = events /\ page.totals = Summary(events) /\ page.badge = b
    BY <1>3 DEF Page
  <1>5. events \in Feed /\ events \in Orders /\ DOMAIN events # {}
    BY <1>1, <1>4, FetchedFacts
  <1>6. /\ [Summary(events) EXCEPT !.ewma_score = 0] = [Summary(others) EXCEPT !.ewma_score = 0]
        /\ Summary(events).provisional = Summary(others).provisional
    BY <1>1, <1>5, SummaryOfOrders
  <1>7. ASSUME b # NoBadge PROVE ~Summary(others).provisional /\ Grade(10 * b.percent) = b.grade
    <2>1. b = Badge(Summary(events)) /\ Badge(Summary(events)) # NoBadge
      BY <1>3, <1>7
    <2>2. ~Summary(events).provisional /\ Grade(10 * Badge(Summary(events)).percent) = Badge(Summary(events)).grade
      BY <1>5, <2>1, LetteredBadge
    <2> QED BY <1>6, <2>1, <2>2
  <1> QED BY <1>4, <1>6, <1>7

\* The order in which the database returns the rows changes no grade, gate,
\* score, dimension or break rate, and a badge with a letter has passed the
\* gate in every order and shows the percent that earns its letter.
THEOREM OrderDoesNotMatter == Spec => []GradeIgnoresRowOrder
  BY Invariance, InvGivesOrder, PTL

LEMMA InvGivesAverage == IInv => EwmaIsAnAverage
  <1> SUFFICES ASSUME IInv, page.read # <<>>
               PROVE  Between(page.totals.ewma_score, {EventScore(page.read[i]) : i \in DOMAIN page.read})
    BY DEF EwmaIsAnAverage
  <1>1. Table
    BY DEF IInv
  <1>2. PICK events \in Fetched : \E s \in {{}, Series(events)}, b \in {NoBadge, Badge(Summary(events))} :
                                    page = Page(events, s, b)
    BY DEF IInv, PageInv
  <1>3. page.read = events /\ page.totals = Summary(events)
    BY <1>2 DEF Page
  <1>4. events \in Feed /\ DOMAIN events # {}
    BY <1>1, <1>3, FetchedFacts
  <1> DEFINE D == DOMAIN events
             t == Tally(events, D)
             R == {EventScore(events[i]) : i \in D}
  <1>5. Summary(events).ewma_score = Round(t.ewma, t.scale)
    BY <1>4, RecordIs DEF Summary, RecordOf
  <1>6. R \in SUBSET Int /\ R # {} /\ \A v \in R : 0 <= v /\ v <= 1000
    <2>1. \A i \in D : EventScore(events[i]) \in 0..1000
      <3> SUFFICES ASSUME NEW i \in D PROVE EventScore(events[i]) \in 0..1000
        OBVIOUS
      <3>1. events[i] \in Event
        BY <1>4, PositionsFinite
      <3> QED BY <3>1, EventType
    <2>2. R \in SUBSET (0..1000)
      <3> SUFFICES ASSUME NEW v \in R PROVE v \in 0..1000
        OBVIOUS
      <3>1. PICK i \in D : v = EventScore(events[i])
        OBVIOUS
      <3>2. EventScore(events[i]) \in 0..1000
        BY <2>1
      <3> QED BY <3>1, <3>2
    <2>3. R # {}
      BY <1>4
    <2> HIDE DEF R
    <2> QED BY <2>2, <2>3
  <1>7. t.ewma \in Nat /\ t.scale \in Nat \ {0}
    BY <1>4, TallyFacts
  <1>8. \A i \in D : EventScore(events[i]) \in R
    OBVIOUS
  <1> HIDE DEF R
  <1>9. 1000 \in Int /\ 0 \in Int /\ (\A v \in R : v <= 1000) /\ (\A v \in R : 0 <= v)
    BY <1>6
  <1>10. Max(R) \in R /\ \A v \in R : v <= Max(R)
    BY <1>6, <1>9, Greatest
  <1>11. Min(R) \in R /\ \A v \in R : Min(R) <= v
    BY <1>6, <1>9, Smallest
  <1>12. Max(R) \in Nat /\ Min(R) \in Nat
    <2>1. Max(R) \in Int /\ 0 <= Max(R)
      BY <1>6, <1>10
    <2>2. Min(R) \in Int /\ 0 <= Min(R)
      BY <1>6, <1>11
    <2> QED BY <2>1, <2>2
  <1>13. Min(R) * t.scale <= t.ewma /\ t.ewma <= Max(R) * t.scale
    <2>1. \A i \in DOMAIN events : Min(R) <= EventScore(events[i]) /\ EventScore(events[i]) <= Max(R)
      BY <1>8, <1>10, <1>11
    <2> QED BY <1>4, <1>12, <2>1, EwmaBand
  <1> DEFINE a == t.ewma
             b == t.scale
             lo == Min(R)
             hi == Max(R)
  <1>14. a \in Nat /\ b \in Nat \ {0} /\ lo \in Nat /\ hi \in Nat /\ lo * b <= a /\ a <= hi * b
    BY <1>7, <1>12, <1>13
  <1> HIDE DEF a, b, lo, hi
  <1>15. lo <= Round(a, b) /\ Round(a, b) <= hi
    BY <1>14, RoundBetween
  <1>16. Between(Round(a, b), R)
    BY <1>15 DEF Between, lo, hi
  <1> QED BY <1>3, <1>5, <1>16 DEF a, b, R

\* The smoothed score of a page is between the scores of the worst and the
\* best event that was read, in whatever order they were fed.
THEOREM EwmaStaysBetween == Spec => []EwmaIsAnAverage
  BY Invariance, InvGivesAverage, PTL

LEMMA InvGivesDays == IInv => DaysMakeUpTheTotals
  <1> SUFFICES ASSUME IInv, page.series # {}
               PROVE  LET rates == {d.break_honor_rate : d \in page.series} \ {NoScore}
                      IN  /\ MapThenSumSet(LAMBDA d : d.event_count, page.series) = page.totals.count
                          /\ Between(page.totals.overall_raw, {d.overall_raw : d \in page.series})
                          /\ IF rates = {} THEN page.totals.break_honor_rate = NoScore
                             ELSE Between(page.totals.break_honor_rate, rates)
    BY DEF DaysMakeUpTheTotals
  <1>1. Table
    BY DEF IInv
  <1>2. PICK events \in Fetched : \E s \in {{}, Series(events)}, b \in {NoBadge, Badge(Summary(events))} :
                                    page = Page(events, s, b)
    BY DEF IInv, PageInv
  <1>3. page.totals = Summary(events) /\ page.series = Series(events)
    BY <1>2 DEF Page
  <1>4. events \in Feed
    BY <1>1, FetchedFacts
  <1>5. DOMAIN events # {}
    BY <1>3 DEF Series, DaysOf
  <1>6. MapThenSumSet(LAMBDA d : d.event_count, Series(events)) = Summary(events).count
    BY <1>4, <1>5, CountsAddUp
  <1>7. Between(Summary(events).overall_raw, {d.overall_raw : d \in Series(events)})
    BY <1>4, <1>5, OverallOverDays
  <1>8. LET rates == {d.break_honor_rate : d \in Series(events)} \ {NoScore}
            rate == Summary(events).break_honor_rate
        IN  IF rates = {} THEN rate = NoScore ELSE Between(rate, rates)
    BY <1>4, <1>5, RateOverDays
  <1>9. MapThenSumSet(LAMBDA d : d.event_count, page.series) = page.totals.count
    BY <1>3, <1>6
  <1> QED BY <1>3, <1>7, <1>8, <1>9

\* The history and the totals of one response agree: the counts of the days
\* add up, and the window's score and break rate are between those of the
\* worst and the best of its days.
THEOREM DaysAddUp == Spec => []DaysMakeUpTheTotals
  BY Invariance, InvGivesDays, PTL

============================================================================
