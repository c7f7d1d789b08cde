------------------------- MODULE RateLimiterProofs -------------------------
(***************************************************************************)
(* Machine-checked proofs about RateLimiter, for any clients, workers,     *)
(* limit, window, number of buckets and replaced processes: what a worker  *)
(* keeps after trimming and cleaning up is the window, and no window holds *)
(* more requests than the processes' limits together.                      *)
(***************************************************************************)
EXTENDS RateLimiter, FiniteSetTheorems, NaturalsInduction, TLAPS

----------------------------------------------------------------------------
(* The inductive invariant.                                                *)

OldestFirst(ages) == \A i, j \in DOMAIN ages : i <= j => ages[j] <= ages[i]

\* Trimming needs hits in the order of their times.
HitsInv == \A w \in Workers, c \in Clients : OldestFirst(hits[w][c])

\* A process has admitted no more than the limit within the window.
LogInv ==
  \A p \in Processes, c \in Clients :
    /\ Len(log[p][c]) <= Limit
    /\ OldestFirst(log[p][c])
    /\ \A i \in DOMAIN log[p][c] : Live(log[p][c][i])

\* A process that is gone admitted its requests before it went.
GoneInv ==
  \A r \in Replaced, c \in Clients : \A i \in DOMAIN log[r][c] : since[r] <= log[r][c][i]

IInv == TypeOK /\ HitsInv /\ HitsAreTheWindow /\ LogInv /\ GoneInv

----------------------------------------------------------------------------
(* Trimming.  The edge of the window is a parameter here: in the model it  *)
(* is Expired, which depends on the kind of limiter.                       *)

Cut(s, e, k) ==
  /\ \A i \in 1..k : ~(s[i] < e)
  /\ k < Len(s) => s[k + 1] < e
TrimAt(s, e) ==
  SubSeq(s, Cardinality({i \in DOMAIN s : \A j \in 1..i : ~(s[j] < e)}) + 1, Len(s))
OlderAt(s, e) == [i \in DOMAIN s |-> IF s[i] < e THEN s[i] + 1 ELSE e]

LEMMA LeastNat ==
  ASSUME NEW T \in SUBSET Nat, T # {}
  PROVE  \E m \in T : \A k \in T : m <= k
  <1> DEFINE R == OpToRel(<, Nat)
  <1>1. IsWellFoundedOn(R, Nat)
    BY NatLessThanWellFounded
  <1>2. \A x, y \in Nat : <<y, x>> \in R <=> y < x
    BY DEF OpToRel
  <1> HIDE DEF R
  <1>3. \E x \in T : \A y \in T : ~ (<<y, x>> \in R)
    BY <1>1, WFMin
  <1>4. PICK x \in T : \A y \in T : ~(y < x)
    BY <1>2, <1>3
  <1>5. \A y \in T : x <= y
    BY <1>4
  <1> QED BY <1>5

\* k hits are popped, for some k.
LEMMA CutExists ==
  ASSUME NEW e \in Nat, NEW s \in Seq(0..e)
  PROVE  \E k \in 0..Len(s) : Cut(s, e, k)
  <1> DEFINE T == {i \in 1..Len(s) : s[i] < e}
  <1>1. CASE T = {}
    <2>1. Len(s) \in 0..Len(s) /\ Cut(s, e, Len(s))
      BY <1>1 DEF Cut
    <2> QED BY <2>1
  <1>2. CASE T # {}
    <2>1. T \in SUBSET Nat
      OBVIOUS
    <2>2. PICK m \in T : \A k \in T : m <= k
      <3> HIDE DEF T
      <3> QED BY <1>2, <2>1, LeastNat
    <2>3. m - 1 \in 0..Len(s) /\ Cut(s, e, m - 1)
      BY <2>2 DEF Cut
    <2> QED BY <2>3
  <1> QED BY <1>1, <1>2

LEMMA TrimIs ==
  ASSUME NEW e \in Nat, NEW s \in Seq(0..e), NEW k \in 0..Len(s), Cut(s, e, k)
  PROVE  /\ TrimAt(s, e) \in Seq(0..e) /\ Len(TrimAt(s, e)) = Len(s) - k
         /\ \A i \in 1..Len(s) - k : TrimAt(s, e)[i] = s[i + k]
  <1>1. {i \in DOMAIN s : \A j \in 1..i : ~(s[j] < e)} = 1..k
    BY DEF Cut
  <1>2. Cardinality(1..k) = k
    BY FS_Interval
  <1>3. TrimAt(s, e) = SubSeq(s, k + 1, Len(s))
    BY <1>1, <1>2 DEF TrimAt
  <1> QED BY <1>3

\* What is left is within the window and in order.
LEMMA TrimKeeps ==
  ASSUME NEW e \in Nat, NEW s \in Seq(0..e), OldestFirst(s)
  PROVE  /\ TrimAt(s, e) \in Seq(0..e) /\ Len(TrimAt(s, e)) <= Len(s)
         /\ OldestFirst(TrimAt(s, e))
         /\ \A i \in DOMAIN TrimAt(s, e) : TrimAt(s, e)[i] < e /\ \E j \in DOMAIN s : TrimAt(s, e)[i] = s[j]
  <1>1. PICK k \in 0..Len(s) : Cut(s, e, k)
    BY CutExists
  <1> DEFINE t == TrimAt(s, e)
  <1>2. t \in Seq(0..e) /\ Len(t) = Len(s) - k /\ \A i \in 1..Len(s) - k : t[i] = s[i + k]
    BY <1>1, TrimIs
  <1> HIDE DEF t
  <1>3. k \in Nat /\ Len(s) \in Nat /\ DOMAIN s = 1..Len(s) /\ DOMAIN t = 1..Len(s) - k
    BY <1>2
  <1>4. ASSUME NEW i \in DOMAIN t
        PROVE  /\ i + k \in DOMAIN s /\ t[i] = s[i + k]
               /\ t[i] < e
    <2>1. i \in 1..Len(s) - k /\ i + k \in DOMAIN s /\ k + 1 \in DOMAIN s /\ k + 1 <= i + k /\ k < Len(s)
      BY <1>3
    <2>2. s[i + k] \in 0..e /\ s[k + 1] \in 0..e
      BY <2>1
    <2>3. s[i + k] <= s[k + 1]
      BY <2>1 DEF OldestFirst
    <2>4. s[k + 1] < e
      BY <1>1, <2>1 DEF Cut
    <2>5. t[i] = s[i + k]
      BY <1>2, <2>1
    <2> QED BY <2>1, <2>2, <2>3, <2>4, <2>5
  <1>6. OldestFirst(t)
    <2> SUFFICES ASSUME NEW i \in DOMAIN t, NEW j \in DOMAIN t, i <= j PROVE t[j] <= t[i]
      BY DEF OldestFirst
    <2>1. i + k \in DOMAIN s /\ j + k \in DOMAIN s /\ i + k <= j + k
      BY <1>3
    <2> QED BY <2>1, <1>4 DEF OldestFirst
  <1>7. \A i \in DOMAIN t : t[i] < e
    BY <1>4
  <1> QED BY <1>2, <1>3, <1>4, <1>6, <1>7 DEF t

\* In order of their times, popping from the left is filtering: the hits that
\* are dropped are those that have expired, whichever of the two the code does.
LEMMA TrimFilters ==
  ASSUME NEW e \in Nat, NEW s \in Seq(0..e), OldestFirst(s)
  PROVE  \A i \in DOMAIN s : s[i] < e <=> i > Len(s) - Len(TrimAt(s, e))
  <1>1. PICK k \in 0..Len(s) : Cut(s, e, k)
    BY CutExists
  <1>2. Len(TrimAt(s, e)) = Len(s) - k
    BY <1>1, TrimIs
  <1>3. ASSUME NEW i \in DOMAIN s PROVE s[i] < e <=> i > k
    <2>1. i \in 1..Len(s) /\ k \in Nat /\ s[i] \in 0..e
      OBVIOUS
    <2>2. CASE i <= k
      BY <1>1, <2>1, <2>2 DEF Cut
    <2>3. CASE i > k
      <3>1. k + 1 \in DOMAIN s /\ k + 1 <= i /\ k < Len(s)
        BY <2>1, <2>3
      <3>2. s[i] <= s[k + 1] /\ s[k + 1] < e /\ s[k + 1] \in 0..e
        BY <1>1, <3>1 DEF Cut, OldestFirst
      <3> QED BY <2>1, <2>3, <3>2
    <2> QED BY <2>1, <2>2, <2>3
  <1>4. Len(s) - (Len(s) - k) = k
    OBVIOUS
  <1> QED BY <1>2, <1>3, <1>4

LEMMA TrimNothing ==
  ASSUME NEW e \in Nat, NEW s \in Seq(0..e), \A i \in DOMAIN s : s[i] < e
  PROVE  TrimAt(s, e) = s
  <1>1. 0 \in 0..Len(s) /\ Cut(s, e, 0)
    BY DEF Cut
  <1> DEFINE t == TrimAt(s, e)
  <1>2. t \in Seq(0..e) /\ Len(t) = Len(s) /\ \A i \in 1..Len(s) : t[i] = s[i]
    BY <1>1, TrimIs
  <1> HIDE DEF t
  <1>3. t = s
    BY <1>2
  <1> QED BY <1>3 DEF t

LEMMA TrimAll ==
  ASSUME NEW e \in Nat, NEW s \in Seq(0..e), \A i \in DOMAIN s : ~(s[i] < e)
  PROVE  TrimAt(s, e) = <<>>
  <1>1. Len(s) \in 0..Len(s) /\ Cut(s, e, Len(s))
    BY DEF Cut
  <1> DEFINE t == TrimAt(s, e)
  <1>2. t \in Seq(0..e) /\ Len(t) = 0
    BY <1>1, TrimIs
  <1> HIDE DEF t
  <1>3. t = <<>>
    BY <1>2
  <1> QED BY <1>3 DEF t

LEMMA OlderIs ==
  ASSUME NEW e \in Nat, NEW s \in Seq(0..e)
  PROVE  /\ OlderAt(s, e) \in Seq(0..e) /\ Len(OlderAt(s, e)) = Len(s)
         /\ OldestFirst(s) => OldestFirst(OlderAt(s, e))
  <1>1. OlderAt(s, e) \in Seq(0..e) /\ Len(OlderAt(s, e)) = Len(s)
    BY DEF OlderAt
  <1>2. ASSUME OldestFirst(s) PROVE OldestFirst(OlderAt(s, e))
    <2>1. \A i \in DOMAIN s : s[i] \in 0..e
      OBVIOUS
    <2> QED BY <1>2, <2>1 DEF OldestFirst, OlderAt
  <1> QED BY <1>1, <1>2

\* It does not matter whether hits that have expired are trimmed before the
\* others age: trimming may be left to the next request.
LEMMA TrimLater ==
  ASSUME NEW e \in Nat, NEW s \in Seq(0..e), OldestFirst(s)
  PROVE  TrimAt(OlderAt(s, e), e) = TrimAt(OlderAt(TrimAt(s, e), e), e)
  <1>1. PICK k \in 0..Len(s) : Cut(s, e, k)
    BY CutExists
  <1> DEFINE o == OlderAt(s, e)
             t == TrimAt(s, e)
             u == OlderAt(t, e)
             a == TrimAt(o, e)
             b == TrimAt(u, e)
  <1>2. o \in Seq(0..e) /\ Len(o) = Len(s) /\ \A i \in 1..Len(s) : o[i] = IF s[i] < e THEN s[i] + 1 ELSE e
    <2>1. o \in Seq(0..e) /\ Len(o) = Len(s)
      BY OlderIs
    <2> QED BY <2>1 DEF OlderAt
  <1>3. t \in Seq(0..e) /\ Len(t) = Len(s) - k /\ \A i \in 1..Len(s) - k : t[i] = s[i + k]
    BY <1>1, TrimIs
  <1>4. u \in Seq(0..e) /\ Len(u) = Len(t) /\ \A i \in 1..Len(t) : u[i] = IF t[i] < e THEN t[i] + 1 ELSE e
    <2> HIDE DEF t
    <2> QED BY <1>3, OlderIs DEF OlderAt
  <1>5. PICK l \in 0..Len(u) : Cut(u, e, l)
    <2> HIDE DEF u
    <2> QED BY <1>4, CutExists
  <1>6. b \in Seq(0..e) /\ Len(b) = Len(u) - l /\ \A i \in 1..Len(u) - l : b[i] = u[i + l]
    <2> HIDE DEF u
    <2> QED BY <1>4, <1>5, TrimIs
  <1> HIDE DEF o, t, u
  <1>7. ASSUME NEW i \in 1..Len(u) PROVE u[i] = o[i + k]
    <2>1. i \in 1..Len(s) - k /\ i \in 1..Len(t) /\ i + k \in 1..Len(s)
      BY <1>3, <1>4
    <2> QED BY <2>1, <1>2, <1>3, <1>4
  <1>8. \A i \in 1..k : o[i] = e
    BY <1>1, <1>2 DEF Cut
  <1>9. k + l \in 0..Len(o) /\ Cut(o, e, k + l)
    <2>1. k + l \in 0..Len(o)
      BY <1>2, <1>3, <1>4
    <2>2. ASSUME NEW i \in 1..(k + l) PROVE ~(o[i] < e)
      <3>1. CASE i <= k
        BY <3>1, <1>8
      <3>2. CASE i > k
        <4>1. i - k \in 1..l /\ i - k \in 1..Len(u) /\ (i - k) + k = i
          BY <3>2
        <4> QED BY <4>1, <1>7, <1>5 DEF Cut
      <3> QED BY <3>1, <3>2
    <2>3. k + l < Len(o) => o[(k + l) + 1] < e
      <3> SUFFICES ASSUME k + l < Len(o) PROVE o[(k + l) + 1] < e
        OBVIOUS
      <3>1. l < Len(u) /\ l + 1 \in 1..Len(u) /\ (l + 1) + k = (k + l) + 1
        BY <1>2, <1>3, <1>4
      <3> QED BY <3>1, <1>7, <1>5 DEF Cut
    <2> QED BY <2>1, <2>2, <2>3 DEF Cut
  <1>10. a \in Seq(0..e) /\ Len(a) = Len(o) - (k + l) /\ \A i \in 1..Len(o) - (k + l) : a[i] = o[i + (k + l)]
    BY <1>2, <1>9, TrimIs
  <1> HIDE DEF a, b
  <1>11. Len(a) = Len(b)
    BY <1>2, <1>3, <1>4, <1>6, <1>10
  <1>12. ASSUME NEW i \in 1..Len(a) PROVE a[i] = b[i]
    <2>1. i \in 1..Len(u) - l /\ i + l \in 1..Len(u) /\ i + (k + l) = (i + l) + k /\ i \in 1..Len(o) - (k + l)
      BY <1>2, <1>3, <1>4, <1>6, <1>10
    <2> QED BY <2>1, <1>6, <1>7, <1>10
  <1>13. a = b
    <2>1. a \in Seq(0..e) /\ b \in Seq(0..e)
      BY <1>6, <1>10
    <2>2. DOMAIN a = 1..Len(a) /\ DOMAIN b = 1..Len(a) /\ a = [i \in DOMAIN a |-> a[i]] /\ b = [i \in DOMAIN b |-> b[i]]
      BY <2>1, <1>11
    <2> QED BY <2>2, <1>12
  <1> QED BY <1>13 DEF a, b, o, t, u

LEMMA AppendNow ==
  ASSUME NEW e \in Nat \ {0}, NEW s \in Seq(0..e), OldestFirst(s), \A i \in DOMAIN s : s[i] < e
  PROVE  /\ Append(s, 0) \in Seq(0..e) /\ Len(Append(s, 0)) = Len(s) + 1
         /\ OldestFirst(Append(s, 0)) /\ \A i \in DOMAIN Append(s, 0) : Append(s, 0)[i] < e
         /\ TrimAt(Append(s, 0), e) = Append(s, 0)
  <1> DEFINE t == Append(s, 0)
  <1>1. /\ t \in Seq(0..e) /\ Len(t) = Len(s) + 1 /\ t[Len(s) + 1] = 0
        /\ \A i \in 1..Len(s) : t[i] = s[i]
    OBVIOUS
  <1>2. ASSUME NEW i \in DOMAIN t PROVE t[i] \in 0..e /\ t[i] < e /\ (i = Len(s) + 1 \/ (i \in DOMAIN s /\ t[i] = s[i]))
    OBVIOUS
  <1> HIDE DEF t
  <1>3. OldestFirst(t)
    <2> SUFFICES ASSUME NEW i \in DOMAIN t, NEW j \in DOMAIN t, i <= j PROVE t[j] <= t[i]
      BY DEF OldestFirst
    <2>1. CASE j = Len(s) + 1
      BY <2>1, <1>1, <1>2
    <2>2. CASE j # Len(s) + 1
      <3>1. j \in DOMAIN s /\ i \in DOMAIN s /\ t[j] = s[j] /\ t[i] = s[i]
        BY <2>2, <1>1, <1>2
      <3> QED BY <3>1 DEF OldestFirst
    <2> QED BY <2>1, <2>2
  <1>4. TrimAt(t, e) = t
    BY <1>1, <1>2, TrimNothing
  <1> QED BY <1>1, <1>2, <1>3, <1>4 DEF t

LEMMA ModelTrims ==
  ASSUME deque \in BOOLEAN
  PROVE  /\ Expired \in Nat \ {0} /\ Ages = Seq(0..Expired)
         /\ \A age : Live(age) <=> age < Expired
         /\ \A s : Trim(s) = TrimAt(s, Expired)
         /\ \A s : Older(s) = OlderAt(s, Expired)
  <1>1. Expired \in Nat \ {0}
    BY LimiterAssumption DEF Expired
  <1> QED BY <1>1, Zenon DEF Ages, Live, Trim, TrimAt, Older, OlderAt

LEMMA ModelTrimsNext ==
  ASSUME deque \in BOOLEAN, deque' = deque
  PROVE  /\ Expired' = Expired /\ Ages' = Ages
         /\ \A age : Live(age)' <=> age < Expired
         /\ TypeOK' <=> /\ hits' \in [Workers -> [Clients -> Ages]]
                        /\ log' \in [Processes -> [Clients -> Ages]]
                        /\ since' \in [Replaced -> 0..Expired]
                        /\ \A w \in Workers, c \in Clients : Len(hits'[w][c]) <= Limit
         /\ HitsAreTheWindow' <=> \A w \in Workers, c \in Clients : TrimAt(hits'[w][c], Expired) = log'[w][c]
         /\ LogInv' <=> \A p \in Processes, c \in Clients :
                          /\ Len(log'[p][c]) <= Limit /\ OldestFirst(log'[p][c])
                          /\ \A i \in DOMAIN log'[p][c] : log'[p][c][i] < Expired
  <1>1. Expired' = Expired
    BY DEF Expired
  <1>2. Ages' = Ages
    BY <1>1 DEF Ages
  <1>3. \A age : Live(age)' <=> age < Expired
    BY <1>1 DEF Live
  <1>4. \A w, c : Trim(hits[w][c])' = TrimAt(hits'[w][c], Expired)
    BY <1>1, Zenon DEF Trim, TrimAt, Live
  <1>5. LogInv' <=> \A p \in Processes, c \in Clients :
                          /\ Len(log'[p][c]) <= Limit /\ OldestFirst(log'[p][c])
                          /\ \A i \in DOMAIN log'[p][c] : log'[p][c][i] < Expired
    BY <1>1, Zenon DEF LogInv, Live, OldestFirst, Processes
  <1>6. HitsAreTheWindow' <=> \A w \in Workers, c \in Clients : TrimAt(hits'[w][c], Expired) = log'[w][c]
    BY <1>4, Zenon DEF HitsAreTheWindow
  <1> QED BY <1>1, <1>2, <1>3, <1>5, <1>6 DEF TypeOK, Processes

----------------------------------------------------------------------------
(* The invariant, one bucket at a time.                                    *)

GoodLog(a, e) ==
  /\ a \in Seq(0..e) /\ Len(a) <= Limit
  /\ OldestFirst(a)
  /\ \A i \in DOMAIN a : a[i] < e
GoodHits(h, a, e) ==
  /\ h \in Seq(0..e) /\ Len(h) <= Limit
  /\ OldestFirst(h)
  /\ TrimAt(h, e) = a

LEMMA Meaning ==
  ASSUME IInv
  PROVE  /\ deque \in BOOLEAN /\ Expired \in Nat \ {0}
         /\ hits \in [Workers -> [Clients -> Seq(0..Expired)]]
         /\ log \in [Processes -> [Clients -> Seq(0..Expired)]]
         /\ since \in [Replaced -> 0..Expired]
         /\ \A w \in Workers, c \in Clients : GoodHits(hits[w][c], log[w][c], Expired)
         /\ \A p \in Processes, c \in Clients : GoodLog(log[p][c], Expired)
         /\ \A r \in Replaced, c \in Clients : \A i \in DOMAIN log[r][c] : since[r] <= log[r][c][i]
  <1>1. deque \in BOOLEAN /\ TypeOK
    BY DEF IInv, TypeOK
  <1>2. /\ Expired \in Nat \ {0} /\ Ages = Seq(0..Expired) /\ \A age : Live(age) <=> age < Expired
        /\ \A s : Trim(s) = TrimAt(s, Expired)
    BY <1>1, ModelTrims
  <1>3. /\ hits \in [Workers -> [Clients -> Seq(0..Expired)]]
        /\ log \in [Processes -> [Clients -> Seq(0..Expired)]]
        /\ since \in [Replaced -> 0..Expired]
    BY <1>1, <1>2 DEF TypeOK
  <1>4. ASSUME NEW w \in Workers, NEW c \in Clients PROVE GoodHits(hits[w][c], log[w][c], Expired)
    BY <1>1, <1>2, <1>3 DEF IInv, TypeOK, HitsInv, HitsAreTheWindow, GoodHits
  <1>5. ASSUME NEW p \in Processes, NEW c \in Clients PROVE GoodLog(log[p][c], Expired)
    BY <1>1, <1>2, <1>3 DEF IInv, LogInv, GoodLog
  <1>6. GoneInv
    BY DEF IInv
  <1> QED BY <1>1, <1>2, <1>3, <1>4, <1>5, <1>6 DEF GoneInv

LEMMA Assembled ==
  ASSUME deque \in BOOLEAN, deque' = deque,
         hits' \in [Workers -> [Clients -> Seq(0..Expired)]],
         log' \in [Processes -> [Clients -> Seq(0..Expired)]],
         since' \in [Replaced -> 0..Expired],
         \A w \in Workers, c \in Clients : GoodHits(hits'[w][c], log'[w][c], Expired),
         \A p \in Processes, c \in Clients : GoodLog(log'[p][c], Expired),
         \A r \in Replaced, c \in Clients : \A i \in DOMAIN log'[r][c] : since'[r] <= log'[r][c][i]
  PROVE  IInv'
  <1>1. Ages = Seq(0..Expired)
    BY DEF Ages
  <1>2. TypeOK'
    BY <1>1, ModelTrimsNext DEF GoodHits
  <1>3. HitsInv'
    BY DEF HitsInv, GoodHits, OldestFirst
  <1>4. HitsAreTheWindow'
    BY ModelTrimsNext DEF GoodHits
  <1>5. LogInv'
    BY ModelTrimsNext DEF GoodLog
  <1>6. GoneInv'
    BY DEF GoneInv
  <1> QED BY <1>2, <1>3, <1>4, <1>5, <1>6 DEF IInv

LEMMA EmptyIsGood ==
  ASSUME NEW e \in Nat
  PROVE  GoodLog(<<>>, e) /\ GoodHits(<<>>, <<>>, e)
  <1>1. <<>> \in Seq(0..e) /\ Len(<<>>) = 0 /\ DOMAIN <<>> = {}
    OBVIOUS
  <1>2. TrimAt(<<>>, e) = <<>>
    BY <1>1, TrimNothing
  <1> QED BY <1>1, <1>2, LimiterAssumption DEF GoodLog, GoodHits, OldestFirst

\* Trimmed hits are the window, and stay so.
LEMMA TrimmedIsGood ==
  ASSUME NEW e \in Nat, NEW a, GoodLog(a, e)
  PROVE  GoodHits(a, a, e)
  <1>1. TrimAt(a, e) = a
    BY TrimNothing DEF GoodLog
  <1> QED BY <1>1 DEF GoodLog, GoodHits

\* A bucket whose last hit has expired holds nothing that counts.
LEMMA IdleIsEmpty ==
  ASSUME NEW e \in Nat, NEW h, NEW a, GoodHits(h, a, e),
         h = <<>> \/ ~(h[Len(h)] < e)
  PROVE  GoodHits(<<>>, a, e)
  <1>1. \A i \in DOMAIN h : ~(h[i] < e)
    <2> SUFFICES ASSUME NEW i \in DOMAIN h PROVE ~(h[i] < e)
      OBVIOUS
    <2>1. h \in Seq(0..e) /\ i \in 1..Len(h) /\ Len(h) \in DOMAIN h /\ i <= Len(h)
      BY DEF GoodHits
    <2>2. h[i] \in 0..e /\ h[Len(h)] \in 0..e /\ h[Len(h)] <= h[i] /\ h # <<>>
      BY <2>1 DEF GoodHits, OldestFirst
    <2> QED BY <2>2
  <1>2. a = <<>>
    BY <1>1, TrimAll DEF GoodHits
  <1> QED BY <1>2, EmptyIsGood

----------------------------------------------------------------------------
(* Every step preserves it.                                                *)

LEMMA InitIInv == Init => IInv
  <1> SUFFICES ASSUME Init PROVE IInv
    OBVIOUS
  <1>1. /\ deque \in BOOLEAN /\ Expired \in Nat \ {0} /\ Ages = Seq(0..Expired)
        /\ \A s : Trim(s) = TrimAt(s, Expired)
    BY ModelTrims DEF Init
  <1>2. /\ hits = [w \in Workers |-> [c \in Clients |-> <<>>]]
        /\ log = [p \in Processes |-> [c \in Clients |-> <<>>]]
        /\ since = [r \in Replaced |-> Expired]
    BY Zenon DEF Init, NoHits
  <1>3. GoodLog(<<>>, Expired) /\ GoodHits(<<>>, <<>>, Expired)
    BY <1>1, EmptyIsGood
  <1>4. DOMAIN <<>> = {} /\ <<>> \in Seq(0..Expired)
    BY <1>3 DEF GoodLog
  <1>5. TypeOK
    BY <1>1, <1>2, <1>3, <1>4 DEF TypeOK, GoodLog
  <1>6. HitsInv /\ HitsAreTheWindow
    BY <1>1, <1>2, <1>3 DEF HitsInv, HitsAreTheWindow, GoodHits, Processes
  <1>7. LogInv /\ GoneInv
    BY <1>2, <1>3, <1>4 DEF LogInv, GoneInv, GoodLog, Processes
  <1> QED BY <1>5, <1>6, <1>7 DEF IInv

LEMMA RefuseKeeps ==
  ASSUME IInv, NEW w \in Workers, NEW c \in Clients, Refuse(w, c)
  PROVE  IInv'
  <1>1. /\ deque \in BOOLEAN /\ Expired \in Nat \ {0}
        /\ hits \in [Workers -> [Clients -> Seq(0..Expired)]]
        /\ log \in [Processes -> [Clients -> Seq(0..Expired)]]
        /\ since \in [Replaced -> 0..Expired]
        /\ \A v \in Workers, d \in Clients : GoodHits(hits[v][d], log[v][d], Expired)
        /\ \A p \in Processes, d \in Clients : GoodLog(log[p][d], Expired)
        /\ \A r \in Replaced, d \in Clients : \A i \in DOMAIN log[r][d] : since[r] <= log[r][d][i]
    BY Meaning
  <1> DEFINE a == log[w][c]
  <1>2. w \in Processes /\ a \in Seq(0..Expired)
    BY <1>1 DEF Processes
  <1>3. Trim(hits[w][c]) = a
    BY <1>1, ModelTrims DEF GoodHits
  <1>4. hits' = [hits EXCEPT ![w][c] = a] /\ log' = log /\ since' = since /\ deque' = deque
    BY <1>3 DEF Refuse
  <1>5. GoodHits(a, a, Expired)
    BY <1>1, <1>2, TrimmedIsGood
  <1> HIDE DEF a
  <1>6. hits' \in [Workers -> [Clients -> Seq(0..Expired)]]
    BY <1>1, <1>2, <1>4
  <1>7. ASSUME NEW v \in Workers, NEW d \in Clients PROVE GoodHits(hits'[v][d], log[v][d], Expired)
    <2>1. CASE v = w /\ d = c
      <3>1. hits'[v][d] = a
        BY <2>1, <1>1, <1>4
      <3> QED BY <2>1, <3>1, <1>5 DEF a
    <2>2. CASE ~(v = w /\ d = c)
      <3>1. hits'[v][d] = hits[v][d]
        BY <2>2, <1>1, <1>4
      <3> QED BY <3>1, <1>1
    <2> QED BY <2>1, <2>2
  <1> QED BY <1>1, <1>4, <1>6, <1>7, Assembled

LEMMA AdmitKeeps ==
  ASSUME IInv, NEW w \in Workers, NEW c \in Clients, Admit(w, c)
  PROVE  IInv'
  <1>1. /\ deque \in BOOLEAN /\ Expired \in Nat \ {0}
        /\ hits \in [Workers -> [Clients -> Seq(0..Expired)]]
        /\ log \in [Processes -> [Clients -> Seq(0..Expired)]]
        /\ since \in [Replaced -> 0..Expired]
        /\ \A v \in Workers, d \in Clients : GoodHits(hits[v][d], log[v][d], Expired)
        /\ \A p \in Processes, d \in Clients : GoodLog(log[p][d], Expired)
        /\ \A r \in Replaced, d \in Clients : \A i \in DOMAIN log[r][d] : since[r] <= log[r][d][i]
    BY Meaning
  <1> DEFINE a == log[w][c]
             n == Append(a, 0)
             b == [hits[w] EXCEPT ![c] = n]
  <1>2. w \in Processes /\ a \in Seq(0..Expired) /\ hits[w] \in [Clients -> Seq(0..Expired)]
    BY <1>1 DEF Processes
  <1>3. Trim(hits[w][c]) = a /\ \A age : Live(age) <=> age < Expired
    BY <1>1, ModelTrims DEF GoodHits
  <1>4. /\ Len(a) < Limit
        /\ hits' = [hits EXCEPT ![w] = Cleanup(b)]
        /\ log' = [log EXCEPT ![w][c] = n] /\ since' = since /\ deque' = deque
    BY <1>3 DEF Admit, Admits
  <1>5. GoodLog(n, Expired) /\ n \in Seq(0..Expired)
    <2> HIDE DEF a
    <2>1. GoodLog(a, Expired)
      BY <1>1, <1>2 DEF a
    <2>2. /\ n \in Seq(0..Expired) /\ Len(n) = Len(a) + 1
          /\ OldestFirst(n) /\ \A i \in DOMAIN n : n[i] < Expired
      BY <1>1, <2>1, AppendNow DEF GoodLog
    <2>3. Len(a) \in Nat /\ Limit \in Nat
      BY <1>2, LimiterAssumption
    <2> HIDE DEF n
    <2> QED BY <2>2, <2>3, <1>4 DEF GoodLog
  <1>6. GoodHits(n, n, Expired)
    <2> HIDE DEF n
    <2> QED BY <1>1, <1>5, TrimmedIsGood
  <1> HIDE DEF n
  <1>7. /\ log' \in [Processes -> [Clients -> Seq(0..Expired)]]
        /\ \A p \in Processes, d \in Clients : log'[p][d] = IF p = w /\ d = c THEN n ELSE log[p][d]
    BY <1>1, <1>2, <1>4, <1>5
  <1>8. b \in [Clients -> Seq(0..Expired)] /\ \A d \in Clients : b[d] = IF d = c THEN n ELSE hits[w][d]
    BY <1>2, <1>5
  <1>9. \A d \in Clients : GoodHits(b[d], log'[w][d], Expired)
    BY <1>1, <1>2, <1>6, <1>7, <1>8
  <1> HIDE DEF a, b
  <1>10. Cleanup(b) \in [Clients -> Seq(0..Expired)] /\ \A d \in Clients : GoodHits(Cleanup(b)[d], log'[w][d], Expired)
    <2>1. CASE Cleanup(b) = b
      BY <2>1, <1>8, <1>9
    <2>2. CASE Cleanup(b) = [d \in Clients |-> IF b[d] # <<>> /\ Live(b[d][Len(b[d])]) THEN b[d] ELSE <<>>]
      <3>1. ASSUME NEW d \in Clients, b[d] = <<>> \/ ~(b[d][Len(b[d])] < Expired)
            PROVE  GoodHits(<<>>, log'[w][d], Expired)
        BY <3>1, <1>1, <1>9, IdleIsEmpty
      <3>2. \A d \in Clients : GoodHits(Cleanup(b)[d], log'[w][d], Expired)
        BY <2>2, <3>1, <1>3, <1>9
      <3>3. \A d \in Clients : Cleanup(b)[d] \in Seq(0..Expired)
        BY <3>2 DEF GoodHits
      <3> QED BY <2>2, <3>2, <3>3
    <2> QED BY <2>1, <2>2 DEF Cleanup
  <1>11. hits' \in [Workers -> [Clients -> Seq(0..Expired)]]
    BY <1>1, <1>4, <1>10
  <1>12. ASSUME NEW v \in Workers, NEW d \in Clients PROVE GoodHits(hits'[v][d], log'[v][d], Expired)
    <2>1. CASE v = w
      BY <2>1, <1>1, <1>4, <1>10
    <2>2. CASE v # w
      <3>1. v \in Processes /\ hits'[v][d] = hits[v][d] /\ log'[v][d] = log[v][d]
        BY <2>2, <1>1, <1>4, <1>7 DEF Processes
      <3> QED BY <3>1, <1>1
    <2> QED BY <2>1, <2>2
  <1>13. \A p \in Processes, d \in Clients : GoodLog(log'[p][d], Expired)
    BY <1>1, <1>5, <1>7
  <1>14. \A r \in Replaced, d \in Clients : \A i \in DOMAIN log'[r][d] : since'[r] <= log'[r][d][i]
    <2>1. \A r \in Replaced, d \in Clients : r # w /\ r \in Processes
      BY LimiterAssumption DEF Processes
    <2> QED BY <2>1, <1>1, <1>4, <1>7
  <1> QED BY <1>1, <1>4, <1>7, <1>11, <1>12, <1>13, <1>14, Assembled

LEMMA RestartKeeps ==
  ASSUME IInv, NEW w \in Workers, Restart(w)
  PROVE  IInv'
  <1>1. /\ deque \in BOOLEAN /\ Expired \in Nat \ {0}
        /\ hits \in [Workers -> [Clients -> Seq(0..Expired)]]
        /\ log \in [Processes -> [Clients -> Seq(0..Expired)]]
        /\ since \in [Replaced -> 0..Expired]
        /\ \A v \in Workers, d \in Clients : GoodHits(hits[v][d], log[v][d], Expired)
        /\ \A p \in Processes, d \in Clients : GoodLog(log[p][d], Expired)
        /\ \A r \in Replaced, d \in Clients : \A i \in DOMAIN log[r][d] : since[r] <= log[r][d][i]
    BY Meaning
  <1>2. PICK r \in Replaced :
          /\ hits' = [hits EXCEPT ![w] = NoHits]
          /\ log' = [log EXCEPT ![r] = log[w], ![w] = NoHits]
          /\ since' = [since EXCEPT ![r] = 0]
          /\ deque' = deque
    BY DEF Restart
  <1>3. r \in Processes /\ w \in Processes /\ r # w /\ Workers \subseteq Processes /\ Replaced \subseteq Processes
        /\ w \notin Replaced /\ r \notin Workers
    BY LimiterAssumption DEF Processes
  <1>4. GoodLog(<<>>, Expired) /\ GoodHits(<<>>, <<>>, Expired) /\ <<>> \in Seq(0..Expired) /\ DOMAIN <<>> = {}
    BY <1>1, EmptyIsGood
  <1>5. NoHits \in [Clients -> Seq(0..Expired)] /\ \A d \in Clients : NoHits[d] = <<>>
    BY <1>4 DEF NoHits
  <1>6. /\ hits' \in [Workers -> [Clients -> Seq(0..Expired)]]
        /\ \A v \in Workers : hits'[v] = IF v = w THEN NoHits ELSE hits[v]
    BY <1>1, <1>2, <1>5
  <1>7. /\ log' \in [Processes -> [Clients -> Seq(0..Expired)]]
        /\ \A p \in Processes : log'[p] = IF p = w THEN NoHits ELSE IF p = r THEN log[w] ELSE log[p]
    BY <1>1, <1>2, <1>3, <1>5
  <1>8. since' \in [Replaced -> 0..Expired] /\ \A q \in Replaced : since'[q] = IF q = r THEN 0 ELSE since[q]
    BY <1>1, <1>2
  <1>9. \A v \in Workers, d \in Clients : GoodHits(hits'[v][d], log'[v][d], Expired)
    BY <1>1, <1>3, <1>4, <1>5, <1>6, <1>7
  <1>10. \A p \in Processes, d \in Clients : GoodLog(log'[p][d], Expired)
    BY <1>1, <1>3, <1>4, <1>5, <1>7
  <1>11. ASSUME NEW q \in Replaced, NEW d \in Clients, NEW i \in DOMAIN log'[q][d] PROVE since'[q] <= log'[q][d][i]
    <2>1. CASE q = r
      <3>1. log'[q][d] = log[w][d] /\ since'[q] = 0 /\ log[w][d] \in Seq(0..Expired)
        BY <2>1, <1>1, <1>3, <1>7, <1>8
      <3>2. \A j \in DOMAIN log[w][d] : log[w][d][j] \in 0..Expired
        BY <3>1, <1>1
      <3>3. log'[q][d][i] \in 0..Expired
        BY <3>1, <3>2
      <3>4. \A m \in 0..Expired : 0 <= m
        BY <1>1
      <3> QED BY <3>1, <3>3, <3>4
    <2>2. CASE q # r
      <3>1. q \in Processes /\ q # w
        BY <1>3
      <3>2. log'[q][d] = log[q][d] /\ since'[q] = since[q]
        BY <2>2, <3>1, <1>7, <1>8
      <3> QED BY <3>2, <1>1
    <2> QED BY <2>1, <2>2
  <1> QED BY <1>1, <1>2, <1>6, <1>7, <1>8, <1>9, <1>10, <1>11, Assembled

LEMMA TickKeeps ==
  ASSUME IInv, Tick
  PROVE  IInv'
  <1>1. /\ deque \in BOOLEAN /\ Expired \in Nat \ {0}
        /\ hits \in [Workers -> [Clients -> Seq(0..Expired)]]
        /\ log \in [Processes -> [Clients -> Seq(0..Expired)]]
        /\ since \in [Replaced -> 0..Expired]
        /\ \A v \in Workers, d \in Clients : GoodHits(hits[v][d], log[v][d], Expired)
        /\ \A p \in Processes, d \in Clients : GoodLog(log[p][d], Expired)
        /\ \A r \in Replaced, d \in Clients : \A i \in DOMAIN log[r][d] : since[r] <= log[r][d][i]
    BY Meaning
  <1>2. (\A s : Trim(s) = TrimAt(s, Expired)) /\ \A s : Older(s) = OlderAt(s, Expired)
    BY <1>1, ModelTrims
  <1>3. /\ hits' = [v \in Workers |-> [d \in Clients |-> OlderAt(hits[v][d], Expired)]]
        /\ log' = [p \in Processes |-> [d \in Clients |-> TrimAt(OlderAt(log[p][d], Expired), Expired)]]
        /\ since' = OlderAt(since, Expired) /\ deque' = deque
    BY <1>2 DEF Tick
  <1>4. Workers \subseteq Processes /\ Replaced \subseteq Processes
    BY DEF Processes
  <1>5. ASSUME NEW v \in Workers, NEW d \in Clients
        PROVE  /\ OlderAt(hits[v][d], Expired) \in Seq(0..Expired)
               /\ GoodHits(OlderAt(hits[v][d], Expired), TrimAt(OlderAt(log[v][d], Expired), Expired), Expired)
    <2>1. /\ hits[v][d] \in Seq(0..Expired) /\ Len(hits[v][d]) <= Limit /\ OldestFirst(hits[v][d])
          /\ TrimAt(hits[v][d], Expired) = log[v][d]
      BY <1>1 DEF GoodHits
    <2>2. /\ OlderAt(hits[v][d], Expired) \in Seq(0..Expired) /\ OldestFirst(OlderAt(hits[v][d], Expired))
          /\ Len(OlderAt(hits[v][d], Expired)) = Len(hits[v][d])
      BY <1>1, <2>1, OlderIs
    <2>3. TrimAt(OlderAt(hits[v][d], Expired), Expired) = TrimAt(OlderAt(log[v][d], Expired), Expired)
      BY <1>1, <2>1, TrimLater
    <2> QED BY <2>1, <2>2, <2>3 DEF GoodHits
  <1>6. ASSUME NEW p \in Processes, NEW d \in Clients
        PROVE  /\ TrimAt(OlderAt(log[p][d], Expired), Expired) \in Seq(0..Expired)
               /\ GoodLog(TrimAt(OlderAt(log[p][d], Expired), Expired), Expired)
               /\ \A i \in DOMAIN TrimAt(OlderAt(log[p][d], Expired), Expired) :
                    \E j \in DOMAIN log[p][d] :
                      TrimAt(OlderAt(log[p][d], Expired), Expired)[i] = OlderAt(log[p][d], Expired)[j]
    <2> DEFINE a == log[p][d]
               o == OlderAt(a, Expired)
               t == TrimAt(o, Expired)
    <2>1. a \in Seq(0..Expired) /\ Len(a) <= Limit /\ OldestFirst(a)
      BY <1>1 DEF GoodLog
    <2>2. o \in Seq(0..Expired) /\ Len(o) = Len(a) /\ OldestFirst(o)
      <3> HIDE DEF a
      <3> QED BY <1>1, <2>1, OlderIs
    <2>3. /\ t \in Seq(0..Expired) /\ Len(t) <= Len(o) /\ OldestFirst(t)
          /\ \A i \in DOMAIN t : t[i] < Expired /\ \E j \in DOMAIN o : t[i] = o[j]
      <3> HIDE DEF o
      <3> QED BY <1>1, <2>2, TrimKeeps
    <2>4. Len(t) \in Nat /\ Len(o) \in Nat /\ Limit \in Nat /\ DOMAIN o = DOMAIN a
      <3> HIDE DEF o, a, t
      <3> QED BY <2>1, <2>2, <2>3, LimiterAssumption
    <2>5. GoodLog(t, Expired)
      <3> HIDE DEF o, a, t
      <3> QED BY <2>1, <2>2, <2>3, <2>4 DEF GoodLog
    <2>6. \A i \in DOMAIN t : \E j \in DOMAIN a : t[i] = o[j]
      <3> HIDE DEF o, a, t
      <3> QED BY <2>3, <2>4
    <2> QED BY <2>3, <2>5, <2>6
  <1>7. hits' \in [Workers -> [Clients -> Seq(0..Expired)]]
    BY <1>3, <1>5
  <1>8. log' \in [Processes -> [Clients -> Seq(0..Expired)]]
    BY <1>3, <1>6
  <1>9. since' \in [Replaced -> 0..Expired] /\ \A r \in Replaced : since'[r] = IF since[r] < Expired THEN since[r] + 1 ELSE Expired
    BY <1>1, <1>3 DEF OlderAt
  <1>10. \A v \in Workers, d \in Clients : GoodHits(hits'[v][d], log'[v][d], Expired)
    BY <1>3, <1>4, <1>5
  <1>11. \A p \in Processes, d \in Clients : GoodLog(log'[p][d], Expired)
    BY <1>3, <1>6
  <1>12. ASSUME NEW r \in Replaced, NEW d \in Clients, NEW i \in DOMAIN log'[r][d] PROVE since'[r] <= log'[r][d][i]
    <2>1. PICK j \in DOMAIN log[r][d] : log'[r][d][i] = OlderAt(log[r][d], Expired)[j]
      BY <1>3, <1>4, <1>6
    <2>2. OlderAt(log[r][d], Expired)[j] = IF log[r][d][j] < Expired THEN log[r][d][j] + 1 ELSE Expired
      BY DEF OlderAt
    <2>3. since[r] <= log[r][d][j]
      BY <1>1
    <2>4. log[r][d] \in Seq(0..Expired) /\ log[r][d][j] \in 0..Expired /\ since[r] \in 0..Expired
      BY <1>1, <1>4
    <2> QED BY <1>1, <1>9, <2>1, <2>2, <2>3, <2>4
  <1> QED BY <1>1, <1>3, <1>7, <1>8, <1>9, <1>10, <1>11, <1>12, Assembled

LEMMA StutterKeeps ==
  ASSUME IInv, UNCHANGED vars
  PROVE  IInv'
  <1>1. hits' = hits /\ log' = log /\ since' = since /\ deque' = deque
    BY DEF vars
  <1> QED BY <1>1, Meaning, Assembled

----------------------------------------------------------------------------
(* The theorems.                                                           *)

\* The inductive invariant holds in every reachable state: buckets are in the
\* order of their times, trimming one leaves the window, and no process
\* admitted more than the limit within it.
THEOREM Invariance == Spec => []IInv
  <1>1. IInv /\ [Next]_vars => IInv'
    <2> SUFFICES ASSUME IInv, [Next]_vars PROVE IInv'
      OBVIOUS
    <2>1. ASSUME NEW w \in Workers, NEW c \in Clients, Request(w, c) PROVE IInv'
      BY <2>1, RefuseKeeps, AdmitKeeps DEF Request
    <2>2. ASSUME NEW w \in Workers, Restart(w) PROVE IInv'
      BY <2>2, RestartKeeps
    <2>3. CASE Tick
      BY <2>3, TickKeeps
    <2>4. CASE UNCHANGED vars
      BY <2>4, StutterKeeps
    <2> QED BY <2>1, <2>2, <2>3, <2>4 DEF Next
  <1> QED BY <1>1, InitIInv, PTL DEF Spec

\* Type correctness: no bucket ever holds more than the limit.
THEOREM TypeCorrect == Spec => []TypeOK
  <1>1. IInv => TypeOK
    BY DEF IInv
  <1> QED BY <1>1, Invariance, PTL

\* _rate_limited forgets no hit that still counts and keeps none of a refusal,
\* whenever it trims, and whether or not the public one cleans up.
THEOREM HitsAreExact == Spec => []HitsAreTheWindow
  <1>1. IInv => HitsAreTheWindow
    BY DEF IInv
  <1> QED BY <1>1, Invariance, PTL

\* In any window, the requests admitted of one client are at most the limit for
\* each running worker and for each one replaced within that window.
THEOREM WindowIsBounded == Spec => []WindowBound
  <1>1. ASSUME IInv PROVE WindowBound
    <2>1. /\ deque \in BOOLEAN /\ Expired \in Nat \ {0} /\ since \in [Replaced -> 0..Expired]
          /\ \A p \in Processes, c \in Clients : GoodLog(log[p][c], Expired)
          /\ \A r \in Replaced, c \in Clients : \A i \in DOMAIN log[r][c] : since[r] <= log[r][c][i]
      BY <1>1, Meaning
    <2>2. \A age : Live(age) <=> age < Expired
      BY <2>1, ModelTrims
    <2> DEFINE P == Workers \cup {r \in Replaced : Live(since[r])}
    <2> SUFFICES ASSUME NEW c \in Clients PROVE Cardinality(Admitted(c)) <= Limit * Cardinality(P)
      BY DEF WindowBound
    <2>3. ASSUME NEW p \in Processes, NEW i \in DOMAIN log[p][c] PROVE p \in P /\ i \in 1..Limit
      <3>1. /\ log[p][c] \in Seq(0..Expired) /\ Len(log[p][c]) <= Limit /\ log[p][c][i] < Expired
            /\ i \in 1..Len(log[p][c]) /\ log[p][c][i] \in 0..Expired
        BY <2>1, <2>3 DEF GoodLog
      <3>2. CASE p \in Replaced
        <4>1. since[p] \in 0..Expired /\ since[p] <= log[p][c][i]
          BY <2>1, <2>3, <3>2
        <4>2. since[p] < Expired
          <5>1. \A x, y, z \in Nat : x <= y /\ y < z => x < z
            OBVIOUS
          <5>2. since[p] \in Nat /\ log[p][c][i] \in Nat /\ Expired \in Nat
            BY <2>1, <3>1, <4>1
          <5> QED BY <5>1, <5>2, <3>1, <4>1
        <4> QED BY <2>2, <3>1, <3>2, <4>2, LimiterAssumption
      <3> QED BY <3>1, <3>2, LimiterAssumption DEF Processes
    <2>4. Admitted(c) \in SUBSET (P \X (1..Limit))
      <3>1. Admitted(c) = UNION {{p} \X DOMAIN log[p][c] : p \in Processes}
        BY DEF Admitted
      <3> QED BY <2>3, <3>1
    <2>5. IsFiniteSet(P)
      <3>1. IsFiniteSet({r \in Replaced : Live(since[r])})
        BY FS_Subset, LimiterAssumption
      <3> QED BY <3>1, FS_Union, LimiterAssumption
    <2>6. IsFiniteSet(1..Limit) /\ Cardinality(1..Limit) = Limit
      BY FS_Interval, LimiterAssumption
    <2> HIDE DEF P
    <2>7. IsFiniteSet(P \X (1..Limit)) /\ Cardinality(P \X (1..Limit)) = Cardinality(P) * Limit
      BY <2>5, <2>6, FS_Product
    <2>8. Cardinality(Admitted(c)) <= Cardinality(P) * Limit
      BY <2>4, <2>7, FS_Subset
    <2>9. Cardinality(P) \in Nat
      BY <2>5, FS_CardinalityType
    <2>10. \A m \in Nat : m * Limit = Limit * m
      BY LimiterAssumption
    <2> QED BY <2>8, <2>9, <2>10
  <1> QED BY <1>1, Invariance, PTL

============================================================================
