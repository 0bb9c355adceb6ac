---------------------------- MODULE NatLemmas -----------------------------
(***************************************************************************)
(* Facts about numbers and finite sets that the proofs share: least and    *)
(* greatest elements, what a remainder does as its dividend counts, the    *)
(* ranks of a total order, and the iterates of a function.                 *)
(***************************************************************************)
EXTENDS Integers, FiniteSetsExt, FiniteSetTheorems, WellFoundedInduction, TLAPS

\* A nonempty set of naturals has a least element.
LEMMA LeastNat ==
  ASSUME NEW S \in SUBSET Nat, S # {}
  PROVE  \E n \in S : \A m \in S : n <= m
<1>1. IsWellFoundedOn(OpToRel(<, Nat), Nat)
  BY NatLessThanWellFounded
<1>2. PICK n \in S : \A m \in S : ~(<<m, n>> \in OpToRel(<, Nat))
  BY <1>1, WFMin
<1>3. \A m \in S : ~(m < n)
  BY <1>2 DEF OpToRel
<1>4. QED
  BY <1>3

\* A nonempty bounded set of naturals has a greatest element.
LEMMA GreatestNat ==
  ASSUME NEW S \in SUBSET Nat, NEW b \in Nat, S # {}, \A m \in S : m <= b
  PROVE  \E n \in S : \A m \in S : m <= n
<1> DEFINE U == {u \in Nat : \A m \in S : m <= u}
<1>1. PICK n \in U : \A m \in U : n <= m
  BY LeastNat
<1>2. CASE n \in S
  BY <1>1, <1>2
<1>3. CASE n \notin S
  <2>1. \A m \in S : m < n
    BY <1>1, <1>3
  <2>2. n > 0
    <3>1. PICK m \in S : TRUE
      OBVIOUS
    <3>2. m < n /\ m \in Nat /\ n \in Nat
      BY <1>1, <2>1, <3>1
    <3>3. QED
      BY <3>2
  <2>3. n - 1 \in U
    BY <2>1, <2>2
  <2>4. QED
    BY <1>1, <2>3
<1>4. QED
  BY <1>2, <1>3

\* A remainder is the offset from a multiple.
LEMMA RemainderOf ==
  ASSUME NEW b \in Nat \ {0}, NEW q \in Nat, NEW r \in 0..(b - 1)
  PROVE  ((b * q) + r) % b = r
  OBVIOUS

\* The remainder counts up to the divisor and starts over.
LEMMA NextRemainder ==
  ASSUME NEW a \in Nat, NEW b \in Nat \ {0}
  PROVE  /\ a % b \in 0..(b - 1)
         /\ (a + 1) % b = IF a % b = b - 1 THEN 0 ELSE (a % b) + 1
<1>1. /\ a % b \in 0..(b - 1)
      /\ a \div b \in Nat
      /\ a = (b * (a \div b)) + (a % b)
  OBVIOUS
<1>2. PICK q \in Nat, r \in 0..(b - 1) : a = (b * q) + r /\ r = a % b
  BY <1>1
<1>3. r = b - 1 => (a + 1) % b = 0
  <2> SUFFICES ASSUME r = b - 1 PROVE (a + 1) % b = 0
    OBVIOUS
  <2>1. a + 1 = (b * (q + 1)) + 0
    BY <1>2
  <2>2. ((b * (q + 1)) + 0) % b = 0
    BY RemainderOf, q + 1 \in Nat, 0 \in 0..(b - 1)
  <2>3. QED
    BY <2>1, <2>2, Zenon
<1>4. r # b - 1 => (a + 1) % b = r + 1
  <2> SUFFICES ASSUME r # b - 1 PROVE (a + 1) % b = r + 1
    OBVIOUS
  <2>1. a + 1 = (b * q) + (r + 1)
    BY <1>2
  <2>2. r + 1 \in 0..(b - 1)
    OBVIOUS
  <2>3. ((b * q) + (r + 1)) % b = r + 1
    BY <2>2, RemainderOf
  <2>4. QED
    BY <2>1, <2>3, Zenon
<1>5. (a + 1) % b = IF r = b - 1 THEN 0 ELSE r + 1
  BY <1>3, <1>4, Zenon
<1>6. a % b = r
  BY <1>2
<1>7. (a + 1) % b = IF a % b = b - 1 THEN 0 ELSE (a % b) + 1
  BY <1>5, <1>6, Zenon
<1>8. QED
  BY <1>1, <1>7, Zenon

\* Below twice the divisor a remainder is taken by one subtraction.
LEMMA RemainderOnce ==
  ASSUME NEW b \in Nat \ {0}, NEW x \in 0..(2 * b - 1)
  PROVE  x % b = IF x < b THEN x ELSE x - b
<1>1. CASE x < b
  <2>1. x \in 0..(b - 1) /\ (b * 0) + x = x
    BY <1>1
  <2>2. ((b * 0) + x) % b = x
    BY <2>1, RemainderOf
  <2>3. QED
    BY <1>1, <2>1, <2>2
<1>2. CASE ~(x < b)
  <2>1. x - b \in 0..(b - 1) /\ (b * 1) + (x - b) = x
    BY <1>2
  <2>2. ((b * 1) + (x - b)) % b = x - b
    BY <2>1, RemainderOf
  <2>3. QED
    BY <1>2, <2>1, <2>2
<1>3. QED
  BY <1>1, <1>2

-----------------------------------------------------------------------------
(* Largest and smallest elements.                                          *)

\* The values of a function on a finite set are finitely many.
LEMMA FiniteRange ==
  ASSUME NEW D, IsFiniteSet(D), NEW f
  PROVE  IsFiniteSet({f[d] : d \in D})
<1> DEFINE g == [d \in D |-> f[d]]
           T == {f[d] : d \in D}
<1>1. g \in Surjection(D, T)
  BY DEF Surjection
<1>2. QED
  BY <1>1, FS_Surjection, Zenon

\* A bound of the first k - 1 values gives one of the first k.
LEMMA BoundNext ==
  ASSUME NEW n \in Nat, NEW f \in [1..n -> Int], NEW k \in 1..n, NEW b \in Int,
         \A i \in 1..n : i <= k - 1 => f[i] <= b
  PROVE  \E c \in Int : \A i \in 1..n : i <= k => f[i] <= c
<1>1. \A i \in 1..n : i <= k => i = k \/ i <= k - 1
  OBVIOUS
<1>2. CASE b <= f[k]
  <2>1. \A i \in 1..n : i <= k => f[i] <= f[k]
    BY <1>1, <1>2
  <2>2. QED
    BY <2>1
<1>3. CASE f[k] <= b
  <2>1. \A i \in 1..n : i <= k => f[i] <= b
    BY <1>1, <1>3
  <2>2. QED
    BY <2>1
<1>4. QED
  BY <1>2, <1>3

\* A finite set of integers that is not empty has a largest element.
LEMMA FiniteMax ==
  ASSUME NEW S \in SUBSET Int, IsFiniteSet(S), S # {}
  PROVE  \E n \in S : \A m \in S : m <= n
<1>0. PICK n \in Nat : ExistsBijection(1..n, S)
  BY FS_CardinalityType
<1>1. PICK f \in [1..n -> S] : \A y \in S : \E i \in 1..n : f[i] = y
  BY <1>0 DEF ExistsBijection, Bijection, Surjection
<1> DEFINE Bound(k, b) == \A i \in 1..n : i <= k => f[i] <= b
           Bad == {k \in Nat : k <= n /\ \A b \in Int : ~Bound(k, b)}
<1>2. Bad = {}
  <2> SUFFICES ASSUME Bad # {} PROVE FALSE
    OBVIOUS
  <2>1. PICK k \in Bad : \A j \in Bad : k <= j
    <3>1. Bad \in SUBSET Nat
      OBVIOUS
    <3> HIDE DEF Bad
    <3>2. QED
      BY <3>1, LeastNat
  <2>2. k # 0
    <3>1. Bound(0, 0)
      OBVIOUS
    <3>2. QED
      BY <2>1, <3>1
  <2>3. k - 1 \in Nat /\ k - 1 <= n /\ k - 1 \notin Bad /\ k \in 1..n
    <3>1. k \in Nat /\ k <= n /\ n \in Nat
      BY <1>0, <2>1
    <3>2. k - 1 \in Nat /\ k - 1 <= n /\ ~(k <= k - 1) /\ k \in 1..n
      BY <2>2, <3>1
    <3>3. k - 1 \notin Bad
      BY <2>1, <3>2
    <3>4. QED
      BY <3>2, <3>3
  <2>4. PICK b \in Int : Bound(k - 1, b)
    BY <2>3
  <2>5. \E c \in Int : Bound(k, c)
    <3>1. f \in [1..n -> Int] /\ n \in Nat
      BY <1>0, <1>1
    <3>2. \A i \in 1..n : i <= k - 1 => f[i] <= b
      BY <2>4
    <3>3. QED
      BY <2>3, <2>4, <3>1, <3>2, BoundNext
  <2>6. QED
    BY <2>1, <2>5
<1>3. PICK b \in Int : \A m \in S : m <= b
  <2>1. n \notin Bad
    BY <1>2
  <2>2. PICK b \in Int : Bound(n, b)
    BY <1>1, <2>1
  <2>3. \A m \in S : m <= b
    BY <1>1, <2>2
  <2>4. QED
    BY <2>3
<1>4. PICK a \in S : TRUE
  OBVIOUS
<1> DEFINE U == {x \in Nat : a + x \in S}
<1>5. U \in SUBSET Nat /\ 0 \in U /\ b - a \in Nat /\ \A x \in U : x <= b - a
  BY <1>3, <1>4
<1>6. PICK x \in U : \A y \in U : y <= x
  <2> HIDE DEF U
  <2>1. QED
    BY <1>5, GreatestNat
<1>7. ASSUME NEW m \in S PROVE m <= a + x
  <2>1. CASE m < a
    BY <1>4, <1>6, <2>1
  <2>2. CASE m >= a
    <3>1. m - a \in Nat /\ a + (m - a) = m
      BY <1>4, <2>2
    <3>2. m - a <= x
      BY <1>6, <3>1
    <3>3. QED
      BY <1>4, <1>6, <3>1, <3>2
  <2>3. QED
    BY <1>4, <2>1, <2>2
<1>8. QED
  BY <1>6, <1>7

\* Max and Min of a set of integers.
LEMMA MaxIs ==
  ASSUME NEW S \in SUBSET Int, NEW x \in S, \A y \in S : y <= x
  PROVE  Max(S) = x
<1>1. ASSUME NEW y \in S, \A z \in S : y >= z PROVE y = x
  <2>1. y >= x /\ y <= x /\ y \in Int /\ x \in Int
    BY <1>1
  <2>2. QED
    BY <2>1
<1>2. \A z \in S : x >= z
  OBVIOUS
<1>3. QED
  BY <1>1, <1>2 DEF Max

LEMMA MaxFact ==
  ASSUME NEW S \in SUBSET Int, IsFiniteSet(S), S # {}
  PROVE  Max(S) \in S /\ Max(S) \in Int /\ \A y \in S : y <= Max(S)
  BY FiniteMax, MaxIs

LEMMA MinIs ==
  ASSUME NEW S \in SUBSET Int, NEW x \in S, \A y \in S : x <= y
  PROVE  Min(S) = x
<1>1. ASSUME NEW y \in S, \A z \in S : y =< z PROVE y = x
  <2>1. y >= x /\ y <= x /\ y \in Int /\ x \in Int
    BY <1>1
  <2>2. QED
    BY <2>1
<1>2. QED
  BY <1>1 DEF Min

\* A set of integers with a lower bound has a smallest element.
LEMMA MinFact ==
  ASSUME NEW S \in SUBSET Int, S # {}, NEW a \in Int, \A y \in S : a <= y
  PROVE  Min(S) \in S /\ Min(S) \in Int /\ \A y \in S : Min(S) <= y
<1> DEFINE U == {x \in Nat : a + x \in S}
<1>1. U \in SUBSET Nat /\ U # {}
  <2>1. PICK y \in S : TRUE
    OBVIOUS
  <2>2. y - a \in Nat /\ a + (y - a) = y
    BY <2>1
  <2>3. QED
    BY <2>2
<1>2. PICK x \in U : \A y \in U : x <= y
  <2> HIDE DEF U
  <2>1. QED
    BY <1>1, LeastNat
<1>3. a + x \in S
  BY <1>2
<1>4. ASSUME NEW y \in S PROVE a + x <= y
  <2>1. y - a \in Nat /\ a + (y - a) = y
    OBVIOUS
  <2>2. x <= y - a
    BY <1>2, <2>1
  <2>3. QED
    BY <1>2, <2>1, <2>2
<1>5. QED
  BY <1>3, <1>4, MinIs

-----------------------------------------------------------------------------
(* Ranks in a finite total order.                                          *)

\* R is a strict total order of S.
StrictOrder(S, R) ==
  /\ \A x \in S : <<x, x>> \notin R
  /\ \A x, y, z \in S : <<x, y>> \in R /\ <<y, z>> \in R => <<x, z>> \in R
  /\ \A x, y \in S : x = y \/ <<x, y>> \in R \/ <<y, x>> \in R

\* The elements of S before x.
Below(S, R, x) == {y \in S : <<y, x>> \in R}

\* Every element has a rank of its own, and every rank is taken.
LEMMA RankFact ==
  ASSUME NEW S, IsFiniteSet(S), NEW R, StrictOrder(S, R)
  PROVE  /\ Cardinality(S) \in Nat
         /\ \A x \in S : Cardinality(Below(S, R, x)) \in 0..(Cardinality(S) - 1)
         /\ \A x, y \in S :
              Cardinality(Below(S, R, x)) = Cardinality(Below(S, R, y)) => x = y
         /\ \A i \in 1..Cardinality(S) : \E x \in S :
              Cardinality(Below(S, R, x)) = i - 1
<1> DEFINE rank == [x \in S |-> Cardinality(Below(S, R, x))]
           n == Cardinality(S)
<1>1. n \in Nat
  BY FS_CardinalityType
<1>2. ASSUME NEW x \in S
      PROVE  /\ IsFiniteSet(Below(S, R, x)) /\ Cardinality(Below(S, R, x)) \in Nat
             /\ Cardinality(Below(S, R, x)) < n
  <2>1. Below(S, R, x) \in SUBSET S /\ x \notin Below(S, R, x)
    BY DEF Below, StrictOrder
  <2>2. IsFiniteSet(Below(S, R, x)) /\ Cardinality(Below(S, R, x)) <= n
        /\ (n = Cardinality(Below(S, R, x)) => S = Below(S, R, x))
    BY <2>1, FS_Subset
  <2>3. Cardinality(Below(S, R, x)) \in Nat
    BY <2>2, FS_CardinalityType
  <2>4. QED
    BY <1>1, <2>1, <2>2, <2>3
<1>3. ASSUME NEW x \in S, NEW y \in S, <<x, y>> \in R
      PROVE  Cardinality(Below(S, R, x)) < Cardinality(Below(S, R, y))
  <2>1. Below(S, R, x) \in SUBSET Below(S, R, y)
    BY <1>3 DEF Below, StrictOrder
  <2>2. x \in Below(S, R, y) /\ x \notin Below(S, R, x)
    BY <1>3 DEF Below, StrictOrder
  <2>3. /\ Cardinality(Below(S, R, x)) <= Cardinality(Below(S, R, y))
        /\ Cardinality(Below(S, R, y)) = Cardinality(Below(S, R, x))
             => Below(S, R, y) = Below(S, R, x)
    BY <1>2, <2>1, FS_Subset
  <2>4. QED
    BY <1>2, <2>2, <2>3
<1>4. ASSUME NEW x \in S, NEW y \in S,
             Cardinality(Below(S, R, x)) = Cardinality(Below(S, R, y))
      PROVE  x = y
  <2>1. x = y \/ <<x, y>> \in R \/ <<y, x>> \in R
    BY DEF StrictOrder
  <2>2. QED
    BY <1>2, <1>3, <1>4, <2>1
<1>5. rank \in Injection(S, 0..(n - 1))
  <2>1. rank \in [S -> 0..(n - 1)]
    BY <1>1, <1>2
  <2>2. IsInjective(rank)
    BY <1>4 DEF IsInjective
  <2>3. QED
    BY <2>1, <2>2 DEF Injection
<1>6. IsFiniteSet(0..(n - 1)) /\ Cardinality(0..(n - 1)) = n
  BY <1>1, FS_Interval
<1>7. rank \in Surjection(S, 0..(n - 1))
  <2> HIDE DEF rank
  <2>1. QED
    BY <1>5, <1>6, FS_Injection
<1>8. ASSUME NEW i \in 1..n
      PROVE  \E x \in S : Cardinality(Below(S, R, x)) = i - 1
  <2>1. i - 1 \in 0..(n - 1)
    BY <1>1
  <2>2. PICK x \in S : rank[x] = i - 1
    BY <1>7, <2>1 DEF Surjection
  <2>3. QED
    BY <2>2
<1>9. QED
  BY <1>1, <1>2, <1>4, <1>8

-----------------------------------------------------------------------------
(* Iterates of a function.                                                 *)

\* f lists a, g[a], g[g[a]] and so on.
IsIterate(f, D, a, g, n) ==
  f \in [0..n -> D] /\ f[0] = a /\ \A k \in 1..n : f[k] = g[f[k - 1]]

\* A function that maps D to itself can be applied n times.
LEMMA Iterates ==
  ASSUME NEW D, NEW a \in D, NEW g \in [D -> D], NEW n \in Nat
  PROVE  \E f : IsIterate(f, D, a, g, n)
<1> DEFINE Is(f, m) == f \in [0..m -> D] /\ f[0] = a
                       /\ \A k \in 1..m : f[k] = g[f[k - 1]]
           Bad == {m \in Nat : ~\E f : Is(f, m)}
<1>1. \E f : Is(f, 0)
  <2> DEFINE f == [k \in 0..0 |-> a]
  <2>1. Is(f, 0)
    OBVIOUS
  <2>2. QED
    BY <2>1
<1>2. ASSUME NEW m \in Nat, NEW f, Is(f, m)
      PROVE  \E h : Is(h, m + 1)
  <2> DEFINE h == [k \in 0..(m + 1) |-> IF k = m + 1 THEN g[f[m]] ELSE f[k]]
  <2>1. h \in [0..(m + 1) -> D]
    BY <1>2
  <2>2. h[0] = a
    BY <1>2
  <2>3. ASSUME NEW k \in 1..(m + 1) PROVE h[k] = g[h[k - 1]]
    <3>1. CASE k = m + 1
      BY <1>2, <3>1
    <3>2. CASE k # m + 1
      <4>1. k \in 1..m /\ k \in 0..(m + 1) /\ k - 1 \in 0..(m + 1) /\ k - 1 # m + 1
        BY <3>2
      <4>2. h[k] = f[k] /\ h[k - 1] = f[k - 1]
        BY <3>2, <4>1
      <4>3. QED
        BY <1>2, <4>1, <4>2
    <3>3. QED
      BY <3>1, <3>2
  <2> HIDE DEF h
  <2>4. QED
    BY <2>1, <2>2, <2>3
<1> HIDE DEF Is
<1>3. Bad = {}
  <2> SUFFICES ASSUME Bad # {} PROVE FALSE
    OBVIOUS
  <2>1. PICK m \in Bad : \A j \in Bad : m <= j
    <3>1. Bad \in SUBSET Nat
      OBVIOUS
    <3> HIDE DEF Bad
    <3>2. QED
      BY <3>1, LeastNat
  <2>2. m \in Nat /\ m # 0
    BY <1>1, <2>1
  <2>3. m - 1 \in Nat /\ m - 1 \notin Bad /\ (m - 1) + 1 = m
    BY <2>1, <2>2
  <2>4. PICK f : Is(f, m - 1)
    BY <2>3
  <2>5. \E h : Is(h, (m - 1) + 1)
    BY <1>2, <2>3, <2>4
  <2>6. QED
    BY <2>1, <2>3, <2>5
<1>4. \E f : Is(f, n)
  BY <1>3
<1>5. QED
  BY <1>4 DEF Is, IsIterate
===========================================================================
