------------------------------ MODULE Numbers -------------------------------
(***************************************************************************)
(* Lemmas about numbers that the proofs of the grids, of the behaviour nodes *)
(* and of the drops share: quotients, least and greatest elements, and what  *)
(* follows by induction over numbers, which least elements stand in for.     *)
(***************************************************************************)
EXTENDS Integers, FiniteSetTheorems, WellFoundedInduction, TLAPS

\* A greater multiple is greater by one step at least.
LEMMA Monotone ==
  ASSUME NEW b \in Int, b > 0, NEW m \in Int, NEW n \in Int, m < n
  PROVE  b * m + b <= b * n
<1>1. n - m - 1 >= 0
  OBVIOUS
<1>2. b * (n - m - 1) >= 0
  BY <1>1
<1>3. b * (n - m - 1) = b * n - b * m - b
  OBVIOUS
<1> QED
  BY <1>2, <1>3

LEMMA Division ==
  ASSUME NEW a \in Int, NEW b \in Int, b > 0
  PROVE  a \div b \in Int /\ b * (a \div b) <= a /\ a < b * (a \div b) + b
OBVIOUS

\* A quotient is the only one.
LEMMA Quotient ==
  ASSUME NEW a \in Int, NEW b \in Int, b > 0, NEW q \in Int, b * q <= a, a < b * q + b
  PROVE  q = a \div b
<1>1. a \div b \in Int /\ b * (a \div b) <= a /\ a < b * (a \div b) + b
  BY Division
<1>2. ~(q < a \div b)
  BY <1>1, Monotone
<1>3. ~(a \div b < q)
  BY <1>1, Monotone
<1> QED
  BY <1>1, <1>2, <1>3

\* n intervals of length b, from 0.
LEMMA Within ==
  ASSUME NEW a \in Int, NEW b \in Int, b > 0, NEW n \in Nat
  PROVE  a \div b \in 0..(n - 1) <=> 0 <= a /\ a < b * n
<1>1. a \div b \in Int /\ b * (a \div b) <= a /\ a < b * (a \div b) + b
  BY Division
<1>2. PICK q \in Int : q = a \div b
  BY <1>1
<1>3. ASSUME q < 0 PROVE a < 0
  <2>1. b * q + b <= b * 0
    BY <1>3, Monotone
  <2> QED
    BY <1>1, <1>2, <2>1
<1>4. ASSUME q >= 0 PROVE a >= 0
  <2>1. b * q >= 0
    BY <1>4
  <2> QED
    BY <1>1, <1>2, <2>1
<1>5. ASSUME q < n PROVE a < b * n
  <2>1. b * q + b <= b * n
    BY <1>5, Monotone
  <2>2. b * n \in Int /\ b * q \in Int
    OBVIOUS
  <2> QED
    BY <1>1, <1>2, <2>1, <2>2
<1>6. ASSUME q >= n PROVE a >= b * n
  <2>1. q = n \/ b * n + b <= b * q
    BY <1>6, Monotone
  <2>2. b * n \in Int /\ b * q \in Int
    OBVIOUS
  <2> QED
    BY <1>1, <1>2, <2>1, <2>2
<1>7. b * n \in Int
  OBVIOUS
<1> QED
  BY <1>2, <1>3, <1>4, <1>5, <1>6, <1>7

\* A set of numbers has a least one.
LEMMA LeastOf ==
  ASSUME NEW T, T \subseteq Nat, T # {}
  PROVE  \E x \in T : \A y \in T : x <= y
<1>1. PICK t \in T : TRUE
  OBVIOUS
<1> DEFINE near == {x \in T : x <= t}
           S == 1..t
           family == {1..x : x \in near}
           R == StrictSubsetOrdering(S)
<1>2. IsFiniteSet(S)
  BY <1>1, FS_Interval
<1>3. IsWellFoundedOn(R, FiniteSubsetsOf(S))
  BY FS_StrictSubsetOrderingWellFounded
<1>4. IsWellFoundedOn(R, SUBSET S)
  BY <1>2, <1>3, FS_FiniteSubsetsOfFinite
<1>5. family \subseteq SUBSET S /\ family # {}
  BY <1>1
<1>6. \E d \in family : \A e \in family : <<e, d>> \notin R
  <2> HIDE DEF family, S, R
  <2> QED
    BY <1>4, <1>5, WFMin
<1>7. PICK x \in near : \A e \in family : <<e, 1..x>> \notin R
  BY <1>6
<1>8. ASSUME NEW y \in T PROVE x <= y
  <2>1. CASE y \in near
    <3>1. 1..y \in family /\ <<1..y, 1..x>> \notin R
      BY <1>7, <2>1
    <3>2. x \in Nat /\ y \in Nat /\ 1..x \subseteq S /\ 1..y \subseteq S
      BY <1>7, <2>1
    <3>3. ~(1..y \subseteq 1..x /\ 1..y # 1..x)
      BY <3>1, <3>2 DEF StrictSubsetOrdering
    <3> QED
      <4>1. SUFFICES ASSUME y < x PROVE FALSE
        BY <3>2
      <4>2. x \in 1..x /\ x \notin 1..y /\ 1..y \subseteq 1..x
        BY <3>2, <4>1
      <4> QED
        BY <3>3, <4>2
  <2>2. CASE y \notin near
    BY <1>1, <1>7, <2>2
  <2> QED
    BY <2>1, <2>2
<1> QED
  BY <1>7, <1>8

\* A finite set of numbers has a greatest one.
LEMMA GreatestOf ==
  ASSUME NEW n \in Nat, NEW T \in SUBSET (1..n), T # {}
  PROVE  \E x \in T : \A y \in T : y <= x
<1> DEFINE below == {k \in Nat : \E x \in T : k = n - x}
<1>1. below \subseteq Nat /\ below # {}
  <2>1. PICK x \in T : TRUE
    OBVIOUS
  <2>2. n - x \in below
    BY <2>1
  <2> QED
    BY <2>2
<1>2. PICK k \in below : \A j \in below : k <= j
  <2> HIDE DEF below
  <2> QED
    BY <1>1, LeastOf
<1>3. PICK x \in T : k = n - x
  BY <1>2
<1>4. ASSUME NEW y \in T PROVE y <= x
  <2>1. n - y \in below /\ x \in 1..n /\ y \in 1..n
    BY <1>3
  <2> QED
    BY <1>2, <1>3, <2>1, SMTT(40)
<1> QED
  BY <1>3, <1>4

\* What is said of 0, and of a number when it is said of the one before, is said
\* of all up to n; no set of numbers up to n is a counterexample.
LEMMA Climb ==
  ASSUME NEW n \in Nat, NEW S \in SUBSET (0..n), 0 \in S,
         \A k \in 1..n : k - 1 \in S => k \in S
  PROVE  S = 0..n
<1> DEFINE T == (0..n) \ S
<1>1. SUFFICES ASSUME T # {} PROVE FALSE
  BY <1>1
<1>2. T \subseteq Nat
  OBVIOUS
<1>3. PICK m \in T : \A y \in T : m <= y
  <2> HIDE DEF T
  <2> QED
    BY <1>1, <1>2, LeastOf
<1>4. m \in 1..n /\ m - 1 \in 0..n /\ m - 1 \notin T
  BY <1>3
<1> QED
  BY <1>3, <1>4

\* The functions a fold over 1..n of its values by F, from b, is made of; Top picks
\* the greatest element.
Folding(g, n, V, b, F, Top) ==
  /\ g \in [SUBSET (1..n) -> V]
  /\ \A t \in SUBSET (1..n) : g[t] = IF t = {} THEN b ELSE F[<<Top[t], g[t \ {Top[t]}]>>]

LEMMA Folds ==
  ASSUME NEW n \in Nat, NEW V, NEW b \in V, NEW F \in [(1..n) \X V -> V], NEW Top,
         \A t \in SUBSET (1..n) : t # {} => Top[t] \in t /\ \A y \in t : y <= Top[t]
  PROVE  \E g : Folding(g, n, V, b, F, Top)
<1> DEFINE S == {k \in 0..n : \E g : Folding(g, k, V, b, F, Top)}
<1>1. 0 \in S
  <2> DEFINE g == [t \in SUBSET (1..0) |-> b]
  <2>1. Folding(g, 0, V, b, F, Top)
    BY DEF Folding
  <2> QED
    BY <2>1
<1>2. ASSUME NEW k \in 1..n, k - 1 \in S PROVE k \in S
  <2>1. PICK f : Folding(f, k - 1, V, b, F, Top)
    BY <1>2
  <2> DEFINE g == [t \in SUBSET (1..k) |-> IF k \in t THEN F[<<k, f[t \ {k}]>>] ELSE f[t]]
  <2>2. \A t \in SUBSET (1..k) : t \ {k} \in SUBSET (1..(k - 1))
    OBVIOUS
  <2>3. \A t \in SUBSET (1..k) : k \notin t => t \in SUBSET (1..(k - 1))
    OBVIOUS
  <2>4. \A t \in SUBSET (1..k) : t \in SUBSET (1..n)
    OBVIOUS
  <2>5. \A t \in SUBSET (1..(k - 1)) : f[t] \in V
    BY <2>1 DEF Folding
  <2>6. ASSUME NEW t \in SUBSET (1..k), k \in t
        PROVE  g[t] = F[<<Top[t], g[t \ {Top[t]}]>>] /\ g[t] \in V
    <3>1. Top[t] = k
      <4>1. Top[t] \in t /\ \A y \in t : y <= Top[t]
        BY <2>4, <2>6
      <4> QED
        BY <4>1, <2>6
    <3>2. t \ {k} \in SUBSET (1..k) /\ k \notin t \ {k}
      OBVIOUS
    <3>3. g[t \ {k}] = f[t \ {k}]
      BY <3>2
    <3>4. f[t \ {k}] \in V
      BY <2>2, <2>5
    <3>5. F[<<k, f[t \ {k}]>>] \in V
      BY <3>4
    <3> QED
      BY <3>1, <3>3, <3>5, <2>6
  <2>7. ASSUME NEW t \in SUBSET (1..k), k \notin t
        PROVE  g[t] = (IF t = {} THEN b ELSE F[<<Top[t], g[t \ {Top[t]}]>>]) /\ g[t] \in V
    <3>1. t \in SUBSET (1..(k - 1)) /\ g[t] = f[t]
      BY <2>3, <2>7
    <3>2. t \ {Top[t]} \in SUBSET (1..k) /\ k \notin t \ {Top[t]}
      BY <2>7
    <3>3. g[t \ {Top[t]}] = f[t \ {Top[t]}]
      BY <3>2
    <3>4. f[t] = IF t = {} THEN b ELSE F[<<Top[t], f[t \ {Top[t]}]>>]
      BY <2>1, <3>1 DEF Folding
    <3> QED
      BY <3>1, <3>3, <3>4, <2>5
  <2>8. Folding(g, k, V, b, F, Top)
    <3>1. g \in [SUBSET (1..k) -> V]
      <4>1. \A t \in SUBSET (1..k) : g[t] \in V
        BY <2>6, <2>7
      <4> HIDE DEF S
      <4> QED
        BY <4>1
    <3>2. ASSUME NEW t \in SUBSET (1..k)
          PROVE  g[t] = IF t = {} THEN b ELSE F[<<Top[t], g[t \ {Top[t]}]>>]
      <4> HIDE DEF g
      <4> QED
        BY <2>6, <2>7
    <3> HIDE DEF g
    <3> QED
      BY <3>1, <3>2 DEF Folding
  <2> HIDE DEF g
  <2> QED
    BY <2>8
<1>3. S = 0..n
  <2>1. S \in SUBSET (0..n)
    OBVIOUS
  <2> HIDE DEF S
  <2> QED
    BY <1>1, <1>2, <2>1, Climb
<1> QED
  BY <1>3

\* The place of a number among others is how many are less; if they differ, every
\* place has its number.
OneToOne(f, n) == \A i, j \in 1..n : f[i] = f[j] => i = j
Rank(key, n) == [k \in 1..n |-> Cardinality({j \in 1..n : key[j] < key[k]})]

LEMMA Ranks ==
  ASSUME NEW n \in Nat, NEW key \in [1..n -> Nat], OneToOne(key, n)
  PROVE  /\ OneToOne(Rank(key, n), n)
         /\ \A k \in 1..n : Rank(key, n)[k] \in 0..(n - 1)
         /\ \A p \in 0..(n - 1) : \E k \in 1..n : Rank(key, n)[k] = p
<1>0. PICK place : place = Rank(key, n)
  OBVIOUS
<1> DEFINE Less(k) == {j \in 1..n : key[j] < key[k]}
<1>1. IsFiniteSet(1..n) /\ Cardinality(1..n) = n
  <2>1. 1 \in Int /\ n \in Int
    OBVIOUS
  <2>2. Cardinality(1..n) = IF 1 > n THEN 0 ELSE n - 1 + 1
    BY <2>1, FS_Interval
  <2> QED
    BY <2>1, <2>2, FS_Interval
<1>2. ASSUME NEW k \in 1..n
      PROVE  IsFiniteSet(Less(k)) /\ Cardinality(Less(k)) \in Nat /\ Cardinality(Less(k)) < n
  <2>1. Less(k) \in SUBSET ((1..n) \ {k})
    OBVIOUS
  <2>2. IsFiniteSet((1..n) \ {k}) /\ Cardinality((1..n) \ {k}) = n - 1
    BY <1>1, FS_RemoveElement
  <2>3. IsFiniteSet(Less(k)) /\ Cardinality(Less(k)) <= n - 1
    <3> HIDE DEF Less
    <3> QED
      BY <2>1, <2>2, FS_Subset
  <2>4. Cardinality(Less(k)) \in Nat
    <3> HIDE DEF Less
    <3> QED
      BY <2>3, FS_CardinalityType
  <2> HIDE DEF Less
  <2> QED
    BY <2>3, <2>4
<1>3. place = [k \in 1..n |-> Cardinality(Less(k))]
  BY <1>0 DEF Rank
<1>4. ASSUME NEW i \in 1..n, NEW k \in 1..n, key[i] < key[k]
      PROVE  Cardinality(Less(i)) < Cardinality(Less(k))
  <2>1. Less(i) \in SUBSET (Less(k) \ {i}) /\ i \in Less(k)
    <3>1. \A j \in 1..n : key[j] < key[i] => key[j] < key[k] /\ j # i
      <4>1. \A j \in 1..n : key[j] \in Nat
        OBVIOUS
      <4> QED
        BY <1>4, <4>1
    <3> QED
      BY <1>4, <3>1
  <2>2. IsFiniteSet(Less(k)) /\ Cardinality(Less(k)) \in Nat
    BY <1>2
  <2>3. IsFiniteSet(Less(k) \ {i}) /\ Cardinality(Less(k) \ {i}) = Cardinality(Less(k)) - 1
    <3> HIDE DEF Less
    <3> QED
      BY <2>1, <2>2, FS_RemoveElement
  <2>4. Cardinality(Less(i)) <= Cardinality(Less(k) \ {i})
    <3> HIDE DEF Less
    <3> QED
      BY <2>1, <2>3, FS_Subset
  <2>5. Cardinality(Less(i)) \in Nat
    BY <1>2
  <2> HIDE DEF Less
  <2> QED
    BY <2>2, <2>3, <2>4, <2>5
<1>5. ASSUME NEW i \in 1..n, NEW j \in 1..n, place[i] = place[j] PROVE i = j
  <2>1. ~(key[i] < key[j]) /\ ~(key[j] < key[i])
    <3>1. Cardinality(Less(i)) = Cardinality(Less(j)) /\ Cardinality(Less(i)) \in Nat
      <4> HIDE DEF Less
      <4> QED
        BY <1>2, <1>3, <1>5
    <3> HIDE DEF Less
    <3> QED
      BY <1>4, <3>1
  <2>2. key[i] \in Nat /\ key[j] \in Nat
    OBVIOUS
  <2> QED
    BY <2>1, <2>2 DEF OneToOne
<1>6. \A k \in 1..n : place[k] \in 0..(n - 1)
  <2> HIDE DEF Less
  <2> QED
    BY <1>2, <1>3
<1>7. place \in Injection(1..n, 0..(n - 1))
  <2>1. place \in [1..n -> 0..(n - 1)]
    <3> HIDE DEF Less
    <3> QED
      BY <1>3, <1>6
  <2> QED
    BY <1>5, <2>1 DEF Injection, IsInjective
<1>8. IsFiniteSet(0..(n - 1)) /\ Cardinality(0..(n - 1)) = n
  <2>1. 0 \in Int /\ n - 1 \in Int
    OBVIOUS
  <2>2. Cardinality(0..(n - 1)) = IF 0 > n - 1 THEN 0 ELSE n - 1 - 0 + 1
    BY <2>1, FS_Interval
  <2> QED
    BY <2>1, <2>2, FS_Interval
<1>9. place \in Surjection(1..n, 0..(n - 1))
  BY <1>1, <1>7, <1>8, FS_Injection
<1> QED
  BY <1>0, <1>5, <1>6, <1>9 DEF Surjection, OneToOne
=============================================================================
