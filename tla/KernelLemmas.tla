---------------------------- MODULE KernelLemmas ----------------------------
(***************************************************************************)
(* Facts about numbers that the proofs share: the table searches of the    *)
(* kernel take the first place that will do, its rings count modulo their  *)
(* size, its loops run up to a bound.                                      *)
(***************************************************************************)
EXTENDS Integers, FiniteSetsExt, WellFoundedInduction, TLAPS

\* Every nonempty set of natural numbers has a least element, and Min is it.
LEMMA MinOfNaturals ==
    ASSUME NEW S, S \subseteq Nat, S # {}
    PROVE  Min(S) \in S /\ \A k \in S : Min(S) <= k
<1>1. \E m \in S : \A k \in S : ~(<<k, m>> \in OpToRel(<, Nat))
  BY NatLessThanWellFounded, WFMin, Zenon
<1>2. PICK m \in S : \A k \in S : ~(<<k, m>> \in OpToRel(<, Nat))
  BY <1>1
<1>3. \A k \in S : ~(k < m)
  BY <1>2, Zenon DEF OpToRel
<1>4. \E x \in S : \A k \in S : x <= k
  BY <1>3
<1> QED
  BY <1>4 DEF Min

\* A number below the modulus is its own remainder.
LEMMA ModSmall ==
    ASSUME NEW d \in Nat \ {0}, NEW a \in 0 .. d - 1
    PROVE  a % d = a
  OBVIOUS

\* One lap around the ring.
LEMMA ModWrap ==
    ASSUME NEW d \in Nat \ {0}, NEW a \in d .. 2 * d - 1
    PROVE  a % d = a - d
  OBVIOUS

\* A remainder is below the modulus.
LEMMA ModRange ==
    ASSUME NEW d \in Nat \ {0}, NEW a \in Int
    PROVE  a % d \in 0 .. d - 1
  OBVIOUS

\* The sum of an index and a length that fit the ring wraps at most once.
LEMMA ModSum ==
    ASSUME NEW d \in Nat \ {0}, NEW a \in 0 .. d - 1, NEW n \in 0 .. d
    PROVE  (a + n) % d = IF a + n < d THEN a + n ELSE a + n - d
<1>1. CASE a + n < d
  BY <1>1, ModSmall
<1>2. CASE a + n >= d
  BY <1>2, ModWrap
<1> QED
  BY <1>1, <1>2

\* A number is its quotient times the modulus plus its remainder.
LEMMA DivMod ==
    ASSUME NEW d \in Nat \ {0}, NEW a \in Int
    PROVE  a \div d \in Int /\ a = d * (a \div d) + (a % d)
  OBVIOUS

\* The remainder is determined by any such decomposition.
LEMMA ModUnique ==
    ASSUME NEW d \in Nat \ {0}, NEW q \in Int, NEW r \in 0 .. d - 1
    PROVE  (d * q + r) % d = r
  OBVIOUS

\* Counting on from a remainder is counting on from the number.
LEMMA ModSucc ==
    ASSUME NEW d \in Nat \ {0}, NEW a \in Int
    PROVE  ((a % d) + 1) % d = (a + 1) % d
<1> DEFINE q == a \div d
           r == a % d
<1>1. q \in Int /\ r \in 0 .. d - 1 /\ a = d * q + r
  BY DivMod, ModRange
<1> HIDE DEF q, r
<1>2. CASE r + 1 < d
  <2>1. r + 1 \in 0 .. d - 1 /\ a + 1 = d * q + (r + 1)
    BY <1>1, <1>2
  <2>2. (r + 1) % d = r + 1
    BY <2>1, ModSmall
  <2>3. (a + 1) % d = r + 1
    BY <1>1, <2>1, ModUnique
  <2> QED
    BY <2>2, <2>3 DEF r
<1>3. CASE r + 1 = d
  <2>1. a + 1 = d * (q + 1) + 0
    BY <1>1, <1>3
  <2>2. (a + 1) % d = 0
    <3>1. q + 1 \in Int /\ 0 \in 0 .. d - 1
      BY <1>1
    <3> QED
      BY <2>1, <3>1, ModUnique
  <2>3. (r + 1) % d = 0
    BY <1>3
  <2> QED
    BY <2>2, <2>3 DEF r
<1> QED
  BY <1>1, <1>2, <1>3

-----------------------------------------------------------------------------
\* Induction up to a bound, with the set of the numbers that have the
\* property for the property.
LEMMA BoundedInduction ==
    ASSUME NEW N \in Nat, NEW S, 0 \in S, \A i \in 1 .. N : i - 1 \in S => i \in S
    PROVE  0 .. N \subseteq S
<1> DEFINE Bad == {i \in 0 .. N : i \notin S}
<1> SUFFICES ASSUME Bad # {} PROVE FALSE
  OBVIOUS
<1>1. Bad \subseteq Nat
  OBVIOUS
<1>2. Min(Bad) \in Bad /\ \A k \in Bad : Min(Bad) <= k
  BY <1>1, MinOfNaturals
<1> DEFINE m == Min(Bad)
<1>3. m \in 0 .. N /\ m \notin S
  BY <1>2
<1>4. m # 0
  BY <1>3
<1>5. m - 1 \in S
  <2>1. m - 1 \in 0 .. N /\ ~(m <= m - 1)
    BY <1>3, <1>4
  <2> QED
    BY <1>2, <2>1
<1> QED
  BY <1>3, <1>4, <1>5

\* A function defined by recursion over 0 .. N exists.
Recurs(f, N, base, step) == f[0] = base /\ \A i \in 1 .. N : f[i] = step[i][f[i - 1]]

LEMMA RecursionExists ==
    ASSUME NEW N \in Nat, NEW T, NEW base \in T, NEW step \in [1 .. N -> [T -> T]]
    PROVE  \E f \in [0 .. N -> T] : Recurs(f, N, base, step)
<1> DEFINE Good(f, n) == f[0] = base /\ \A i \in 1 .. n : f[i] = step[i][f[i - 1]]
           S == {n \in 0 .. N : \E f \in [0 .. n -> T] : Good(f, n)}
<1>1. 0 \in S
  <2> DEFINE f == [i \in 0 .. 0 |-> base]
  <2>1. f \in [0 .. 0 -> T] /\ Good(f, 0)
    OBVIOUS
  <2> HIDE DEF f, Good
  <2>2. \E g \in [0 .. 0 -> T] : Good(g, 0)
    BY <2>1
  <2> QED
    BY <2>2
<1>2. ASSUME NEW n \in 1 .. N, n - 1 \in S PROVE n \in S
  <2>1. PICK f \in [0 .. n - 1 -> T] : Good(f, n - 1)
    BY <1>2
  <2> DEFINE v == step[n][f[n - 1]]
             g == [i \in 0 .. n |-> IF i = n THEN v ELSE f[i]]
  <2>2. v \in T
    BY <2>1
  <2> HIDE DEF v
  <2>3. g \in [0 .. n -> T]
    BY <2>2
  <2>4. Good(g, n)
    <3>1. g[0] = base
      BY <2>1
    <3>2. ASSUME NEW i \in 1 .. n PROVE g[i] = step[i][g[i - 1]]
      <4>1. CASE i = n
        BY <4>1 DEF v
      <4>2. CASE i # n
        <5>1. i \in 1 .. n - 1 /\ i - 1 \in 0 .. n - 1 /\ i - 1 # n
          BY <4>2
        <5>2. f[i] = step[i][f[i - 1]]
          BY <2>1, <5>1
        <5> QED
          BY <4>2, <5>1, <5>2
      <4> QED
        BY <4>1, <4>2
    <3> QED
      BY <3>1, <3>2
  <2> HIDE DEF g, Good
  <2>5. \E h \in [0 .. n -> T] : Good(h, n)
    BY <2>3, <2>4
  <2> QED
    BY <2>5
<1> HIDE DEF S
<1>3. 0 .. N \subseteq S
  BY <1>1, <1>2, BoundedInduction
<1>4. N \in S
  BY <1>3
<1> QED
  BY <1>4 DEF S, Recurs

\* The greatest of a bounded set.
LEMMA MaxOfBounded ==
    ASSUME NEW N \in Nat, NEW S, S \subseteq 0 .. N, S # {}
    PROVE  Max(S) \in S /\ \A k \in S : k <= Max(S)
<1> DEFINE Up == {n \in Nat : \A k \in S : k <= n}
<1>1. N \in Up /\ Up \subseteq Nat
  OBVIOUS
<1>2. Min(Up) \in Up /\ \A k \in Up : Min(Up) <= k
  BY <1>1, MinOfNaturals
<1> DEFINE m == Min(Up)
<1>3. m \in Nat /\ \A k \in S : k <= m
  BY <1>2
<1>4. m \in S
  <2> SUFFICES ASSUME m \notin S PROVE FALSE
    OBVIOUS
  <2>1. \A k \in S : k <= m - 1
    BY <1>3
  <2>2. m - 1 \in Nat
    <3>1. PICK k \in S : TRUE
      OBVIOUS
    <3> QED
      BY <1>3, <2>1, <3>1
  <2>3. m - 1 \in Up
    BY <2>1, <2>2
  <2> QED
    BY <1>2, <1>3, <2>3
<1>5. \E x \in S : \A y \in S : x >= y
  BY <1>3, <1>4
<1> QED
  BY <1>5 DEF Max
=============================================================================
