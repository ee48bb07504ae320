---------------------------- MODULE NumberLemmas ----------------------------
(***************************************************************************)
(* Induction over numbers, with the set of those that have a property in   *)
(* the place of the property, and the ends of a set of numbers.            *)
(***************************************************************************)
EXTENDS Integers, FiniteSetsExt, WellFoundedInduction, TLAPS

\* A set of numbers has a least one.
LEMMA Least ==
    ASSUME NEW T, T \subseteq Nat, T # {}
    PROVE  \E m \in T : \A n \in T : m <= n
<1>1. PICK m \in T : \A n \in T : ~(<<n, m>> \in OpToRel(<, Nat))
  BY WFMin, NatLessThanWellFounded
<1>2. \A n \in T : ~(n < m)
  BY <1>1 DEF OpToRel
<1>3. QED
  BY <1>2

\* A set with 0 and with the successor of each of its numbers has them all.
LEMMA Induct ==
    ASSUME NEW T, T \subseteq Nat, 0 \in T, \A n \in T : n + 1 \in T
    PROVE  T = Nat
<1> SUFFICES ASSUME Nat \ T # {} PROVE FALSE
  OBVIOUS
<1>1. PICK m \in Nat \ T : \A n \in Nat \ T : m <= n
  BY Least
<1>2. m # 0 /\ m - 1 \in Nat
  BY <1>1
<1>3. m - 1 \in T
  BY <1>1, <1>2
<1>4. QED
  BY <1>1, <1>3

\* f starts with c, and G leads from each value to the next.
Builds(f, n, S, c, G) ==
    /\ f \in [0..n -> S]
    /\ f[0] = c
    /\ \A i \in 1..n : f[i] = G[i][f[i - 1]]

\* There is a function with a given first value and given steps.
LEMMA BuiltUp ==
    ASSUME NEW n \in Nat, NEW S, NEW c \in S, NEW G \in [1..n -> [S -> S]]
    PROVE  \E f : Builds(f, n, S, c, G)
<1> DEFINE Upto(f, k) == Builds(f, k, S, c, G)
           T == {k \in Nat : k <= n => \E f : Upto(f, k)}
<1> USE DEF Builds
<1>1. \E f : Upto(f, 0)
  <2>1. Upto([i \in 0..0 |-> c], 0)
    OBVIOUS
  <2>2. QED
    BY <2>1
<1>2. ASSUME NEW k \in Nat, k + 1 <= n, NEW f, Upto(f, k)
      PROVE  \E g : Upto(g, k + 1)
  <2> DEFINE g == [i \in 0..(k + 1) |-> IF i = k + 1 THEN G[k + 1][f[k]] ELSE f[i]]
  <2>1. f[k] \in S /\ k + 1 \in 1..n
    BY <1>2
  <2>2. G[k + 1][f[k]] \in S
    BY <2>1
  <2>3. g \in [0..(k + 1) -> S] /\ g[0] = c
    BY <1>2, <2>2
  <2>4. \A i \in 1..(k + 1) : g[i] = G[i][g[i - 1]]
    BY <1>2
  <2>5. Upto(g, k + 1)
    <3> HIDE DEF g
    <3>1. QED
      BY <2>3, <2>4
  <2>6. QED
    BY <2>5
<1> HIDE DEF Upto
<1>3. n \in T
  <2>1. T \subseteq Nat /\ 0 \in T
    BY <1>1
  <2>2. ASSUME NEW k \in T PROVE k + 1 \in T
    <3>1. k \in Nat /\ (k + 1 <= n => k <= n) /\ (k <= n => \E f : Upto(f, k))
      OBVIOUS
    <3>2. k + 1 <= n => \E f : Upto(f, k + 1)
      BY <1>2, <3>1
    <3>3. QED
      BY <3>1, <3>2
  <2> HIDE DEF T
  <2>3. QED
    BY <2>1, <2>2, Induct
<1>4. QED
  BY <1>3 DEF Upto

\* Min is the least number of a set.
LEMMA Lowest ==
    ASSUME NEW T, T \subseteq Nat, T # {}
    PROVE  Min(T) \in T /\ \A n \in T : Min(T) <= n
<1>1. \E m \in T : \A n \in T : m <= n
  BY Least
<1>2. QED
  BY <1>1 DEF Min

\* Max is the greatest number of a set that has a bound.
LEMMA Highest ==
    ASSUME NEW b \in Nat, NEW T, T \subseteq 0..b, T # {}
    PROVE  Max(T) \in T /\ \A n \in T : Max(T) >= n
<1> DEFINE Below == {b - n : n \in T}
<1>1. \A n \in T : n \in Nat /\ n <= b
  OBVIOUS
<1>2. Below \subseteq Nat /\ Below # {}
  <2>1. \A n \in T : b - n \in Nat
    BY <1>1
  <2>2. QED
    BY <2>1
<1>3. PICK k \in Below : \A l \in Below : k <= l
  <2> HIDE DEF Below
  <2>1. QED
    BY <1>2, Least
<1>4. PICK m \in T : k = b - m
  OBVIOUS
<1>5. \A n \in T : b - m <= b - n
  BY <1>3, <1>4
<1>6. \A n \in T : m >= n
  BY <1>1, <1>5
<1>7. QED
  BY <1>6 DEF Max
=============================================================================
