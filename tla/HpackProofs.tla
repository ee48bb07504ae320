----------------------------- MODULE HpackProofs -----------------------------
(***************************************************************************)
(* Proofs about Hpack, for any strings, static table, sizes and number of  *)
(* fields.                                                                 *)
(***************************************************************************)
EXTENDS Hpack, NumberLemmas, SequenceTheorems

-----------------------------------------------------------------------------
(* Sizes. *)

\* A header has a size.
LEMMA SizeType ==
    ASSUME NEW h \in Header
    PROVE  Size(h) \in Nat
<1>1. h.name \in Seq(0..255) /\ h.value \in Seq(0..255)
  BY TableAssumption DEF Header
<1> DEFINE n == Len(h.name)
           v == Len(h.value)
<1>2. n \in Nat /\ v \in Nat
  BY <1>1, LenProperties
<1> HIDE DEF n, v
<1>3. n + v + 32 \in Nat
  BY <1>2
<1>4. QED
  BY <1>3 DEF Size, n, v

\* Sums adds the sizes up one by one.
LEMMA SumsAre ==
    ASSUME NEW hs \in Seq(Header)
    PROVE  /\ Sums(hs) \in [0..Len(hs) -> Nat]
           /\ Sums(hs)[0] = 0
           /\ \A i \in 1..Len(hs) : Sums(hs)[i] = Sums(hs)[i - 1] + Size(hs[i])
<1> DEFINE n == Len(hs)
           Upto(f, k) == /\ f \in [0..k -> Nat]
                         /\ f[0] = 0
                         /\ \A i \in 1..k : f[i] = f[i - 1] + Size(hs[i])
           T == {k \in Nat : k <= n => \E f : Upto(f, k)}
<1>1. n \in Nat /\ \A i \in 1..n : Size(hs[i]) \in Nat
  BY SizeType
<1>2. \E f : Upto(f, 0)
  <2>1. Upto([i \in 0..0 |-> 0], 0)
    OBVIOUS
  <2>2. QED
    BY <2>1
<1>3. ASSUME NEW k \in Nat, k + 1 <= n, NEW f, Upto(f, k)
      PROVE  \E g : Upto(g, k + 1)
  <2> DEFINE g == [i \in 0..(k + 1) |->
                      IF i = k + 1 THEN f[k] + Size(hs[k + 1]) ELSE f[i]]
  <2>1. Size(hs[k + 1]) \in Nat /\ f[k] \in Nat
    BY <1>1, <1>3
  <2>2. g \in [0..(k + 1) -> Nat] /\ g[0] = 0
    BY <1>3, <2>1
  <2>3. \A i \in 1..(k + 1) : g[i] = g[i - 1] + Size(hs[i])
    BY <1>3, <2>1
  <2>4. Upto(g, k + 1)
    <3> HIDE DEF g
    <3>1. QED
      BY <2>2, <2>3
  <2>5. QED
    BY <2>4
<1> HIDE DEF Upto
<1>4. n \in T
  <2>1. T \subseteq Nat /\ 0 \in T
    BY <1>2
  <2>2. ASSUME NEW k \in T PROVE k + 1 \in T
    <3>1. k \in Nat /\ (k <= n => \E f : Upto(f, k))
      OBVIOUS
    <3>2. k + 1 <= n => k <= n
      BY <1>1, <3>1
    <3>3. k + 1 <= n => \E f : Upto(f, k + 1)
      BY <1>3, <3>1, <3>2
    <3>4. QED
      BY <3>1, <3>3
  <2> HIDE DEF T
  <2>3. QED
    BY <1>1, <2>1, <2>2, Induct
<1>5. PICK f : Upto(f, n)
  BY <1>1, <1>4
<1> USE DEF Upto
<1>6. f = [i \in 0..n |-> IF i = 0 THEN 0 ELSE f[i - 1] + Size(hs[i])]
  BY <1>1, <1>5
<1>7. Sums(hs) = [i \in 0..n |-> IF i = 0 THEN 0 ELSE Sums(hs)[i - 1] + Size(hs[i])]
  BY <1>6 DEF Sums
<1> DEFINE s == Sums(hs)
           S == {k \in Nat : k <= n => s[k] \in Nat}
<1> HIDE DEF s, Upto
<1>8. s[0] = 0 /\ \A i \in 1..n : s[i] = s[i - 1] + Size(hs[i])
  BY <1>1, <1>7 DEF s
<1>9. S = Nat
  <2>1. 0 \in S /\ \A k \in S : k + 1 \in S
    BY <1>1, <1>8
  <2>2. S \subseteq Nat
    OBVIOUS
  <2> HIDE DEF S
  <2>3. QED
    BY <2>1, <2>2, Induct
<1>10. \A k \in 0..n : s[k] \in Nat
  BY <1>1, <1>9
<1>11. s \in [0..n -> Nat]
  BY <1>7, <1>10 DEF s
<1>12. QED
  BY <1>8, <1>11 DEF s

\* Tables have a size.
LEMMA TotalType ==
    ASSUME NEW hs \in Seq(Header)
    PROVE  Total(hs) \in Nat
<1> DEFINE n == Len(hs)
           s == Sums(hs)
<1>1. n \in Nat /\ s \in [0..n -> Nat]
  BY SumsAre
<1> HIDE DEF n, s
<1>2. s[n] \in Nat
  BY <1>1
<1>3. QED
  BY <1>2 DEF Total, n, s

\* The size of a table without entries and of one with one.
LEMMA TotalSmall ==
    /\ Total(<<>>) = 0
    /\ \A h \in Header : Total(<<h>>) = Size(h)
<1>1. Total(<<>>) = 0
  <2>1. <<>> \in Seq(Header) /\ Len(<<>>) = 0
    OBVIOUS
  <2>2. Sums(<<>>)[0] = 0
    BY <2>1, SumsAre
  <2>3. QED
    BY <2>1, <2>2 DEF Total
<1>2. ASSUME NEW h \in Header PROVE Total(<<h>>) = Size(h)
  <2> DEFINE hs == <<h>>
  <2>1. hs \in Seq(Header) /\ Len(hs) = 1 /\ hs[1] = h
    OBVIOUS
  <2> HIDE DEF hs
  <2>2. Sums(hs)[0] = 0 /\ Sums(hs)[1] = Sums(hs)[1 - 1] + Size(hs[1])
    BY <2>1, SumsAre
  <2>3. Sums(hs)[1] = Size(h)
    BY <2>1, <2>2, SizeType
  <2>4. QED
    BY <2>1, <2>3 DEF Total, hs
<1>3. QED
  BY <1>1, <1>2

\* The size of two tables one after the other.
LEMMA TotalConcat ==
    ASSUME NEW a \in Seq(Header), NEW b \in Seq(Header)
    PROVE  Total(a \o b) = Total(a) + Total(b)
<1> DEFINE m == Len(a)
           n == Len(b)
           ab == a \o b
           r == Sums(a)
           s == Sums(b)
           t == Sums(ab)
<1>1. /\ m \in Nat /\ n \in Nat /\ ab \in Seq(Header) /\ Len(ab) = m + n
      /\ \A i \in 1..m : ab[i] = a[i]
      /\ \A i \in 1..n : ab[m + i] = b[i]
  OBVIOUS
<1>2. /\ r \in [0..m -> Nat] /\ r[0] = 0
      /\ \A i \in 1..m : r[i] = r[i - 1] + Size(a[i])
  BY SumsAre
<1>3. /\ s \in [0..n -> Nat] /\ s[0] = 0
      /\ \A i \in 1..n : s[i] = s[i - 1] + Size(b[i])
  BY SumsAre
<1> HIDE DEF ab
<1>4. /\ t \in [0..(m + n) -> Nat] /\ t[0] = 0
      /\ \A i \in 1..(m + n) : t[i] = t[i - 1] + Size(ab[i])
  BY <1>1, SumsAre
<1> HIDE DEF m, n, r, s, t
<1> DEFINE T == {k \in Nat : k <= m => t[k] = r[k]}
<1>5. m \in T
  <2>1. 0 \in T
    BY <1>1, <1>2, <1>4
  <2>2. ASSUME NEW k \in T PROVE k + 1 \in T
    <3> SUFFICES ASSUME k + 1 <= m PROVE t[k + 1] = r[k + 1]
      OBVIOUS
    <3>1. k + 1 \in 1..m /\ k + 1 \in 1..(m + n) /\ (k + 1) - 1 = k /\ t[k] = r[k]
      BY <1>1
    <3>2. QED
      BY <1>1, <1>2, <1>4, <3>1
  <2>3. T \subseteq Nat
    OBVIOUS
  <2> HIDE DEF T
  <2>4. QED
    BY <1>1, <2>1, <2>2, <2>3, Induct
<1> DEFINE U == {k \in Nat : k <= n => t[m + k] = r[m] + s[k]}
<1>6. n \in U
  <2>1. 0 \in U
    <3>1. t[m] = r[m] /\ m + 0 = m /\ r[m] \in Nat
      BY <1>1, <1>2, <1>5
    <3>2. QED
      BY <1>3, <3>1
  <2>2. ASSUME NEW k \in U PROVE k + 1 \in U
    <3> SUFFICES ASSUME k + 1 <= n PROVE t[m + (k + 1)] = r[m] + s[k + 1]
      OBVIOUS
    <3>1. /\ k + 1 \in 1..n /\ m + (k + 1) \in 1..(m + n)
          /\ (m + (k + 1)) - 1 = m + k /\ (k + 1) - 1 = k
          /\ t[m + k] = r[m] + s[k]
      BY <1>1
    <3>2. t[m + (k + 1)] = t[m + k] + Size(b[k + 1])
      BY <1>1, <1>4, <3>1
    <3>3. s[k + 1] = s[k] + Size(b[k + 1]) /\ s[k] \in Nat /\ r[m] \in Nat
      BY <1>1, <1>2, <1>3, <3>1
    <3>4. Size(b[k + 1]) \in Nat
      BY <3>1, SizeType DEF n
    <3>5. QED
      BY <3>1, <3>2, <3>3, <3>4
  <2>3. U \subseteq Nat
    OBVIOUS
  <2> HIDE DEF U
  <2>4. QED
    BY <1>1, <2>1, <2>2, <2>3, Induct
<1>7. t[m + n] = r[m] + s[n]
  BY <1>1, <1>6
<1>8. QED
  BY <1>1, <1>7 DEF Total, m, n, r, s, t, ab

\* A table is its newest entries and the others.
LEMMA Cut ==
    ASSUME NEW hs \in Seq(Header), NEW k \in 0..Len(hs)
    PROVE  /\ SubSeq(hs, 1, k) \in Seq(Header)
           /\ Total(SubSeq(hs, 1, k)) + Total(SubSeq(hs, k + 1, Len(hs))) = Total(hs)
           /\ Total(SubSeq(hs, 1, k)) \in Nat
           /\ Total(SubSeq(hs, k + 1, Len(hs))) \in Nat
<1> DEFINE n == Len(hs)
           a == SubSeq(hs, 1, k)
           b == SubSeq(hs, k + 1, n)
<1>1. n \in Nat /\ k \in Nat /\ k <= n
  OBVIOUS
<1>2. a \in Seq(Header) /\ b \in Seq(Header)
  BY <1>1
<1>3. a \o b = hs
  <2>1. 1 \in 1..(n + 1) /\ k \in (1 - 1)..n /\ n \in k..n
    BY <1>1
  <2>2. a \o b = SubSeq(hs, 1, n)
    BY <2>1, ConcatAdjacentSubSeq
  <2>3. QED
    BY <2>2, SubSeqFull
<1>4. Total(a) + Total(b) = Total(a \o b)
  <2> HIDE DEF a, b
  <2>1. QED
    BY <1>2, TotalConcat
<1>5. Total(a) \in Nat /\ Total(b) \in Nat
  <2> HIDE DEF a, b
  <2>1. QED
    BY <1>2, TotalType
<1>6. QED
  BY <1>2, <1>3, <1>4, <1>5

\* The client keeps its newest entries, and they fit.
LEMMA FitIs ==
    ASSUME NEW hs \in Seq(Header), NEW max \in Nat
    PROVE  /\ Fit(hs, max) \in Seq(Header)
           /\ Total(Fit(hs, max)) <= max
           /\ \E k \in 0..Len(hs) :
                  /\ Fit(hs, max) = SubSeq(hs, 1, k)
                  /\ k = Max({l \in 0..Len(hs) : Total(SubSeq(hs, 1, l)) <= max})
<1> DEFINE n == Len(hs)
           K == {l \in 0..n : Total(SubSeq(hs, 1, l)) <= max}
           k == Max(K)
<1>1. n \in Nat
  OBVIOUS
<1>2. 0 \in K
  <2>1. SubSeq(hs, 1, 0) = <<>>
    OBVIOUS
  <2>2. Total(SubSeq(hs, 1, 0)) = 0
    BY <2>1, TotalSmall, Zenon
  <2>3. 0 \in 0..n /\ 0 <= max
    BY <1>1
  <2>4. QED
    BY <2>2, <2>3
<1>3. K \subseteq 0..n
  OBVIOUS
<1>4. k \in K
  <2> HIDE DEF K, n
  <2>1. QED
    BY <1>1, <1>2, <1>3, Highest
<1> HIDE DEF k
<1>5. k \in 0..Len(hs) /\ Total(SubSeq(hs, 1, k)) <= max
  BY <1>4
<1>6. SubSeq(hs, 1, k) \in Seq(Header)
  BY <1>5, Cut
<1>7. Fit(hs, max) = SubSeq(hs, 1, k)
  BY DEF Fit, k
<1>8. QED
  BY <1>5, <1>6, <1>7 DEF k

\* Evicting from the back leaves the same, and size_ counts it.
LEMMA EvictFits ==
    ASSUME NEW t, NEW hs \in Seq(Header), NEW max \in Nat,
           t = [dynamic |-> hs, size |-> Total(hs), max |-> max]
    PROVE  evict(t) = [dynamic |-> Fit(hs, max), size |-> Total(Fit(hs, max)),
                       max |-> max]
<1> DEFINE n == Len(hs)
           Left(k) == Total(hs) - Total(SubSeq(hs, k + 1, n))
           K == {l \in 0..n : Total(SubSeq(hs, 1, l)) <= max}
           L == {l \in 0..n : Left(l) <= max}
<1>1. \A k \in 0..n : Left(k) = Total(SubSeq(hs, 1, k))
  <2> SUFFICES ASSUME NEW k \in 0..n PROVE Left(k) = Total(SubSeq(hs, 1, k))
    OBVIOUS
  <2> DEFINE a == Total(SubSeq(hs, 1, k))
             b == Total(SubSeq(hs, k + 1, n))
  <2>1. a + b = Total(hs) /\ a \in Nat /\ b \in Nat
    BY Cut
  <2> HIDE DEF a, b
  <2>2. Total(hs) - b = a
    BY <2>1
  <2>3. QED
    BY <2>2 DEF a, b
<1>2. L = K
  <2> HIDE DEF Left
  <2>1. QED
    BY <1>1
<1>3. PICK k \in 0..n : Fit(hs, max) = SubSeq(hs, 1, k) /\ k = Max(K)
  BY FitIs
<1>4. evict(t) = [t EXCEPT !.dynamic = SubSeq(@, 1, Max(L)), !.size = Left(Max(L))]
  BY DEF evict
<1> HIDE DEF L, K, Left
<1>5. Max(L) = k /\ Left(k) = Total(SubSeq(hs, 1, k))
  BY <1>1, <1>2, <1>3
<1>6. QED
  BY <1>3, <1>4, <1>5

-----------------------------------------------------------------------------
(* Integers. *)

\* How numbers are written that do not fit into the first byte.
LEMMA RestIs ==
    ASSUME NEW w \in Nat
    PROVE  /\ Rest(w) \in [0..w -> Seq(Nat)]
           /\ \A v \in 0..w :
                  Rest(w)[v] = IF v < 128 THEN <<v>>
                               ELSE <<128 + (v % 128)>> \o Rest(w)[v \div 128]
<1> DEFINE Upto(f, k) ==
               /\ f \in [0..k -> Seq(Nat)]
               /\ \A v \in 0..k : f[v] = IF v < 128 THEN <<v>>
                                         ELSE <<128 + (v % 128)>> \o f[v \div 128]
           T == {k \in Nat : k <= w => \E f : Upto(f, k)}
<1>1. \E f : Upto(f, 0)
  <2>1. Upto([v \in 0..0 |-> <<v>>], 0)
    OBVIOUS
  <2>2. QED
    BY <2>1
<1>2. ASSUME NEW k \in Nat, NEW f, Upto(f, k)
      PROVE  \E g : Upto(g, k + 1)
  <2> DEFINE x == IF k + 1 < 128 THEN <<k + 1>>
                  ELSE <<128 + ((k + 1) % 128)>> \o f[(k + 1) \div 128]
             g == [v \in 0..(k + 1) |-> IF v = k + 1 THEN x ELSE f[v]]
  <2>1. x \in Seq(Nat)
    <3>1. CASE k + 1 < 128
      BY <3>1
    <3>2. CASE ~(k + 1 < 128)
      <4>1. (k + 1) \div 128 \in 0..k /\ 128 + ((k + 1) % 128) \in Nat
        BY <3>2
      <4>2. f[(k + 1) \div 128] \in Seq(Nat) /\ <<128 + ((k + 1) % 128)>> \in Seq(Nat)
        BY <1>2, <4>1
      <4>3. QED
        BY <3>2, <4>2, ConcatProperties
    <3>3. QED
      BY <3>1, <3>2
  <2>2. g \in [0..(k + 1) -> Seq(Nat)]
    <3> HIDE DEF x
    <3>1. QED
      BY <1>2, <2>1
  <2>3. ASSUME NEW v \in 0..(k + 1)
        PROVE  g[v] = IF v < 128 THEN <<v>>
                      ELSE <<128 + (v % 128)>> \o g[v \div 128]
    <3>1. v >= 128 => v \div 128 \in 0..k /\ v \div 128 # k + 1
      OBVIOUS
    <3>2. v >= 128 => g[v \div 128] = f[v \div 128]
      <4> HIDE DEF x
      <4>1. QED
        BY <3>1
    <3>3. CASE v = k + 1
      BY <3>2, <3>3
    <3>4. CASE v # k + 1
      <4> HIDE DEF x
      <4>1. v \in 0..k /\ g[v] = f[v]
        BY <3>4
      <4> HIDE DEF g
      <4>2. f[v] = IF v < 128 THEN <<v>> ELSE <<128 + (v % 128)>> \o f[v \div 128]
        BY <1>2, <4>1
      <4>3. CASE v < 128
        BY <4>1, <4>2, <4>3
      <4>4. CASE ~(v < 128)
        <5>1. g[v \div 128] = f[v \div 128]
          BY <3>2, <4>4
        <5>2. f[v] = <<128 + (v % 128)>> \o f[v \div 128]
          BY <4>2, <4>4
        <5>3. QED
          BY <4>1, <4>4, <5>1, <5>2
      <4>5. QED
        BY <4>3, <4>4
    <3>5. QED
      BY <3>3, <3>4
  <2>4. Upto(g, k + 1)
    <3> HIDE DEF g
    <3>1. QED
      BY <2>2, <2>3
  <2>5. QED
    BY <2>4
<1> HIDE DEF Upto
<1>3. w \in T
  <2>1. T \subseteq Nat /\ 0 \in T
    BY <1>1
  <2>2. ASSUME NEW k \in T PROVE k + 1 \in T
    <3>1. k \in Nat /\ (k <= w => \E f : Upto(f, k))
      OBVIOUS
    <3>2. k + 1 <= w => k <= w
      BY <3>1
    <3>3. k + 1 <= w => \E f : Upto(f, k + 1)
      BY <1>2, <3>1, <3>2
    <3>4. QED
      BY <3>1, <3>3
  <2> HIDE DEF T
  <2>3. QED
    BY <2>1, <2>2, Induct
<1>4. PICK f : Upto(f, w)
  BY <1>3
<1>5. f = [v \in 0..w |-> IF v < 128 THEN <<v>>
                          ELSE <<128 + (v % 128)>> \o f[v \div 128]]
  BY <1>4 DEF Upto
<1> DEFINE r == Rest(w)
<1>6. r = [v \in 0..w |-> IF v < 128 THEN <<v>>
                          ELSE <<128 + (v % 128)>> \o r[v \div 128]]
  BY <1>5 DEF Rest
<1> HIDE DEF r
<1>7. \A v \in 0..w : r[v] = IF v < 128 THEN <<v>>
                             ELSE <<128 + (v % 128)>> \o r[v \div 128]
  BY <1>6
<1> DEFINE Odd == {v \in 0..w : r[v] \notin Seq(Nat)}
<1>8. Odd = {}
  <2> SUFFICES ASSUME Odd # {} PROVE FALSE
    OBVIOUS
  <2>1. Odd \subseteq Nat
    OBVIOUS
  <2>2. PICK m \in Odd : \A v \in Odd : m <= v
    <3> HIDE DEF Odd
    <3>1. QED
      BY <2>1, Least
  <2>3. m \in 0..w /\ r[m] \notin Seq(Nat)
    OBVIOUS
  <2>4. CASE m < 128
    <3>1. r[m] = <<m>>
      BY <1>7, <2>3, <2>4
    <3>2. QED
      BY <2>3, <3>1
  <2>5. CASE ~(m < 128)
    <3>1. m \in 0..w /\ m \div 128 \in 0..w /\ ~(m <= m \div 128) /\ 128 + (m % 128) \in Nat
      BY <2>3, <2>5
    <3>2. r[m \div 128] \in Seq(Nat) /\ <<128 + (m % 128)>> \in Seq(Nat)
      BY <2>2, <3>1
    <3>3. <<128 + (m % 128)>> \o r[m \div 128] \in Seq(Nat)
      BY <3>2, ConcatProperties
    <3>4. r[m] = <<128 + (m % 128)>> \o r[m \div 128]
      BY <1>7, <2>3, <2>5
    <3>5. QED
      BY <2>3, <3>3, <3>4
  <2>6. QED
    BY <2>4, <2>5
<1>9. r \in [0..w -> Seq(Nat)]
  BY <1>6, <1>8
<1>10. QED
  BY <1>7, <1>9 DEF r

\* What the bytes from each one on stand for.
LEMMA GatheredIs ==
    ASSUME NEW bytes \in Seq(Nat), bytes # <<>>
    PROVE  \A i \in 2..Len(bytes) :
               Gathered(bytes)[i] =
                   (bytes[i] % 128)
                       + IF bytes[i] < 128 THEN 0 ELSE 128 * Gathered(bytes)[i + 1]
<1> DEFINE n == Len(bytes)
           Digit(i) == bytes[i] % 128
           Ends(i) == bytes[i] < 128
           From(f, k) ==
               /\ f \in [(n + 1 - k)..(n + 1) -> Nat]
               /\ f[n + 1] = 0
               /\ \A i \in (n + 1 - k)..n :
                      f[i] = Digit(i) + IF Ends(i) THEN 0 ELSE 128 * f[i + 1]
           T == {k \in Nat : k <= n - 1 => \E f : From(f, k)}
<1>1. n \in Nat /\ n >= 1 /\ \A i \in 1..n : Digit(i) \in Nat
  <2>1. \A i \in 1..n : bytes[i] \in Nat
    OBVIOUS
  <2>2. \A b \in Nat : b % 128 \in Nat
    OBVIOUS
  <2>3. QED
    BY <2>1, <2>2
<1> HIDE DEF n, Digit, Ends
<1>2. \E f : From(f, 0)
  <2>1. From([i \in (n + 1 - 0)..(n + 1) |-> 0], 0)
    BY <1>1
  <2>2. QED
    BY <2>1
<1>3. ASSUME NEW k \in Nat, k + 1 <= n - 1, NEW f, From(f, k)
      PROVE  \E g : From(g, k + 1)
  <2> DEFINE j == n + 1 - (k + 1)
             x == Digit(j) + IF Ends(j) THEN 0 ELSE 128 * f[j + 1]
             g == [i \in j..(n + 1) |-> IF i = j THEN x ELSE f[i]]
  <2>1. j \in 1..n /\ j + 1 = n + 1 - k /\ f[j + 1] \in Nat
    BY <1>1, <1>3
  <2>2. x \in Nat
    BY <1>1, <2>1
  <2> HIDE DEF j, x
  <2>3. /\ g \in [j..(n + 1) -> Nat] /\ g[j] = x
        /\ \A i \in (j + 1)..(n + 1) : g[i] = f[i]
    BY <1>1, <1>3, <2>1, <2>2
  <2>4. g[n + 1] = 0
    BY <1>1, <1>3, <2>1, <2>3
  <2> HIDE DEF g
  <2>5. \A i \in j..n : g[i] = Digit(i) + IF Ends(i) THEN 0 ELSE 128 * g[i + 1]
    <3>1. g[j] = Digit(j) + IF Ends(j) THEN 0 ELSE 128 * g[j + 1]
      BY <1>1, <2>1, <2>3 DEF x
    <3>2. ASSUME NEW i \in (j + 1)..n
          PROVE  g[i] = Digit(i) + IF Ends(i) THEN 0 ELSE 128 * g[i + 1]
      BY <1>1, <1>3, <2>1, <2>3
    <3>3. \A i \in j..n : i = j \/ i \in (j + 1)..n
      BY <1>1, <2>1
    <3>4. QED
      BY <3>1, <3>2, <3>3
  <2>6. From(g, k + 1)
    BY <2>3, <2>4, <2>5 DEF j
  <2>7. QED
    BY <2>6
<1> HIDE DEF From
<1>4. n - 1 \in T
  <2>1. T \subseteq Nat /\ 0 \in T
    BY <1>2
  <2>2. ASSUME NEW k \in T PROVE k + 1 \in T
    <3>1. k \in Nat /\ (k <= n - 1 => \E f : From(f, k))
      OBVIOUS
    <3>2. k + 1 <= n - 1 => k <= n - 1
      BY <1>1, <3>1
    <3>3. k + 1 <= n - 1 => \E f : From(f, k + 1)
      BY <1>3, <3>1, <3>2
    <3>4. QED
      BY <3>1, <3>3
  <2>3. n - 1 \in Nat
    BY <1>1
  <2> HIDE DEF T
  <2>4. T = Nat
    BY <2>1, <2>2, Induct
  <2>5. QED
    BY <2>3, <2>4
<1>5. PICK f : From(f, n - 1)
  BY <1>1, <1>4
<1>6. n + 1 - (n - 1) = 2
  BY <1>1
<1>7. /\ f \in [2..(n + 1) -> Nat] /\ f[n + 1] = 0
      /\ \A i \in 2..n : f[i] = Digit(i) + IF Ends(i) THEN 0 ELSE 128 * f[i + 1]
  BY <1>5, <1>6 DEF From
<1>8. f = [i \in 2..(n + 1) |->
              IF i > n THEN 0 ELSE Digit(i) + IF Ends(i) THEN 0 ELSE 128 * f[i + 1]]
  <2>1. \A i \in 2..(n + 1) : IF i > n THEN i = n + 1 ELSE i \in 2..n
    BY <1>1
  <2>2. \A i \in 2..(n + 1) :
            f[i] = IF i > n THEN 0 ELSE Digit(i) + IF Ends(i) THEN 0 ELSE 128 * f[i + 1]
    BY <1>7, <2>1
  <2>3. QED
    BY <1>7, <2>2
<1> DEFINE r == Gathered(bytes)
<1>9. r = [i \in 2..(n + 1) |->
              IF i > n THEN 0 ELSE Digit(i) + IF Ends(i) THEN 0 ELSE 128 * r[i + 1]]
  BY <1>8 DEF Gathered, n, Digit, Ends
<1> HIDE DEF r
<1>10. \A i \in 2..n : i \in 2..(n + 1) /\ ~(i > n)
  BY <1>1
<1>11. \A i \in 2..n : r[i] = Digit(i) + IF Ends(i) THEN 0 ELSE 128 * r[i + 1]
  BY <1>9, <1>10
<1>12. QED
  BY <1>11 DEF r, n, Digit, Ends

\* An element between two sequences belongs to the first as well.
LEMMA PutBehind ==
    ASSUME NEW p \in Seq(Nat), NEW d \in Nat, NEW q \in Seq(Nat)
    PROVE  p \o (<<d>> \o q) = Append(p, d) \o q
  OBVIOUS

\* What stands for a number behind other bytes is read as this number.
LEMMA RestReadsBack ==
    ASSUME NEW w \in Nat
    PROVE  \A v \in 0..w : \A p \in Seq(Nat) \ {<<>>} :
               Gathered(p \o Rest(w)[v])[Len(p) + 1] = v
<1> DEFINE r == Rest(w)
           Back(v) == \A p \in Seq(Nat) \ {<<>>} : Gathered(p \o r[v])[Len(p) + 1] = v
           Odd == {v \in 0..w : ~Back(v)}
<1>1. /\ r \in [0..w -> Seq(Nat)]
      /\ \A v \in 0..w : r[v] = IF v < 128 THEN <<v>>
                                ELSE <<128 + (v % 128)>> \o r[v \div 128]
  BY RestIs
<1> HIDE DEF r
<1>2. ASSUME NEW v \in 0..w, \A u \in 0..w : u < v => Back(u)
      PROVE  Back(v)
  <2> SUFFICES ASSUME NEW p \in Seq(Nat) \ {<<>>}
               PROVE  Gathered(p \o r[v])[Len(p) + 1] = v
    OBVIOUS
  <2> DEFINE b == p \o r[v]
             n == Len(p)
  <2>1. n \in Nat /\ n >= 1 /\ p \in Seq(Nat)
    OBVIOUS
  <2>2. CASE v < 128
    <3>1. b = p \o <<v>>
      BY <1>1, <2>2
    <3>2. b \in Seq(Nat) /\ b # <<>> /\ n + 1 \in 2..Len(b) /\ b[n + 1] = v
      BY <3>1
    <3> HIDE DEF b
    <3>3. Gathered(b)[n + 1] = (b[n + 1] % 128)
              + IF b[n + 1] < 128 THEN 0 ELSE 128 * Gathered(b)[(n + 1) + 1]
      BY <3>2, GatheredIs
    <3>4. v % 128 = v
      BY <2>2
    <3>5. Gathered(b)[n + 1] = v
      BY <2>2, <3>2, <3>3, <3>4
    <3>6. QED
      BY <3>5 DEF b
  <2>3. CASE ~(v < 128)
    <3> DEFINE d == 128 + (v % 128)
               u == v \div 128
               q == Append(p, d)
    <3>1. d \in Nat /\ d >= 128 /\ u \in 0..w /\ u < v /\ (d % 128) + 128 * u = v
      BY <2>3
    <3>2. r[v] = <<d>> \o r[u] /\ r[u] \in Seq(Nat)
      BY <1>1, <2>3, <3>1
    <3> HIDE DEF d, u
    <3>3. q \in Seq(Nat) \ {<<>>} /\ Len(q) = n + 1 /\ q[n + 1] = d
      BY <3>1
    <3>4. b = q \o r[u]
      <4> DEFINE t == r[u]
      <4>1. t \in Seq(Nat) /\ b = p \o (<<d>> \o t)
        BY <3>2
      <4> HIDE DEF t, b
      <4>2. p \o (<<d>> \o t) = q \o t
        BY <2>1, <3>1, <4>1, PutBehind
      <4>3. QED
        BY <4>1, <4>2 DEF t
    <3> HIDE DEF b
    <3>5. b \in Seq(Nat) /\ b # <<>> /\ n + 1 \in 2..Len(b) /\ b[n + 1] = d
      <4> DEFINE t == r[u]
      <4>1. t \in Seq(Nat) /\ b = q \o t
        BY <3>2, <3>4
      <4> HIDE DEF t, q, n
      <4>2. /\ b \in Seq(Nat) /\ Len(b) = Len(q) + Len(t) /\ Len(t) \in Nat
            /\ \A i \in 1..Len(q) + Len(t) : b[i] = IF i <= Len(q) THEN q[i] ELSE t[i - Len(q)]
        BY <3>3, <4>1, ConcatProperties
      <4>3. n + 1 \in 2..Len(b) /\ n + 1 \in 1..Len(q) + Len(t) /\ n + 1 <= Len(q)
        BY <2>1, <3>3, <4>2
      <4>4. Len(b) # 0
        BY <2>1, <4>3
      <4>5. QED
        BY <3>3, <4>2, <4>3, <4>4
    <3>6. Gathered(b)[(n + 1) + 1] = u
      BY <1>2, <3>1, <3>3, <3>4
    <3>7. Gathered(b)[n + 1] = (b[n + 1] % 128)
              + IF b[n + 1] < 128 THEN 0 ELSE 128 * Gathered(b)[(n + 1) + 1]
      BY <3>5, GatheredIs
    <3>8. Gathered(b)[n + 1] = (d % 128) + 128 * u
      BY <3>1, <3>5, <3>6, <3>7
    <3>9. QED
      BY <3>1, <3>8 DEF b
  <2>4. QED
    BY <2>2, <2>3
<1> HIDE DEF Back
<1>3. Odd = {}
  <2> SUFFICES ASSUME Odd # {} PROVE FALSE
    OBVIOUS
  <2>1. Odd \subseteq Nat
    OBVIOUS
  <2>2. PICK m \in Odd : \A v \in Odd : m <= v
    <3> HIDE DEF Odd
    <3>1. QED
      BY <2>1, Least
  <2>3. \A u \in 0..w : u < m => Back(u)
    BY <2>2
  <2>4. QED
    BY <1>2, <2>3
<1>4. QED
  BY <1>3 DEF Back, r

\* Every integer is read as it was written, with each of the four numbers of
\* bits, below, at and above what the first byte holds.
THEOREM IntegersReadBack ==
    \A numbits \in 4..7, value \in Nat :
        decode_integer(numbits, encode_integer(numbits, value)) = value
<1> SUFFICES ASSUME NEW numbits \in 4..7, NEW value \in Nat
             PROVE  decode_integer(numbits, encode_integer(numbits, value)) = value
  OBVIOUS
<1> DEFINE max == 2^numbits - 1
           bytes == encode_integer(numbits, value)
<1>1. max \in Nat
  <2>1. numbits = 4 \/ numbits = 5 \/ numbits = 6 \/ numbits = 7
    OBVIOUS
  <2>2. 2^4 - 1 \in Nat /\ 2^5 - 1 \in Nat /\ 2^6 - 1 \in Nat /\ 2^7 - 1 \in Nat
    OBVIOUS
  <2>3. QED
    BY <2>1, <2>2
<1>2. bytes = IF value < max THEN <<value>> ELSE <<max>> \o Rest(value - max)[value - max]
  BY DEF encode_integer
<1>3. decode_integer(numbits, bytes) =
          IF bytes[1] # max THEN bytes[1] ELSE bytes[1] + Gathered(bytes)[2]
  BY DEF decode_integer
<1> HIDE DEF max, bytes
<1>4. CASE value < max
  <2>1. bytes[1] = value /\ value # max
    BY <1>1, <1>2, <1>4
  <2>2. QED
    BY <1>3, <2>1 DEF bytes
<1>5. CASE ~(value < max)
  <2> DEFINE w == value - max
             rest == Rest(w)[w]
  <2>1. w \in Nat /\ w \in 0..w /\ max + w = value
    BY <1>1, <1>5
  <2>2. bytes = <<max>> \o rest
    BY <1>2, <1>5
  <2>3. rest \in Seq(Nat)
    <3> HIDE DEF w
    <3>1. QED
      BY <2>1, RestIs
  <2>4. Gathered(<<max>> \o rest)[Len(<<max>>) + 1] = w
    <3>1. <<max>> \in Seq(Nat) \ {<<>>}
      BY <1>1
    <3> HIDE DEF w
    <3>2. QED
      BY <2>1, <3>1, RestReadsBack
  <2> HIDE DEF rest, w
  <2>5. bytes[1] = max /\ Gathered(bytes)[2] = w
    <3>1. Len(<<max>>) + 1 = 2
      OBVIOUS
    <3>2. bytes[1] = max
      BY <1>1, <2>2, <2>3
    <3>3. QED
      BY <2>2, <2>4, <3>1, <3>2
  <2>6. QED
    BY <1>3, <2>1, <2>5 DEF bytes
<1>6. QED
  BY <1>4, <1>5

-----------------------------------------------------------------------------
(* Strings and representations. *)

\* A string is read as it was written, plain or coded.
LEMMA StringsReadBack ==
    ASSUME HuffmanReadsBack, NEW text \in Name \union Value, NEW huffman \in BOOLEAN
    PROVE  Text(String(text, huffman)) = text
<1> DEFINE s == String(text, huffman)
           coded == CHOOSE c \in Huffman : c.text = text
           octets == IF huffman THEN coded.octets ELSE text
           o == encode_huffman(text)
<1>1. /\ o \in Seq(0..255) /\ text \in Seq(0..255)
      /\ \A t \in Name \union Value : decode_huffman(encode_huffman(t)) = t
  BY TableAssumption DEF HuffmanReadsBack
<1>2. \A c \in Huffman :
          /\ c.text \in Name \union Value
          /\ c.octets = encode_huffman(c.text)
          /\ c.decoded = decode_huffman(encode_huffman(c.text))
  BY DEF Huffman
<1>3. \E c \in Huffman : c.text = text
  <2> DEFINE c == [text |-> text, octets |-> o, decoded |-> decode_huffman(o)]
  <2>1. c \in Huffman
    BY DEF Huffman
  <2>2. c.text = text
    OBVIOUS
  <2>3. QED
    BY <2>1, <2>2
<1>4. coded \in Huffman /\ coded.text = text
  BY <1>3
<1>5. coded.octets = o
  <2> HIDE DEF coded
  <2>1. QED
    BY <1>2, <1>4
<1>6. octets = (IF huffman THEN o ELSE text) /\ octets \in Seq(0..255)
  BY <1>1, <1>5
<1>7. s = [huffman |-> huffman, length |-> encode_integer(7, Len(octets)),
           octets |-> octets]
  BY DEF String
<1> HIDE DEF s, octets, coded
<1>8. decode_integer(7, s.length) = Len(octets)
  <2>1. Len(octets) \in Nat /\ 7 \in 4..7
    BY <1>6
  <2>2. s.length = encode_integer(7, Len(octets))
    BY <1>7
  <2>3. QED
    BY <2>1, <2>2, IntegersReadBack
<1> DEFINE x == SubSeq(s.octets, 1, decode_integer(7, s.length))
<1>9. x = octets /\ s.huffman = huffman
  BY <1>6, <1>7, <1>8, SubSeqFull
<1>10. Text(s) = IF s.huffman THEN (CHOOSE c \in Huffman : c.octets = x).decoded ELSE x
  BY DEF Text
<1> HIDE DEF x
<1>11. CASE ~huffman
  BY <1>6, <1>9, <1>10, <1>11 DEF s
<1>12. CASE huffman
  <2> DEFINE c == CHOOSE c \in Huffman : c.octets = x
  <2>1. \E d \in Huffman : d.octets = x
    BY <1>4, <1>5, <1>6, <1>9, <1>12
  <2>2. c \in Huffman /\ c.octets = x
    BY <2>1
  <2>3. Text(s) = c.decoded
    BY <1>9, <1>10, <1>12
  <2> HIDE DEF c
  <2>4. c.decoded = decode_huffman(o)
    BY <1>2, <1>6, <1>9, <1>12, <2>2
  <2>5. decode_huffman(o) = text
    BY <1>1
  <2>6. QED
    BY <2>3, <2>4, <2>5 DEF s
<1>13. QED
  BY <1>11, <1>12

\* An indexed field stands for the entry of its index.
LEMMA IndexedField ==
    ASSUME NEW dynamic \in Seq(Header), NEW i \in 1..Len(Static \o dynamic)
    PROVE  Field(dynamic, Indexed(i)) = (Static \o dynamic)[i]
<1> DEFINE r == Indexed(i)
           all == Static \o dynamic
<1>1. r.rep = "indexed" /\ r.index = encode_integer(7, i)
  BY DEF Indexed
<1>2. i \in Nat /\ i \in 1..Len(all)
  OBVIOUS
<1>3. decode_integer(7, r.index) = i
  BY <1>1, <1>2, IntegersReadBack
<1>4. Field(dynamic, r) = At(dynamic, i)
  <2> HIDE DEF r
  <2>1. QED
    BY <1>1, <1>3 DEF Field
<1>5. At(dynamic, i) = all[i]
  BY <1>2 DEF At
<1>6. QED
  BY <1>4, <1>5

\* A literal stands for its field, when its index is that of an entry with the
\* name of the field or none.
LEMMA LiteralField ==
    ASSUME HuffmanReadsBack, NEW dynamic \in Seq(Header), NEW h \in Header,
           NEW i \in 0..Len(Static \o dynamic), NEW indexing \in BOOLEAN,
           NEW huffman \in BOOLEAN,
           i = 0 \/ (Static \o dynamic)[i].name = h.name
    PROVE  Field(dynamic, Literal(i, h, indexing, huffman)) = h
<1> DEFINE r == Literal(i, h, indexing, huffman)
           all == Static \o dynamic
           numbits == IndexBits(indexing)
<1>1. /\ r.rep = "literal" /\ r.index = encode_integer(numbits, i)
      /\ r.indexing = indexing
      /\ r.name = IF i = 0 THEN String(h.name, huffman) ELSE None
      /\ r.value = String(h.value, huffman)
  BY DEF Literal
<1>2. all \in Seq(Header)
  <2>1. Static \in Seq(Header)
    BY TableAssumption
  <2>2. QED
    BY <2>1, ConcatProperties
<1>3. Len(all) \in Nat /\ i \in Nat
  BY <1>2
<1>4. numbits \in 4..7
  BY DEF IndexBits
<1>5. h = [name |-> h.name, value |-> h.value] /\ h.name \in Name /\ h.value \in Value
  BY DEF Header
<1>6. Text(String(h.value, huffman)) = h.value /\ Text(String(h.name, huffman)) = h.name
  <2>1. h.name \in Name \union Value /\ h.value \in Name \union Value
    BY <1>5
  <2>2. QED
    BY <2>1, StringsReadBack
<1> HIDE DEF all, numbits, r
<1>7. decode_integer(numbits, r.index) = i
  BY <1>1, <1>3, <1>4, IntegersReadBack
<1>8. Field(dynamic, r) =
          IF i = 0 THEN [name |-> Text(r.name), value |-> Text(r.value)]
          ELSE IF At(dynamic, i) = None THEN None
          ELSE [name |-> At(dynamic, i).name, value |-> Text(r.value)]
  BY <1>1, <1>7 DEF Field, numbits
<1>9. CASE i = 0
  BY <1>1, <1>5, <1>6, <1>8, <1>9 DEF r
<1>10. CASE i # 0
  <2>1. At(dynamic, i) = all[i] /\ all[i] \in Header
    <3>1. i \in 1..Len(all)
      BY <1>3, <1>10 DEF all
    <3>2. At(dynamic, i) = all[i]
      BY <3>1 DEF At, all
    <3>3. QED
      BY <1>2, <3>1, <3>2, ElementOfSeq
  <2>2. all[i].name = h.name /\ all[i] # None
    BY <1>10, <2>1, TableAssumption DEF all
  <2>3. QED
    BY <1>1, <1>5, <1>6, <1>8, <1>10, <2>1, <2>2 DEF r
<1>11. QED
  BY <1>9, <1>10

\* Whatever the client chooses for a field stands for this field.
LEMMA ChoiceField ==
    ASSUME HuffmanReadsBack, peer.entries \in Seq(Header), NEW h \in Header,
           NEW r \in ClientChoice(h)
    PROVE  /\ Field(peer.entries, r) = h
           /\ r.rep \in {"indexed", "literal"}
           /\ r.rep = "literal" => r.indexing \in BOOLEAN
<1> DEFINE dynamic == peer.entries
           all == Static \o dynamic
<1>1. all \in Seq(Header) /\ Len(all) \in Nat
  <2>1. Static \in Seq(Header)
    BY TableAssumption
  <2>2. all \in Seq(Header)
    BY <2>1, ConcatProperties
  <2>3. QED
    BY <2>2, LenProperties
<1>2. \/ \E i \in 1..Len(all) : all[i] = h /\ r = Indexed(i)
      \/ \E i \in 0..Len(all), indexing \in BOOLEAN, huffman \in BOOLEAN :
             /\ i = 0 \/ all[i].name = h.name
             /\ r = Literal(i, h, indexing, huffman)
  <2> HIDE DEF all
  <2>1. \A j \in {0} \union {k \in 1..Len(all) : all[k].name = h.name} :
            j \in 0..Len(all) /\ (j = 0 \/ all[j].name = h.name)
    BY <1>1
  <2>2. r \in {Indexed(i) : i \in {j \in 1..Len(all) : all[j] = h}}
              \union {Literal(i, h, indexing, huffman) :
                          i \in {0} \union {j \in 1..Len(all) : all[j].name = h.name},
                          indexing \in BOOLEAN, huffman \in BOOLEAN}
    BY DEF ClientChoice, all
  <2>3. QED
    BY <2>1, <2>2
<1>3. CASE \E i \in 1..Len(all) : all[i] = h /\ r = Indexed(i)
  <2>1. PICK i \in 1..Len(all) : all[i] = h /\ r = Indexed(i)
    BY <1>3
  <2>2. Field(dynamic, r) = h
    BY <2>1, IndexedField
  <2>3. r.rep = "indexed"
    BY <2>1 DEF Indexed
  <2>4. QED
    BY <2>2, <2>3
<1>4. CASE \E i \in 0..Len(all), indexing \in BOOLEAN, huffman \in BOOLEAN :
               /\ i = 0 \/ all[i].name = h.name
               /\ r = Literal(i, h, indexing, huffman)
  <2>1. PICK i \in 0..Len(all), indexing \in BOOLEAN, huffman \in BOOLEAN :
               /\ i = 0 \/ all[i].name = h.name
               /\ r = Literal(i, h, indexing, huffman)
    BY <1>4
  <2>2. Field(dynamic, r) = h
    BY <2>1, LiteralField
  <2>3. r.rep = "literal" /\ r.indexing \in BOOLEAN
    BY <2>1 DEF Literal
  <2>4. QED
    BY <2>2, <2>3
<1>5. QED
  BY <1>2, <1>3, <1>4

\* What the Encoder writes stands for the field in any table of the client, as
\* it refers to the static table only, and is indexed only when it may be.
LEMMA EncodedField ==
    ASSUME HuffmanReadsBack, NEW dynamic \in Seq(Header), NEW h \in Header
    PROVE  LET e == encode(<<>>, h) IN
           /\ e.dynamic = <<>>
           /\ Field(dynamic, e.out) = h
           /\ e.out.rep = "literal" /\ e.out.indexing
                  => h.name \notin Sensitive /\ Size(h) <= Big
<1> DEFINE allowed == h.name \notin Sensitive /\ Size(h) <= Big
           e == encode(<<>>, h)
           i == best_match(<<>>, h)
           exact == {k \in 1..Len(Static) : Static[k] = h}
           named == {k \in 1..Len(Static) : Static[k].name = h.name}
           all == Static \o dynamic
<1>1. Static \in Seq(Header) /\ Len(Static) \in Nat /\ Static \o <<>> = Static
  BY TableAssumption
<1>2. /\ all \in Seq(Header) /\ Len(all) \in Nat /\ Len(Static) <= Len(all)
      /\ \A k \in 1..Len(Static) : all[k] = Static[k] /\ k \in 1..Len(all)
  <2>1. /\ all \in Seq(Header) /\ Len(all) = Len(Static) + Len(dynamic)
        /\ \A k \in 1..Len(Static) + Len(dynamic) :
               all[k] = IF k <= Len(Static) THEN Static[k] ELSE dynamic[k - Len(Static)]
    BY <1>1, ConcatProperties
  <2>2. Len(dynamic) \in Nat
    OBVIOUS
  <2> HIDE DEF all
  <2>3. QED
    BY <1>1, <2>1, <2>2
<1>3. i = IF exact # {} THEN Min(exact) ELSE IF named # {} THEN Min(named) ELSE 0
  BY <1>1 DEF best_match
<1>4. i \in 0..Len(Static) /\ (i = 0 \/ Static[i].name = h.name)
  <2>1. exact \subseteq Nat /\ named \subseteq Nat /\ exact \subseteq named
    OBVIOUS
  <2>2. (exact # {} => Min(exact) \in exact) /\ (named # {} => Min(named) \in named)
    <3> HIDE DEF exact, named
    <3>1. QED
      BY <2>1, Lowest
  <2>3. i = 0 \/ i \in named
    <3> HIDE DEF exact, named, i
    <3>1. QED
      BY <1>3, <2>1, <2>2
  <2> HIDE DEF i
  <2>4. QED
    BY <1>1, <2>3
<1>5. allowed \in BOOLEAN
  OBVIOUS
<1>6. e = IF i # 0 /\ At(<<>>, i) = h
          THEN [out |-> Indexed(i), dynamic |-> <<>>]
          ELSE [out |-> Literal(i, h, allowed, TRUE), dynamic |-> <<>>]
  BY DEF encode, Encoded
<1> HIDE DEF i, e, allowed, all
<1>7. CASE i # 0 /\ At(<<>>, i) = h
  <2>1. i \in 1..Len(Static)
    BY <1>1, <1>4, <1>7
  <2>2. Static[i] = h
    BY <1>1, <1>7, <2>1 DEF At
  <2>3. all[i] = h /\ i \in 1..Len(all)
    BY <1>2, <2>1, <2>2
  <2>4. Field(dynamic, Indexed(i)) = h
    BY <2>3, IndexedField DEF all
  <2>5. e.out = Indexed(i) /\ e.dynamic = <<>> /\ e.out.rep = "indexed"
    BY <1>6, <1>7 DEF Indexed
  <2>6. QED
    BY <2>4, <2>5 DEF e
<1>8. CASE ~(i # 0 /\ At(<<>>, i) = h)
  <2>1. i \in 0..Len(all) /\ (i = 0 \/ all[i].name = h.name)
    <3>1. i # 0 => i \in 1..Len(Static)
      BY <1>1, <1>4
    <3>2. QED
      BY <1>2, <1>4, <3>1
  <2>2. Field(dynamic, Literal(i, h, allowed, TRUE)) = h
    BY <1>5, <2>1, LiteralField DEF all
  <2>3. /\ e.out = Literal(i, h, allowed, TRUE) /\ e.dynamic = <<>>
        /\ e.out.indexing = allowed
    BY <1>6, <1>8 DEF Literal
  <2>4. QED
    BY <2>2, <2>3 DEF e, allowed
<1>9. QED
  BY <1>7, <1>8

-----------------------------------------------------------------------------
(* Steps. *)

\* The Encoder's table stays empty, so that what it writes is independent of
\* what the client has indexed of earlier replies.
IInv ==
    /\ TypeOK
    /\ TableInStep
    /\ FieldsArrive
    /\ RepliesArrive
    /\ enc = <<>>
    /\ SensitiveNotIndexed

\* The server's Table and the client's before and after a step.
LEMMA InStep ==
    ASSUME NEW hs \in Seq(Header), NEW max \in 0..MaxSize, table' = evict([dynamic |-> hs,
               size |-> Total(hs), max |-> max]),
           peer' = [entries |-> Fit(hs, max), max |-> max]
    PROVE  /\ TableInStep'
           /\ peer' \in [entries : Seq(Header), max : 0..MaxSize]
           /\ table' \in [dynamic : Seq(Header), size : Nat, max : 0..MaxSize]
<1> DEFINE t == [dynamic |-> hs, size |-> Total(hs), max |-> max]
           left == Fit(hs, max)
<1>1. max \in Nat
  BY TableAssumption
<1>2. evict(t) = [dynamic |-> left, size |-> Total(left), max |-> max]
  <2> HIDE DEF left
  <2>1. QED
    BY <1>1, EvictFits DEF left
<1>3. left \in Seq(Header) /\ Total(left) <= max
  BY <1>1, FitIs
<1>4. Total(left) \in Nat
  <2> HIDE DEF left
  <2>1. QED
    BY <1>3, TotalType
<1> HIDE DEF left
<1>5. /\ table' = [dynamic |-> left, size |-> Total(left), max |-> max]
      /\ peer' = [entries |-> left, max |-> max]
  BY <1>2 DEF left
<1>6. QED
  BY <1>3, <1>4, <1>5 DEF TableInStep

\* One more entry in front.
LEMMA OneMore ==
    ASSUME NEW h \in Header, NEW hs \in Seq(Header)
    PROVE  /\ <<h>> \o hs \in Seq(Header)
           /\ Total(hs) + Size(h) = Total(<<h>> \o hs)
<1> DEFINE one == <<h>>
<1>1. one \in Seq(Header) /\ Total(one) = Size(h)
  BY TotalSmall
<1>2. Total(hs) \in Nat /\ Size(h) \in Nat
  BY TotalType, SizeType
<1> HIDE DEF one
<1>3. one \o hs \in Seq(Header) /\ Total(one \o hs) = Total(one) + Total(hs)
  BY <1>1, ConcatProperties, TotalConcat
<1>4. QED
  BY <1>1, <1>2, <1>3 DEF one

\* A new connection.
LEMMA InitIInv == Init => IInv
<1> SUFFICES ASSUME Init PROVE IInv
  OBVIOUS
<1>1. /\ phase = "request" /\ sent = None /\ got = None /\ enc = <<>> /\ mirror = <<>>
      /\ peer = [entries |-> <<>>, max |-> MaxSize]
      /\ table = [dynamic |-> <<>>, size |-> 0, max |-> MaxSize]
  BY DEF Init
<1>2. MaxSize \in 0..MaxSize /\ 0 <= MaxSize /\ 0 \in Nat /\ <<>> \in Seq(Header)
  BY TableAssumption
<1>3. TypeOK
  BY <1>1, <1>2 DEF TypeOK
<1>4. TableInStep
  BY <1>1, <1>2, TotalSmall DEF TableInStep
<1>5. FieldsArrive /\ RepliesArrive /\ SensitiveNotIndexed
  BY <1>1 DEF FieldsArrive, RepliesArrive, SensitiveNotIndexed
<1>6. QED
  BY <1>1, <1>3, <1>4, <1>5 DEF IInv

\* The client resizes its table.
LEMMA SizeUpdateIInv ==
    ASSUME IInv, NEW m \in Updates, SizeUpdate(m)
    PROVE  IInv'
<1>1. /\ m \in 0..MaxSize /\ m \in Nat
      /\ decode_integer(5, encode_integer(5, m)) = m
  <2>1. m \in 0..MaxSize /\ m \in Nat /\ 5 \in 4..7
    BY TableAssumption
  <2>2. QED
    BY <2>1, IntegersReadBack
<1>2. /\ peer' = [entries |-> Fit(peer.entries, m), max |-> m]
      /\ table' = set_max_size(table, m)
      /\ UNCHANGED <<phase, sent, got, enc, mirror>>
  BY <1>1 DEF SizeUpdate
<1> DEFINE hs == peer.entries
<1>3. /\ hs \in Seq(Header)
      /\ [table EXCEPT !.max = m] = [dynamic |-> hs, size |-> Total(hs), max |-> m]
  BY DEF IInv, TypeOK, TableInStep
<1>4. table' = evict([dynamic |-> hs, size |-> Total(hs), max |-> m])
  BY <1>2, <1>3 DEF set_max_size
<1>5. /\ TableInStep'
      /\ peer' \in [entries : Seq(Header), max : 0..MaxSize]
      /\ table' \in [dynamic : Seq(Header), size : Nat, max : 0..MaxSize]
  <2> HIDE DEF hs
  <2>1. QED
    BY <1>1, <1>2, <1>3, <1>4, InStep DEF hs
<1>6. TypeOK'
  BY <1>2, <1>5 DEF IInv, TypeOK
<1>7. QED
  BY <1>2, <1>5, <1>6 DEF IInv, FieldsArrive, RepliesArrive, SensitiveNotIndexed

\* A field of a request.
LEMMA RequestFieldIInv ==
    ASSUME HuffmanReadsBack, IInv, NEW h \in Used, RequestField(h)
    PROVE  IInv'
<1>1. h \in Header /\ h # None
  BY TableAssumption
<1>2. /\ peer \in [entries : Seq(Header), max : 0..MaxSize]
      /\ table \in [dynamic : Seq(Header), size : Nat, max : 0..MaxSize]
      /\ table.dynamic = peer.entries /\ table.max = peer.max
      /\ table.size = Total(peer.entries) /\ TableInStep
  BY DEF IInv, TypeOK, TableInStep
<1>3. PICK r \in ClientChoice(h) :
          /\ peer' = IF r.rep = "literal" /\ r.indexing
                     THEN [peer EXCEPT !.entries = Fit(<<h>> \o @, peer.max)]
                     ELSE peer
          /\ decode(r)
  BY DEF RequestField
<1>4. phase = "request" /\ sent' = h /\ UNCHANGED <<phase, enc, mirror>>
  BY DEF RequestField
<1>5. Field(table.dynamic, r) = h
  BY <1>1, <1>2, ChoiceField
<1>6. /\ got' = h
      /\ table' = IF r.rep = "literal" /\ r.indexing THEN add(table, h) ELSE table
  BY <1>1, <1>3, <1>5 DEF decode
<1>7. /\ TableInStep'
      /\ peer' \in [entries : Seq(Header), max : 0..MaxSize]
      /\ table' \in [dynamic : Seq(Header), size : Nat, max : 0..MaxSize]
  <2>1. CASE r.rep = "literal" /\ r.indexing
    <3> DEFINE hs == <<h>> \o peer.entries
    <3>1. hs \in Seq(Header) /\ Total(peer.entries) + Size(h) = Total(hs)
      BY <1>1, <1>2, OneMore
    <3>2. peer' = [entries |-> Fit(hs, peer.max), max |-> peer.max]
      BY <1>2, <1>3, <2>1
    <3>3. [table EXCEPT !.dynamic = <<h>> \o @, !.size = @ + Size(h)] =
              [dynamic |-> hs, size |-> Total(hs), max |-> peer.max]
      <4> DEFINE u == [table EXCEPT !.dynamic = <<h>> \o @, !.size = @ + Size(h)]
      <4>1. /\ table.dynamic = peer.entries /\ table.size = Total(peer.entries)
            /\ table.max = peer.max /\ hs = <<h>> \o table.dynamic
        BY <1>2
      <4>2. Size(h) \in Nat
        BY <1>1, SizeType
      <4> HIDE DEF hs
      <4>3. /\ u \in [dynamic : Seq(Header), size : Nat, max : 0..MaxSize]
            /\ u.dynamic = hs /\ u.size = table.size + Size(h) /\ u.max = table.max
        <5> DEFINE z == table.size + Size(h)
                   v == [table EXCEPT !.dynamic = hs, !.size = z]
        <5>1. z \in Nat /\ u = v
          BY <1>2, <4>1, <4>2
        <5> HIDE DEF z
        <5>2. /\ v \in [dynamic : Seq(Header), size : Nat, max : 0..MaxSize]
              /\ v.dynamic = hs /\ v.size = z /\ v.max = table.max
          BY <1>2, <3>1, <5>1
        <5> HIDE DEF u, v
        <5>3. QED
          BY <5>1, <5>2 DEF z
      <4> HIDE DEF u
      <4>4. u = [dynamic |-> hs, size |-> Total(hs), max |-> peer.max]
        BY <3>1, <4>1, <4>3
      <4>5. QED
        BY <4>4 DEF u
    <3>4. table' = evict([dynamic |-> hs, size |-> Total(hs), max |-> peer.max])
      BY <1>6, <2>1, <3>3 DEF add
    <3> HIDE DEF hs
    <3>5. peer.max \in 0..MaxSize
      BY <1>2
    <3>6. QED
      BY <3>1, <3>2, <3>4, <3>5, InStep
  <2>2. CASE ~(r.rep = "literal" /\ r.indexing)
    BY <1>2, <1>3, <1>6, <2>2 DEF TableInStep
  <2>3. QED
    BY <2>1, <2>2
<1>8. TypeOK'
  BY <1>1, <1>4, <1>6, <1>7 DEF IInv, TypeOK
<1>9. FieldsArrive' /\ RepliesArrive' /\ SensitiveNotIndexed' /\ enc' = <<>>
  BY <1>4, <1>6 DEF IInv, FieldsArrive, RepliesArrive, SensitiveNotIndexed
<1>10. QED
  BY <1>7, <1>8, <1>9 DEF IInv

\* A field of a reply.
LEMMA ReplyFieldIInv ==
    ASSUME HuffmanReadsBack, IInv, NEW h \in Used, ReplyField(h)
    PROVE  IInv'
<1> DEFINE e == encode(enc, h)
<1>1. h \in Header /\ h # None /\ MaxSize \in Nat
  BY TableAssumption
<1>2. mirror \in Seq(Header) /\ enc = <<>>
  BY DEF IInv, TypeOK
<1>3. /\ phase = "reply" /\ sent' = h /\ enc' = e.dynamic /\ got' = Field(mirror, e.out)
      /\ mirror' = IF e.out.rep = "literal" /\ e.out.indexing /\ got' # None
                   THEN Fit(<<got'>> \o mirror, MaxSize) ELSE mirror
      /\ UNCHANGED <<phase, peer, table>>
  BY DEF ReplyField
<1>4. /\ e.dynamic = <<>> /\ Field(mirror, e.out) = h
      /\ e.out.rep = "literal" /\ e.out.indexing
             => h.name \notin Sensitive /\ Size(h) <= Big
  BY <1>1, <1>2, EncodedField
<1> HIDE DEF e
<1>5. got' = h /\ enc' = <<>>
  BY <1>3, <1>4
<1>6. mirror' \in Seq(Header) /\ SensitiveNotIndexed'
  <2>1. CASE mirror' = mirror
    BY <1>2, <2>1 DEF IInv, SensitiveNotIndexed
  <2>2. CASE mirror' # mirror
    <3> DEFINE hs == <<h>> \o mirror
    <3>1. h.name \notin Sensitive /\ Size(h) <= Big /\ mirror' = Fit(hs, MaxSize)
      BY <1>3, <1>4, <1>5, <2>2
    <3>2. hs \in Seq(Header)
      BY <1>1, <1>2, OneMore
    <3>3. \A i \in 1..Len(hs) : hs[i].name \notin Sensitive /\ Size(hs[i]) <= Big
      <4>1. \A i \in 1..Len(hs) : hs[i] = h \/ \E j \in 1..Len(mirror) : hs[i] = mirror[j]
        <5>1. SUFFICES ASSUME NEW i \in 1..Len(hs), i # 1
                       PROVE  \E j \in 1..Len(mirror) : hs[i] = mirror[j]
          BY <1>1, <1>2
        <5>2. i - 1 \in 1..Len(mirror) /\ hs[i] = mirror[i - 1]
          BY <1>2, <5>1
        <5>3. QED
          BY <5>2
      <4>2. \A j \in 1..Len(mirror) :
                mirror[j].name \notin Sensitive /\ Size(mirror[j]) <= Big
        BY DEF IInv, SensitiveNotIndexed
      <4> HIDE DEF hs
      <4>3. QED
        BY <3>1, <4>1, <4>2
    <3> HIDE DEF hs
    <3>4. /\ Fit(hs, MaxSize) \in Seq(Header)
          /\ \E k \in 0..Len(hs) : Fit(hs, MaxSize) = SubSeq(hs, 1, k)
      BY <1>1, <3>2, FitIs
    <3>5. PICK k \in 0..Len(hs) : mirror' = SubSeq(hs, 1, k)
      BY <3>1, <3>4
    <3>6. /\ Len(mirror') = k /\ k <= Len(hs)
          /\ \A i \in 1..k : mirror'[i] = hs[i] /\ i \in 1..Len(hs)
      BY <3>2, <3>5
    <3>7. SensitiveNotIndexed'
      BY <3>3, <3>6 DEF SensitiveNotIndexed
    <3>8. QED
      BY <3>1, <3>4, <3>7
  <2>3. QED
    BY <2>1, <2>2
<1>7. TypeOK'
  BY <1>1, <1>3, <1>5, <1>6 DEF IInv, TypeOK
<1>8. TableInStep' /\ FieldsArrive' /\ RepliesArrive'
  BY <1>3, <1>5 DEF IInv, TableInStep, FieldsArrive, RepliesArrive
<1>9. QED
  BY <1>5, <1>6, <1>7, <1>8 DEF IInv

\* The turns between requests and replies.
LEMMA TurnIInv ==
    ASSUME IInv, BeginReply \/ EndReply
    PROVE  IInv'
<1>1. /\ phase' \in {"request", "reply"} /\ sent' = None /\ got' = None /\ enc' = <<>>
      /\ UNCHANGED <<peer, table, mirror>>
  BY DEF BeginReply, EndReply, IInv
<1>2. TypeOK'
  BY <1>1 DEF IInv, TypeOK
<1>3. QED
  BY <1>1, <1>2 DEF IInv, TableInStep, FieldsArrive, RepliesArrive, SensitiveNotIndexed

\* Every step keeps IInv.
LEMMA NextIInv == HuffmanReadsBack /\ IInv /\ [Next]_vars => IInv'
<1> SUFFICES ASSUME HuffmanReadsBack, IInv, [Next]_vars PROVE IInv'
  OBVIOUS
<1>1. CASE UNCHANGED vars
  BY <1>1 DEF vars, IInv, TypeOK, TableInStep, FieldsArrive, RepliesArrive,
              SensitiveNotIndexed
<1>2. QED
  BY <1>1, SizeUpdateIInv, RequestFieldIInv, ReplyFieldIInv, TurnIInv DEF Next

\* IInv holds in every reachable state.
THEOREM Invariance == ASSUME HuffmanReadsBack PROVE Spec => []IInv
  BY InitIInv, NextIInv, PTL DEF Spec

\* Both tables and what is coded always have their types.
THEOREM TypeCorrect == ASSUME HuffmanReadsBack PROVE Spec => []TypeOK
<1>1. IInv => TypeOK
  BY DEF IInv
<1>2. QED
  BY <1>1, Invariance, PTL

\* The Decoder's Table is the table of the client's encoder, entry by entry
\* and with the right size, although neither is ever sent: whatever the client
\* indexes, evicts or resizes, and whatever the sizes are.
THEOREM TablesInStep == ASSUME HuffmanReadsBack PROVE Spec => []TableInStep
<1>1. IInv => TableInStep
  BY DEF IInv
<1>2. QED
  BY <1>1, Invariance, PTL

\* Every field of a request is decoded as the client meant it, in every
\* representation the client may choose.
THEOREM FieldsComeThrough == ASSUME HuffmanReadsBack PROVE Spec => []FieldsArrive
<1>1. IInv => FieldsArrive
  BY DEF IInv
<1>2. QED
  BY <1>1, Invariance, PTL

\* Every field of a reply is read as the server meant it, although each reply
\* has an Encoder of its own.
THEOREM RepliesComeThrough == ASSUME HuffmanReadsBack PROVE Spec => []RepliesArrive
<1>1. IInv => RepliesArrive
  BY DEF IInv
<1>2. QED
  BY <1>1, Invariance, PTL

\* No sensitive and no big field of a reply gets into the client's table.
THEOREM SensitiveStaysOut == ASSUME HuffmanReadsBack PROVE Spec => []SensitiveNotIndexed
<1>1. IInv => SensitiveNotIndexed
  BY DEF IInv
<1>2. QED
  BY <1>1, Invariance, PTL
=============================================================================
