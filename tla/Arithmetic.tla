------------------------------ MODULE Arithmetic ------------------------------
(***************************************************************************)
(* Products, quotients and remainders, for the proofs about blocks, and    *)
(* the least of a set of naturals, for proofs by induction.                *)
(***************************************************************************)
EXTENDS Integers, WellFoundedInduction, TLAPS

\* Products of naturals are naturals.
LEMMA Product ==
  ASSUME NEW m \in Nat, NEW n \in Nat
  PROVE  m * n \in Nat
OBVIOUS

\* Multiples of M are M apart.
LEMMA Apart ==
  ASSUME NEW M \in Nat, NEW k \in Nat, NEW l \in Nat, k < l
  PROVE  k * M + M <= l * M
<1>1. (k + 1) * M <= l * M
  OBVIOUS
<1>2. (k + 1) * M = k * M + M
  OBVIOUS
<1> QED
  BY <1>1, <1>2

\* Quotient and remainder.
LEMMA DivMod ==
  ASSUME NEW M \in Nat \ {0}, NEW x \in Nat
  PROVE  \E q \in Nat, r \in Nat : x = q * M + r /\ r < M /\ x % M = r
<1>1. /\ x = (x \div M) * M + (x % M)
      /\ x % M \in 0 .. (M - 1)
      /\ x \div M \in Nat
  OBVIOUS
<1> DEFINE q == x \div M
           r == x % M
<1>2. q \in Nat /\ r \in Nat /\ x = q * M + r /\ r < M /\ x % M = r
  BY <1>1
<1> HIDE DEF q, r
<1> QED
  BY <1>2

\* The remainder is unique.
LEMMA ModOf ==
  ASSUME NEW M \in Nat \ {0}, NEW q \in Nat, NEW s \in Nat, s < M
  PROVE  (q * M + s) % M = s
<1>1. PICK t \in Nat, r \in Nat : q * M + s = t * M + r /\ r < M /\ (q * M + s) % M = r
  BY DivMod, Product
<1> DEFINE a == q * M
           b == t * M
<1>2. a \in Nat /\ b \in Nat /\ a + s = b + r
  BY <1>1, Product
<1>3. q < t => a + M <= b
  BY Apart
<1>4. t < q => b + M <= a
  BY Apart
<1> HIDE DEF a, b
<1>5. ~ (q < t) /\ ~ (t < q)
  BY <1>1, <1>2, <1>3, <1>4
<1>6. a = b
  BY <1>5 DEF a, b
<1> QED
  BY <1>1, <1>2, <1>6


\* A set of naturals has a least element; a proof by induction takes that of
\* the counterexamples.
LEMMA LeastExists ==
  ASSUME NEW T, T \subseteq Nat, T # {}
  PROVE  \E m \in T : \A k \in T : m <= k
<1> DEFINE R == {p \in Nat \X Nat : p[1] < p[2]}
<1>1. IsWellFoundedOn(R, Nat)
  BY NatLessThanWellFounded DEF OpToRel
<1>2. \E m \in T : \A k \in T : <<k, m>> \notin R
  <2> HIDE DEF R
  <2> QED
    BY <1>1, WFMin
<1>3. PICK m \in T : \A k \in T : <<k, m>> \notin R
  BY <1>2
<1>4. ASSUME NEW k \in T, k < m PROVE FALSE
  <2>1. <<k, m>> \in Nat \X Nat /\ <<k, m>>[1] < <<k, m>>[2]
    BY <1>4
  <2>2. <<k, m>> \in R
    BY <2>1
  <2> QED
    BY <1>3, <2>2
<1> QED
  BY <1>3, <1>4

\* Induction up to n, over the numbers that a claim holds of.
LEMMA InductionTo ==
  ASSUME NEW n \in Nat, NEW T, 0 \in T, \A k \in 0 .. n - 1 : k \in T => k + 1 \in T
  PROVE  \A k \in 0 .. n : k \in T
<1> DEFINE C == {k \in 0 .. n : k \notin T}
<1>1. ASSUME C # {} PROVE FALSE
  <2>1. C \subseteq Nat
    OBVIOUS
  <2>2. PICK m \in C : \A k \in C : m <= k
    <3> HIDE DEF C
    <3> QED
      BY <1>1, <2>1, LeastExists
  <2>3. m \in 0 .. n /\ m \notin T /\ m # 0
    OBVIOUS
  <2>4. m - 1 \in 0 .. n - 1 /\ m - 1 \notin C /\ m - 1 + 1 = m
    BY <2>2, <2>3
  <2>5. m - 1 \in T
    BY <2>4
  <2> QED
    BY <2>3, <2>4, <2>5
<1> QED
  BY <1>1

\* A function defined by iteration up to n: h gives each value from the one before.
Iterates(f, S, x, n, h) ==
  f \in [0 .. n -> S] /\ f[0] = x /\ \A i \in 1 .. n : f[i] = h[<<i, f[i - 1]>>]

LEMMA IterationExists ==
  ASSUME NEW S, NEW x \in S, NEW n \in Nat, NEW h \in [(1 .. n) \X S -> S]
  PROVE  \E f : Iterates(f, S, x, n, h)
<1> DEFINE T == {k \in 0 .. n : \E f : Iterates(f, S, x, k, h)}
<1>1. 0 \in T
  <2> DEFINE f == [i \in 0 .. 0 |-> x]
  <2>1. f \in [0 .. 0 -> S] /\ f[0] = x
    OBVIOUS
  <2>2. Iterates(f, S, x, 0, h)
    BY <2>1 DEF Iterates
  <2> QED
    BY <2>2
<1>2. ASSUME NEW k \in 0 .. n - 1, k \in T
      PROVE  k + 1 \in T
  <2>1. PICK f : Iterates(f, S, x, k, h)
    BY <1>2
  <2>2. f \in [0 .. k -> S] /\ f[0] = x /\ \A i \in 1 .. k : f[i] = h[<<i, f[i - 1]>>]
    BY <2>1 DEF Iterates
  <2>3. PICK y \in S : y = h[<<k + 1, f[k]>>]
    <3>1. <<k + 1, f[k]>> \in (1 .. n) \X S
      BY <2>2
    <3> QED
      BY <3>1
  <2> DEFINE g == [i \in 0 .. k + 1 |-> IF i = k + 1 THEN y ELSE f[i]]
  <2>4. g \in [0 .. k + 1 -> S] /\ g[0] = x /\ g[k + 1] = y /\ \A i \in 0 .. k : g[i] = f[i]
    BY <2>2, <2>3
  <2> HIDE DEF g
  <2>5. ASSUME NEW i \in 1 .. k + 1 PROVE g[i] = h[<<i, g[i - 1]>>]
    <3>1. CASE i = k + 1
      <4>1. i - 1 = k /\ g[k] = f[k]
        BY <2>4, <3>1
      <4> QED
        BY <2>3, <2>4, <3>1, <4>1
    <3>2. CASE i # k + 1
      <4>1. i \in 1 .. k /\ i \in 0 .. k /\ i - 1 \in 0 .. k
        BY <3>2
      <4>2. g[i] = f[i] /\ g[i - 1] = f[i - 1]
        BY <2>4, <4>1
      <4> QED
        BY <2>2, <4>1, <4>2
    <3> QED
      BY <3>1, <3>2
  <2>6. Iterates(g, S, x, k + 1, h)
    BY <2>4, <2>5 DEF Iterates
  <2> QED
    BY <2>6
<1> HIDE DEF T
<1>3. \A k \in 0 .. n : k \in T
  BY <1>1, <1>2, InductionTo
<1> QED
  BY <1>3 DEF T
=============================================================================
