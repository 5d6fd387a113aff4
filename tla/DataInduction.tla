--------------------------- MODULE DataInduction ---------------------------
(***************************************************************************)
(* Induction over data.  The induction theorems of the library quantify    *)
(* over predicates; here a predicate is the set of the numbers that have   *)
(* it, and the principles follow from the well-foundedness of < on Nat.    *)
(***************************************************************************)
EXTENDS Integers, SequencesExt, SequenceTheorems, WellFoundedInduction, TLAPS

\* A set of numbers with a member has a least one.
LEMMA LeastNumber ==
  ASSUME NEW T \in SUBSET Nat, T # {}
  PROVE  \E x \in T : \A y \in T : x <= y
<1>. DEFINE R == OpToRel(<, Nat)
<1>1. IsWellFoundedOn(R, Nat)
  BY NatLessThanWellFounded, Zenon
<1>2. R = {ss \in Nat \X Nat : ss[1] < ss[2]}
  BY Zenon DEF OpToRel
<1>3. ASSUME NEW x \in Nat, NEW y \in Nat, y < x PROVE <<y, x>> \in R
  BY <1>2, <1>3
<1>. HIDE DEF R
<1>4. PICK x \in T : \A y \in T : ~(<<y, x>> \in R)
  BY <1>1, WFMin
<1>5. \A y \in T : ~(y < x)
  BY <1>3, <1>4
<1>. QED  BY <1>5

\* A set that holds 0, and with a number its successor, holds all numbers.
LEMMA Induction ==
  ASSUME NEW S \in SUBSET Nat, 0 \in S, \A n \in S : n + 1 \in S
  PROVE  S = Nat
<1>. SUFFICES ASSUME Nat \ S # {} PROVE FALSE
  OBVIOUS
<1>1. PICK x \in Nat \ S : \A y \in Nat \ S : x <= y
  <2>. DEFINE T == Nat \ S
  <2>1. T \in SUBSET Nat /\ T # {}
    OBVIOUS
  <2>. HIDE DEF T
  <2>2. \E x \in T : \A y \in T : x <= y
    BY <2>1, LeastNumber
  <2>. QED  BY <2>2 DEF T
<1>2. x # 0 /\ x - 1 \in Nat
  BY <1>1
<1>3. x - 1 \in S
  BY <1>1, <1>2
<1>4. (x - 1) + 1 = x
  BY <1>1
<1>. QED  BY <1>1, <1>3, <1>4

\* A function may be defined by its value at 0 and a step.
Starts(S, b, g, n) ==
  {h \in [0..n -> S] : h[0] = b /\ \A i \in 0..(n - 1) : h[i + 1] = g[<<i, h[i]>>]}

LEMMA StartsAgree ==
  ASSUME NEW S, NEW b \in S, NEW g \in [Nat \X S -> S], NEW m \in Nat, NEW n \in Nat,
         NEW h \in Starts(S, b, g, m), NEW k \in Starts(S, b, g, n)
  PROVE  \A i \in Nat : i <= m /\ i <= n => h[i] = k[i]
<1>. DEFINE T == {i \in Nat : i <= m /\ i <= n => h[i] = k[i]}
<1>1. T \in SUBSET Nat /\ 0 \in T
  BY DEF Starts
<1>2. ASSUME NEW i \in T PROVE i + 1 \in T
  <2>. SUFFICES ASSUME i + 1 <= m, i + 1 <= n PROVE h[i + 1] = k[i + 1]
    OBVIOUS
  <2>1. h[i] = k[i] /\ i \in 0..(m - 1) /\ i \in 0..(n - 1)
    OBVIOUS
  <2>2. h[i + 1] = g[<<i, h[i]>>] /\ k[i + 1] = g[<<i, k[i]>>]
    BY <2>1 DEF Starts
  <2>. QED  BY <2>1, <2>2
<1>. HIDE DEF T
<1>3. T = Nat
  BY <1>1, <1>2, Induction
<1>. QED  BY <1>3 DEF T

LEMMA StartsExist ==
  ASSUME NEW S, NEW b \in S, NEW g \in [Nat \X S -> S]
  PROVE  \A n \in Nat : Starts(S, b, g, n) # {}
<1>. DEFINE T == {n \in Nat : Starts(S, b, g, n) # {}}
<1>1. 0 \in T
  <2>1. [i \in 0..0 |-> b] \in Starts(S, b, g, 0)
    BY DEF Starts
  <2>. QED  BY <2>1
<1>2. ASSUME NEW n \in T PROVE n + 1 \in T
  <2>1. PICK h \in [0..n -> S] : h[0] = b /\ \A i \in 0..(n - 1) : h[i + 1] = g[<<i, h[i]>>]
    BY DEF Starts
  <2>. DEFINE k == [i \in 0..(n + 1) |-> IF i <= n THEN h[i] ELSE g[<<n, h[n]>>]]
  <2>2. h[n] \in S /\ g[<<n, h[n]>>] \in S /\ k[n + 1] = g[<<n, h[n]>>] /\ k[n] = h[n]
    OBVIOUS
  <2>3. k \in [0..(n + 1) -> S] /\ k[0] = b
    BY <2>1, <2>2
  <2>4. ASSUME NEW i \in 0..n PROVE k[i + 1] = g[<<i, k[i]>>]
    <3>1. CASE i = n
      BY <2>2, <3>1
    <3>2. CASE i # n
      <4>1. i \in 0..(n - 1) /\ k[i] = h[i] /\ k[i + 1] = h[i + 1]
        BY <3>2
      <4>. QED  BY <2>1, <4>1
    <3>. QED  BY <3>1, <3>2
  <2>5. k \in Starts(S, b, g, n + 1)
    <3>1. (n + 1) - 1 = n
      OBVIOUS
    <3>. HIDE DEF k
    <3>. QED  BY <2>3, <2>4, <3>1 DEF Starts
  <2>. QED  BY <2>5
<1>. HIDE DEF T
<1>3. T = Nat
  BY <1>1, <1>2, Induction DEF T
<1>. QED  BY <1>3 DEF T

Defines(S, b, g) == \E f \in [Nat -> S] : f[0] = b /\ \A n \in Nat : f[n + 1] = g[<<n, f[n]>>]

LEMMA Recursion ==
  ASSUME NEW S, NEW b \in S, NEW g \in [Nat \X S -> S] PROVE Defines(S, b, g)
<1>. DEFINE P(n) == Starts(S, b, g, n)  c(n) == CHOOSE h \in P(n) : TRUE
           f == [n \in Nat |-> c(n)[n]]
<1>1. \A n \in Nat : c(n) \in P(n)
  BY StartsExist
<1>. HIDE DEF c
<1>2. \A n \in Nat : c(n)[n] \in S /\ c(n)[0] = b
  BY <1>1 DEF Starts
<1>3. ASSUME NEW n \in Nat PROVE c(n + 1)[n + 1] = g[<<n, c(n)[n]>>]
  <2>1. c(n) \in P(n) /\ c(n + 1) \in P(n + 1) /\ n + 1 \in Nat
    BY <1>1
  <2>2. c(n + 1)[n] = c(n)[n]
    <3>. HIDE DEF P
    <3>1. n <= n /\ n <= n + 1
      OBVIOUS
    <3>2. ASSUME NEW h \in Starts(S, b, g, n), NEW k \in Starts(S, b, g, n + 1)
          PROVE  h[n] = k[n]
      BY <2>1, <3>1, StartsAgree
    <3>. QED  BY <2>1, <3>2 DEF P
  <2>3. c(n + 1)[n + 1] = g[<<n, c(n + 1)[n]>>]
    BY <2>1 DEF Starts
  <2>. QED  BY <2>2, <2>3
<1>4. f \in [Nat -> S] /\ f[0] = b
  BY <1>2
<1>5. \A n \in Nat : f[n + 1] = g[<<n, f[n]>>]
  BY <1>3
<1>. HIDE DEF f
<1>. QED  BY <1>4, <1>5 DEF Defines

\* The parts of a sequence of sequences, put together, are a sequence of their
\* elements.
LEMMA FlattenType ==
  ASSUME NEW S, NEW s \in Seq(Seq(S)) PROVE FlattenSeq(s) \in Seq(S)
<1>1. CASE Len(s) = 0
  <2>1. s = <<>>
    BY <1>1, EmptySeq
  <2>. QED  BY <1>1, <2>1 DEF FlattenSeq
<1>2. CASE Len(s) # 0
  <2>. DEFINE n == Len(s)
              Step(f) == [i \in 1..n |-> IF i = 1 THEN s[i] ELSE f[i - 1] \o s[i]]
              fl == CHOOSE f : f = Step(f)
              g == [p \in Nat \X Seq(S) |-> IF p[1] + 2 <= n THEN p[2] \o s[p[1] + 2] ELSE p[2]]
  <2>1. n \in Nat /\ n >= 1 /\ \A i \in 1..n : s[i] \in Seq(S)
    BY <1>2
  <2>2. FlattenSeq(s) = fl[n]
    BY <1>2, Zenon DEF FlattenSeq
  <2>. HIDE DEF n
  <2>3. g \in [Nat \X Seq(S) -> Seq(S)]
    <3>1. ASSUME NEW p \in Nat \X Seq(S)
          PROVE  (IF p[1] + 2 <= n THEN p[2] \o s[p[1] + 2] ELSE p[2]) \in Seq(S)
      <4>1. p[1] \in Nat /\ p[2] \in Seq(S)
        OBVIOUS
      <4>2. CASE p[1] + 2 <= n
        <5>1. s[p[1] + 2] \in Seq(S)
          BY <2>1, <4>1, <4>2
        <5>. QED  BY <4>1, <4>2, <5>1, ConcatProperties
      <4>. QED  BY <4>1, <4>2
    <3>. QED  BY <3>1
  <2>4. s[1] \in Seq(S)
    BY <2>1
  <2>5. PICK r \in [Nat -> Seq(S)] : r[0] = s[1] /\ \A i \in Nat : r[i + 1] = g[<<i, r[i]>>]
    <3>. DEFINE Q == Seq(S)  b == s[1]
    <3>1. g \in [Nat \X Q -> Q] /\ b \in Q
      BY <2>3, <2>4
    <3>. HIDE DEF g, Q, b
    <3>2. Defines(Q, b, g)
      BY <3>1, Recursion
    <3>. QED  BY <3>2 DEF Defines, Q, b
  <2>. DEFINE f == [i \in 1..n |-> r[i - 1]]
  <2>6. \A i \in 1..n : i # 1 => r[i - 1] = r[i - 2] \o s[i]
    <3>. SUFFICES ASSUME NEW i \in 1..n, i # 1 PROVE r[i - 1] = r[i - 2] \o s[i]
      OBVIOUS
    <3>1. i - 2 \in Nat /\ (i - 2) + 1 = i - 1 /\ (i - 2) + 2 = i /\ i <= n
      BY <2>1
    <3>2. r[i - 1] = g[<<i - 2, r[i - 2]>>] /\ r[i - 2] \in Seq(S)
      <4>. HIDE DEF g
      <4>1. PICK k \in Nat : k = i - 2
        BY <3>1
      <4>2. r[k + 1] = g[<<k, r[k]>>] /\ r[k] \in Seq(S)
        BY <2>5
      <4>. QED  BY <3>1, <4>1, <4>2
    <3>. QED  BY <3>1, <3>2
  <2>. HIDE DEF g
  <2>7. \A i \in 1..n : f[i] = IF i = 1 THEN s[i] ELSE f[i - 1] \o s[i]
    <3>. SUFFICES ASSUME NEW i \in 1..n PROVE f[i] = IF i = 1 THEN s[i] ELSE f[i - 1] \o s[i]
      OBVIOUS
    <3>1. CASE i = 1
      BY <2>1, <2>5, <3>1
    <3>2. CASE i # 1
      <4>1. i - 1 \in 1..n /\ (i - 1) - 1 = i - 2
        BY <2>1, <3>2
      <4>. QED  BY <2>6, <3>2, <4>1
    <3>. QED  BY <3>1, <3>2
  <2>8. f = Step(f)
    <3>1. f = [i \in 1..n |-> f[i]]
      OBVIOUS
    <3>. HIDE DEF f
    <3>. QED  BY <2>7, <3>1
  <2>9. fl = Step(fl)
    <3>1. \E h : h = Step(h)
      BY <2>8
    <3>. QED  BY <3>1, Zenon
  <2>. HIDE DEF fl, f
  <2>. DEFINE T == {i \in Nat : i + 1 <= n => fl[i + 1] \in Seq(S)}
  <2>10. \A i \in 1..n : fl[i] = IF i = 1 THEN s[i] ELSE fl[i - 1] \o s[i]
    BY <2>9
  <2>. HIDE DEF Step
  <2>11. 0 \in T
    BY <2>1, <2>10
  <2>12. ASSUME NEW i \in T PROVE i + 1 \in T
    <3>. SUFFICES ASSUME (i + 1) + 1 <= n PROVE fl[(i + 1) + 1] \in Seq(S)
      OBVIOUS
    <3>1. fl[i + 1] \in Seq(S) /\ i + 2 \in 1..n /\ i + 2 # 1 /\ (i + 2) - 1 = i + 1
          /\ (i + 1) + 1 = i + 2
      BY <2>1
    <3>2. fl[i + 2] = fl[i + 1] \o s[i + 2] /\ s[i + 2] \in Seq(S)
      BY <2>1, <2>10, <3>1
    <3>3. fl[i + 1] \in Seq(S) /\ s[i + 2] \in Seq(S)
      BY ONLY <3>1, <3>2
    <3>4. fl[i + 1] \o s[i + 2] \in Seq(S)
      BY ONLY <3>3, ConcatProperties
    <3>. QED  BY ONLY <3>1, <3>2, <3>4
  <2>. HIDE DEF T
  <2>13. T = Nat
    BY <2>11, <2>12, Induction DEF T
  <2>14. n - 1 \in T /\ (n - 1) + 1 = n
    BY <2>1, <2>13
  <2>. QED  BY <2>2, <2>14 DEF T
<1>. QED  BY <1>1, <1>2
=============================================================================
