-------------------------- MODULE NaturalRecursion --------------------------
(***************************************************************************)
(* Induction over the naturals, and that a function defined by recursion   *)
(* over them exists, in first-order terms: about a set of naturals and a   *)
(* function for the step, where the theorems of the library take an        *)
(* operator.  What the models define by recursion is reasoned about with   *)
(* these.                                                                  *)
(***************************************************************************)
EXTENDS Integers, FiniteSetTheorems, WellFoundedInduction, TLAPS

\* A set of numbers has a least one.
LEMMA LeastNatural ==
  ASSUME NEW I, I \subseteq Nat, I # {}
  PROVE  \E m \in I : \A n \in I : m <= n
<1> DEFINE T == {1..k : k \in I}
<1>1. T \subseteq FiniteSubsetsOf(Nat) /\ T # {}
  <2>1. \A k \in I : 1..k \in SUBSET Nat /\ IsFiniteSet(1..k)
    BY FS_Interval
  <2> QED BY <2>1 DEF FiniteSubsetsOf
<1>2. IsWellFoundedOn(StrictSubsetOrdering(Nat), FiniteSubsetsOf(Nat))
  BY FS_StrictSubsetOrderingWellFounded
<1>3. \E S \in T : \A U \in T : ~(<<U, S>> \in StrictSubsetOrdering(Nat))
  <2> HIDE DEF T
  <2> QED BY <1>1, <1>2, WFMin
<1>4. PICK m \in I : \A n \in I : ~(<<1..n, 1..m>> \in StrictSubsetOrdering(Nat))
  BY <1>3
<1>5. ASSUME NEW n \in I, n < m
      PROVE  FALSE
  <2>1. n \in Nat /\ m \in Nat
    OBVIOUS
  <2>2. 1..n \subseteq 1..m /\ m \in 1..m /\ m \notin 1..n
    BY <1>5, <2>1
  <2>3. 1..n # 1..m
    BY <2>2
  <2>4. <<1..n, 1..m>> \in StrictSubsetOrdering(Nat)
    BY <2>2, <2>3 DEF StrictSubsetOrdering
  <2> QED BY <1>4, <2>4
<1> QED BY <1>5

\* Induction, for a set of numbers.
LEMMA Induction ==
  ASSUME NEW S \in SUBSET Nat, 0 \in S, \A n \in S : n + 1 \in S
  PROVE  S = Nat
<1> SUFFICES ASSUME Nat \ S # {}  PROVE FALSE
  OBVIOUS
<1>1. PICK m \in Nat \ S : \A n \in Nat \ S : m <= n
  BY LeastNatural
<1>2. m # 0 /\ m - 1 \in Nat /\ (m - 1) + 1 = m /\ ~(m <= m - 1)
  BY <1>1
<1>3. m - 1 \in S
  BY <1>1, <1>2
<1> QED BY <1>2, <1>3

\* h is what n steps from a make.
FirstSteps(X, a, g, n, h) ==
  h \in [0..n -> X] /\ h[0] = a /\ \A k \in Nat : k < n => h[k + 1] = g[<<k + 1, h[k]>>]

\* f is what all the steps from a make.
AllSteps(X, a, g, f) ==
  f \in [Nat -> X] /\ f[0] = a /\ \A k \in Nat : f[k + 1] = g[<<k + 1, f[k]>>]

\* Recursion over the naturals, by a function.
LEMMA Recursion ==
  ASSUME NEW X, NEW a, NEW g, a \in X, g \in [Nat \X X -> X]
  PROVE  \E f : AllSteps(X, a, g, f)
<1>1. ASSUME NEW n \in Nat  PROVE \E h \in [0..n -> X] : FirstSteps(X, a, g, n, h)
  <2> DEFINE S == {m \in Nat : \E h \in [0..m -> X] : FirstSteps(X, a, g, m, h)}
  <2>1. 0 \in S
    <3>1. FirstSteps(X, a, g, 0, [i \in 0..0 |-> a])
      BY DEF FirstSteps
    <3>2. [i \in 0..0 |-> a] \in [0..0 -> X]
      OBVIOUS
    <3> QED BY <3>1, <3>2
  <2>2. ASSUME NEW m \in S  PROVE m + 1 \in S
    <3>1. PICK h \in [0..m -> X] : FirstSteps(X, a, g, m, h)
      OBVIOUS
    <3>2. m \in Nat /\ m \in 0..m /\ h[m] \in X
      OBVIOUS
    <3>3. PICK x \in X : x = g[<<m + 1, h[m]>>]
      BY <3>2
    <3>4. PICK e : e = [i \in 0..(m + 1) |-> IF i <= m THEN h[i] ELSE x]
      OBVIOUS
    <3>5. e \in [0..(m + 1) -> X] /\ e[m + 1] = x /\ \A i \in 0..m : e[i] = h[i]
      <4>1. \A i \in 0..(m + 1) : i <= m => i \in 0..m
        BY <3>2
      <4>2. m + 1 \in 0..(m + 1) /\ ~(m + 1 <= m) /\ \A i \in 0..m : i \in 0..(m + 1) /\ i <= m
        BY <3>2
      <4> QED BY <3>4, <4>1, <4>2
    <3>6. ASSUME NEW k \in Nat, k < m + 1  PROVE e[k + 1] = g[<<k + 1, e[k]>>]
      <4>1. CASE k = m
        BY <3>2, <3>3, <3>5, <4>1
      <4>2. CASE k < m
        <5>1. k \in 0..m /\ k + 1 \in 0..m
          BY <3>2, <4>2
        <5> QED BY <3>1, <3>5, <4>2, <5>1 DEF FirstSteps
      <4> QED BY <3>2, <3>6, <4>1, <4>2
    <3>7. e[0] = a
      BY <3>1, <3>2, <3>5 DEF FirstSteps
    <3>8. FirstSteps(X, a, g, m + 1, e)
      BY <3>5, <3>6, <3>7 DEF FirstSteps
    <3> QED BY <3>2, <3>5, <3>8
  <2> HIDE DEF S
  <2>3. S = Nat
    <3>1. S \in SUBSET Nat
      BY DEF S
    <3> QED BY <2>1, <2>2, <3>1, Induction
  <2> QED BY <2>3 DEF S
<1>2. ASSUME NEW n \in Nat, NEW m \in Nat, n <= m, NEW h, NEW e, FirstSteps(X, a, g, n, h), FirstSteps(X, a, g, m, e)
      PROVE  h[n] = e[n]
  <2> DEFINE S == {i \in Nat : i <= n => h[i] = e[i]}
  <2>1. 0 \in S
    BY <1>2 DEF FirstSteps
  <2>2. ASSUME NEW i \in S  PROVE i + 1 \in S
    <3>1. i \in Nat /\ (i <= n => h[i] = e[i])
      OBVIOUS
    <3>2. ASSUME i + 1 <= n  PROVE h[i + 1] = e[i + 1]
      <4>1. i < n /\ i < m /\ i <= n
        BY <1>2, <3>1, <3>2
      <4>2. h[i + 1] = g[<<i + 1, h[i]>>] /\ e[i + 1] = g[<<i + 1, e[i]>>]
        BY <1>2, <3>1, <4>1 DEF FirstSteps
      <4> QED BY <3>1, <4>1, <4>2
    <3>3. i + 1 \in Nat
      BY <3>1
    <3> QED BY <3>2, <3>3
  <2> HIDE DEF S
  <2>3. S \in SUBSET Nat
    BY DEF S
  <2>4. S = Nat
    BY <2>1, <2>2, <2>3, Induction
  <2> QED BY <2>4 DEF S
<1> DEFINE H(n) == CHOOSE h \in [0..n -> X] : FirstSteps(X, a, g, n, h)
           f == [n \in Nat |-> H(n)[n]]
<1>3. \A n \in Nat : FirstSteps(X, a, g, n, H(n))
  BY <1>1
<1> HIDE DEF H
<1>4. \A n \in Nat : f[n] = H(n)[n] /\ H(n)[n] \in X
  BY <1>3 DEF FirstSteps
<1>5. f \in [Nat -> X]
  BY <1>4
<1>6. f[0] = a
  BY <1>3, <1>4 DEF FirstSteps
<1>7. ASSUME NEW k \in Nat  PROVE f[k + 1] = g[<<k + 1, f[k]>>]
  <2>1. H(k + 1)[k + 1] = g[<<k + 1, H(k + 1)[k]>>]
    BY <1>3 DEF FirstSteps
  <2>2. H(k)[k] = H(k + 1)[k]
    BY <1>2, <1>3
  <2> QED BY <1>4, <2>1, <2>2
<1> HIDE DEF f
<1> QED BY <1>5, <1>6, <1>7 DEF AllSteps

=============================================================================
