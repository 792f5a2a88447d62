----------------------------- MODULE Induction -----------------------------
(***************************************************************************)
(* Induction over positions, with a set of them for the claim, and what it *)
(* gives: that a definition which goes along a sequence defines something. *)
(***************************************************************************)
EXTENDS Integers, FiniteSetsExt, TLAPS, WellFoundedInduction

LEMMA Least ==
  ASSUME NEW S, S \subseteq Nat, S # {}
  PROVE  Min(S) \in S /\ \A i \in S : Min(S) <= i
<1>. DEFINE R == OpToRel(<, Nat)
<1>1. IsWellFoundedOn(R, Nat)
  BY NatLessThanWellFounded
<1>2. \A x, y \in Nat : <<y, x>> \notin R => x <= y
  BY DEF OpToRel
<1>. HIDE DEF R
<1>3. PICK x \in S : \A y \in S : ~(<<y, x>> \in R)
  BY <1>1, WFMin, Zenon
<1>4. \A y \in S : x <= y
  BY <1>2, <1>3
<1>. QED  BY <1>4 DEF Min

LEMMA Induct ==
  ASSUME NEW n \in Nat, NEW S, 0 \in S, \A i \in 1..n : i - 1 \in S => i \in S
  PROVE  \A i \in 0..n : i \in S
<1>. DEFINE T == (0..n) \ S
<1>. SUFFICES ASSUME T # {} PROVE FALSE
  OBVIOUS
<1>1. T \subseteq Nat
  OBVIOUS
<1>2. Min(T) \in T /\ \A i \in T : Min(T) <= i
  BY <1>1, Least
<1>3. PICK m \in T : \A i \in T : m <= i
  BY <1>2
<1>4. m \in 1..n /\ m - 1 \in 0..n /\ m - 1 \notin T
  BY <1>3
<1>. QED  BY <1>3, <1>4

LEMMA Greatest ==
  ASSUME NEW n \in Nat, NEW S, S \subseteq 0..n, S # {}
  PROVE  Max(S) \in S /\ \A i \in S : i <= Max(S)
<1>. DEFINE T == {i \in Nat : n - i \in S}
<1>1. T # {} /\ T \subseteq Nat
  <2>1. PICK x \in S : TRUE
    OBVIOUS
  <2>2. n - x \in Nat /\ n - (n - x) = x
    BY <2>1
  <2>. QED  BY <2>1, <2>2
<1>2. Min(T) \in T /\ \A i \in T : Min(T) <= i
  BY <1>1, Least
<1>3. PICK m \in Nat : n - m \in S /\ \A i \in T : m <= i
  BY <1>2
<1>4. ASSUME NEW y \in S PROVE n - m >= y
  <2>1. n - y \in Nat /\ n - (n - y) = y
    OBVIOUS
  <2>2. m <= n - y
    BY <1>3, <2>1
  <2>. QED  BY <2>2
<1>. HIDE DEF T
<1>5. \E x \in S : \A y \in S : x >= y
  BY <1>3, <1>4
<1>6. Max(S) \in S /\ \A y \in S : Max(S) >= y
  BY <1>5 DEF Max
<1>. QED  BY <1>6

\* f goes from base along the n steps of g, staying in X
Goes(f, X, base, g, n) ==
  /\ f \in [0..n -> X]
  /\ f[0] = base
  /\ \A i \in 1..n : f[i] = g[i][f[i - 1]]

LEMMA GoesAre ==
  ASSUME NEW n \in Nat, NEW X, NEW base, NEW g, NEW f, Goes(f, X, base, g, n)
  PROVE  /\ f \in [0..n -> X] /\ f[0] = base
         /\ \A i \in 1..n : f[i] = g[i][f[i - 1]] /\ f[i - 1] \in X
<1>1. \A i \in 1..n : i - 1 \in 0..n
  OBVIOUS
<1>. QED  BY <1>1, Zenon DEF Goes

LEMMA GoesOnce ==
  ASSUME NEW n \in Nat, NEW X, NEW base \in X, NEW g, \A i \in 1..n : g[i] \in [X -> X]
  PROVE  \E f : Goes(f, X, base, g, n)
<1>. DEFINE S == {m \in 0..n : \E f : Goes(f, X, base, g, m)}
<1>1. 0 \in S
  <2>1. Goes([i \in 0..0 |-> base], X, base, g, 0)
    BY DEF Goes
  <2>. QED  BY <2>1
<1>2. ASSUME NEW m \in 1..n, NEW f, Goes(f, X, base, g, m - 1) PROVE \E h : Goes(h, X, base, g, m)
  <2>. DEFINE h == [i \in 0..m |-> IF i < m THEN f[i] ELSE g[m][f[m - 1]]]
  <2>1. /\ f \in [0..m - 1 -> X] /\ f[0] = base
        /\ \A i \in 1..m - 1 : f[i] = g[i][f[i - 1]]
    BY <1>2 DEF Goes
  <2>2. g[m][f[m - 1]] \in X
    BY <2>1
  <2>3. h \in [0..m -> X]
    <3>1. ASSUME NEW i \in 0..m PROVE h[i] \in X
      BY <2>1, <2>2
    <3>. QED  BY <3>1
  <2>4. h[0] = base
    BY <2>1
  <2>5. ASSUME NEW i \in 1..m PROVE h[i] = g[i][h[i - 1]]
    <3>1. CASE i < m
      <4>1. i \in 0..m /\ i - 1 \in 0..m /\ i - 1 < m /\ i \in 1..m - 1
        BY <3>1
      <4>2. h[i] = f[i] /\ h[i - 1] = f[i - 1]
        BY <3>1, <4>1
      <4>. QED  BY <2>1, <4>1, <4>2
    <3>2. CASE i = m
      <4>1. m \in 0..m /\ m - 1 \in 0..m /\ m - 1 < m
        OBVIOUS
      <4>. QED  BY <3>2, <4>1
    <3>. QED  BY <3>1, <3>2
  <2>. HIDE DEF h
  <2>6. Goes(h, X, base, g, m)
    BY <2>3, <2>4, <2>5 DEF Goes
  <2>. QED  BY <2>6
<1>3. \A m \in 1..n : m - 1 \in S => m \in S
  BY <1>2
<1>. HIDE DEF S
<1>4. n \in S
  BY <1>1, <1>3, Induct
<1>. QED  BY <1>4 DEF S
=============================================================================
