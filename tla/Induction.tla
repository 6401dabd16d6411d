----------------------------- MODULE Induction -----------------------------
(***************************************************************************)
(* Induction and recursion over the naturals without operator parameters:  *)
(* what is to be proved of every number is given as the set of the numbers *)
(* that have it, and a recursion is one step of a function after another.  *)
(***************************************************************************)
EXTENDS Naturals, TLAPS, WellFoundedInduction

\* A set that holds 0 and with every number the next one holds them all.
LEMMA NatClosed ==
    ASSUME NEW S \in SUBSET Nat, 0 \in S, \A n \in S : n + 1 \in S
    PROVE  S = Nat
  <1> DEFINE T == Nat \ S
             R == OpToRel(<, Nat)
  <1>1. SUFFICES ASSUME T # {} PROVE FALSE
    OBVIOUS
  <1>2. IsWellFoundedOn(R, Nat)
    BY NatLessThanWellFounded
  <1>3. \E x \in T : \A y \in T : ~ (<<y, x>> \in R)
    <2> HIDE DEF R
    <2> QED BY <1>1, <1>2, WFMin
  <1>4. PICK x \in T : \A y \in T : ~ (<<y, x>> \in R)
    BY <1>3
  <1>5. x \in Nat /\ x # 0 /\ x - 1 \in Nat
    OBVIOUS
  <1>6. x - 1 \in T
    BY <1>5
  <1>7. <<x - 1, x>> \in R
    BY <1>5 DEF OpToRel
  <1> QED BY <1>4, <1>6, <1>7

\* A step for each of 1..n that stays in D, and the values the steps go through.
StepsIn(step, n, D) == step \in [(1..n) \X D -> D]
StepsFrom(g, step, n, D, x0) ==
    /\ g \in [0..n -> D]
    /\ g[0] = x0
    /\ \A i \in 1..n : g[i] = step[<<i, g[i - 1]>>]

\* A recursion over the numbers up to n has its function.
LEMMA StepsExist ==
    ASSUME NEW D, NEW n \in Nat, NEW x0 \in D, NEW step, StepsIn(step, n, D)
    PROVE  \E g : StepsFrom(g, step, n, D, x0)
  <1> USE DEF StepsIn
  <1> DEFINE Upto(m) == \E g \in [0..m -> D] :
                g = [i \in 0..m |-> IF i = 0 THEN x0 ELSE step[<<i, g[i - 1]>>]]
             S == {m \in Nat : m <= n => Upto(m)}
  <1>1. 0 \in S
    <2> DEFINE g == [i \in 0..0 |-> x0]
    <2>1. g \in [0..0 -> D]
      OBVIOUS
    <2>2. g = [i \in 0..0 |-> IF i = 0 THEN x0 ELSE step[<<i, g[i - 1]>>]]
      OBVIOUS
    <2> QED BY <2>1, <2>2
  <1>2. ASSUME NEW m \in S PROVE m + 1 \in S
    <2> SUFFICES ASSUME m + 1 <= n PROVE Upto(m + 1)
      OBVIOUS
    <2>1. m \in Nat /\ m <= n
      OBVIOUS
    <2>2. PICK g \in [0..m -> D] :
             g = [i \in 0..m |-> IF i = 0 THEN x0 ELSE step[<<i, g[i - 1]>>]]
      BY <2>1
    <2> DEFINE h == [i \in 0..(m + 1) |-> IF i = m + 1 THEN step[<<m + 1, g[m]>>] ELSE g[i]]
    <2>3. step[<<m + 1, g[m]>>] \in D
      BY <2>1
    <2>4. h \in [0..(m + 1) -> D]
      BY <2>1, <2>3
    <2>5. ASSUME NEW i \in 0..(m + 1)
          PROVE  h[i] = IF i = 0 THEN x0 ELSE step[<<i, h[i - 1]>>]
      <3>1. CASE i = m + 1
        <4>1. m \in 0..(m + 1) /\ m # m + 1 /\ i - 1 = m /\ i # 0
          BY <2>1, <3>1
        <4>2. h[m] = g[m]
          BY <4>1
        <4>3. h[m + 1] = step[<<m + 1, g[m]>>]
          BY <2>1
        <4> HIDE DEF h
        <4> QED BY <3>1, <4>1, <4>2, <4>3
      <3>2. CASE i \in 0..m
        <4>1. h[i] = g[i] /\ (i # 0 => h[i - 1] = g[i - 1])
          BY <2>1, <3>2
        <4>2. g[i] = IF i = 0 THEN x0 ELSE step[<<i, g[i - 1]>>]
          BY <2>2, <3>2
        <4> QED BY <4>1, <4>2
      <3> QED BY <2>1, <3>1, <3>2
    <2>6. h = [i \in 0..(m + 1) |-> IF i = 0 THEN x0 ELSE step[<<i, h[i - 1]>>]]
      BY <2>5
    <2> QED BY <2>4, <2>6
  <1>3. S = Nat
    BY <1>1, <1>2, NatClosed
  <1>4. Upto(n)
    BY <1>3
  <1>5. PICK g \in [0..n -> D] :
           g = [i \in 0..n |-> IF i = 0 THEN x0 ELSE step[<<i, g[i - 1]>>]]
    BY <1>4
  <1>6. g[0] = x0
    BY <1>5
  <1>7. ASSUME NEW i \in 1..n PROVE g[i] = step[<<i, g[i - 1]>>]
    <2>1. i \in 0..n /\ i # 0
      OBVIOUS
    <2> QED BY <1>5, <2>1
  <1>8. StepsFrom(g, step, n, D, x0)
    BY <1>5, <1>6, <1>7 DEF StepsFrom
  <1> QED BY <1>8

\* The same up to a bound.
LEMMA UptoClosed ==
    ASSUME NEW n \in Nat, NEW S, 0 \in S, \A i \in 0..n : i \in S /\ i < n => i + 1 \in S
    PROVE  \A i \in 0..n : i \in S
  <1> DEFINE T == {m \in Nat : m <= n => m \in S}
  <1>1. 0 \in T
    OBVIOUS
  <1>2. \A m \in T : m + 1 \in T
    OBVIOUS
  <1>3. T = Nat
    BY <1>1, <1>2, NatClosed
  <1> QED BY <1>3

\* Every set of numbers has a least one.
LEMMA LeastOf ==
    ASSUME NEW S \in SUBSET Nat, S # {}
    PROVE  \E x \in S : \A y \in S : x <= y
  <1> DEFINE R == OpToRel(<, Nat)
  <1>1. IsWellFoundedOn(R, Nat)
    BY NatLessThanWellFounded
  <1>2. \E x \in S : \A y \in S : ~ (<<y, x>> \in R)
    <2> HIDE DEF R
    <2> QED BY <1>1, WFMin
  <1>3. PICK x \in S : \A y \in S : ~ (<<y, x>> \in R)
    BY <1>2
  <1>4. ASSUME NEW y \in S PROVE x <= y
    <2>1. ~ (y < x)
      BY <1>3 DEF OpToRel
    <2> QED BY <2>1
  <1> QED BY <1>4
=============================================================================
