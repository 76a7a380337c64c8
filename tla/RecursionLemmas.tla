--------------------------- MODULE RecursionLemmas ---------------------------
(***************************************************************************)
(* What the proofs about recursive functions on 0..n rest on.  The         *)
(* induction theorems of the library take the formula to prove as a        *)
(* parameter; here it is the set of the numbers it holds of, and the step  *)
(* of a recursion is a function, so both lemmas can be cited as they are.  *)
(***************************************************************************)
EXTENDS Integers, WellFoundedInduction, TLAPS

\* A set with 0 and the successor of each of its numbers has them all.
LEMMA NatSetInduction ==
    ASSUME NEW S, 0 \in S, \A n \in Nat : n \in S => n + 1 \in S
    PROVE  Nat \subseteq S
  <1> DEFINE T == Nat \ S
             R == OpToRel(<, Nat)
  <1>1. IsWellFoundedOn(R, Nat)
    BY NatLessThanWellFounded
  <1>2. \A x, y \in Nat : x < y => <<x, y>> \in R
    BY DEF OpToRel
  <1> HIDE DEF R
  <1> SUFFICES ASSUME T # {} PROVE FALSE
    OBVIOUS
  <1>3. PICK x \in T : \A y \in T : ~(<<y, x>> \in R)
    BY <1>1, WFMin
  <1>4. x # 0 /\ x - 1 \in Nat
    OBVIOUS
  <1>5. x - 1 \in S
    <2>1. x \in Nat /\ x - 1 < x
      OBVIOUS
    <2>2. <<x - 1, x>> \in R
      BY <1>2, <1>4, <2>1
    <2>3. x - 1 \notin T
      BY <1>3, <2>2
    <2> QED
      BY <1>4, <2>3
  <1> QED
    BY <1>4, <1>5

\* f is on 0..n what n steps make of base, each a function on A.
Steps(step, n, A) == n \in Nat /\ step \in [1..n -> [A -> A]]
Iterates(f, step, n, A, base) ==
    /\ f \in [0..n -> A]
    /\ f[0] = base
    /\ \A k \in 1..n : f[k] = step[k][f[k - 1]]

\* A recursion of n steps defines a function.
LEMMA RecursionDefines ==
    ASSUME NEW n, NEW A, NEW base \in A, NEW step, Steps(step, n, A)
    PROVE  \E f : Iterates(f, step, n, A, base)
  <1> DEFINE Upto(m) == \E f : Iterates(f, step, m, A, base)
             S == {m \in Nat : m <= n => Upto(m)}
  <1> USE DEF Steps
  <1>1. 0 \in S
    <2> DEFINE f == [k \in 0..0 |-> base]
    <2>1. Iterates(f, step, 0, A, base)
      BY DEF Iterates
    <2> HIDE DEF f
    <2>2. Upto(0)
      BY <2>1
    <2> QED
      BY <2>2
  <1>2. ASSUME NEW m \in Nat, m \in S PROVE m + 1 \in S
    <2> SUFFICES ASSUME m + 1 <= n PROVE Upto(m + 1)
      OBVIOUS
    <2>1. PICK f : Iterates(f, step, m, A, base)
      BY <1>2
    <2> USE <2>1 DEF Iterates
    <2> DEFINE g == [k \in 0..(m + 1) |-> IF k = m + 1 THEN step[m + 1][f[m]] ELSE f[k]]
    <2>2. step[m + 1][f[m]] \in A
      OBVIOUS
    <2>3. g \in [0..(m + 1) -> A]
      BY <2>2
    <2>4. g[0] = base
      OBVIOUS
    <2>5. \A k \in 1..(m + 1) : g[k] = step[k][g[k - 1]]
      <3> SUFFICES ASSUME NEW k \in 1..(m + 1) PROVE g[k] = step[k][g[k - 1]]
        OBVIOUS
      <3>1. g[k - 1] = f[k - 1]
        OBVIOUS
      <3>2. CASE k = m + 1
        BY <3>1, <3>2
      <3>3. CASE k \in 1..m
        BY <3>1, <3>3
      <3> QED
        BY <3>2, <3>3
    <2> HIDE DEF g
    <2> QED
      BY <2>3, <2>4, <2>5
  <1> HIDE DEF S
  <1>3. n \in S
    BY <1>1, <1>2, NatSetInduction
  <1> QED
    BY <1>3 DEF S

\* f is on every natural the base where the recursion stops, and elsewhere the step from
\* what it is at another number.
Descends(f, stop, prev, step, A, base) ==
    /\ f \in [Nat -> A]
    /\ \A x \in Nat : f[x] = IF x \in stop THEN base[x] ELSE step[x][f[prev[x]]]

\* What a descent goes by: the rank of a number is above that of the one it asks for.
Descent(stop, prev, step, A, base, rank) ==
    /\ A # {}
    /\ rank \in [Nat -> Nat]
    /\ \A x \in Nat : x \in stop => base[x] \in A
    /\ \A x \in Nat : x \notin stop => prev[x] \in Nat /\ rank[prev[x]] < rank[x]
    /\ step \in [Nat -> [A -> A]]

\* A recursion that descends defines a function.
LEMMA DescentDefines ==
    ASSUME NEW stop, NEW prev, NEW step, NEW A, NEW base, NEW rank,
           Descent(stop, prev, step, A, base, rank)
    PROVE  \E f : Descends(f, stop, prev, step, A, base)
  <1> DEFINE Value(g, x) == IF x \in stop THEN base[x] ELSE step[x][g[prev[x]]]
             Upto(g, m) == g \in [Nat -> A] /\ \A x \in Nat : rank[x] <= m => g[x] = Value(g, x)
             Known == {m \in Nat : \E g : Upto(g, m)}
  <1>1. PICK a \in A : TRUE
    BY DEF Descent
  <1>2. rank \in [Nat -> Nat] /\ step \in [Nat -> [A -> A]]
    BY DEF Descent
  <1>3. \A x \in Nat : x \in stop => base[x] \in A
    BY DEF Descent
  <1>4. \A x \in Nat : x \notin stop => prev[x] \in Nat /\ rank[prev[x]] < rank[x]
    BY DEF Descent
  <1>5. 0 \in Known
    <2> DEFINE g == [x \in Nat |-> IF x \in stop THEN base[x] ELSE a]
    <2>1. g \in [Nat -> A]
      BY <1>1, <1>3
    <2>2. ASSUME NEW x \in Nat, rank[x] <= 0 PROVE x \in stop
      BY <1>2, <1>4, <2>2
    <2>3. Upto(g, 0)
      BY <2>1, <2>2
    <2> QED
      BY <2>3
  <1>6. ASSUME NEW m \in Nat, m \in Known PROVE m + 1 \in Known
    <2>1. PICK g : Upto(g, m)
      BY <1>6
    <2> DEFINE h == [x \in Nat |-> IF x \in stop THEN base[x]
                                   ELSE IF rank[x] <= m + 1 THEN step[x][g[prev[x]]] ELSE a]
    <2>2. h \in [Nat -> A]
      BY <1>1, <1>2, <1>3, <1>4, <2>1
    <2>3. \A y \in Nat : rank[y] <= m => h[y] = g[y]
      BY <1>2, <2>1
    <2>4. ASSUME NEW x \in Nat, rank[x] <= m + 1 PROVE h[x] = Value(h, x)
      <3>1. CASE x \in stop
        BY <3>1
      <3>2. CASE x \notin stop
        <4>1. prev[x] \in Nat /\ rank[prev[x]] <= m
          BY <1>2, <1>4, <2>4, <3>2
        <4>2. h[prev[x]] = g[prev[x]]
          BY <2>3, <4>1
        <4>3. h[x] = step[x][g[prev[x]]]
          BY <2>4, <3>2
        <4> QED
          BY <3>2, <4>2, <4>3
      <3> QED
        BY <3>1, <3>2
    <2> HIDE DEF h
    <2>5. Upto(h, m + 1)
      BY <2>2, <2>4
    <2> QED
      BY <2>5
  <1>7. \A m \in Nat : \E g : Upto(g, m)
    <2> HIDE DEF Known, Upto
    <2>1. Nat \subseteq Known
      BY <1>5, <1>6, NatSetInduction
    <2> QED
      BY <2>1 DEF Known
  <1> DEFINE G == [m \in Nat |-> CHOOSE g : Upto(g, m)]
  <1>8. \A m \in Nat : Upto(G[m], m)
    <2> HIDE DEF Upto
    <2> QED
      BY <1>7
  <1> HIDE DEF G
  <1>9. ASSUME NEW m \in Nat, NEW l \in Nat
        PROVE  \A x \in Nat : rank[x] <= m /\ rank[x] <= l => G[m][x] = G[l][x]
    <2> DEFINE S == {r \in Nat : \A x \in Nat : rank[x] <= r /\ rank[x] <= m /\ rank[x] <= l => G[m][x] = G[l][x]}
    <2>1. ASSUME NEW x \in Nat, rank[x] <= m, rank[x] <= l,
                 x \in stop \/ G[m][prev[x]] = G[l][prev[x]]
          PROVE  G[m][x] = G[l][x]
      BY <1>8, <2>1
    <2>2. 0 \in S
      <3>1. ASSUME NEW x \in Nat, rank[x] <= 0 PROVE x \in stop
        BY <1>2, <1>4, <3>1
      <3> QED
        BY <2>1, <3>1
    <2>3. ASSUME NEW r \in Nat, r \in S PROVE r + 1 \in S
      <3> SUFFICES ASSUME NEW x \in Nat, rank[x] <= r + 1, rank[x] <= m, rank[x] <= l
                   PROVE  G[m][x] = G[l][x]
        OBVIOUS
      <3>1. CASE x \in stop
        BY <2>1, <3>1
      <3>2. CASE x \notin stop
        <4>1. prev[x] \in Nat /\ rank[prev[x]] <= r /\ rank[prev[x]] <= m /\ rank[prev[x]] <= l
          BY <1>2, <1>4, <3>2
        <4>2. G[m][prev[x]] = G[l][prev[x]]
          BY <2>3, <4>1
        <4> QED
          BY <2>1, <4>2
      <3> QED
        BY <3>1, <3>2
    <2> HIDE DEF S
    <2>4. Nat \subseteq S
      BY <2>2, <2>3, NatSetInduction
    <2> QED
      BY <1>2, <2>4 DEF S
  <1> DEFINE f == [x \in Nat |-> G[rank[x]][x]]
  <1>10. f \in [Nat -> A]
    BY <1>2, <1>8
  <1>11. ASSUME NEW x \in Nat PROVE f[x] = Value(f, x)
    <2>1. rank[x] \in Nat /\ G[rank[x]][x] = Value(G[rank[x]], x)
      BY <1>2, <1>8
    <2>2. CASE x \in stop
      BY <2>1, <2>2
    <2>3. CASE x \notin stop
      <3>1. prev[x] \in Nat /\ rank[prev[x]] \in Nat /\ rank[prev[x]] <= rank[x] /\ rank[prev[x]] <= rank[prev[x]]
        BY <1>2, <1>4, <2>3
      <3>2. G[rank[x]][prev[x]] = G[rank[prev[x]]][prev[x]]
        BY <1>9, <2>1, <3>1
      <3> QED
        BY <2>1, <2>3, <3>1, <3>2
    <2> QED
      BY <2>2, <2>3
  <1> HIDE DEF f
  <1> QED
    BY <1>10, <1>11 DEF Descends
\* A set of natural numbers with a number in it has a least one.
LEMMA LeastNatural ==
    ASSUME NEW S \in SUBSET Nat, S # {}
    PROVE  \E n \in S : \A m \in S : n <= m
  <1> DEFINE R == OpToRel(<, Nat)
  <1>1. IsWellFoundedOn(R, Nat)
    BY NatLessThanWellFounded
  <1>2. \A x, y \in Nat : x < y => <<x, y>> \in R
    BY DEF OpToRel
  <1> HIDE DEF R
  <1>3. PICK n \in S : \A m \in S : ~(<<m, n>> \in R)
    BY <1>1, WFMin
  <1>4. ASSUME NEW m \in S PROVE n <= m
    <2>1. m \in Nat /\ n \in Nat
      OBVIOUS
    <2>2. ~(m < n)
      BY <1>2, <1>3, <2>1
    <2> QED
      BY <2>1, <2>2
  <1> QED
    BY <1>4
=============================================================================
