------------------------------ MODULE Induction ------------------------------
(***************************************************************************)
(* Induction over the natural numbers, for a given set of them, and what   *)
(* follows from it about sums: a recursive function that adds up weights   *)
(* exists, is unique, and adds up two stretches to the sum of both.        *)
(***************************************************************************)
EXTENDS Integers, WellFoundedInduction, TLAPS

LessThan == {p \in Nat \X Nat : p[1] < p[2]}

LEMMA LessThanWellFounded == IsWellFoundedOn(LessThan, Nat)
  BY NatLessThanWellFounded DEF OpToRel, LessThan

LEMMA LeastExists ==
    ASSUME NEW S \in SUBSET Nat, S # {}
    PROVE  \E m \in S : \A n \in S : m <= n
<1>1. PICK m \in S : \A n \in S : <<n, m>> \notin LessThan
  BY LessThanWellFounded, WFMin
<1>2. \A n \in S : ~ (n < m)
  BY <1>1 DEF LessThan
<1> QED
  BY <1>2

LEMMA Induction ==
    ASSUME NEW S, 0 \in S, \A k \in Nat : k \in S => k + 1 \in S
    PROVE  \A k \in Nat : k \in S
<1> DEFINE C == {k \in Nat : k \notin S}
<1>1. CASE C = {}
  BY <1>1
<1>2. CASE C # {}
  <2>1. C \in SUBSET Nat
    OBVIOUS
  <2>2. PICK m \in C : \A k \in C : m <= k
    <3> HIDE DEF C
    <3> QED
      BY <1>2, <2>1, LeastExists
  <2>3. m # 0 /\ m \in Nat /\ m \notin S
    OBVIOUS
  <2>4. m - 1 \in Nat /\ m - 1 \notin C
    BY <2>2, <2>3
  <2> QED
    BY <2>3, <2>4
<1> QED
  BY <1>1, <1>2

----------------------------------------------------------------------------
(* Sums.                                                                   *)

\* f[i] is the sum of the first i weights of w, up to the n-th.
Sums(f, w, n) == \A i \in 0..n : f[i] = IF i = 0 THEN 0 ELSE f[i - 1] + w[i]
Adds(f, w, n) == w \in [1..n -> Nat] /\ f \in [0..n -> Nat] /\ Sums(f, w, n)

LEMMA AddsExists ==
    ASSUME NEW n \in Nat, NEW w \in [1..n -> Nat]
    PROVE  \E f : Adds(f, w, n)
<1> DEFINE P(k) == k <= n => \E f \in [0..k -> Nat] : Sums(f, w, k)
           S == {k \in Nat : P(k)}
<1>1. P(0)
  <2>1. Sums([i \in 0..0 |-> 0], w, 0)
    BY DEF Sums
  <2>2. [i \in 0..0 |-> 0] \in [0..0 -> Nat]
    OBVIOUS
  <2> QED
    BY <2>1, <2>2
<1>2. ASSUME NEW k \in Nat, P(k), k + 1 <= n PROVE P(k + 1)
  <2>1. PICK f \in [0..k -> Nat] : Sums(f, w, k)
    BY <1>2
  <2> DEFINE g == [i \in 0..(k + 1) |-> IF i = k + 1 THEN f[k] + w[k + 1] ELSE f[i]]
  <2>2. w[k + 1] \in Nat /\ f[k] \in Nat
    BY <1>2
  <2>3. g \in [0..(k + 1) -> Nat]
    BY <2>2
  <2>4. \A i \in 0..k : f[i] = IF i = 0 THEN 0 ELSE f[i - 1] + w[i]
    BY <2>1 DEF Sums
  <2>5. \A i \in 0..(k + 1) : g[i] = IF i = 0 THEN 0 ELSE g[i - 1] + w[i]
    <3> TAKE i \in 0..(k + 1)
    <3>1. CASE i = k + 1
      BY <3>1, <2>2
    <3>2. CASE i # k + 1
      BY <3>2, <2>4
    <3> QED
      BY <3>1, <3>2
  <2> HIDE DEF g
  <2>6. Sums(g, w, k + 1)
    BY <2>5 DEF Sums
  <2> QED
    BY <2>3, <2>6
<1>3. ASSUME NEW k \in Nat, P(k) PROVE P(k + 1)
  BY <1>2, <1>3
<1> HIDE DEF P
<1>4. 0 \in S /\ \A k \in Nat : k \in S => k + 1 \in S
  BY <1>1, <1>3
<1>5. \A k \in Nat : k \in S
  <2> HIDE DEF S
  <2> QED
    BY <1>4, Induction
<1>6. P(n)
  BY <1>5
<1> QED
  BY <1>6 DEF P, Adds

\* Weights that are equal up to m have sums that are equal up to m.
LEMMA SumsUnique ==
    ASSUME NEW n \in Nat, NEW w, NEW v, NEW f, NEW g, NEW m \in 0..n,
           Sums(f, w, n), Sums(g, v, m), \A i \in 1..m : w[i] = v[i]
    PROVE  \A i \in 0..m : f[i] = g[i]
<1> DEFINE S == {k \in Nat : k <= m => f[k] = g[k]}
<1>1. /\ \A k \in 0..m : f[k] = IF k = 0 THEN 0 ELSE f[k - 1] + w[k]
      /\ \A k \in 0..m : g[k] = IF k = 0 THEN 0 ELSE g[k - 1] + v[k]
  BY DEF Sums
<1>2. 0 \in S
  BY <1>1
<1>3. ASSUME NEW k \in Nat, k \in S PROVE k + 1 \in S
  BY <1>1, <1>3
<1> HIDE DEF S
<1>4. \A k \in Nat : k \in S
  BY <1>2, <1>3, Induction
<1> QED
  BY <1>4 DEF S

\* u has the weights w up to the n-th, and then the m weights v.
Joins(u, w, n, v, m) == \A i \in 1..(n + m) : u[i] = IF i <= n THEN w[i] ELSE v[i - n]

LEMMA SumsJoin ==
    ASSUME NEW n \in Nat, NEW m \in Nat, NEW w, NEW v, NEW u, NEW f, NEW g,
           Adds(f, w, n), Adds(g, v, m), Joins(u, w, n, v, m)
    PROVE  \E h : Sums(h, u, n + m) /\ h[n + m] = f[n] + g[m]
<1> DEFINE h == [i \in 0..(n + m) |-> IF i <= n THEN f[i] ELSE f[n] + g[i - n]]
<1>1. /\ \A i \in 0..n : f[i] \in Nat /\ f[i] = IF i = 0 THEN 0 ELSE f[i - 1] + w[i]
      /\ \A i \in 0..m : g[i] \in Nat /\ g[i] = IF i = 0 THEN 0 ELSE g[i - 1] + v[i]
      /\ \A i \in 1..m : v[i] \in Nat
  BY DEF Adds, Sums
<1>2. f[n] \in Nat /\ g[0] = 0
  BY <1>1
<1>3. \A i \in 1..(n + m) : u[i] = IF i <= n THEN w[i] ELSE v[i - n]
  BY DEF Joins
<1>4. ASSUME NEW i \in 0..(n + m)
      PROVE  h[i] = IF i = 0 THEN 0 ELSE h[i - 1] + u[i]
  <2>1. CASE i <= n
    BY <1>1, <1>3, <2>1
  <2>2. CASE i > n
    <3>1. i - n \in 1..m /\ i - n - 1 \in 0..m /\ i # 0 /\ i - 1 \in 0..(n + m)
      BY <2>2
    <3>2. PICK j \in 1..m : i = n + j /\ i - n = j
      BY <3>1
    <3>3. g[j] = g[j - 1] + v[j] /\ g[j - 1] \in Nat /\ v[j] \in Nat
      BY <1>1
    <3>4. u[i] = v[j]
      BY <1>3, <2>2, <3>2
    <3>5. h[i] = f[n] + g[j]
      BY <2>2, <3>2
    <3>6. h[i - 1] = f[n] + g[j - 1]
      <4>1. CASE j = 1
        BY <1>2, <3>1, <3>2, <4>1
      <4>2. CASE j # 1
        <5>1. ~(i - 1 <= n) /\ i - 1 - n = j - 1
          BY <3>2, <4>2
        <5> QED
          BY <3>1, <5>1
      <4> QED
        BY <4>1, <4>2
    <3> HIDE DEF h
    <3> QED
      BY <1>2, <3>1, <3>3, <3>4, <3>5, <3>6
  <2> QED
    BY <2>1, <2>2
<1>5. h[n + m] = f[n] + g[m]
  <2>1. CASE m = 0
    BY <1>2, <2>1
  <2>2. CASE m # 0
    <3>1. n + m \in 0..(n + m) /\ ~(n + m <= n) /\ n + m - n = m
      BY <2>2
    <3> QED
      BY <3>1
  <2> QED
    BY <2>1, <2>2
<1> HIDE DEF h
<1>6. Sums(h, u, n + m)
  BY <1>4 DEF Sums
<1> QED
  BY <1>5, <1>6
=============================================================================
