------------------------------ MODULE Induction ------------------------------
(***************************************************************************)
(* Induction over numbers, for sets and functions instead of predicates    *)
(* and operators, and the recursive functions that loops are written as.   *)
(***************************************************************************)
EXTENDS NaturalsInduction, WellFoundedInduction, TLAPS

\* A set of natural numbers that is not empty has a least element.
LEMMA Minimum ==
  ASSUME NEW S, S \subseteq Nat, S # {}
  PROVE  \E m \in S : \A x \in S : m <= x
<1> DEFINE R == OpToRel(<, Nat)
<1>1. IsWellFoundedOn(R, Nat)
  BY NatLessThanWellFounded
<1>2. ASSUME NEW x \in Nat, NEW y \in Nat, x < y PROVE <<x, y>> \in R
  BY <1>2 DEF OpToRel
<1> HIDE DEF R
<1>3. PICK m \in S : \A z \in S : ~ (<<z, m>> \in R)
  BY <1>1, WFMin, Zenon
<1>4. ASSUME NEW x \in S PROVE m <= x
  <2>1. m \in Nat /\ x \in Nat
    OBVIOUS
  <2>2. ~(x < m)
    BY <1>2, <1>3, <2>1
  <2> QED BY <2>1, <2>2
<1> QED BY <1>4

\* Induction up to N: look at the least number that is not in G.
LEMMA UpTo ==
  ASSUME NEW N \in Nat, NEW G, 0 \in G, \A n \in 1 .. N : n - 1 \in G => n \in G
  PROVE  \A n \in 0 .. N : n \in G
<1> DEFINE Bad == {n \in 0 .. N : n \notin G}
<1> SUFFICES ASSUME Bad # {} PROVE FALSE
  OBVIOUS
<1>1. Bad \subseteq Nat
  OBVIOUS
<1>2. PICK m \in Bad : \A z \in Bad : m <= z
  <2> HIDE DEF Bad
  <2> QED BY <1>1, Minimum
<1>3. m \in 0 .. N /\ m \notin G /\ m # 0
  BY <1>2
<1>4. m - 1 \in Nat /\ m - 1 < m /\ m \in 1 .. N /\ m - 1 \in 0 .. N /\ m \in Nat
  BY <1>3
<1>5. m - 1 \in Bad
  BY <1>3, <1>4
<1> QED BY <1>2, <1>4, <1>5

\* g[n] is F of n and of g[n - 1].
Recursion(N, F, x0, g) == g = [n \in 0 .. N |-> IF n = 0 THEN x0 ELSE F[<<n, g[n - 1]>>]]

\* What a recursive function of this form chooses exists.
LEMMA Iterates ==
  ASSUME NEW N \in Nat, NEW X, NEW F \in [(1 .. N) \X X -> X], NEW x0 \in X
  PROVE  \E g \in [0 .. N -> X] : Recursion(N, F, x0, g)
<1> DEFINE Good(k, g) == /\ g \in [0 .. k -> X]
                         /\ g[0] = x0
                         /\ \A n \in 1 .. k : g[n] = F[<<n, g[n - 1]>>]
           G == {k \in 0 .. N : \E g : Good(k, g)}
<1>1. 0 \in G
  <2>1. Good(0, [n \in 0 .. 0 |-> x0])
    OBVIOUS
  <2>2. \E g : Good(0, g)
    <3> HIDE DEF Good
    <3> QED BY <2>1
  <2> QED BY <2>2
<1>2. ASSUME NEW k \in 1 .. N, k - 1 \in G PROVE k \in G
  <2>1. PICK g : Good(k - 1, g)
    BY <1>2
  <2> DEFINE h == [n \in 0 .. k |-> IF n = k THEN F[<<k, g[k - 1]>>] ELSE g[n]]
  <2>2. /\ k - 1 \in 0 .. (k - 1) /\ k \in Nat /\ k - 1 \in Nat
        /\ \A n \in 0 .. k : n # k => n \in 0 .. (k - 1)
        /\ \A n \in 1 .. k : n # k => n \in 1 .. (k - 1)
        /\ \A n \in 1 .. k : n - 1 \in 0 .. k /\ n - 1 # k
    OBVIOUS
  <2>3. F[<<k, g[k - 1]>>] \in X
    BY <2>1, <2>2
  <2>4. h \in [0 .. k -> X]
    BY <2>1, <2>2, <2>3
  <2>5. h[0] = x0
    BY <2>1, <2>2
  <2>6. ASSUME NEW n \in 1 .. k PROVE h[n] = F[<<n, h[n - 1]>>]
    <3>1. h[n - 1] = g[n - 1]
      BY <2>2
    <3>2. CASE n = k
      BY <3>1, <3>2
    <3>3. CASE n # k
      <4>1. h[n] = g[n]
        BY <3>3, <2>2
      <4>2. n \in 1 .. (k - 1)
        BY <3>3, <2>2
      <4> QED BY <4>1, <4>2, <3>1, <2>1
    <3> QED BY <3>2, <3>3
  <2> HIDE DEF h
  <2> QED BY <2>4, <2>5, <2>6
<1>3. N \in G
  <2> HIDE DEF G
  <2> N \in 0 .. N
    OBVIOUS
  <2> QED BY <1>1, <1>2, UpTo
<1>4. PICK g : Good(N, g)
  BY <1>3
<1>5. g = [n \in 0 .. N |-> IF n = 0 THEN x0 ELSE F[<<n, g[n - 1]>>]]
  <2>1. \A n \in 0 .. N : n # 0 => n \in 1 .. N
    OBVIOUS
  <2>2. \A n \in 0 .. N : g[n] = IF n = 0 THEN x0 ELSE F[<<n, g[n - 1]>>]
    BY <1>4, <2>1
  <2> QED BY <1>4, <2>2
<1> QED BY <1>4, <1>5 DEF Recursion

=============================================================================
