----------------------------- MODULE Induction ------------------------------
(***************************************************************************)
(* Induction over data.  The library states it for an operator, which the  *)
(* provers cannot instantiate; here it is stated for sets and functions,   *)
(* from the fact that the naturals are well-founded.  The lemmas give what *)
(* a recursively defined function computes, for arguments of every size.   *)
(***************************************************************************)
EXTENDS Integers, Sequences, WellFoundedInduction, TLAPS

\* A nonempty set of naturals has a least element.
LEMMA LeastExists ==
    ASSUME NEW S \in SUBSET Nat, S # {}
    PROVE  \E m \in S : \A y \in S : m <= y
<1>1. PICK m \in S : \A y \in S : ~(<<y, m>> \in OpToRel(<, Nat))
  BY NatLessThanWellFounded, WFMin, Zenon
<1>2. \A y \in S : ~(y < m)
  BY <1>1, Zenon DEF OpToRel
<1>3. \A y \in S : m <= y
  BY <1>2
<1>4. QED
  BY <1>3

\* A set that has 0 and with every number its successor, up to n, has all
\* the numbers up to n.
LEMMA UpTo ==
    ASSUME NEW n \in Nat, NEW S, 0 \in S, \A k \in 0..(n - 1) : k \in S => k + 1 \in S
    PROVE  \A k \in 0..n : k \in S
<1> DEFINE B == {k \in 0..n : k \notin S}
<1>1. CASE B = {}
  BY <1>1
<1>2. CASE B # {}
  <2>1. B \in SUBSET Nat
    OBVIOUS
  <2>2. PICK m \in B : \A y \in B : m <= y
    BY <1>2, <2>1, LeastExists
  <2>3. m - 1 \in 0..(n - 1) /\ m - 1 \in S
    BY <2>2
  <2>4. QED
    BY <2>2, <2>3
<1>3. QED
  BY <1>1, <1>2

\* A function on 0..n that is given by its first value and by how each value
\* follows from the one before.
Iterates(f, n, a, F) == f[0] = a /\ \A k \in 1..n : f[k] = F[<<k, f[k - 1]>>]

\* There is such a function.
LEMMA IterationExists ==
    ASSUME NEW n \in Nat, NEW V, NEW a \in V, NEW F \in [(1..n) \X V -> V]
    PROVE  \E f \in [0..n -> V] : Iterates(f, n, a, F)
<1> DEFINE G == {m \in 0..n : \E f \in [0..m -> V] : Iterates(f, m, a, F)}
<1>1. 0 \in G
  <2>1. [p \in 0..0 |-> a] \in [0..0 -> V] /\ Iterates([p \in 0..0 |-> a], 0, a, F)
    BY DEF Iterates
  <2>2. QED
    BY <2>1
<1>2. ASSUME NEW k \in 0..(n - 1), k \in G
      PROVE  k + 1 \in G
  <2>1. PICK f \in [0..k -> V] : Iterates(f, k, a, F)
    BY <1>2
  <2> DEFINE g == [p \in 0..(k + 1) |-> IF p = k + 1 THEN F[<<k + 1, f[k]>>] ELSE f[p]]
  <2>2. <<k + 1, f[k]>> \in (1..n) \X V
    BY <2>1
  <2>3. g \in [0..(k + 1) -> V]
    BY <2>1, <2>2
  <2>4. Iterates(g, k + 1, a, F)
    <3>1. g[0] = a
      BY <2>1 DEF Iterates
    <3>2. ASSUME NEW p \in 1..(k + 1) PROVE g[p] = F[<<p, g[p - 1]>>]
      <4>1. g[p - 1] = f[p - 1] /\ p - 1 \in 0..k
        OBVIOUS
      <4>2. CASE p = k + 1
        <5>1. g[p] = F[<<k + 1, f[k]>>] /\ p - 1 = k
          BY <4>2
        <5>2. QED
          BY <4>1, <4>2, <5>1
      <4>3. CASE p # k + 1
        <5>1. g[p] = f[p] /\ p \in 1..k
          BY <4>3
        <5>2. f[p] = F[<<p, f[p - 1]>>]
          BY <2>1, <5>1 DEF Iterates
        <5>3. QED
          BY <4>1, <5>1, <5>2
      <4>4. QED
        BY <4>2, <4>3
    <3>3. QED
      BY <3>1, <3>2 DEF Iterates
  <2>5. QED
    BY <2>3, <2>4
<1>3. n \in G
  <2> HIDE DEF G
  <2>1. \A k \in 0..n : k \in G
    BY <1>1, <1>2, UpTo
  <2>2. QED
    BY <2>1
<1>4. QED
  BY <1>3

=============================================================================
