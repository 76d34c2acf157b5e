--------------------------- MODULE InductionLemmas ---------------------------
(***************************************************************************)
(* Induction and recursion on the natural numbers, stated of sets and      *)
(* functions rather than of predicates and operators, for the proofs about *)
(* lists, sequences and sums in the other modules.                         *)
(***************************************************************************)
EXTENDS Integers, WellFoundedInduction, TLAPS

\* A set of numbers that is not empty has a least element.
LEMMA Least ==
  ASSUME NEW S \in SUBSET Nat, S # {}
  PROVE  \E m \in S : \A k \in S : m <= k
<1>1. IsWellFoundedOn(OpToRel(<, Nat), Nat)
  BY NatLessThanWellFounded
<1>2. PICK m \in S : \A k \in S : ~ (<<k, m>> \in OpToRel(<, Nat))
  BY <1>1, WFMin
<1>3. \A k \in S : k < m => <<k, m>> \in OpToRel(<, Nat)
  BY DEF OpToRel
<1>4. \A k \in S : ~(k < m)
  BY <1>2, <1>3
<1>5. m \in Nat /\ \A k \in S : k \in Nat
  OBVIOUS
<1>6. QED
  BY <1>4, <1>5

\* A set with 0 and the successors of its numbers has every number.
LEMMA Induction ==
  ASSUME NEW S, 0 \in S, \A n \in Nat : n \in S => n + 1 \in S
  PROVE  Nat \subseteq S
<1>1. SUFFICES ASSUME Nat \ S # {} PROVE FALSE
  OBVIOUS
<1>2. PICK m \in Nat \ S : \A k \in Nat \ S : m <= k
  BY <1>1, Least
<1>3. m - 1 \in Nat /\ m - 1 \in S
  BY <1>2
<1>4. (m - 1) + 1 = m
  OBVIOUS
<1>5. QED
  BY <1>3, <1>4

\* Functions that start alike and stay alike are the same up to K.
LEMMA SameValues ==
  ASSUME NEW K \in Nat, NEW f, NEW g, f[0] = g[0],
         \A k \in 0 .. K - 1 : f[k] = g[k] => f[k + 1] = g[k + 1]
  PROVE  \A k \in 0 .. K : f[k] = g[k]
<1> DEFINE S == {k \in Nat : k <= K => f[k] = g[k]}
<1>1. 0 \in S
  OBVIOUS
<1>2. ASSUME NEW k \in Nat, k \in S PROVE k + 1 \in S
  <2>1. k + 1 <= K => k \in 0 .. K - 1 /\ k <= K
    OBVIOUS
  <2>2. QED
    BY <1>2, <2>1
<1> HIDE DEF S
<1>3. Nat \subseteq S
  BY <1>1, <1>2, Induction
<1>4. QED
  BY <1>3 DEF S

\* f and g start alike, and take the same steps up to K.
StepsAlike(K, f, g) ==
  f[0] = g[0] /\ \A k \in 0 .. K - 1 : f[k] = g[k] => f[k + 1] = g[k + 1]

\* Then they end alike.
LEMMA EndsAlike ==
  ASSUME NEW K \in Nat, NEW f, NEW g, StepsAlike(K, f, g)
  PROVE  f[K] = g[K]
<1>1. f[0] = g[0]
  BY DEF StepsAlike
<1>2. \A k \in 0 .. K - 1 : f[k] = g[k] => f[k + 1] = g[k + 1]
  BY DEF StepsAlike
<1>3. \A k \in 0 .. K : f[k] = g[k]
  BY <1>1, <1>2, SameValues
<1>4. QED
  BY <1>3

\* Up to n, f starts with init, and each value is a step from the one before.
Follows(f, n, init, step) ==
  f[0] = init /\ \A k \in 0 .. n - 1 : f[k + 1] = step[<<k, f[k]>>]

\* Values can be given one after the other, each from the one before.
LEMMA Recursion ==
  ASSUME NEW V, NEW K \in Nat, NEW init \in V, NEW step \in [Nat \X V -> V]
  PROVE  \E f \in [0 .. K -> V] : Follows(f, K, init, step)
<1> DEFINE Is(f, n) == /\ f \in [0 .. n -> V] /\ f[0] = init
                       /\ \A k \in 0 .. n - 1 : f[k + 1] = step[<<k, f[k]>>]
           S == {n \in Nat : \E f : Is(f, n)}
<1>1. 0 \in S
  <2> DEFINE f == [k \in 0 .. 0 |-> init]
  <2>1. Is(f, 0)
    OBVIOUS
  <2>2. QED
    BY <2>1
<1>2. ASSUME NEW n \in Nat, n \in S PROVE n + 1 \in S
  <2>1. PICK f : Is(f, n)
    BY <1>2
  <2>2. PICK last : last = step[<<n, f[n]>>] /\ last \in V
    BY <2>1
  <2> DEFINE g == [k \in 0 .. n + 1 |-> IF k <= n THEN f[k] ELSE last]
  <2>3. /\ \A k \in 0 .. n : k \in 0 .. n + 1 /\ g[k] = f[k] /\ g[k] \in V
        /\ g[n + 1] = last
    BY <2>1
  <2>4. g \in [0 .. n + 1 -> V]
    BY <2>1, <2>2
  <2> HIDE DEF g
  <2>5. ASSUME NEW k \in 0 .. (n + 1) - 1 PROVE g[k + 1] = step[<<k, g[k]>>]
    <3>1. CASE k = n
      BY <2>2, <2>3, <3>1
    <3>2. CASE k # n
      <4>1. k \in 0 .. n - 1 /\ k \in 0 .. n /\ k + 1 \in 0 .. n
        BY <3>2
      <4>2. QED
        BY <2>1, <2>3, <4>1
    <3>3. QED
      BY <3>1, <3>2
  <2>6. Is(g, n + 1)
    BY <2>1, <2>3, <2>4, <2>5
  <2>7. QED
    BY <2>6
<1>3. \A n \in Nat : n \in S => n + 1 \in S
  BY <1>2
<1> HIDE DEF S
<1>4. Nat \subseteq S
  BY <1>1, <1>3, Induction
<1>5. QED
  BY <1>4 DEF S, Follows

\* And without end.
LEMMA EndlessRecursion ==
  ASSUME NEW V, NEW init \in V, NEW step \in [Nat \X V -> V]
  PROVE  \E f \in [Nat -> V] : \A n \in Nat : Follows(f, n, init, step)
<1>0. ASSUME NEW n \in Nat
      PROVE  \E f \in [0 .. n -> V] : Follows(f, n, init, step)
  BY Recursion
<1> DEFINE Is(f, n) == /\ f \in [0 .. n -> V] /\ f[0] = init
                       /\ \A k \in 0 .. n - 1 : f[k + 1] = step[<<k, f[k]>>]
           upTo(n) == CHOOSE f : Is(f, n)
           F == [n \in Nat |-> upTo(n)[n]]
<1>1. ASSUME NEW n \in Nat PROVE Is(upTo(n), n)
  <2>1. \E f : Is(f, n)
    <3>1. PICK f \in [0 .. n -> V] : Follows(f, n, init, step)
      BY <1>0
    <3>2. Is(f, n)
      BY <3>1 DEF Follows
    <3>3. QED
      BY <3>2
  <2> HIDE DEF Is
  <2>2. QED
    BY <2>1
<1> HIDE DEF upTo
<1>2. F \in [Nat -> V] /\ F[0] = init
  BY <1>1
<1>3. ASSUME NEW n \in Nat PROVE F[n + 1] = step[<<n, F[n]>>]
  <2>1. PICK f, g : f = upTo(n) /\ g = upTo(n + 1)
    OBVIOUS
  <2>2. Is(f, n) /\ Is(g, n + 1)
    BY <1>1, <2>1
  <2>3. f[0] = g[0] /\ \A k \in 0 .. n - 1 : f[k] = g[k] => f[k + 1] = g[k + 1]
    <3>1. \A k \in 0 .. n - 1 : k \in 0 .. (n + 1) - 1
      OBVIOUS
    <3>2. f[0] = init /\ \A k \in 0 .. n - 1 : f[k + 1] = step[<<k, f[k]>>]
      BY <2>2
    <3>3. g[0] = init /\ \A k \in 0 .. (n + 1) - 1 : g[k + 1] = step[<<k, g[k]>>]
      BY <2>2
    <3>4. QED
      BY <3>1, <3>2, <3>3
  <2>4. \A k \in 0 .. n : f[k] = g[k]
    BY <2>3, SameValues
  <2>5. f[n] = g[n] /\ g[n + 1] = step[<<n, g[n]>>]
    BY <2>2, <2>4
  <2>6. QED
    BY <2>1, <2>5
<1> HIDE DEF F
<1>4. \A n \in Nat : Follows(F, n, init, step)
  BY <1>2, <1>3 DEF Follows
<1>5. QED
  BY <1>2, <1>4
=============================================================================
