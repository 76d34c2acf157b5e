--------------------------- MODULE EventQueueProofs ---------------------------
(***************************************************************************)
(* Proofs about the event queue of SimpleScalar, for any descriptors,      *)
(* times and limits, and callbacks nested to any depth.                    *)
(*                                                                         *)
(* A list is what its links reach (Linked), so the proofs say of each      *)
(* operation what it makes of the links (ListFrom): it inserts a           *)
(* descriptor into a sequence or takes one out.  The theorems are for      *)
(* callbacks that queue later events only (the run of EventSameTime.cfg    *)
(* shows what happens otherwise) and until the identifiers wrap.           *)
(***************************************************************************)
EXTENDS EventQueue, InductionLemmas, FiniteSetTheorems, SequenceTheorems, TLAPS

Ptr == {NULL} \cup {<<d>> : d \in Descs}

-----------------------------------------------------------------------------

LEMMA LeastIs ==
  ASSUME NEW S \in SUBSET Nat, S # {}
  PROVE  Min(S) \in S /\ \A k \in S : Min(S) <= k
<1>1. \E m \in S : \A k \in S : m <= k
  BY Least
<1>2. QED
  BY <1>1 DEF Min

-----------------------------------------------------------------------------
(* Linked lists *)

\* From head on, the links nexts lead through the descriptors of p, each once.
ListFrom(head, nexts, p) ==
  /\ p \in Seq(Descs) /\ IsInjective(p)
  /\ head = IF Len(p) = 0 THEN NULL ELSE <<p[1]>>
  /\ \A i \in 1 .. Len(p) : nexts[p[i]] = IF i = Len(p) THEN NULL ELSE <<p[i + 1]>>

\* No list is longer than there are descriptors.
LEMMA NotTooLong ==
  ASSUME NEW p \in Seq(Descs), IsInjective(p)
  PROVE  Cardinality(Descs) \in Nat /\ Len(p) <= Cardinality(Descs)
<1>1. IsFiniteSet(Descs)
  BY EventAssumption
<1>2. IsFiniteSet(1 .. Len(p)) /\ Cardinality(1 .. Len(p)) = Len(p)
  <2>1. PICK n : n = Len(p)
    OBVIOUS
  <2>2. n \in Nat /\ n \in Int /\ 1 \in Int
    BY <2>1
  <2>3. IsFiniteSet(1 .. n) /\ Cardinality(1 .. n) = IF 1 > n THEN 0 ELSE n - 1 + 1
    BY <2>2, FS_Interval
  <2>4. Cardinality(1 .. n) = n
    BY <2>2, <2>3
  <2>5. QED
    BY <2>1, <2>3, <2>4
<1>3. p \in Injection(1 .. Len(p), Descs)
  BY DEF Injection, IsInjective
<1>4. QED
  BY <1>1, <1>2, <1>3, FS_Injection, FS_CardinalityType

LEMMA LinkedIs ==
  ASSUME NEW head, NEW nexts, NEW p, ListFrom(head, nexts, p)
  PROVE  Linked(head, nexts) = p
<1> DEFINE K == Cardinality(Descs)
           Is(at) == at = [n \in 0 .. K |->
                             IF n = 0 THEN head
                             ELSE IF at[n - 1] = NULL THEN NULL ELSE nexts[at[n - 1][1]]]
           at == CHOOSE f : Is(f)
           g == [i \in 0 .. K |-> IF i < Len(p) THEN <<p[i + 1]>> ELSE NULL]
           S == {n \in Nat : n <= K => at[n] = g[n]}
<1>1. /\ p \in Seq(Descs) /\ Len(p) \in Nat
      /\ head = IF Len(p) = 0 THEN NULL ELSE <<p[1]>>
      /\ \A i \in 1 .. Len(p) : nexts[p[i]] = IF i = Len(p) THEN NULL ELSE <<p[i + 1]>>
      /\ K \in Nat /\ Len(p) <= K
  BY NotTooLong DEF ListFrom
<1>2. \A d : <<d>> # NULL /\ <<d>>[1] = d
  BY DEF NULL
<1> HIDE DEF K
<1>3. ASSUME NEW i \in 1 .. K
      PROVE  g[i] = IF g[i - 1] = NULL THEN NULL ELSE nexts[g[i - 1][1]]
  <2>1. i - 1 \in 0 .. K /\ (i - 1) + 1 = i /\ i \in 0 .. K
    BY <1>1
  <2>2. CASE i - 1 < Len(p)
    <3>1. i \in 1 .. Len(p) /\ g[i - 1] = <<p[i]>>
      BY <2>1, <2>2, <1>1
    <3>2. nexts[p[i]] = g[i]
      BY <1>1, <2>1, <3>1
    <3>3. g[i - 1] # NULL /\ g[i - 1][1] = p[i]
      BY <1>2, <3>1
    <3>4. QED
      BY <3>2, <3>3
  <2>3. CASE ~(i - 1 < Len(p))
    BY <1>1, <2>1, <2>3
  <2>4. QED
    BY <2>2, <2>3
<1>4. Is(g)
  <2>1. g[0] = head
    BY <1>1
  <2>2. g = [i \in 0 .. K |-> g[i]]
    OBVIOUS
  <2>3. \A i \in 0 .. K : i = 0 \/ i \in 1 .. K
    OBVIOUS
  <2> HIDE DEF g
  <2>4. \A i \in 0 .. K : g[i] = IF i = 0 THEN head
                                 ELSE IF g[i - 1] = NULL THEN NULL ELSE nexts[g[i - 1][1]]
    BY <1>3, <2>1, <2>3
  <2>5. QED
    BY <2>2, <2>4
<1>5. Is(at)
  BY <1>4, Zenon
<1> HIDE DEF at
<1>6. 0 \in S
  BY <1>1, <1>5
<1>7. ASSUME NEW n \in Nat, n \in S PROVE n + 1 \in S
  <2> SUFFICES ASSUME n + 1 <= K PROVE at[n + 1] = g[n + 1]
    OBVIOUS
  <2>1. n + 1 \in 1 .. K /\ n + 1 \in 0 .. K /\ (n + 1) - 1 = n /\ n <= K
    BY <1>1
  <2>2. at[n + 1] = IF at[n] = NULL THEN NULL ELSE nexts[at[n][1]]
    BY <1>5, <2>1
  <2>3. g[n + 1] = IF g[n] = NULL THEN NULL ELSE nexts[g[n][1]]
    <3> HIDE DEF g, S
    <3>1. QED
      BY <1>3, <2>1
  <2>4. QED
    BY <1>7, <2>1, <2>2, <2>3
<1>8. Nat \subseteq S
  BY <1>6, <1>7, Induction, Zenon
<1>9. ASSUME NEW n \in 0 .. K PROVE at[n] = g[n]
  <2>1. n \in Nat /\ n <= K
    BY <1>1
  <2>2. n \in S
    BY <1>8, <2>1, Zenon
  <2>3. QED
    BY <2>1, <2>2
<1>10. Linked(head, nexts)
         = [n \in {n \in 1 .. K + 1 : at[n - 1] # NULL} |-> at[n - 1][1]]
  BY Zenon DEF Linked, at, K
<1>11. \A n \in 1 .. K + 1 :
         /\ at[n - 1] # NULL <=> n \in 1 .. Len(p)
         /\ n \in 1 .. Len(p) => at[n - 1][1] = p[n]
  <2> SUFFICES ASSUME NEW n \in 1 .. K + 1
               PROVE  /\ at[n - 1] # NULL <=> n \in 1 .. Len(p)
                      /\ n \in 1 .. Len(p) => at[n - 1][1] = p[n]
    OBVIOUS
  <2>1. n - 1 \in 0 .. K /\ (n - 1) + 1 = n
    BY <1>1
  <2>2. at[n - 1] = IF n - 1 < Len(p) THEN <<p[n]>> ELSE NULL
    BY <1>9, <2>1
  <2>3. n - 1 < Len(p) <=> n \in 1 .. Len(p)
    BY <1>1, <2>1
  <2>4. QED
    BY <1>2, <2>2, <2>3
<1>12. {n \in 1 .. K + 1 : at[n - 1] # NULL} = 1 .. Len(p)
  <2>1. \A n : n \in 1 .. Len(p) => n \in 1 .. K + 1
    BY <1>1
  <2>2. QED
    BY <1>11, <2>1
<1>13. Linked(head, nexts) = [n \in 1 .. Len(p) |-> p[n]]
  <2>1. \A n \in 1 .. Len(p) : n \in 1 .. K + 1 /\ at[n - 1][1] = p[n]
    BY <1>1, <1>11
  <2>2. QED
    BY <1>10, <1>12, <2>1
<1>14. QED
  BY <1>1, <1>13

Holds(p, d) == \E i \in 1 .. Len(p) : p[i] = d

\* Sequences with one element more, and with one less.
Inserted(p, n, d) ==
  [i \in 1 .. Len(p) + 1 |-> IF i <= n THEN p[i] ELSE IF i = n + 1 THEN d ELSE p[i - 1]]
Removed(p, n) == [i \in 1 .. Len(p) - 1 |-> IF i < n THEN p[i] ELSE p[i + 1]]

LEMMA InsertedIs ==
  ASSUME NEW p \in Seq(Descs), NEW n \in 0 .. Len(p), NEW d \in Descs
  PROVE  /\ Inserted(p, n, d) \in Seq(Descs)
         /\ Len(Inserted(p, n, d)) = Len(p) + 1
         /\ \A i \in 1 .. Len(p) + 1 :
              Inserted(p, n, d)[i] = IF i <= n THEN p[i]
                                     ELSE IF i = n + 1 THEN d ELSE p[i - 1]
         /\ \A x : Holds(Inserted(p, n, d), x) <=> x = d \/ Holds(p, x)
<1> DEFINE q == Inserted(p, n, d)
<1>1. Len(p) \in Nat /\ Len(p) + 1 \in Nat
  OBVIOUS
<1>2. \A i \in 1 .. Len(p) + 1 :
         q[i] = IF i <= n THEN p[i] ELSE IF i = n + 1 THEN d ELSE p[i - 1]
  BY DEF Inserted
<1>3. \A i \in 1 .. Len(p) + 1 : q[i] \in Descs
  BY <1>1, <1>2
<1>4. q \in [1 .. Len(p) + 1 -> Descs]
  BY <1>3 DEF Inserted
<1>5. q \in Seq(Descs) /\ Len(q) = Len(p) + 1
  BY <1>1, <1>4
<1> HIDE DEF q
<1>6. ASSUME NEW x
      PROVE  (\E i \in 1 .. Len(p) + 1 : q[i] = x)
               <=> x = d \/ \E i \in 1 .. Len(p) : p[i] = x
  <2>1. ASSUME NEW i \in 1 .. Len(p) + 1, q[i] = x
        PROVE  x = d \/ \E k \in 1 .. Len(p) : p[k] = x
    <3>1. CASE i <= n
      <4>1. i \in 1 .. Len(p) /\ p[i] = x
        BY <1>1, <1>2, <2>1, <3>1
      <4>2. QED
        BY <4>1
    <3>2. CASE i = n + 1
      BY <1>2, <2>1, <3>2
    <3>3. CASE i > n + 1
      <4>1. i - 1 \in 1 .. Len(p) /\ p[i - 1] = x
        BY <1>1, <1>2, <2>1, <3>3
      <4>2. QED
        BY <4>1
    <3>4. QED
      BY <1>1, <3>1, <3>2, <3>3
  <2>2. n + 1 \in 1 .. Len(p) + 1 /\ q[n + 1] = d
    BY <1>1, <1>2
  <2>3. ASSUME NEW i \in 1 .. Len(p) PROVE \E k \in 1 .. Len(p) + 1 : q[k] = p[i]
    <3>1. CASE i <= n
      BY <1>1, <1>2, <3>1
    <3>2. CASE i > n
      <4>1. i + 1 \in 1 .. Len(p) + 1 /\ (i + 1) - 1 = i /\ q[i + 1] = p[i]
        BY <1>1, <1>2, <3>2
      <4>2. QED
        BY <4>1
    <3>3. QED
      BY <1>1, <3>1, <3>2
  <2>4. QED
    BY <2>1, <2>2, <2>3
<1>7. QED
  BY <1>2, <1>5, <1>6 DEF q, Holds

HasInserted(q, p, n, d) ==
  /\ q \in Seq(Descs) /\ Len(q) = Len(p) + 1
  /\ \A i \in 1 .. Len(p) + 1 :
       q[i] = IF i <= n THEN p[i] ELSE IF i = n + 1 THEN d ELSE p[i - 1]
  /\ \A x : Holds(q, x) <=> x = d \/ Holds(p, x)

LEMMA InsertedHas ==
  ASSUME NEW p \in Seq(Descs), NEW n \in 0 .. Len(p), NEW d \in Descs
  PROVE  HasInserted(Inserted(p, n, d), p, n, d)
<1>1. PICK q : q = Inserted(p, n, d)
  OBVIOUS
<1>2. q \in Seq(Descs) /\ Len(q) = Len(p) + 1
  BY <1>1, InsertedIs
<1>3. \A i \in 1 .. Len(p) + 1 :
        q[i] = IF i <= n THEN p[i] ELSE IF i = n + 1 THEN d ELSE p[i - 1]
  BY <1>1 DEF Inserted
<1>4. \A x : Holds(q, x) <=> x = d \/ Holds(p, x)
  BY <1>1, InsertedIs, Zenon
<1>5. QED
  BY <1>1, <1>2, <1>3, <1>4, Zenon DEF HasInserted

LEMMA RemovedIs ==
  ASSUME NEW p \in Seq(Descs), NEW n \in 1 .. Len(p), IsInjective(p)
  PROVE  /\ Removed(p, n) \in Seq(Descs)
         /\ Len(Removed(p, n)) = Len(p) - 1
         /\ \A i \in 1 .. Len(p) - 1 : Removed(p, n)[i] = IF i < n THEN p[i] ELSE p[i + 1]
         /\ \A x : Holds(Removed(p, n), x) <=> x # p[n] /\ Holds(p, x)
<1> DEFINE q == Removed(p, n)
<1>1. Len(p) \in Nat /\ Len(p) - 1 \in Nat
  OBVIOUS
<1>2. \A i \in 1 .. Len(p) - 1 : q[i] = IF i < n THEN p[i] ELSE p[i + 1]
  BY DEF Removed
<1>3. \A i \in 1 .. Len(p) - 1 : q[i] \in Descs
  BY <1>1, <1>2
<1>4. q \in [1 .. Len(p) - 1 -> Descs]
  BY <1>3 DEF Removed
<1>5. q \in Seq(Descs) /\ Len(q) = Len(p) - 1
  BY <1>1, <1>4
<1>6. \A i, j \in 1 .. Len(p) : p[i] = p[j] => i = j
  BY DEF IsInjective
<1> HIDE DEF q
<1>7. ASSUME NEW x
      PROVE  (\E i \in 1 .. Len(p) - 1 : q[i] = x)
               <=> x # p[n] /\ \E i \in 1 .. Len(p) : p[i] = x
  <2>1. ASSUME NEW i \in 1 .. Len(p) - 1, q[i] = x
        PROVE  x # p[n] /\ \E k \in 1 .. Len(p) : p[k] = x
    <3>1. i \in 1 .. Len(p) /\ i + 1 \in 1 .. Len(p)
      BY <1>1
    <3>2. CASE i < n
      BY <1>2, <1>6, <2>1, <3>1, <3>2
    <3>3. CASE ~(i < n)
      <4>1. q[i] = p[i + 1] /\ i + 1 # n
        BY <1>2, <3>1, <3>3
      <4>2. QED
        BY <1>6, <2>1, <3>1, <4>1
    <3>4. QED
      BY <3>2, <3>3
  <2>2. ASSUME NEW i \in 1 .. Len(p), p[i] # p[n]
        PROVE  \E k \in 1 .. Len(p) - 1 : q[k] = p[i]
    <3>1. CASE i < n
      <4>1. i \in 1 .. Len(p) - 1
        BY <1>1, <3>1
      <4>2. QED
        BY <1>2, <3>1, <4>1
    <3>2. CASE i > n
      <4>1. i - 1 \in 1 .. Len(p) - 1 /\ (i - 1) + 1 = i /\ ~(i - 1 < n)
        BY <1>1, <3>2
      <4>2. q[i - 1] = p[i]
        BY <1>2, <4>1
      <4>3. QED
        BY <4>1, <4>2
    <3>3. QED
      BY <1>1, <2>2, <3>1, <3>2
  <2>3. QED
    BY <2>1, <2>2
<1>8. QED
  BY <1>2, <1>5, <1>7 DEF q, Holds

LEMMA InsertList ==
  ASSUME NEW head, NEW nexts, NEW p, ListFrom(head, nexts, p),
         NEW n \in 0 .. Len(p), NEW d \in Descs, \A i \in 1 .. Len(p) : p[i] # d,
         NEW head2, head2 = IF n = 0 THEN <<d>> ELSE head,
         NEW nexts2, nexts2[d] = IF n = 0 THEN head ELSE nexts[p[n]],
         n # 0 => nexts2[p[n]] = <<d>>,
         \A i \in 1 .. Len(p) : i # n => nexts2[p[i]] = nexts[p[i]]
  PROVE  ListFrom(head2, nexts2, Inserted(p, n, d))
<1> DEFINE q == Inserted(p, n, d)
           L == Len(p)
<1>1. /\ p \in Seq(Descs) /\ L \in Nat /\ n \in 0 .. L
      /\ \A i, j \in 1 .. L : p[i] = p[j] => i = j
      /\ head = IF L = 0 THEN NULL ELSE <<p[1]>>
      /\ \A i \in 1 .. L : nexts[p[i]] = IF i = L THEN NULL ELSE <<p[i + 1]>>
  BY DEF ListFrom, IsInjective
<1>2. /\ q \in Seq(Descs) /\ Len(q) = L + 1 /\ DOMAIN q = 1 .. L + 1
      /\ \A i \in 1 .. L + 1 : q[i] = IF i <= n THEN p[i] ELSE IF i = n + 1 THEN d ELSE p[i - 1]
  <2>1. /\ q \in Seq(Descs) /\ Len(q) = L + 1
        /\ \A i \in 1 .. L + 1 : q[i] = IF i <= n THEN p[i] ELSE IF i = n + 1 THEN d ELSE p[i - 1]
    BY <1>1, InsertedIs
  <2> HIDE DEF q
  <2>2. QED
    BY <2>1
<1>3. /\ \A i \in 1 .. n : i \in 1 .. L /\ i \in 1 .. L + 1 /\ q[i] = p[i]
      /\ n + 1 \in 1 .. L + 1 /\ q[n + 1] = d
      /\ \A i \in n + 1 .. L : i \in 1 .. L /\ i + 1 \in 1 .. L + 1 /\ q[i + 1] = p[i]
  BY <1>1, <1>2
<1> HIDE DEF q
<1>4. IsInjective(q)
  <2> SUFFICES ASSUME NEW i \in 1 .. L + 1, NEW j \in 1 .. L + 1, q[i] = q[j]
               PROVE  i = j
    BY <1>2 DEF IsInjective
  <2> DEFINE at(k) == IF k <= n THEN k ELSE k - 1
  <2>1. \A k \in 1 .. L + 1 : k # n + 1 => at(k) \in 1 .. L /\ q[k] = p[at(k)]
    BY <1>1, <1>2
  <2>2. CASE i = n + 1
    <3>1. j = n + 1
      BY <1>3, <2>1, <2>2
    <3>2. QED
      BY <2>2, <3>1
  <2>3. CASE j = n + 1
    <3>1. i = n + 1
      BY <1>3, <2>1, <2>3
    <3>2. QED
      BY <2>3, <3>1
  <2>4. CASE i # n + 1 /\ j # n + 1
    <3>1. at(i) = at(j)
      BY <1>1, <2>1, <2>4
    <3>2. QED
      BY <1>1, <2>4, <3>1
  <2>5. QED
    BY <2>2, <2>3, <2>4
<1>5. head2 = <<q[1]>>
  BY <1>1, <1>2
<1>6. ASSUME NEW i \in 1 .. L + 1
      PROVE  nexts2[q[i]] = IF i = L + 1 THEN NULL ELSE <<q[i + 1]>>
  <2>1. CASE i < n
    <3>1. i \in 1 .. L /\ i + 1 \in 1 .. n /\ i # L + 1 /\ i # L /\ i # n
      BY <1>1, <2>1
    <3>2. q[i] = p[i] /\ q[i + 1] = p[i + 1]
      BY <1>1, <1>3, <2>1, <3>1
    <3>3. nexts2[p[i]] = nexts[p[i]]
      BY <3>1
    <3>4. nexts[p[i]] = <<p[i + 1]>>
      BY <1>1, <3>1
    <3>5. QED
      BY <3>1, <3>2, <3>3, <3>4
  <2>2. CASE i = n
    <3>1. q[i] = p[n] /\ q[i + 1] = d /\ i # L + 1 /\ n # 0
      BY <1>1, <1>3, <2>2
    <3>2. QED
      BY <3>1
  <2>3. CASE i = n + 1
    <3>1. q[i] = d
      BY <1>3, <2>3
    <3>2. CASE n = L
      <4>1. L = 0 \/ L \in 1 .. L
        BY <1>1
      <4>2. nexts2[d] = NULL
        BY <1>1, <3>2, <4>1
      <4>3. QED
        BY <2>3, <3>1, <3>2, <4>2
    <3>3. CASE n < L
      <4>1. n + 1 \in n + 1 .. L /\ i # L + 1
        BY <1>1, <2>3, <3>3
      <4>2. q[i + 1] = p[n + 1]
        BY <1>3, <2>3, <4>1
      <4>3. nexts2[d] = <<p[n + 1]>>
        <5>1. CASE n = 0
          BY <1>1, <3>3, <5>1
        <5>2. CASE n # 0
          <6>1. n \in 1 .. L /\ n # L
            BY <1>1, <3>3, <5>2
          <6>2. QED
            BY <1>1, <5>2, <6>1
        <5>3. QED
          BY <5>1, <5>2
      <4>4. QED
        BY <3>1, <4>1, <4>2, <4>3
    <3>4. QED
      BY <1>1, <3>2, <3>3
  <2>4. CASE i > n + 1
    <3>1. i - 1 \in n + 1 .. L /\ (i - 1) + 1 = i /\ i - 1 \in 1 .. L /\ i - 1 # n
      BY <1>1, <2>4
    <3>2. q[i] = p[i - 1]
      BY <1>3, <3>1
    <3>3. nexts2[q[i]] = IF i - 1 = L THEN NULL ELSE <<p[i]>>
      BY <1>1, <3>1, <3>2
    <3>4. i # L + 1 => q[i + 1] = p[i]
      BY <1>1, <1>3, <3>1
    <3>5. QED
      BY <1>1, <3>1, <3>3, <3>4
  <2>5. QED
    BY <1>1, <2>1, <2>2, <2>3, <2>4
<1>7. QED
  BY <1>1, <1>2, <1>4, <1>5, <1>6 DEF ListFrom, q

LEMMA PushList ==
  ASSUME NEW head, NEW nexts, NEW p, ListFrom(head, nexts, p),
         NEW d \in Descs, \A i \in 1 .. Len(p) : p[i] # d,
         NEW nexts2, nexts2[d] = head, \A i \in 1 .. Len(p) : nexts2[p[i]] = nexts[p[i]]
  PROVE  ListFrom(<<d>>, nexts2, Inserted(p, 0, d))
<1>1. Len(p) \in Nat
  BY DEF ListFrom
<1>2. 0 \in 0 .. Len(p)
  BY <1>1
<1>3. <<d>> = IF 0 = 0 THEN <<d>> ELSE head
  OBVIOUS
<1>4. nexts2[d] = IF 0 = 0 THEN head ELSE nexts[p[0]]
  OBVIOUS
<1>5. 0 # 0 => nexts2[p[0]] = <<d>>
  OBVIOUS
<1>6. \A i \in 1 .. Len(p) : i # 0 => nexts2[p[i]] = nexts[p[i]]
  OBVIOUS
<1>7. QED
  BY <1>2, <1>3, <1>4, <1>5, <1>6, InsertList, Zenon

LEMMA RemoveList ==
  ASSUME NEW head, NEW nexts, NEW p, ListFrom(head, nexts, p),
         NEW n \in 1 .. Len(p),
         NEW head2, head2 = IF n = 1 THEN nexts[p[1]] ELSE head,
         NEW nexts2, n # 1 => nexts2[p[n - 1]] = nexts[p[n]],
         \A i \in 1 .. Len(p) : i \notin {n - 1, n} => nexts2[p[i]] = nexts[p[i]]
  PROVE  ListFrom(head2, nexts2, Removed(p, n))
<1> DEFINE q == Removed(p, n)
           L == Len(p)
<1>1. /\ p \in Seq(Descs) /\ L \in Nat /\ n \in 1 .. L
      /\ \A i, j \in 1 .. L : p[i] = p[j] => i = j
      /\ head = IF L = 0 THEN NULL ELSE <<p[1]>>
      /\ \A i \in 1 .. L : nexts[p[i]] = IF i = L THEN NULL ELSE <<p[i + 1]>>
      /\ IsInjective(p)
  BY DEF ListFrom, IsInjective
<1>2. /\ q \in Seq(Descs) /\ Len(q) = L - 1 /\ DOMAIN q = 1 .. L - 1
      /\ \A i \in 1 .. L - 1 : q[i] = IF i < n THEN p[i] ELSE p[i + 1]
  BY <1>1, RemovedIs
<1> HIDE DEF q
<1>3. IsInjective(q)
  <2> SUFFICES ASSUME NEW i \in 1 .. L - 1, NEW j \in 1 .. L - 1, q[i] = q[j]
               PROVE  i = j
    BY <1>2 DEF IsInjective
  <2> DEFINE at(k) == IF k < n THEN k ELSE k + 1
  <2>1. \A k \in 1 .. L - 1 : at(k) \in 1 .. L /\ q[k] = p[at(k)]
    BY <1>1, <1>2
  <2>2. at(i) = at(j)
    <3>1. p[at(i)] = p[at(j)] /\ at(i) \in 1 .. L /\ at(j) \in 1 .. L
      BY <2>1
    <3> HIDE DEF at
    <3>2. QED
      BY <1>1, <3>1
  <2>3. i \in Nat /\ j \in Nat /\ n \in Nat
    BY <1>1
  <2>4. QED
    BY <2>2, <2>3
<1>4. head2 = IF L - 1 = 0 THEN NULL ELSE <<q[1]>>
  <2>1. CASE n = 1
    <3>1. 1 \in 1 .. L /\ head2 = IF 1 = L THEN NULL ELSE <<p[1 + 1]>>
      BY <1>1, <2>1
    <3>2. L # 1 => 1 \in 1 .. L - 1 /\ q[1] = p[1 + 1]
      BY <1>1, <1>2, <2>1
    <3>3. L = 1 <=> L - 1 = 0
      BY <1>1
    <3>4. QED
      BY <3>1, <3>2, <3>3
  <2>2. CASE n # 1
    <3>1. 1 \in 1 .. L - 1 /\ 1 < n /\ L # 0 /\ L - 1 # 0
      BY <1>1, <2>2
    <3>2. QED
      BY <1>1, <1>2, <2>2, <3>1
  <2>3. QED
    BY <2>1, <2>2
<1>5. ASSUME NEW i \in 1 .. L - 1
      PROVE  nexts2[q[i]] = IF i = L - 1 THEN NULL ELSE <<q[i + 1]>>
  <2>0. i \in 1 .. L /\ i + 1 \in 1 .. L
    BY <1>1
  <2>1. CASE i < n - 1
    <3>1. i + 1 \in 1 .. L - 1 /\ i < n /\ i + 1 < n /\ i # L - 1 /\ i # L /\ i \notin {n - 1, n}
      BY <1>1, <2>1
    <3>2. q[i] = p[i] /\ q[i + 1] = p[i + 1]
      BY <1>2, <3>1
    <3>3. QED
      BY <1>1, <2>0, <3>1, <3>2
  <2>2. CASE i = n - 1
    <3>1. q[i] = p[n - 1] /\ n # 1 /\ nexts2[p[n - 1]] = nexts[p[n]]
      BY <1>1, <1>2, <2>2
    <3>2. n = L <=> i = L - 1
      BY <1>1, <2>2
    <3>3. n # L => q[i + 1] = p[n + 1]
      BY <1>1, <1>2, <2>2
    <3>4. QED
      BY <1>1, <3>1, <3>2, <3>3
  <2>3. CASE i > n - 1
    <3>1. ~(i < n) /\ i + 1 \notin {n - 1, n} /\ (i + 1 = L <=> i = L - 1)
      BY <1>1, <2>3
    <3>2. q[i] = p[i + 1]
      BY <1>2, <3>1
    <3>3. i # L - 1 => q[i + 1] = p[(i + 1) + 1]
      <4>1. i # L - 1 => i + 1 \in 1 .. L - 1 /\ ~(i + 1 < n)
        BY <1>1, <2>3
      <4>2. QED
        BY <1>2, <4>1
    <3>4. nexts2[p[i + 1]] = IF i + 1 = L THEN NULL ELSE <<p[(i + 1) + 1]>>
      BY <1>1, <2>0, <3>1
    <3>5. QED
      BY <3>1, <3>2, <3>3, <3>4
  <2>4. QED
    BY <1>1, <2>1, <2>2, <2>3
<1>6. QED
  BY <1>1, <1>2, <1>3, <1>4, <1>5 DEF ListFrom, q

LEMMA PopList ==
  ASSUME NEW head, NEW nexts, NEW p, ListFrom(head, nexts, p), 1 \in 1 .. Len(p),
         NEW nexts2, \A i \in 1 .. Len(p) : i # 1 => nexts2[p[i]] = nexts[p[i]]
  PROVE  ListFrom(nexts[p[1]], nexts2, Removed(p, 1))
<1>1. PICK n \in 1 .. Len(p) : n = 1
  OBVIOUS
<1>2. PICK head2 : head2 = nexts[p[1]]
  OBVIOUS
<1>3. head2 = (IF n = 1 THEN nexts[p[1]] ELSE head)
  BY <1>1, <1>2
<1>4. n # 1 => nexts2[p[n - 1]] = nexts[p[n]]
  BY <1>1
<1>5. \A i \in 1 .. Len(p) : i \notin {n - 1, n} => nexts2[p[i]] = nexts[p[i]]
  BY <1>1
<1>6. ListFrom(head2, nexts2, Removed(p, n))
  BY <1>3, <1>4, <1>5, RemoveList
<1>7. QED
  BY <1>1, <1>2, <1>6

LEMMA SameList ==
  ASSUME NEW head, NEW nexts, NEW p, ListFrom(head, nexts, p),
         NEW nexts2, \A i \in 1 .. Len(p) : nexts2[p[i]] = nexts[p[i]]
  PROVE  ListFrom(head, nexts2, p)
BY DEF ListFrom

-----------------------------------------------------------------------------
(* The inductive invariant *)

Frames == [op : {"service"}, now : Times] \cup [op : {"serve", "execute"}, ev : Descs]

TypeOK ==
  /\ next \in [Descs -> Ptr] /\ when \in [Descs -> Nat] /\ id \in [Descs -> Nat]
  /\ next_ID \in Nat /\ calls \in Seq(Frames)

\* An event that is served is the first one pending, and only the call that
\* serves it is below it; an event that is executed is in no list, and is no
\* earlier than the one being served.
CallsOK(p, f) ==
  \A i \in 1 .. Len(calls) :
    /\ calls[i].op = "service" => i = Len(calls)
    /\ calls[i].op = "serve" =>
         /\ i + 1 = Len(calls) /\ calls[i + 1].op = "service"
         /\ Len(p) >= 1 /\ calls[i].ev = p[1]
    /\ calls[i].op = "execute" =>
         /\ ~Holds(p, calls[i].ev) /\ ~Holds(f, calls[i].ev)
         /\ i < Len(calls) => calls[i + 1].op # "service"
    /\ calls[i].op # "service" =>
         \A j \in i + 1 .. Len(calls) :
           /\ calls[j].op # "service" => calls[j].ev # calls[i].ev
           /\ calls[j].op = "serve" => when[calls[j].ev] <= when[calls[i].ev]

\* The pending events have identifiers of their own, and are in order.
EventsOK(p) ==
  /\ \A d \in Descs : Holds(p, d) => id[d] < next_ID
  /\ \A d, x \in Descs : Holds(p, d) /\ Holds(p, x) /\ id[d] = id[x] => d = x
  /\ \A i, j \in 1 .. Len(p) : i <= j => when[p[i]] <= when[p[j]]

\* What is still to be done is what is pending and not being served.
AgendaOK(p) ==
  \A e : e \in agenda <=> \E d \in Descs : Holds(p, d) /\ d \notin Running /\ e = Event(d)

\* p is the list of pending events and f the list of free descriptors.
Sound(p, f) ==
  /\ ListFrom(eventq_pending, next, p) /\ ListFrom(eventq_free, next, f)
  /\ \A d \in Descs : ~(Holds(p, d) /\ Holds(f, d))
  /\ CallsOK(p, f) /\ EventsOK(p) /\ AgendaOK(p)

EventInv == TypeOK /\ Sound(Pending, Free)

LEMMA ListsAre ==
  ASSUME NEW p, NEW f, Sound(p, f)
  PROVE  /\ Pending = p /\ Free = f
         /\ p \in Seq(Descs) /\ f \in Seq(Descs) /\ Len(p) \in Nat /\ Len(f) \in Nat
         /\ \A i, j \in 1 .. Len(p) : p[i] = p[j] => i = j
         /\ \A i, j \in 1 .. Len(f) : f[i] = f[j] => i = j
<1>1. Pending = p /\ Free = f
  BY LinkedIs DEF Sound, Pending, Free
<1>2. QED
  BY <1>1 DEF Sound, ListFrom, IsInjective

LEMMA SoundNext ==
  ASSUME NEW p, NEW f, TypeOK', Sound(p, f)'
  PROVE  EventInv'
<1>1. ListFrom(eventq_pending', next', p) /\ ListFrom(eventq_free', next', f)
  BY DEF Sound
<1>2. Linked(eventq_pending', next') = p /\ Linked(eventq_free', next') = f
  BY <1>1, LinkedIs
<1>3. Pending' = p /\ Free' = f
  BY <1>2 DEF Pending, Free
<1>4. QED
  BY <1>3 DEF EventInv

LEMMA HeadIsPtr ==
  ASSUME NEW p, NEW f, Sound(p, f)
  PROVE  eventq_pending \in Ptr /\ eventq_free \in Ptr
<1>1. /\ p \in Seq(Descs) /\ f \in Seq(Descs) /\ Len(p) \in Nat /\ Len(f) \in Nat
  BY ListsAre
<1>2. /\ eventq_free = IF Len(f) = 0 THEN NULL ELSE <<f[1]>>
      /\ eventq_pending = IF Len(p) = 0 THEN NULL ELSE <<p[1]>>
  BY DEF Sound, ListFrom
<1>3. /\ Len(f) # 0 => f[1] \in Descs
      /\ Len(p) # 0 => p[1] \in Descs
  BY <1>1
<1>4. QED
  BY <1>2, <1>3 DEF Ptr

\* Whether there is an event being served.
Serving == \E j \in 1 .. Len(calls) : calls[j].op = "serve"

LEMMA FrameIs ==
  ASSUME TypeOK, NEW i \in 1 .. Len(calls)
  PROVE  /\ calls[i] \in Frames
         /\ calls[i].op \in {"service", "serve", "execute"}
         /\ calls[i].op # "service" => calls[i].ev \in Descs
BY DEF TypeOK, Frames

LEMMA RunningIs ==
  ASSUME TypeOK, NEW p, NEW f, Sound(p, f)
  PROVE  /\ \A d : d \in Running <=> \E i \in 1 .. Len(calls) : calls[i].op # "service" /\ calls[i].ev = d
         /\ \A i \in 1 .. Len(p) : p[i] \in Running <=> i = 1 /\ Serving
         /\ Serving => Len(p) >= 1
<1>1. \A d : d \in Running <=> \E i \in 1 .. Len(calls) : calls[i].op # "service" /\ calls[i].ev = d
  BY DEF Running
<1>2. Len(calls) \in Nat /\ Len(p) \in Nat /\ \A i, j \in 1 .. Len(p) : p[i] = p[j] => i = j
  BY ListsAre DEF TypeOK
<1>3. \A i \in 1 .. Len(calls) :
        /\ calls[i].op \in {"service", "serve", "execute"}
        /\ calls[i].op = "serve" => Len(p) >= 1 /\ calls[i].ev = p[1]
        /\ calls[i].op = "execute" => \A k \in 1 .. Len(p) : p[k] # calls[i].ev
  BY FrameIs DEF Sound, CallsOK, Holds
<1>4. ASSUME NEW i \in 1 .. Len(p) PROVE p[i] \in Running <=> i = 1 /\ Serving
  <2>1. ASSUME p[i] \in Running PROVE i = 1 /\ Serving
    <3>1. PICK j \in 1 .. Len(calls) : calls[j].op # "service" /\ calls[j].ev = p[i]
      BY <1>1, <2>1
    <3>2. calls[j].op = "serve" /\ p[1] = p[i] /\ 1 \in 1 .. Len(p)
      BY <1>2, <1>3, <3>1
    <3>3. QED
      BY <1>2, <3>2 DEF Serving
  <2>2. ASSUME i = 1, Serving PROVE p[i] \in Running
    <3>1. PICK j \in 1 .. Len(calls) : calls[j].op = "serve"
      BY <2>2 DEF Serving
    <3>2. QED
      BY <1>1, <1>3, <2>2, <3>1
  <2>3. QED
    BY <2>1, <2>2
<1>5. QED
  BY <1>1, <1>3, <1>4 DEF Serving

LEMMA PushIs ==
  ASSUME NEW S, NEW cs \in Seq(S), NEW x \in S
  PROVE  /\ <<x>> \o cs \in Seq(S) /\ Len(<<x>> \o cs) = Len(cs) + 1
         /\ (<<x>> \o cs)[1] = x
         /\ \A i \in 1 .. Len(cs) : (<<x>> \o cs)[i + 1] = cs[i]
<1>1. <<x>> \in Seq(S) /\ Len(<<x>>) = 1 /\ <<x>>[1] = x /\ Len(cs) \in Nat
  OBVIOUS
<1>2. <<x>> \o cs \in Seq(S) /\ Len(<<x>> \o cs) = 1 + Len(cs)
  BY <1>1, ConcatProperties
<1>3. \A i \in 1 .. 1 + Len(cs) :
        (<<x>> \o cs)[i] = IF i <= 1 THEN <<x>>[i] ELSE cs[i - 1]
  BY <1>1, ConcatProperties
<1>4. 1 \in 1 .. 1 + Len(cs) /\ \A i \in 1 .. Len(cs) :
        i + 1 \in 1 .. 1 + Len(cs) /\ ~(i + 1 <= 1) /\ (i + 1) - 1 = i
  BY <1>1
<1>5. QED
  BY <1>1, <1>2, <1>3, <1>4

LEMMA PopIs ==
  ASSUME NEW S, NEW cs \in Seq(S), cs # << >>
  PROVE  /\ Tail(cs) \in Seq(S) /\ Len(Tail(cs)) = Len(cs) - 1 /\ Len(cs) >= 1
         /\ Head(cs) = cs[1]
         /\ \A i \in 1 .. Len(cs) - 1 : Tail(cs)[i] = cs[i + 1]
BY HeadTailProperties

-----------------------------------------------------------------------------
(* Each action keeps it *)

LEMMA ServiceKeeps ==
  ASSUME TypeOK, NEW p, NEW f, Sound(p, f), NEW now \in Times, Service(now)
  PROVE  EventInv'
<1>1. calls = << >>
  BY DEF Service
<1>2. UNCHANGED <<next, when, id, eventq_pending, eventq_free, next_ID, agenda>>
  BY DEF Service, idleVars
<1>3. Len(calls') = 1 /\ calls'[1].op = "service" /\ calls' \in Seq(Frames)
  BY DEF Service, Frames
<1>4. TypeOK'
  BY <1>1, <1>2, <1>3 DEF TypeOK
<1>5. Running = {} /\ Running' = {}
  BY <1>1, <1>3 DEF Running
<1>6. CallsOK(p, f)'
  BY <1>3 DEF CallsOK
<1>7. EventsOK(p)' /\ AgendaOK(p)'
  BY <1>1, <1>2, <1>5 DEF Sound, EventsOK, AgendaOK, Event
<1>8. QED
  BY <1>1, <1>2, <1>4, <1>6, <1>7, SoundNext DEF Sound

LEMMA EventsDiffer ==
  ASSUME NEW p, NEW f, Sound(p, f)
  PROVE  \A d, x \in Descs : Holds(p, d) /\ Holds(p, x) /\ Event(d) = Event(x) => d = x
BY DEF Sound, EventsOK, Event, Holds

LEMMA FirstIs ==
  ASSUME NEW p, NEW f, Sound(p, f), eventq_pending # NULL
  PROVE  Len(p) >= 1 /\ 1 \in 1 .. Len(p) /\ eventq_pending[1] = p[1] /\ p[1] \in Descs
<1>1. Len(p) \in Nat /\ p \in Seq(Descs)
  BY ListsAre
<1>2. eventq_pending = IF Len(p) = 0 THEN NULL ELSE <<p[1]>>
  BY DEF Sound, ListFrom
<1>3. Len(p) # 0 /\ 1 \in 1 .. Len(p)
  BY <1>1, <1>2
<1>4. QED
  BY <1>1, <1>2, <1>3

\* The call at the top, and what it says about those below it.
LEMMA TopIs ==
  ASSUME TypeOK, NEW p, NEW f, Sound(p, f), calls # << >>
  PROVE  /\ Head(calls) = calls[1] /\ Len(calls) >= 1 /\ Len(calls) \in Nat
         /\ Head(calls).op = "service" => Len(calls) = 1 /\ Running = {} /\ ~Serving
         /\ Head(calls).op = "serve" =>
              /\ Len(calls) = 2 /\ calls[2].op = "service" /\ calls[1].ev = p[1]
              /\ Len(p) >= 1
<1>1. calls \in Seq(Frames)
  BY DEF TypeOK
<1>2. Head(calls) = calls[1] /\ Len(calls) >= 1 /\ Len(calls) \in Nat
  BY <1>1, PopIs
<1>3. 1 \in 1 .. Len(calls)
  BY <1>2
<1>4. CallsOK(p, f)
  BY DEF Sound
<1>5. /\ calls[1].op = "service" => 1 = Len(calls)
      /\ calls[1].op = "serve" => /\ 1 + 1 = Len(calls) /\ calls[1 + 1].op = "service"
                                 /\ Len(p) >= 1 /\ calls[1].ev = p[1]
  BY <1>3, <1>4 DEF CallsOK
<1>6. ASSUME calls[1].op = "service" PROVE Running = {} /\ ~Serving
  <2>0. Len(calls) = 1
    BY <1>5, <1>6
  <2>1. \A i \in 1 .. Len(calls) : i = 1
    BY <2>0
  <2>2. QED
    BY <1>6, <2>1, RunningIs DEF Serving
<1>7. QED
  BY <1>2, <1>5, <1>6

LEMMA ServeEventKeeps ==
  ASSUME TypeOK, NEW p, NEW f, Sound(p, f), ServeEvent
  PROVE  EventInv'
<1> DEFINE frame == [op |-> "serve", ev |-> p[1]]
<1>1. Servicing /\ eventq_pending # NULL
  BY DEF ServeEvent, Due
<1>2. UNCHANGED <<next, when, id, eventq_pending, eventq_free, next_ID>>
  BY DEF ServeEvent, idleVars
<1>3. Len(p) >= 1 /\ eventq_pending[1] = p[1] /\ p[1] \in Descs /\ 1 \in 1 .. Len(p)
  BY <1>1, FirstIs
<1>4. /\ calls \in Seq(Frames) /\ calls # << >> /\ Len(calls) = 1
      /\ calls[1].op = "service" /\ Running = {} /\ ~Serving
  BY <1>1, TopIs DEF Servicing, TypeOK
<1>5. calls' = <<frame>> \o calls /\ agenda' = agenda \ {Event(p[1])} /\ frame \in Frames
  BY <1>3 DEF ServeEvent, Frames
<1>6. /\ calls' \in Seq(Frames) /\ Len(calls') = 2 /\ calls'[1] = frame
      /\ calls'[1 + 1] = calls[1] /\ 1 \in 1 .. 1
  BY <1>4, <1>5, PushIs
<1> HIDE DEF frame
<1>7. frame.op = "serve" /\ frame.ev = p[1]
  BY DEF frame
<1>8. TypeOK'
  BY <1>1, <1>2, <1>6 DEF TypeOK
<1>9. CallsOK(p, f)'
  <2> SUFFICES ASSUME NEW i \in 1 .. 2
               PROVE  /\ calls'[i].op = "service" => i = Len(calls')
                      /\ calls'[i].op = "serve" =>
                           /\ i + 1 = Len(calls') /\ calls'[i + 1].op = "service"
                           /\ Len(p) >= 1 /\ calls'[i].ev = p[1]
                      /\ calls'[i].op # "execute"
                      /\ calls'[i].op # "service" => \A j \in i + 1 .. Len(calls') : calls'[j].op = "service"
    BY <1>6 DEF CallsOK
  <2>1. CASE i = 1
    <3>1. \A j \in 2 .. 2 : j = 2
      OBVIOUS
    <3>2. calls'[2].op = "service"
      BY <1>4, <1>6
    <3>3. QED
      BY <1>3, <1>4, <1>6, <1>7, <2>1, <3>1, <3>2
  <2>2. CASE i = 2
    <3>1. calls'[2].op = "service"
      BY <1>4, <1>6
    <3>2. QED
      BY <1>6, <2>2, <3>1
  <2>3. QED
    BY <2>1, <2>2
<1>10. EventsOK(p)'
  BY <1>1, <1>2 DEF Sound, EventsOK
<1>11. Running' = {p[1]}
  <2>1. Running' = {calls'[i].ev : i \in {i \in 1 .. Len(calls') : calls'[i].op # "service"}}
    BY DEF Running
  <2>2. {i \in 1 .. Len(calls') : calls'[i].op # "service"} = {1}
    <3>1. calls'[1].op # "service" /\ calls'[2].op = "service"
      BY <1>4, <1>6, <1>7
    <3>2. \A i : i \in 1 .. Len(calls') <=> i = 1 \/ i = 2
      BY <1>6
    <3>3. QED
      BY <3>1, <3>2
  <2>3. QED
    BY <1>6, <1>7, <2>1, <2>2
<1>12. AgendaOK(p)'
  <2>1. \A d : Event(d)' = Event(d)
    BY <1>2 DEF Event
  <2>2. \A d, x \in Descs : Holds(p, d) /\ Holds(p, x) /\ Event(d) = Event(x) => d = x
    BY <1>1, EventsDiffer
  <2>3. Holds(p, p[1])
    BY <1>3 DEF Holds
  <2>4. \A e : e \in agenda <=> \E d \in Descs : Holds(p, d) /\ e = Event(d)
    BY <1>4 DEF Sound, AgendaOK
  <2>5. \A e : e \in agenda' <=> \E d \in Descs : Holds(p, d) /\ d # p[1] /\ e = Event(d)
    BY <1>3, <1>5, <2>2, <2>3, <2>4
  <2>6. QED
    BY <1>11, <2>1, <2>5 DEF AgendaOK
<1>13. QED
  BY <1>1, <1>2, <1>8, <1>9, <1>10, <1>12, SoundNext DEF Sound

LEMMA ServiceReturnKeeps ==
  ASSUME TypeOK, NEW p, NEW f, Sound(p, f), ServiceReturn
  PROVE  EventInv'
<1>1. Servicing
  BY DEF ServiceReturn
<1>2. UNCHANGED <<next, when, id, eventq_pending, eventq_free, next_ID, agenda>>
  BY DEF ServiceReturn, idleVars
<1>3. calls \in Seq(Frames) /\ calls # << >> /\ Len(calls) = 1 /\ Running = {}
  BY <1>1, TopIs DEF Servicing, TypeOK
<1>4. calls' \in Seq(Frames) /\ Len(calls') = 0
  BY <1>3, PopIs DEF ServiceReturn
<1>5. TypeOK'
  BY <1>1, <1>2, <1>4 DEF TypeOK
<1>6. Running' = {}
  BY <1>4 DEF Running
<1>7. CallsOK(p, f)'
  BY <1>4 DEF CallsOK
<1>8. EventsOK(p)' /\ AgendaOK(p)'
  BY <1>1, <1>2, <1>3, <1>6 DEF Sound, EventsOK, AgendaOK, Event
<1>9. QED
  BY <1>1, <1>2, <1>5, <1>7, <1>8, SoundNext DEF Sound

LEMMA RemovedSorted ==
  ASSUME NEW p \in Seq(Descs), NEW n \in 1 .. Len(p), IsInjective(p),
         NEW w \in [Descs -> Nat], \A i, j \in 1 .. Len(p) : i <= j => w[p[i]] <= w[p[j]],
         NEW i \in 1 .. Len(p) - 1, NEW j \in 1 .. Len(p) - 1, i <= j
  PROVE  w[Removed(p, n)[i]] <= w[Removed(p, n)[j]]
<1> DEFINE at(k) == IF k < n THEN k ELSE k + 1
<1>1. \A k \in 1 .. Len(p) - 1 : at(k) \in 1 .. Len(p) /\ Removed(p, n)[k] = p[at(k)]
  <2>1. \A k \in 1 .. Len(p) - 1 : Removed(p, n)[k] = IF k < n THEN p[k] ELSE p[k + 1]
    BY RemovedIs
  <2>2. \A k \in 1 .. Len(p) - 1 : at(k) \in 1 .. Len(p)
    OBVIOUS
  <2>3. QED
    BY <2>1, <2>2
<1>2. at(i) <= at(j)
  OBVIOUS
<1>3. QED
  BY <1>1, <1>2

\* Without its n-th event the rest of the list is as it was.
LEMMA RemovedEvents ==
  ASSUME TypeOK, NEW p, NEW f, Sound(p, f), NEW n \in 1 .. Len(p),
         UNCHANGED <<when, id, next_ID>>
  PROVE  EventsOK(Removed(p, n))'
<1> DEFINE q == Removed(p, n)
<1>1. p \in Seq(Descs) /\ IsInjective(p) /\ EventsOK(p)
  BY DEF Sound, ListFrom
<1>2. Len(q) = Len(p) - 1 /\ \A x : Holds(q, x) => Holds(p, x)
  BY <1>1, RemovedIs
<1>3. \A i, j \in 1 .. Len(p) - 1 : i <= j => when[q[i]] <= when[q[j]]
  BY <1>1, RemovedSorted DEF EventsOK, TypeOK
<1> HIDE DEF q
<1>4. EventsOK(q)'
  BY <1>1, <1>2, <1>3 DEF EventsOK
<1>5. QED
  BY <1>4 DEF q

LEMMA ServeReturnKeeps ==
  ASSUME TypeOK, NEW p, NEW f, Sound(p, f), ServeReturn
  PROVE  EventInv'
<1> DEFINE q == Removed(p, 1)
           g == Inserted(f, 0, p[1])
<1>1. calls # << >> /\ Head(calls).op = "serve" /\ calls \in Seq(Frames)
  BY DEF ServeReturn, TypeOK
<1>2. /\ Len(calls) = 2 /\ calls[2].op = "service" /\ Head(calls).ev = p[1]
      /\ calls[1].op = "serve" /\ calls[1].ev = p[1] /\ Len(p) >= 1
  BY <1>1, TopIs
<1>3. /\ p \in Seq(Descs) /\ f \in Seq(Descs) /\ IsInjective(p)
      /\ Len(p) \in Nat /\ Len(f) \in Nat
      /\ \A i, j \in 1 .. Len(p) : p[i] = p[j] => i = j
  BY ListsAre DEF Sound, ListFrom
<1>4. 1 \in 1 .. Len(p) /\ p[1] \in Descs /\ Holds(p, p[1]) /\ 0 \in 0 .. Len(f)
  BY <1>2, <1>3 DEF Holds
<1>5. /\ eventq_pending' = next[p[1]] /\ next' = [next EXCEPT ![p[1]] = eventq_free]
      /\ eventq_free' = <<p[1]>> /\ calls' = Tail(calls)
      /\ UNCHANGED <<when, id, next_ID, agenda>>
  BY <1>2 DEF ServeReturn, idleVars
<1>6. /\ next \in [Descs -> Ptr] /\ eventq_free \in Ptr /\ next' \in [Descs -> Ptr]
  <2>1. next \in [Descs -> Ptr]
    BY DEF TypeOK
  <2>2. eventq_free \in Ptr
    BY HeadIsPtr
  <2>3. QED
    BY <1>4, <1>5, <2>1, <2>2
<1>7. calls' \in Seq(Frames) /\ Len(calls') = 1 /\ calls'[1].op = "service"
  <2>1. /\ Tail(calls) \in Seq(Frames) /\ Len(Tail(calls)) = 2 - 1
        /\ \A i \in 1 .. 2 - 1 : Tail(calls)[i] = calls[i + 1]
    BY <1>1, <1>2, PopIs
  <2>2. 2 - 1 = 1 /\ 1 \in 1 .. 1 /\ 1 + 1 = 2
    OBVIOUS
  <2>3. Tail(calls)[1] = calls[2]
    BY <2>1, <2>2
  <2>4. QED
    BY <1>2, <1>5, <2>1, <2>2, <2>3
<1>8. TypeOK'
  BY <1>5, <1>6, <1>7 DEF TypeOK
<1>9. /\ next'[p[1]] = eventq_free
      /\ \A d \in Descs : d # p[1] => next'[d] = next[d]
  BY <1>4, <1>5, <1>6
<1>10. \A i \in 1 .. Len(f) : f[i] \in Descs /\ f[i] # p[1]
  <2>1. \A i \in 1 .. Len(f) : f[i] \in Descs /\ Holds(f, f[i])
    BY <1>3 DEF Holds
  <2>2. QED
    BY <1>4, <2>1 DEF Sound
<1>11. ListFrom(eventq_pending', next', q)
  <2>1. \A i \in 1 .. Len(p) : i \notin {1 - 1, 1} => next'[p[i]] = next[p[i]]
    BY <1>3, <1>4, <1>9
  <2>2. ListFrom(eventq_pending, next, p)
    BY DEF Sound
  <2>3. QED
    BY <1>4, <1>5, <2>1, <2>2, RemoveList
<1>12. ListFrom(eventq_free', next', g)
  <2>1. ListFrom(eventq_free, next, f)
    BY DEF Sound
  <2>2. \A i \in 1 .. Len(f) : next'[f[i]] = next[f[i]]
    BY <1>9, <1>10
  <2>3. \A i \in 1 .. Len(f) : f[i] # p[1]
    BY <1>10
  <2>4. ListFrom(<<p[1]>>, next', g)
    BY <1>4, <1>9, <2>1, <2>2, <2>3, PushList, Zenon
  <2>5. QED
    BY <1>5, <2>4
<1>13. /\ \A x : Holds(q, x) <=> x # p[1] /\ Holds(p, x)
       /\ \A x : Holds(g, x) <=> x = p[1] \/ Holds(f, x)
  BY <1>3, <1>4, RemovedIs, InsertedIs
<1>14. EventsOK(q)'
  BY <1>4, <1>5, RemovedEvents
<1> HIDE DEF q, g
<1>15. CallsOK(q, g)'
  BY <1>7 DEF CallsOK
<1>16. AgendaOK(q)'
  <2>1. \A d : Event(d)' = Event(d)
    BY <1>5 DEF Event
  <2>2. Running' = {}
    BY <1>7 DEF Running
  <2>3. \A d \in Descs : Holds(p, d) => (d \in Running <=> d = p[1])
    <3>1. Serving
      BY <1>2 DEF Serving
    <3>2. \A i \in 1 .. Len(p) : p[i] \in Running <=> i = 1
      BY <3>1, RunningIs
    <3>3. QED
      BY <1>3, <1>4, <3>2 DEF Holds
  <2>4. \A e : e \in agenda <=> \E d \in Descs : Holds(q, d) /\ e = Event(d)
    BY <1>13, <2>3 DEF Sound, AgendaOK
  <2>5. QED
    BY <1>5, <2>1, <2>2, <2>4 DEF AgendaOK
<1>17. \A d \in Descs : ~(Holds(q, d) /\ Holds(g, d))
  BY <1>13 DEF Sound
<1>18. Sound(q, g)'
  BY <1>11, <1>12, <1>14, <1>15, <1>16, <1>17 DEF Sound
<1>19. QED
  BY <1>8, <1>18, SoundNext

\* An event was executed: its descriptor goes to the free list.
LEMMA ExecuteReturnKeeps ==
  ASSUME TypeOK, NEW p, NEW f, Sound(p, f), ExecuteReturn
  PROVE  EventInv'
<1> DEFINE ev == calls[1].ev
<1>1. calls # << >> /\ Head(calls).op = "execute" /\ calls \in Seq(Frames)
  BY DEF ExecuteReturn, TypeOK
<1>2. Head(calls) = calls[1] /\ Len(calls) >= 1 /\ Len(calls) \in Nat /\ 1 \in 1 .. Len(calls)
  BY <1>1, TopIs
<1>3. ev \in Descs /\ ~Holds(p, ev) /\ ~Holds(f, ev) /\ calls[1].op = "execute"
  BY <1>1, <1>2, FrameIs DEF Sound, CallsOK
<1>4. \E e \in Descs : e = ev
  BY <1>3
<1>5. PICK e \in Descs : e = ev
  BY <1>4
<1>6. /\ next' = [next EXCEPT ![e] = eventq_free]
      /\ eventq_free' = <<e>> /\ calls' = Tail(calls)
      /\ UNCHANGED <<when, id, next_ID, agenda, eventq_pending>>
  BY <1>2, <1>5 DEF ExecuteReturn, idleVars
<1>7. ~Holds(p, e) /\ ~Holds(f, e)
  BY <1>3, <1>5
<1>8. /\ p \in Seq(Descs) /\ f \in Seq(Descs) /\ Len(p) \in Nat /\ Len(f) \in Nat
      /\ 0 \in 0 .. Len(f)
  BY ListsAre
<1>9. next \in [Descs -> Ptr] /\ eventq_free \in Ptr /\ next' \in [Descs -> Ptr]
  <2>1. next \in [Descs -> Ptr]
    BY DEF TypeOK
  <2>2. eventq_free \in Ptr
    BY HeadIsPtr
  <2>3. QED
    BY <1>6, <2>1, <2>2
<1>10. /\ calls' \in Seq(Frames) /\ Len(calls') = Len(calls) - 1
       /\ \A i \in 1 .. Len(calls') : i + 1 \in 1 .. Len(calls) /\ calls'[i] = calls[i + 1]
  <2>1. /\ Tail(calls) \in Seq(Frames) /\ Len(Tail(calls)) = Len(calls) - 1
        /\ \A i \in 1 .. Len(calls) - 1 : Tail(calls)[i] = calls[i + 1]
    BY <1>1, PopIs
  <2>2. \A i \in 1 .. Len(calls) - 1 : i + 1 \in 1 .. Len(calls)
    BY <1>2
  <2>3. QED
    BY <1>6, <2>1, <2>2
<1>11. TypeOK'
  BY <1>6, <1>9, <1>10 DEF TypeOK
<1>12. next'[e] = eventq_free /\ \A d \in Descs : d # e => next'[d] = next[d]
  BY <1>6, <1>9
<1>13. /\ \A i \in 1 .. Len(p) : p[i] \in Descs /\ p[i] # e
       /\ \A i \in 1 .. Len(f) : f[i] \in Descs /\ f[i] # e
  BY <1>7, <1>8 DEF Holds
<1>14. ListFrom(eventq_pending', next', p)
  BY <1>6, <1>12, <1>13, SameList DEF Sound
<1> DEFINE h == Inserted(f, 0, e)
<1>15. ListFrom(eventq_free', next', h)
  <2>1. ListFrom(eventq_free, next, f)
    BY DEF Sound
  <2>2. \A i \in 1 .. Len(f) : next'[f[i]] = next[f[i]]
    BY <1>12, <1>13
  <2>3. \A i \in 1 .. Len(f) : f[i] # e
    BY <1>13
  <2>4. ListFrom(<<e>>, next', h)
    BY <1>12, <2>1, <2>2, <2>3, PushList, Zenon
  <2>5. QED
    BY <1>6, <2>4
<1>16. \A x : Holds(h, x) <=> x = e \/ Holds(f, x)
  BY <1>8, InsertedIs
<1> HIDE DEF h
<1>17. EventsOK(p)'
  BY <1>6 DEF Sound, EventsOK
<1>18. CallsOK(p, h)'
  <2>h. UNCHANGED when
    BY <1>6
  <2> SUFFICES ASSUME NEW i \in 1 .. Len(calls')
               PROVE  /\ calls'[i].op = "service" => i = Len(calls')
                      /\ calls'[i].op = "serve" =>
                           /\ i + 1 = Len(calls') /\ calls'[i + 1].op = "service"
                           /\ Len(p) >= 1 /\ calls'[i].ev = p[1]
                      /\ calls'[i].op = "execute" =>
                           /\ ~Holds(p, calls'[i].ev) /\ ~Holds(h, calls'[i].ev)
                           /\ i < Len(calls') => calls'[i + 1].op # "service"
                      /\ calls'[i].op # "service" =>
                           \A j \in i + 1 .. Len(calls') :
                             /\ calls'[j].op # "service" => calls'[j].ev # calls'[i].ev
                             /\ calls'[j].op = "serve" => when[calls'[j].ev] <= when[calls'[i].ev]
    BY <2>h DEF CallsOK
  <2>1. i + 1 \in 1 .. Len(calls) /\ calls'[i] = calls[i + 1] /\ i + 1 \in 1 + 1 .. Len(calls)
    BY <1>2, <1>10
  <2>2. CallsOK(p, f)
    BY DEF Sound
  <2>3. calls[i + 1].op # "service" => calls[i + 1].ev # e
    BY <1>2, <1>3, <1>5, <2>1, <2>2 DEF CallsOK
  <2>4. \A j \in i + 1 .. Len(calls') : j + 1 \in (i + 1) + 1 .. Len(calls) /\ calls'[j] = calls[j + 1]
    BY <1>2, <1>10, <2>1
  <2>5. i < Len(calls') => i + 1 \in i + 1 .. Len(calls') /\ (i + 1) + 1 \in 1 .. Len(calls)
    BY <1>2, <1>10, <2>1
  <2>6. i + 1 = Len(calls) <=> i = Len(calls')
    BY <1>2, <1>10
  <2>7. (i + 1) + 1 = Len(calls) <=> i + 1 = Len(calls')
    BY <1>2, <1>10
  <2>8. i < Len(calls') <=> i + 1 < Len(calls)
    BY <1>2, <1>10
  <2>9. calls'[i].op = "service" => i = Len(calls')
    BY <2>1, <2>2, <2>6 DEF CallsOK
  <2>10. calls'[i].op = "serve" =>
           /\ i + 1 = Len(calls') /\ calls'[i + 1].op = "service"
           /\ Len(p) >= 1 /\ calls'[i].ev = p[1]
    <3>1. calls[i + 1].op = "serve" =>
             /\ (i + 1) + 1 = Len(calls) /\ calls[(i + 1) + 1].op = "service"
             /\ Len(p) >= 1 /\ calls[i + 1].ev = p[1]
      BY <2>1, <2>2 DEF CallsOK
    <3>2. i + 1 = Len(calls') => calls'[i + 1] = calls[(i + 1) + 1]
      BY <2>4, <2>1, <1>10
    <3>3. QED
      BY <2>1, <2>7, <3>1, <3>2
  <2>11. calls'[i].op = "execute" =>
           /\ ~Holds(p, calls'[i].ev) /\ ~Holds(h, calls'[i].ev)
           /\ i < Len(calls') => calls'[i + 1].op # "service"
    <3>1. calls[i + 1].op = "execute" =>
             /\ ~Holds(p, calls[i + 1].ev) /\ ~Holds(f, calls[i + 1].ev)
             /\ i + 1 < Len(calls) => calls[(i + 1) + 1].op # "service"
      BY <2>1, <2>2 DEF CallsOK
    <3>2. i < Len(calls') => calls'[i + 1] = calls[(i + 1) + 1]
      BY <2>4, <2>5
    <3>3. QED
      BY <1>16, <2>1, <2>3, <2>8, <3>1, <3>2
  <2>12. calls'[i].op # "service" =>
           \A j \in i + 1 .. Len(calls') :
             /\ calls'[j].op # "service" => calls'[j].ev # calls'[i].ev
             /\ calls'[j].op = "serve" => when[calls'[j].ev] <= when[calls'[i].ev]
    <3>1. calls[i + 1].op # "service" =>
             \A j \in (i + 1) + 1 .. Len(calls) :
               /\ calls[j].op # "service" => calls[j].ev # calls[i + 1].ev
               /\ calls[j].op = "serve" => when[calls[j].ev] <= when[calls[i + 1].ev]
      BY <2>1, <2>2 DEF CallsOK
    <3>2. QED
      BY <2>1, <2>4, <3>1
  <2>13. QED
    BY <2>9, <2>10, <2>11, <2>12
<1>19. AgendaOK(p)'
  <2>1. \A d : Event(d)' = Event(d)
    BY <1>6 DEF Event
  <2>2. \A d : d \in Running' => d \in Running
    BY <1>10 DEF Running
  <2>3. \A d : d \in Running => d \in Running' \/ d = e
    <3> SUFFICES ASSUME NEW i \in 1 .. Len(calls), calls[i].op # "service", calls[i].ev # e
                 PROVE  calls[i].ev \in Running'
      BY RunningIs
    <3>1. i # 1
      BY <1>5
    <3>2. i - 1 \in 1 .. Len(calls') /\ (i - 1) + 1 = i
      BY <1>2, <1>10, <3>1
    <3>3. calls'[i - 1] = calls[i]
      BY <1>10, <3>2
    <3>4. QED
      BY <3>2, <3>3 DEF Running
  <2>4. \A d \in Descs : Holds(p, d) => (d \in Running <=> d \in Running')
    BY <1>7, <2>2, <2>3
  <2>5. AgendaOK(p)
    BY DEF Sound
  <2>6. \A e1 : e1 \in agenda' <=> \E d \in Descs : Holds(p, d) /\ d \notin Running' /\ e1 = Event(d)
    BY <1>6, <2>4, <2>5 DEF AgendaOK
  <2>7. QED
    BY <2>1, <2>6 DEF AgendaOK
<1>20. \A d \in Descs : ~(Holds(p, d) /\ Holds(h, d))
  BY <1>7, <1>16 DEF Sound
<1>21. Sound(p, h)'
  BY <1>14, <1>15, <1>17, <1>18, <1>19, <1>20 DEF Sound
<1>22. QED
  BY <1>11, <1>21, SoundNext

-----------------------------------------------------------------------------
(* An event that is found by its identifier, and taken out *)

\* The event found is not the one being served.
LEMMA FoundIs ==
  ASSUME TypeOK, NEW p, NEW f, Sound(p, f), NEW i \in Others
  PROVE  \E n \in 1 .. Len(p) :
           /\ Min(Found(i)) = n /\ Pending[n] = p[n] /\ p[n] \in Descs
           /\ p[n] \notin Running /\ (Serving => n # 1)
<1>1. /\ Pending = p /\ p \in Seq(Descs) /\ Len(p) \in Nat
      /\ \A m, n \in 1 .. Len(p) : p[m] = p[n] => m = n
  BY ListsAre
<1>2. PICK d \in ToSet(p) \ Running : id[d] = i
  BY <1>1 DEF Others
<1>3. PICK n \in 1 .. Len(p) : p[n] = d
  BY <1>1, <1>2 DEF ToSet
<1>4. d \in Descs /\ Holds(p, d)
  BY <1>1, <1>3 DEF Holds
<1>5. \A m \in 1 .. Len(p) : p[m] \in Descs /\ Holds(p, p[m])
  BY <1>1 DEF Holds
<1>6. \A m \in 1 .. Len(p) : id[p[m]] = i => m = n
  BY <1>1, <1>2, <1>3, <1>4, <1>5 DEF Sound, EventsOK
<1>7. Found(i) = {n}
  BY <1>1, <1>2, <1>3, <1>6 DEF Found
<1>8. Min(Found(i)) = n
  <2>1. Found(i) \in SUBSET Nat /\ Found(i) # {}
    BY <1>7
  <2>2. QED
    BY <1>7, <2>1, LeastIs
<1>9. Serving => n # 1
  BY <1>2, <1>3, RunningIs
<1>10. QED
  BY <1>1, <1>2, <1>3, <1>4, <1>8, <1>9

\* The links after the n-th event is taken out.
LEMMA UnlinkedIs ==
  ASSUME TypeOK, NEW p, NEW f, Sound(p, f), NEW n \in 1 .. Len(p)
  PROVE  /\ UnlinkedNext(n) \in [Descs -> Ptr]
         /\ n # 1 => UnlinkedNext(n)[p[n - 1]] = next[p[n]]
         /\ \A d \in Descs : (n # 1 => d # p[n - 1]) => UnlinkedNext(n)[d] = next[d]
<1>1. Pending = p /\ p \in Seq(Descs) /\ Len(p) \in Nat
  BY ListsAre
<1>2. next \in [Descs -> Ptr] /\ p[n] \in Descs /\ next[p[n]] \in Ptr
  BY <1>1 DEF TypeOK
<1>3. CASE n = 1
  <2>1. UnlinkedNext(n) = next
    BY <1>3 DEF UnlinkedNext
  <2>2. QED
    BY <1>2, <1>3, <2>1
<1>4. CASE n # 1
  <2>1. n - 1 \in 1 .. Len(p) /\ p[n - 1] \in Descs
    BY <1>1, <1>4
  <2>2. UnlinkedNext(n) = [next EXCEPT ![p[n - 1]] = next[p[n]]]
    BY <1>1, <1>4 DEF UnlinkedNext
  <2>3. QED
    BY <1>2, <1>4, <2>1, <2>2
<1>5. QED
  BY <1>3, <1>4

LEMMA UnlinkedList ==
  ASSUME TypeOK, NEW p, NEW f, Sound(p, f), NEW n \in 1 .. Len(p),
         NEW head2, head2 = IF n = 1 THEN next[p[n]] ELSE eventq_pending,
         NEW nexts2, \A d \in Descs : d # p[n] => nexts2[d] = UnlinkedNext(n)[d]
  PROVE  ListFrom(head2, nexts2, Removed(p, n))
<1>1. /\ p \in Seq(Descs) /\ Len(p) \in Nat
      /\ \A i, j \in 1 .. Len(p) : p[i] = p[j] => i = j
      /\ \A i \in 1 .. Len(p) : p[i] \in Descs
  BY ListsAre
<1>2. ListFrom(eventq_pending, next, p)
  BY DEF Sound
<1>3. n # 1 => nexts2[p[n - 1]] = next[p[n]]
  <2> SUFFICES ASSUME n # 1 PROVE nexts2[p[n - 1]] = next[p[n]]
    OBVIOUS
  <2>1. n - 1 \in 1 .. Len(p) /\ n - 1 # n
    BY <1>1
  <2>2. p[n - 1] \in Descs /\ p[n - 1] # p[n]
    BY <1>1, <2>1
  <2>3. QED
    BY <2>2, UnlinkedIs
<1>4. \A i \in 1 .. Len(p) : i \notin {n - 1, n} => nexts2[p[i]] = next[p[i]]
  <2> SUFFICES ASSUME NEW i \in 1 .. Len(p), i # n - 1, i # n
               PROVE  nexts2[p[i]] = next[p[i]]
    OBVIOUS
  <2>1. p[i] \in Descs /\ p[i] # p[n]
    BY <1>1
  <2>2. n # 1 => n - 1 \in 1 .. Len(p)
    BY <1>1
  <2>3. n # 1 => p[i] # p[n - 1]
    BY <1>1, <2>2
  <2>4. QED
    BY <2>1, <2>3, UnlinkedIs
<1>5. head2 = IF n = 1 THEN next[p[1]] ELSE eventq_pending
  OBVIOUS
<1>6. QED
  BY <1>2, <1>3, <1>4, <1>5, RemoveList

\* The links of descriptors that are not pending stay.
LEMMA UnlinkedOthers ==
  ASSUME TypeOK, NEW p, NEW f, Sound(p, f), NEW n \in 1 .. Len(p),
         NEW d \in Descs, ~Holds(p, d)
  PROVE  UnlinkedNext(n)[d] = next[d] /\ p[n] # d
<1>1. p \in Seq(Descs) /\ Len(p) \in Nat
  BY ListsAre
<1>2. n # 1 => n - 1 \in 1 .. Len(p)
  BY <1>1
<1>3. n # 1 => p[n - 1] # d
  BY <1>2 DEF Holds
<1>4. p[n] # d
  BY DEF Holds
<1>5. QED
  BY <1>3, <1>4, UnlinkedIs

\* What an event that is not being served leaves behind.
LEMMA AgendaWithout ==
  ASSUME TypeOK, NEW p, NEW f, Sound(p, f), NEW n \in 1 .. Len(p), p[n] \notin Running
  PROVE  \A e : e \in agenda \ {Event(p[n])} <=>
           \E d \in Descs : Holds(Removed(p, n), d) /\ d \notin Running /\ e = Event(d)
<1>1. p \in Seq(Descs) /\ IsInjective(p) /\ p[n] \in Descs /\ Holds(p, p[n])
  BY DEF Sound, ListFrom, Holds
<1>2. \A x : Holds(Removed(p, n), x) <=> x # p[n] /\ Holds(p, x)
  BY <1>1, RemovedIs
<1>3. \A d, x \in Descs : Holds(p, d) /\ Holds(p, x) /\ Event(d) = Event(x) => d = x
  BY EventsDiffer
<1>4. \A e : e \in agenda <=> \E d \in Descs : Holds(p, d) /\ d \notin Running /\ e = Event(d)
  BY DEF Sound, AgendaOK
<1>5. QED
  BY <1>1, <1>2, <1>3, <1>4

LEMMA FirstStays ==
  ASSUME NEW p, NEW f, Sound(p, f), NEW n \in 1 .. Len(p), n # 1
  PROVE  Len(Removed(p, n)) >= 1 /\ Removed(p, n)[1] = p[1]
<1>1. p \in Seq(Descs) /\ IsInjective(p) /\ Len(p) \in Nat
  BY DEF Sound, ListFrom
<1>2. 1 \in 1 .. Len(p) - 1 /\ 1 < n
  BY <1>1
<1>3. /\ Len(Removed(p, n)) = Len(p) - 1
      /\ \A i \in 1 .. Len(p) - 1 : Removed(p, n)[i] = IF i < n THEN p[i] ELSE p[i + 1]
  BY <1>1, RemovedIs
<1>4. QED
  BY <1>1, <1>2, <1>3

LEMMA RemoveKeeps ==
  ASSUME TypeOK, NEW p, NEW f, Sound(p, f), NEW i \in Others, eventq_remove(i)
  PROVE  EventInv'
<1>1. PICK n \in 1 .. Len(p) :
        /\ Min(Found(i)) = n /\ Pending[n] = p[n] /\ p[n] \in Descs
        /\ p[n] \notin Running /\ (Serving => n # 1)
  BY FoundIs
<1>2. p[n] \in Descs
  BY <1>1
<1>3. PICK e \in Descs : e = p[n]
  BY <1>2
<1> DEFINE q == Removed(p, n)
           g == Inserted(f, 0, e)
<1>4. /\ eventq_pending' = IF n = 1 THEN next[p[n]] ELSE eventq_pending
      /\ next' = [UnlinkedNext(n) EXCEPT ![e] = eventq_free]
      /\ eventq_free' = <<e>> /\ agenda' = agenda \ {Event(e)}
      /\ UNCHANGED <<when, id, next_ID, calls>>
  BY <1>1, <1>3 DEF eventq_remove, idleVars
<1>5. /\ p \in Seq(Descs) /\ f \in Seq(Descs) /\ IsInjective(p)
      /\ Len(p) \in Nat /\ Len(f) \in Nat /\ 0 \in 0 .. Len(f)
  BY ListsAre DEF Sound, ListFrom
<1>6. next' \in [Descs -> Ptr]
  BY <1>4, UnlinkedIs, HeadIsPtr
<1>7. TypeOK'
  BY <1>4, <1>6 DEF TypeOK
<1>8. next'[e] = eventq_free /\ \A d \in Descs : d # p[n] => next'[d] = UnlinkedNext(n)[d]
  BY <1>3, <1>4, UnlinkedIs
<1>9. ListFrom(eventq_pending', next', q)
  BY <1>4, <1>8, UnlinkedList
<1>10. Holds(p, e) /\ ~Holds(f, e)
  BY <1>3, <1>5 DEF Holds, Sound
<1>11. ListFrom(eventq_free', next', g)
  <2>1. ListFrom(eventq_free, next, f)
    BY DEF Sound
  <2>2. \A k \in 1 .. Len(f) : next'[f[k]] = next[f[k]]
    <3> SUFFICES ASSUME NEW k \in 1 .. Len(f) PROVE next'[f[k]] = next[f[k]]
      OBVIOUS
    <3>1. f[k] \in Descs /\ Holds(f, f[k])
      BY <1>5 DEF Holds
    <3>2. ~Holds(p, f[k])
      BY <3>1 DEF Sound
    <3>3. UnlinkedNext(n)[f[k]] = next[f[k]] /\ p[n] # f[k]
      BY <3>1, <3>2, UnlinkedOthers
    <3>4. QED
      BY <1>8, <3>1, <3>3
  <2>3. \A k \in 1 .. Len(f) : f[k] # e
    BY <1>10 DEF Holds
  <2>4. ListFrom(<<e>>, next', g)
    BY <1>8, <2>1, <2>2, <2>3, PushList, Zenon
  <2>5. QED
    BY <1>4, <2>4
<1>12. /\ \A x : Holds(q, x) <=> x # e /\ Holds(p, x)
       /\ \A x : Holds(g, x) <=> x = e \/ Holds(f, x)
  <2>1. \A x : Holds(q, x) <=> x # p[n] /\ Holds(p, x)
    BY <1>5, RemovedIs
  <2>2. HasInserted(g, f, 0, e)
    BY <1>5, InsertedHas
  <2>3. \A x : Holds(g, x) <=> x = e \/ Holds(f, x)
    BY <2>2, Zenon DEF HasInserted
  <2>4. QED
    BY <1>3, <2>1, <2>3
<1>13. EventsOK(q)'
  BY <1>4, RemovedEvents
<1>14. n # 1 => Len(q) >= 1 /\ q[1] = p[1]
  BY FirstStays
<1> HIDE DEF q, g
<1>15. CallsOK(q, g)'
  <2>1. CallsOK(p, f) /\ UNCHANGED <<calls, when>>
    BY <1>4 DEF Sound
  <2>2. \A k \in 1 .. Len(calls) : calls[k].op = "serve" => n # 1
    BY <1>1 DEF Serving
  <2>3. QED
    BY <1>10, <1>12, <1>14, <2>1, <2>2 DEF CallsOK
<1>16. AgendaOK(q)'
  <2>1. /\ \A d : Event(d)' = Event(d)
        /\ Running' = Running
    BY <1>4 DEF Event, Running
  <2>2. \A x : x \in agenda' <=>
          \E d \in Descs : Holds(q, d) /\ d \notin Running /\ x = Event(d)
    BY <1>1, <1>3, <1>4, AgendaWithout DEF q
  <2>3. QED
    BY <2>1, <2>2 DEF AgendaOK
<1>17. \A d \in Descs : ~(Holds(q, d) /\ Holds(g, d))
  BY <1>12 DEF Sound
<1>18. Sound(q, g)'
  BY <1>9, <1>11, <1>13, <1>15, <1>16, <1>17 DEF Sound
<1>19. QED
  BY <1>7, <1>18, SoundNext

LEMMA ExecuteKeeps ==
  ASSUME TypeOK, NEW p, NEW f, Sound(p, f), NEW i \in Others, eventq_execute(i)
  PROVE  EventInv'
<1>1. PICK n \in 1 .. Len(p) :
        /\ Min(Found(i)) = n /\ Pending[n] = p[n] /\ p[n] \in Descs
        /\ p[n] \notin Running /\ (Serving => n # 1)
  BY FoundIs
<1>2. p[n] \in Descs
  BY <1>1
<1>3. PICK e \in Descs : e = p[n]
  BY <1>2
<1> DEFINE q == Removed(p, n)
           frame == [op |-> "execute", ev |-> e]
<1>4. /\ eventq_pending' = IF n = 1 THEN next[p[n]] ELSE eventq_pending
      /\ next' = UnlinkedNext(n)
      /\ calls' = <<frame>> \o calls /\ agenda' = agenda \ {Event(e)}
      /\ UNCHANGED <<when, id, next_ID, eventq_free>>
  BY <1>1, <1>3 DEF eventq_execute, idleVars
<1>5. /\ p \in Seq(Descs) /\ f \in Seq(Descs) /\ IsInjective(p)
      /\ Len(p) \in Nat /\ Len(f) \in Nat /\ 0 \in 0 .. Len(f)
  BY ListsAre DEF Sound, ListFrom
<1>6. calls \in Seq(Frames) /\ Len(calls) \in Nat /\ frame \in Frames
  BY DEF TypeOK, Frames
<1>7. /\ calls' \in Seq(Frames) /\ Len(calls') = Len(calls) + 1 /\ calls'[1] = frame
      /\ \A k \in 1 .. Len(calls) : calls'[k + 1] = calls[k]
  BY <1>4, <1>6, PushIs
<1>8. frame.op = "execute" /\ frame.ev = e
  OBVIOUS
<1> HIDE DEF frame
<1>9. TypeOK'
  BY <1>4, <1>7, UnlinkedIs DEF TypeOK
<1>10. ListFrom(eventq_pending', next', q)
  BY <1>4, UnlinkedList
<1>11. Holds(p, e) /\ ~Holds(f, e)
  BY <1>3, <1>5 DEF Holds, Sound
<1>12. ListFrom(eventq_free', next', f)
  <2>1. ListFrom(eventq_free, next, f)
    BY DEF Sound
  <2>2. \A k \in 1 .. Len(f) : next'[f[k]] = next[f[k]]
    <3> SUFFICES ASSUME NEW k \in 1 .. Len(f) PROVE next'[f[k]] = next[f[k]]
      OBVIOUS
    <3>1. f[k] \in Descs /\ Holds(f, f[k])
      BY <1>5 DEF Holds
    <3>2. ~Holds(p, f[k])
      BY <3>1 DEF Sound
    <3>3. QED
      BY <1>4, <3>1, <3>2, UnlinkedOthers
  <2>3. QED
    BY <1>4, <2>1, <2>2, SameList
<1>13. \A x : Holds(q, x) <=> x # e /\ Holds(p, x)
  BY <1>3, <1>5, RemovedIs
<1>14. EventsOK(q)'
  BY <1>4, RemovedEvents
<1>15. n # 1 => Len(q) >= 1 /\ q[1] = p[1]
  BY FirstStays
<1> HIDE DEF q
<1>16. /\ \A k \in 1 .. Len(calls) : calls[k].op # "service" => calls[k].ev # e
       /\ \A k \in 1 .. Len(calls) : calls[k].op = "serve" =>
            n # 1 /\ when[calls[k].ev] <= when[e]
  <2>1. \A k \in 1 .. Len(calls) : calls[k].op # "service" => calls[k].ev \in Running
    BY RunningIs
  <2>2. \A k \in 1 .. Len(calls) : calls[k].op = "serve" => n # 1 /\ calls[k].ev = p[1]
    BY <1>1 DEF Serving, Sound, CallsOK
  <2>3. 1 \in 1 .. Len(p) /\ 1 <= n
    BY <1>5
  <2>4. when[p[1]] <= when[p[n]]
    BY <2>3 DEF Sound, EventsOK
  <2>5. QED
    BY <1>1, <1>3, <2>1, <2>2, <2>4
<1>17. calls # << >> => calls[1].op # "service"
  BY TopIs DEF eventq_execute, MayCall, Servicing
<1>18. CallsOK(q, f)'
  <2> SUFFICES ASSUME NEW k \in 1 .. Len(calls) + 1
               PROVE  /\ calls'[k].op = "service" => k = Len(calls')
                      /\ calls'[k].op = "serve" =>
                           /\ k + 1 = Len(calls') /\ calls'[k + 1].op = "service"
                           /\ Len(q) >= 1 /\ calls'[k].ev = q[1]
                      /\ calls'[k].op = "execute" =>
                           /\ ~Holds(q, calls'[k].ev) /\ ~Holds(f, calls'[k].ev)
                           /\ k < Len(calls') => calls'[k + 1].op # "service"
                      /\ calls'[k].op # "service" =>
                           \A j \in k + 1 .. Len(calls') :
                             /\ calls'[j].op # "service" => calls'[j].ev # calls'[k].ev
                             /\ calls'[j].op = "serve" => when[calls'[j].ev] <= when[calls'[k].ev]
    BY <1>4, <1>7 DEF CallsOK
  <2>1. CASE k = 1
    <3>1. 1 < Len(calls') => calls'[1 + 1].op # "service"
      <4> SUFFICES ASSUME 1 < Len(calls') PROVE calls'[1 + 1].op # "service"
        OBVIOUS
      <4>1. 1 \in 1 .. Len(calls) /\ calls # << >>
        BY <1>6, <1>7
      <4>2. QED
        BY <1>7, <1>17, <4>1
    <3>2. \A j \in 1 + 1 .. Len(calls') : j - 1 \in 1 .. Len(calls) /\ calls'[j] = calls[j - 1]
      <4> SUFFICES ASSUME NEW j \in 1 + 1 .. Len(calls')
                   PROVE  j - 1 \in 1 .. Len(calls) /\ calls'[j] = calls[j - 1]
        OBVIOUS
      <4>1. j - 1 \in 1 .. Len(calls) /\ (j - 1) + 1 = j
        BY <1>6, <1>7
      <4>2. QED
        BY <1>7, <4>1
    <3>3. calls'[k] = frame /\ calls'[k].op = "execute" /\ calls'[k].ev = e
      BY <1>7, <1>8, <2>1
    <3>4. ~Holds(q, e) /\ ~Holds(f, e)
      BY <1>11, <1>13
    <3>5. \A j \in k + 1 .. Len(calls') :
            /\ calls'[j].op # "service" => calls'[j].ev # e
            /\ calls'[j].op = "serve" => when[calls'[j].ev] <= when[e]
      BY <1>16, <2>1, <3>2
    <3>6. k < Len(calls') => calls'[k + 1].op # "service"
      BY <2>1, <3>1
    <3>7. QED
      BY <3>3, <3>4, <3>5, <3>6
  <2>2. CASE k # 1
    <3> DEFINE m == k - 1
    <3>1. m \in 1 .. Len(calls) /\ m + 1 = k /\ calls'[k] = calls[m]
      <4>1. k - 1 \in 1 .. Len(calls) /\ (k - 1) + 1 = k
        BY <1>6, <2>2
      <4>2. QED
        BY <1>7, <4>1
    <3>2. \A j \in k + 1 .. Len(calls') :
            j - 1 \in m + 1 .. Len(calls) /\ calls'[j] = calls[j - 1]
      <4> SUFFICES ASSUME NEW j \in k + 1 .. Len(calls')
                   PROVE  j - 1 \in m + 1 .. Len(calls) /\ calls'[j] = calls[j - 1]
        OBVIOUS
      <4>1. j - 1 \in m + 1 .. Len(calls) /\ (j - 1) + 1 = j /\ j - 1 \in 1 .. Len(calls)
        BY <1>6, <1>7, <3>1
      <4>2. QED
        BY <1>7, <4>1
    <3> HIDE DEF m
    <3>3. CallsOK(p, f)
      BY DEF Sound
    <3>4. m + 1 \in 1 .. Len(calls) => calls'[k + 1] = calls[m + 1]
      BY <1>7, <3>1
    <3>5. /\ m + 1 = Len(calls) <=> k + 1 = Len(calls')
          /\ m = Len(calls) <=> k = Len(calls')
          /\ m < Len(calls) <=> k < Len(calls')
          /\ m < Len(calls) => m + 1 \in 1 .. Len(calls)
          /\ m + 1 = Len(calls) => m + 1 \in 1 .. Len(calls)
      BY <1>6, <1>7, <3>1
    <3>6. calls'[k].op = "service" => k = Len(calls')
      BY <3>1, <3>3, <3>5 DEF CallsOK
    <3>7. calls'[k].op = "serve" =>
            /\ k + 1 = Len(calls') /\ calls'[k + 1].op = "service"
            /\ Len(q) >= 1 /\ calls'[k].ev = q[1]
      <4>1. calls[m].op = "serve" =>
              /\ m + 1 = Len(calls) /\ calls[m + 1].op = "service"
              /\ calls[m].ev = p[1]
        BY <3>1, <3>3 DEF CallsOK
      <4>2. QED
        BY <1>15, <1>16, <3>1, <3>4, <3>5, <4>1
    <3>8. calls'[k].op = "execute" =>
            /\ ~Holds(q, calls'[k].ev) /\ ~Holds(f, calls'[k].ev)
            /\ k < Len(calls') => calls'[k + 1].op # "service"
      <4>1. calls[m].op = "execute" =>
              /\ ~Holds(p, calls[m].ev) /\ ~Holds(f, calls[m].ev)
              /\ m < Len(calls) => calls[m + 1].op # "service"
        BY <3>1, <3>3 DEF CallsOK
      <4>2. QED
        BY <1>13, <3>1, <3>4, <3>5, <4>1
    <3>9. calls'[k].op # "service" =>
            \A j \in k + 1 .. Len(calls') :
              /\ calls'[j].op # "service" => calls'[j].ev # calls'[k].ev
              /\ calls'[j].op = "serve" => when[calls'[j].ev] <= when[calls'[k].ev]
      <4>1. calls[m].op # "service" =>
              \A j \in m + 1 .. Len(calls) :
                /\ calls[j].op # "service" => calls[j].ev # calls[m].ev
                /\ calls[j].op = "serve" => when[calls[j].ev] <= when[calls[m].ev]
        BY <3>1, <3>3 DEF CallsOK
      <4>2. QED
        BY <3>1, <3>2, <4>1
    <3>10. QED
      BY <3>6, <3>7, <3>8, <3>9
  <2>3. QED
    BY <2>1, <2>2
<1>19. AgendaOK(q)'
  <2>1. \A d : Event(d)' = Event(d)
    BY <1>4 DEF Event
  <2>2. \A d : d # e => (d \in Running' <=> d \in Running)
    <3>1. \A d : d \in Running' <=> \E k \in 1 .. Len(calls') : calls'[k].op # "service" /\ calls'[k].ev = d
      BY DEF Running
    <3>2. \A d : d \in Running <=> \E k \in 1 .. Len(calls) : calls[k].op # "service" /\ calls[k].ev = d
      BY RunningIs
    <3>3. \A k \in 1 .. Len(calls') : k # 1 => k - 1 \in 1 .. Len(calls) /\ calls'[k] = calls[k - 1]
      <4> SUFFICES ASSUME NEW k \in 1 .. Len(calls'), k # 1
                   PROVE  k - 1 \in 1 .. Len(calls) /\ calls'[k] = calls[k - 1]
        OBVIOUS
      <4>1. k - 1 \in 1 .. Len(calls) /\ (k - 1) + 1 = k
        BY <1>6, <1>7
      <4>2. QED
        BY <1>7, <4>1
    <3>4. \A k \in 1 .. Len(calls) : k + 1 \in 1 .. Len(calls') /\ calls'[k + 1] = calls[k]
      BY <1>6, <1>7
    <3>5. ASSUME NEW d, d # e, NEW k \in 1 .. Len(calls'),
                 calls'[k].op # "service", calls'[k].ev = d
          PROVE  d \in Running
      <4>1. k # 1
        BY <1>7, <1>8, <3>5
      <4>2. QED
        BY <3>2, <3>3, <3>5, <4>1
    <3>6. ASSUME NEW d, NEW k \in 1 .. Len(calls), calls[k].op # "service", calls[k].ev = d
          PROVE  d \in Running'
      BY <3>1, <3>4, <3>6
    <3>7. QED
      BY <3>1, <3>2, <3>5, <3>6
  <2>3. \A x : x \in agenda' <=>
          \E d \in Descs : Holds(q, d) /\ d \notin Running /\ x = Event(d)
    BY <1>1, <1>3, <1>4, AgendaWithout DEF q
  <2>4. QED
    BY <1>13, <2>1, <2>2, <2>3 DEF AgendaOK
<1>20. \A d \in Descs : ~(Holds(q, d) /\ Holds(f, d))
  BY <1>13 DEF Sound
<1>21. Sound(q, f)'
  BY <1>10, <1>12, <1>14, <1>18, <1>19, <1>20 DEF Sound
<1>22. QED
  BY <1>9, <1>21, SoundNext

-----------------------------------------------------------------------------
(* Queueing *)

LEMMA EarlierIs ==
  ASSUME TypeOK, NEW p, NEW f, Sound(p, f), NEW w \in Nat
  PROVE  /\ Earlier(w) \in 0 .. Len(p)
         /\ \A i \in 1 .. Len(p) : i <= Earlier(w) => when[p[i]] < w
         /\ \A i \in 1 .. Len(p) : i > Earlier(w) => w <= when[p[i]]
<1> DEFINE later == {i \in 1 .. Len(p) : when[p[i]] >= w}
<1>1. Pending = p /\ Len(p) \in Nat /\ \A i \in 1 .. Len(p) : when[p[i]] \in Nat
  BY ListsAre DEF TypeOK
<1>2. Earlier(w) = IF later = {} THEN Len(p) ELSE Min(later) - 1
  BY <1>1 DEF Earlier
<1>3. CASE later = {}
  BY <1>1, <1>2, <1>3
<1>4. CASE later # {}
  <2>1. Min(later) \in later /\ \A k \in later : Min(later) <= k
    <3>1. later \in SUBSET Nat
      BY <1>1
    <3>2. QED
      BY <1>4, <3>1, LeastIs
  <2>2. PICK m \in 1 .. Len(p) : m = Min(later) /\ when[p[m]] >= w
    BY <2>1
  <2>3. Earlier(w) = m - 1
    BY <1>2, <1>4, <2>2
  <2>4. \A i \in 1 .. Len(p) : i < m => i \notin later
    BY <1>1, <2>1, <2>2
  <2>5. \A i \in 1 .. Len(p) : i < m => when[p[i]] < w
    BY <1>1, <2>4
  <2>6. \A i \in 1 .. Len(p) : m <= i => when[p[m]] <= when[p[i]]
    BY DEF Sound, EventsOK
  <2> HIDE DEF later
  <2>7. \A i \in 1 .. Len(p) : m <= i => w <= when[p[i]]
    BY <1>1, <2>2, <2>6
  <2>8. QED
    BY <1>1, <2>2, <2>3, <2>5, <2>7
<1>5. QED
  BY <1>3, <1>4

\* A callback queues later events than the one being served.
LEMMA LaterThanServed ==
  ASSUME DELAY > 0, TypeOK, NEW p, NEW f, Sound(p, f), NEW w \in Times, CallbackTime(w),
         Serving
  PROVE  when[p[1]] < w
<1>1. PICK j \in 1 .. Len(calls) : calls[j].op = "serve"
  BY DEF Serving
<1>2. Len(calls) \in Nat /\ Len(calls) >= 1 /\ calls # << >> /\ Head(calls) = calls[1]
  <2>1. calls # << >>
    BY <1>1
  <2>2. QED
    BY <2>1, TopIs
<1>3. calls[1].op # "service" /\ w >= when[calls[1].ev] + DELAY
  BY <1>2 DEF CallbackTime, MayCall, Servicing
<1>4. calls[1].ev \in Descs /\ calls[j].ev = p[1] /\ calls[j].ev \in Descs
  <2>1. 1 \in 1 .. Len(calls)
    BY <1>2
  <2>2. QED
    BY <1>1, <1>3, <2>1, FrameIs DEF Sound, CallsOK
<1>5. when[p[1]] <= when[calls[1].ev]
  <2>1. CASE j = 1
    BY <1>4, <2>1 DEF TypeOK
  <2>2. CASE j # 1
    <3>1. 1 \in 1 .. Len(calls) /\ j \in 1 + 1 .. Len(calls)
      BY <1>2, <2>2
    <3>2. QED
      BY <1>1, <1>3, <1>4, <3>1 DEF Sound, CallsOK
  <2>3. QED
    BY <2>1, <2>2
<1>6. when[p[1]] \in Nat /\ when[calls[1].ev] \in Nat /\ w \in Nat /\ DELAY \in Nat
  BY <1>4, EventAssumption DEF TypeOK
<1>7. QED
  BY <1>3, <1>5, <1>6

LEMMA InsertedSorted ==
  ASSUME NEW p \in Seq(Descs), NEW n \in 0 .. Len(p), NEW e \in Descs, ~Holds(p, e),
         NEW w \in [Descs -> Nat], \A i, j \in 1 .. Len(p) : i <= j => w[p[i]] <= w[p[j]],
         \A i \in 1 .. Len(p) : i <= n => w[p[i]] <= w[e],
         \A i \in 1 .. Len(p) : i > n => w[e] <= w[p[i]],
         NEW i \in 1 .. Len(p) + 1, NEW j \in 1 .. Len(p) + 1, i <= j
  PROVE  w[Inserted(p, n, e)[i]] <= w[Inserted(p, n, e)[j]]
<1> DEFINE q == Inserted(p, n, e)
           at(k) == IF k <= n THEN k ELSE k - 1
<1>1. Len(p) \in Nat /\ w[e] \in Nat
  OBVIOUS
<1>2. /\ q[n + 1] = e
      /\ \A k \in 1 .. Len(p) + 1 : k # n + 1 => at(k) \in 1 .. Len(p) /\ q[k] = p[at(k)]
  <2>1. \A k \in 1 .. Len(p) + 1 :
          q[k] = IF k <= n THEN p[k] ELSE IF k = n + 1 THEN e ELSE p[k - 1]
    BY InsertedIs
  <2>2. n + 1 \in 1 .. Len(p) + 1 /\ ~(n + 1 <= n)
    BY <1>1
  <2>3. \A k \in 1 .. Len(p) + 1 : k # n + 1 => at(k) \in 1 .. Len(p)
    BY <1>1
  <2>4. QED
    BY <2>1, <2>2, <2>3
<1>3. \A k \in 1 .. Len(p) : w[p[k]] \in Nat
  OBVIOUS
<1> HIDE DEF q
<1>4. CASE i = n + 1 /\ j = n + 1
  BY <1>1, <1>2, <1>4 DEF q
<1>5. CASE i = n + 1 /\ j # n + 1
  <2>1. at(j) > n /\ at(j) \in 1 .. Len(p) /\ q[j] = p[at(j)] /\ q[i] = e
    BY <1>1, <1>2, <1>5
  <2> HIDE DEF at
  <2>2. w[e] <= w[p[at(j)]]
    BY <2>1
  <2>3. QED
    BY <2>1, <2>2 DEF q
<1>6. CASE i # n + 1 /\ j = n + 1
  <2>1. at(i) <= n /\ at(i) \in 1 .. Len(p) /\ q[i] = p[at(i)] /\ q[j] = e
    BY <1>1, <1>2, <1>6
  <2> HIDE DEF at
  <2>2. w[p[at(i)]] <= w[e]
    BY <2>1
  <2>3. QED
    BY <2>1, <2>2 DEF q
<1>7. CASE i # n + 1 /\ j # n + 1
  <2>1. /\ at(i) \in 1 .. Len(p) /\ at(j) \in 1 .. Len(p)
        /\ q[i] = p[at(i)] /\ q[j] = p[at(j)]
    BY <1>2, <1>7
  <2>2. at(i) <= at(j)
    BY <1>1, <1>7
  <2> HIDE DEF at
  <2>3. w[p[at(i)]] <= w[p[at(j)]]
    BY <2>1, <2>2
  <2>4. QED
    BY <2>1, <2>3 DEF q
<1> HIDE DEF at
<1>8. QED
  BY <1>4, <1>5, <1>6, <1>7 DEF q

\* The descriptor for a new event, and what is left of the free list.
LEMMA NewIs ==
  ASSUME TypeOK, NEW p, NEW f, Sound(p, f),
         NEW new \in IF eventq_free = NULL THEN Unallocated ELSE ToSet(eventq_free)
  PROVE  /\ new \in Descs /\ ~Holds(p, new) /\ new \notin Running
         /\ eventq_free # NULL => Len(f) >= 1 /\ new = f[1]
         /\ eventq_free = NULL => ~Holds(f, new)
<1>1. /\ Pending = p /\ Free = f
      /\ p \in Seq(Descs) /\ f \in Seq(Descs) /\ Len(p) \in Nat /\ Len(f) \in Nat
  BY ListsAre
<1>2. eventq_free = IF Len(f) = 0 THEN NULL ELSE <<f[1]>>
  BY DEF Sound, ListFrom
<1>3. CASE eventq_free = NULL
  <2>1. new \in Descs /\ new \notin ToSet(p) /\ new \notin ToSet(f) /\ new \notin Running
    BY <1>1, <1>3 DEF Unallocated
  <2>2. \A x : (Holds(p, x) => x \in ToSet(p)) /\ (Holds(f, x) => x \in ToSet(f))
    BY <1>1 DEF ToSet, Holds
  <2>3. QED
    BY <1>3, <2>1, <2>2
<1>4. CASE eventq_free # NULL
  <2>1. Len(f) >= 1 /\ eventq_free = <<f[1]>> /\ f[1] \in Descs /\ Holds(f, f[1])
    <3>1. Len(f) # 0 /\ 1 \in 1 .. Len(f)
      BY <1>1, <1>2, <1>4
    <3>2. QED
      BY <1>1, <1>2, <3>1 DEF Holds
  <2>2. new = f[1]
    BY <1>4, <2>1 DEF ToSet
  <2>3. ~Holds(p, f[1])
    BY <2>1 DEF Sound
  <2>4. f[1] \notin Running
    <3> SUFFICES ASSUME NEW i \in 1 .. Len(calls), calls[i].op # "service", calls[i].ev = f[1]
                 PROVE  FALSE
      BY RunningIs
    <3>1. CASE calls[i].op = "execute"
      BY <2>1, <3>1 DEF Sound, CallsOK
    <3>2. CASE calls[i].op = "serve"
      <4>1. Len(p) >= 1 /\ calls[i].ev = p[1]
        BY <3>2 DEF Sound, CallsOK
      <4>2. Holds(p, p[1])
        BY <1>1, <4>1 DEF Holds
      <4>3. QED
        BY <2>3, <4>1, <4>2
    <3>3. QED
      BY <3>1, <3>2, FrameIs
  <2>5. QED
    BY <1>4, <2>1, <2>2, <2>3, <2>4
<1>5. QED
  BY <1>3, <1>4

LEMMA QueueKeeps ==
  ASSUME DELAY > 0, MAX_ID < ID_SPACE,
         TypeOK, NEW p, NEW f, Sound(p, f), NEW w \in Times, CallbackTime(w), Queue(w)
  PROVE  EventInv'
<1> DEFINE n == Earlier(w)
<1>1. w \in Nat /\ MAX_ID \in Nat /\ ID_SPACE \in Nat
  BY EventAssumption
<1>2. /\ Pending = p /\ Free = f
      /\ p \in Seq(Descs) /\ f \in Seq(Descs) /\ Len(p) \in Nat /\ Len(f) \in Nat
      /\ IsInjective(f)
  BY ListsAre DEF Sound, ListFrom
<1>3. PICK new \in IF eventq_free = NULL THEN Unallocated ELSE ToSet(eventq_free) :
        /\ eventq_free' = IF eventq_free = NULL THEN NULL ELSE next[new]
        /\ when' = [when EXCEPT ![new] = w]
        /\ id' = [id EXCEPT ![new] = next_ID]
        /\ IF n = 0
             THEN /\ next' = [next EXCEPT ![new] = eventq_pending]
                  /\ eventq_pending' = <<new>>
             ELSE /\ next' = [next EXCEPT ![new] = next[p[n]], ![p[n]] = <<new>>]
                  /\ UNCHANGED eventq_pending
  BY <1>2 DEF Queue
<1>4. /\ next_ID < MAX_ID /\ next_ID' = (next_ID + 1) % ID_SPACE
      /\ agenda' = agenda \cup {[id |-> next_ID, when |-> w]} /\ calls' = calls
  BY DEF Queue
<1>5. /\ new \in Descs /\ ~Holds(p, new) /\ new \notin Running
      /\ eventq_free # NULL => Len(f) >= 1 /\ new = f[1]
      /\ eventq_free = NULL => ~Holds(f, new)
  BY NewIs
<1>6. PICK m \in 0 .. Len(p) : m = n
  BY <1>1, EarlierIs
<1>7. /\ \A i \in 1 .. Len(p) : i <= m => when[p[i]] < w
      /\ \A i \in 1 .. Len(p) : i > m => w <= when[p[i]]
  BY <1>1, <1>6, EarlierIs
<1> HIDE DEF n
<1>8. next_ID \in Nat /\ next_ID' = next_ID + 1
  <2>1. next_ID \in Nat /\ next_ID + 1 < ID_SPACE
    BY <1>1, <1>4 DEF TypeOK
  <2>2. \A a, b \in Nat : a < b => a % b = a
    OBVIOUS
  <2>3. QED
    BY <1>1, <1>4, <2>1, <2>2
<1>9. /\ next \in [Descs -> Ptr] /\ when \in [Descs -> Nat] /\ id \in [Descs -> Nat]
      /\ eventq_pending \in Ptr /\ <<new>> \in Ptr
  BY <1>5, HeadIsPtr DEF TypeOK, Ptr
<1>10. \A i \in 1 .. Len(p) : p[i] \in Descs /\ p[i] # new /\ Holds(p, p[i])
  BY <1>2, <1>5 DEF Holds
<1>11. /\ \A i, j \in 1 .. Len(p) : p[i] = p[j] => i = j
       /\ m # 0 => m \in 1 .. Len(p)
  BY <1>2, ListsAre
<1>12. /\ next' \in [Descs -> Ptr]
       /\ next'[new] = IF m = 0 THEN eventq_pending ELSE next[p[m]]
       /\ m # 0 => next'[p[m]] = <<new>>
       /\ \A d \in Descs : d # new /\ (m # 0 => d # p[m]) => next'[d] = next[d]
       /\ eventq_pending' = IF m = 0 THEN <<new>> ELSE eventq_pending
  <2>1. CASE m = 0
    BY <1>3, <1>5, <1>6, <1>9, <2>1
  <2>2. CASE m # 0
    <3>1. p[m] \in Descs /\ p[m] # new /\ next[p[m]] \in Ptr
      BY <1>9, <1>10, <1>11, <2>2
    <3>2. /\ next' = [next EXCEPT ![new] = next[p[m]], ![p[m]] = <<new>>]
          /\ eventq_pending' = eventq_pending
      BY <1>3, <1>6, <2>2
    <3>3. QED
      BY <1>5, <1>9, <2>2, <3>1, <3>2
  <2>3. QED
    BY <2>1, <2>2
<1>13. /\ when' \in [Descs -> Nat] /\ id' \in [Descs -> Nat]
       /\ when'[new] = w /\ id'[new] = next_ID
       /\ \A d \in Descs : d # new => when'[d] = when[d] /\ id'[d] = id[d]
  BY <1>1, <1>3, <1>5, <1>8, <1>9
<1>14. TypeOK'
  BY <1>4, <1>8, <1>12, <1>13 DEF TypeOK
<1> DEFINE q == Inserted(p, m, new)
<1>a. PICK g : g = IF eventq_free = NULL THEN f ELSE Removed(f, 1)
  OBVIOUS
<1>15. ListFrom(eventq_pending', next', q)
  <2>1. ListFrom(eventq_pending, next, p)
    BY DEF Sound
  <2>2. \A i \in 1 .. Len(p) : p[i] # new
    BY <1>10
  <2>3. \A i \in 1 .. Len(p) : i # m => next'[p[i]] = next[p[i]]
    BY <1>10, <1>11, <1>12
  <2>4. QED
    BY <1>5, <1>12, <2>1, <2>2, <2>3, InsertList
<1>16. /\ ListFrom(eventq_free', next', g)
       /\ \A x : Holds(g, x) <=> x # new /\ Holds(f, x)
  <2>1. ListFrom(eventq_free, next, f)
    BY DEF Sound
  <2>2. \A i \in 1 .. Len(f) : f[i] \in Descs /\ (m # 0 => f[i] # p[m])
    <3>1. \A i \in 1 .. Len(f) : f[i] \in Descs /\ Holds(f, f[i])
      BY <1>2 DEF Holds
    <3>2. QED
      BY <1>10, <1>11, <3>1 DEF Sound
  <2>3. CASE eventq_free = NULL
    <3>1. eventq_free' = eventq_free /\ g = f
      BY <1>3, <1>a, <2>3
    <3>2. \A i \in 1 .. Len(f) : f[i] # new
      BY <1>5, <2>3 DEF Holds
    <3>3. \A i \in 1 .. Len(f) : next'[f[i]] = next[f[i]]
      BY <1>12, <2>2, <3>2
    <3>4. ListFrom(eventq_free, next', f)
      BY <2>1, <3>3, SameList
    <3>5. QED
      BY <1>5, <2>3, <3>1, <3>4
  <2>4. CASE eventq_free # NULL
    <3>1. /\ eventq_free' = next[f[1]] /\ g = Removed(f, 1) /\ new = f[1]
          /\ 1 \in 1 .. Len(f)
      BY <1>2, <1>3, <1>5, <1>a, <2>4
    <3>2. \A i, j \in 1 .. Len(f) : f[i] = f[j] => i = j
      BY ListsAre
    <3>3. \A i \in 1 .. Len(f) : i # 1 => next'[f[i]] = next[f[i]]
      BY <1>12, <2>2, <3>1, <3>2
    <3>4. ListFrom(next[f[1]], next', Removed(f, 1))
      BY <2>1, <3>1, <3>3, PopList
    <3>5. \A x : Holds(Removed(f, 1), x) <=> x # f[1] /\ Holds(f, x)
      BY <1>2, <3>1, RemovedIs
    <3>6. QED
      BY <3>1, <3>4, <3>5
  <2>5. QED
    BY <2>3, <2>4
<1>17. /\ Len(q) = Len(p) + 1 /\ \A x : Holds(q, x) <=> x = new \/ Holds(p, x)
       /\ m # 0 => Len(q) >= 1 /\ q[1] = p[1]
  <2>1. /\ Len(q) = Len(p) + 1 /\ \A x : Holds(q, x) <=> x = new \/ Holds(p, x)
        /\ \A i \in 1 .. Len(p) + 1 : q[i] = IF i <= m THEN p[i] ELSE IF i = m + 1 THEN new ELSE p[i - 1]
    <3>1. /\ Len(Inserted(p, m, new)) = Len(p) + 1
          /\ \A x : Holds(Inserted(p, m, new), x) <=> x = new \/ Holds(p, x)
          /\ \A i \in 1 .. Len(p) + 1 :
               Inserted(p, m, new)[i] = IF i <= m THEN p[i] ELSE IF i = m + 1 THEN new ELSE p[i - 1]
      <4>1. p \in Seq(Descs) /\ m \in 0 .. Len(p) /\ new \in Descs
        BY <1>2, <1>5
      <4>2. HasInserted(Inserted(p, m, new), p, m, new)
        BY <4>1, InsertedHas
      <4>3. QED
        BY <4>2, Zenon DEF HasInserted
    <3>2. QED
      BY <3>1, Zenon DEF q
  <2>2. m # 0 => 1 <= m /\ 1 \in 1 .. Len(p) + 1
    BY <1>2
  <2> HIDE DEF q
  <2>3. QED
    BY <1>2, <2>1, <2>2
<1>18. EventsOK(q)'
  <2>1. /\ \A d \in Descs : Holds(q, d) => id'[d] < next_ID'
        /\ \A d, x \in Descs : Holds(q, d) /\ Holds(q, x) /\ id'[d] = id'[x] => d = x
    <3>1. /\ \A d \in Descs : Holds(p, d) => id[d] < next_ID /\ d # new /\ id[d] \in Nat
          /\ \A d, x \in Descs : Holds(p, d) /\ Holds(p, x) /\ id[d] = id[x] => d = x
      BY <1>5, <1>9 DEF Sound, EventsOK
    <3>2. \A d \in Descs : Holds(q, d) => d = new \/ Holds(p, d)
      BY <1>17
    <3> HIDE DEF q
    <3>3. \A d \in Descs : Holds(q, d) /\ d # new => id'[d] = id[d] /\ id[d] < next_ID /\ id[d] \in Nat
      BY <1>13, <3>1, <3>2
    <3>4. \A d \in Descs : Holds(q, d) => id'[d] < next_ID'
      BY <1>8, <1>13, <3>3
    <3>5. \A d, x \in Descs : Holds(q, d) /\ Holds(q, x) /\ id'[d] = id'[x] => d = x
      <4> SUFFICES ASSUME NEW d \in Descs, NEW x \in Descs, Holds(q, d), Holds(q, x),
                          id'[d] = id'[x], d # x
                   PROVE  FALSE
        OBVIOUS
      <4>1. CASE d = new
        <5>1. id'[x] < next_ID /\ id'[x] = id[x] /\ id[x] \in Nat
          BY <3>3, <4>1
        <5>2. QED
          BY <1>8, <1>13, <4>1, <5>1
      <4>2. CASE x = new
        BY <1>8, <1>13, <3>3, <4>2
      <4>3. CASE d # new /\ x # new
        BY <1>13, <3>1, <3>2, <4>3
      <4>4. QED
        BY <4>1, <4>2, <4>3
    <3>6. QED
      BY <3>4, <3>5
  <2>2. \A i, j \in 1 .. Len(p) : i <= j => when'[p[i]] <= when'[p[j]]
    BY <1>10, <1>13 DEF Sound, EventsOK
  <2>3. /\ \A i \in 1 .. Len(p) : i <= m => when'[p[i]] <= when'[new]
        /\ \A i \in 1 .. Len(p) : i > m => when'[new] <= when'[p[i]]
    BY <1>1, <1>7, <1>9, <1>10, <1>13
  <2>4. \A i, j \in 1 .. Len(p) + 1 : i <= j => when'[q[i]] <= when'[q[j]]
    BY <1>2, <1>5, <1>13, <2>2, <2>3, InsertedSorted
  <2> HIDE DEF q
  <2>5. QED
    BY <1>17, <2>1, <2>4 DEF EventsOK
<1> HIDE DEF q
<1>19. \A k \in 1 .. Len(calls) : calls[k].op # "service" =>
         calls[k].ev # new /\ when'[calls[k].ev] = when[calls[k].ev]
  <2>1. \A k \in 1 .. Len(calls) : calls[k].op # "service" =>
          calls[k].ev \in Running /\ calls[k].ev \in Descs
    BY RunningIs, FrameIs
  <2>2. QED
    BY <1>5, <1>13, <2>1
<1>20. Serving => m # 0
  <2> SUFFICES ASSUME Serving, m = 0 PROVE FALSE
    OBVIOUS
  <2>1. when[p[1]] < w /\ 1 \in 1 .. Len(p)
    BY <1>2, LaterThanServed, RunningIs
  <2>2. w <= when[p[1]] /\ when[p[1]] \in Nat
    BY <1>7, <1>9, <1>10, <2>1
  <2>3. QED
    BY <1>1, <2>1, <2>2
<1>21. CallsOK(q, g)'
  <2>1. CallsOK(p, f)
    BY DEF Sound
  <2>2. \A k \in 1 .. Len(calls) : calls[k].op = "serve" => m # 0
    BY <1>20 DEF Serving
  <2> SUFFICES ASSUME NEW k \in 1 .. Len(calls)
               PROVE  /\ calls[k].op = "service" => k = Len(calls)
                      /\ calls[k].op = "serve" =>
                           /\ k + 1 = Len(calls) /\ calls[k + 1].op = "service"
                           /\ Len(q) >= 1 /\ calls[k].ev = q[1]
                      /\ calls[k].op = "execute" =>
                           /\ ~Holds(q, calls[k].ev) /\ ~Holds(g, calls[k].ev)
                           /\ k < Len(calls) => calls[k + 1].op # "service"
                      /\ calls[k].op # "service" =>
                           \A j \in k + 1 .. Len(calls) :
                             /\ calls[j].op # "service" => calls[j].ev # calls[k].ev
                             /\ calls[j].op = "serve" => when'[calls[j].ev] <= when'[calls[k].ev]
    BY <1>4 DEF CallsOK
  <2>3. \A j \in k + 1 .. Len(calls) : j \in 1 .. Len(calls)
    BY DEF TypeOK
  <2>4. QED
    BY <1>16, <1>17, <1>19, <2>1, <2>2, <2>3 DEF CallsOK
<1>22. AgendaOK(q)'
  <2>1. Running' = Running
    BY <1>4 DEF Running
  <2>2. \A d \in Descs : Event(d)' = IF d = new THEN [id |-> next_ID, when |-> w] ELSE Event(d)
    BY <1>13 DEF Event
  <2>3. \A e : e \in agenda <=> \E d \in Descs : Holds(p, d) /\ d \notin Running /\ e = Event(d)
    BY DEF Sound, AgendaOK
  <2>4. \A e : e \in agenda' <=> \E d \in Descs : Holds(q, d) /\ d \notin Running /\ e = Event(d)'
    BY <1>4, <1>5, <1>17, <2>2, <2>3
  <2>5. QED
    BY <2>1, <2>4 DEF AgendaOK
<1>23. \A d \in Descs : ~(Holds(q, d) /\ Holds(g, d))
  BY <1>16, <1>17 DEF Sound
<1>24. Sound(q, g)'
  BY <1>15, <1>16, <1>18, <1>21, <1>22, <1>23 DEF Sound
<1>25. QED
  BY <1>14, <1>24, SoundNext

-----------------------------------------------------------------------------
(* The invariant, and what follows from it *)

LEMMA InitSound == Init => EventInv
<1> SUFFICES ASSUME Init PROVE EventInv
  OBVIOUS
<1>1. PICK p : p = <<>>
  OBVIOUS
<1>2. p \in Seq(Descs) /\ Len(p) = 0 /\ IsInjective(p)
  BY <1>1 DEF IsInjective
<1>3. ListFrom(eventq_pending, next, p) /\ ListFrom(eventq_free, next, p)
  BY <1>2 DEF Init, ListFrom
<1>4. calls \in Seq(Frames) /\ Len(calls) = 0
  BY DEF Init
<1>5. TypeOK
  BY <1>4 DEF Init, TypeOK, Ptr
<1>6. \A d : ~Holds(p, d)
  BY <1>2 DEF Holds
<1>7. CallsOK(p, p)
  BY <1>4 DEF CallsOK
<1>8. EventsOK(p)
  BY <1>2, <1>6 DEF EventsOK
<1>9. AgendaOK(p)
  BY <1>6 DEF Init, AgendaOK
<1>10. Sound(p, p)
  BY <1>3, <1>6, <1>7, <1>8, <1>9 DEF Sound
<1>11. Pending = p /\ Free = p
  BY <1>10, ListsAre
<1>12. QED
  BY <1>5, <1>10, <1>11 DEF EventInv

LEMMA NextKeeps ==
  ASSUME DELAY > 0, MAX_ID < ID_SPACE, EventInv, [Next]_vars
  PROVE  EventInv'
<1>1. PICK p, f : p = Pending /\ f = Free
  OBVIOUS
<1>2. TypeOK /\ Sound(p, f)
  BY <1>1 DEF EventInv
<1>3. CASE UNCHANGED vars
  BY <1>3 DEF vars, EventInv, TypeOK, Sound, CallsOK, EventsOK, AgendaOK, Event, Running,
              Pending, Free
<1>4. ASSUME NEW w \in Times, CallbackTime(w), Queue(w) PROVE EventInv'
  BY <1>2, <1>4, QueueKeeps
<1>5. ASSUME NEW i \in Others, eventq_remove(i) PROVE EventInv'
  BY <1>2, <1>5, RemoveKeeps
<1>6. ASSUME NEW i \in Others, eventq_execute(i) PROVE EventInv'
  BY <1>2, <1>6, ExecuteKeeps
<1>7. ASSUME NEW now \in Times, Service(now) PROVE EventInv'
  BY <1>2, <1>7, ServiceKeeps
<1>8. CASE ServeEvent
  BY <1>2, <1>8, ServeEventKeeps
<1>9. CASE ServeReturn
  BY <1>2, <1>9, ServeReturnKeeps
<1>10. CASE ServiceReturn
  BY <1>2, <1>10, ServiceReturnKeeps
<1>11. CASE ExecuteReturn
  BY <1>2, <1>11, ExecuteReturnKeeps
<1>12. QED
  BY <1>3, <1>4, <1>5, <1>6, <1>7, <1>8, <1>9, <1>10, <1>11, Zenon DEF Next

LEMMA InvHoldsLists == ASSUME EventInv PROVE NothingLost
<1>1. PICK p, f : p = Pending /\ f = Free
  OBVIOUS
<1>2. TypeOK /\ Sound(p, f)
  BY <1>1 DEF EventInv
<1>3. Len(p) \in Nat /\ Len(f) \in Nat
  BY <1>2, ListsAre
<1>4. \A d : (d \in ToSet(p) <=> Holds(p, d)) /\ (d \in ToSet(f) <=> Holds(f, d))
  BY <1>2, ListsAre DEF ToSet, Holds
<1>5. \A d : (Holds(p, d) => d \in Descs) /\ (Holds(f, d) => d \in Descs)
  BY <1>2, ListsAre DEF Holds
<1>6. ListsSound
  <2>1. IsInjective(p) /\ IsInjective(f)
    BY <1>2 DEF Sound, ListFrom
  <2>2. ToSet(p) \cap ToSet(f) = {}
    BY <1>2, <1>4, <1>5 DEF Sound
  <2>3. ASSUME NEW d \in Running, Holds(f, d) PROVE FALSE
    <3>1. PICK i \in 1 .. Len(calls) : calls[i].op # "service" /\ calls[i].ev = d
      BY <1>2, RunningIs
    <3>2. CASE calls[i].op = "serve"
      <4>1. Len(p) >= 1 /\ p[1] = d
        BY <1>2, <3>1, <3>2 DEF Sound, CallsOK
      <4>2. Holds(p, d)
        BY <1>3, <4>1 DEF Holds
      <4>3. QED
        BY <1>2, <1>5, <2>3, <4>2 DEF Sound
    <3>3. CASE calls[i].op = "execute"
      BY <1>2, <2>3, <3>1, <3>3 DEF Sound, CallsOK
    <3>4. QED
      BY <1>2, <3>1, <3>2, <3>3, FrameIs
  <2>4. QED
    BY <1>1, <1>4, <2>1, <2>2, <2>3 DEF ListsSound
<1>7. Sorted
  <2>1. \A i \in 1 .. Len(p) - 1 : i \in 1 .. Len(p) /\ i + 1 \in 1 .. Len(p) /\ i <= i + 1
    BY <1>3
  <2>2. \A i, j \in 1 .. Len(p) : i <= j => when[p[i]] <= when[p[j]]
    BY <1>2 DEF Sound, EventsOK
  <2>3. QED
    BY <1>1, <2>1, <2>2 DEF Sorted
<1>8. \A e : e \in agenda <=> e \in {Event(d) : d \in ToSet(p) \ Running}
  BY <1>2, <1>4, <1>5 DEF Sound, AgendaOK
<1>9. QED
  BY <1>1, <1>6, <1>7, <1>8 DEF NothingLost

\* While no event is running, the first event is the earliest on the agenda.
LEMMA FirstIsEarliest ==
  ASSUME EventInv, Servicing
  PROVE  \A e \in agenda : /\ eventq_pending # NULL
                           /\ when[eventq_pending[1]] \in Nat /\ e.when \in Nat
                           /\ when[eventq_pending[1]] <= e.when
<1> SUFFICES ASSUME NEW e \in agenda
             PROVE  /\ eventq_pending # NULL
                    /\ when[eventq_pending[1]] \in Nat /\ e.when \in Nat
                    /\ when[eventq_pending[1]] <= e.when
  OBVIOUS
<1>1. PICK p, f : p = Pending /\ f = Free
  OBVIOUS
<1>2. TypeOK /\ Sound(p, f)
  BY <1>1 DEF EventInv
<1>3. PICK d \in Descs : Holds(p, d) /\ e = Event(d)
  BY <1>2 DEF Sound, AgendaOK
<1>4. PICK i \in 1 .. Len(p) : p[i] = d
  BY <1>3 DEF Holds
<1>5. Len(p) \in Nat /\ Len(p) # 0 /\ 1 \in 1 .. Len(p) /\ 1 <= i
  BY <1>2, <1>4, ListsAre
<1>6. eventq_pending = <<p[1]>> /\ eventq_pending # NULL
  BY <1>2, <1>5 DEF Sound, ListFrom, NULL
<1>7. eventq_pending[1] = p[1] /\ p[1] \in Descs
  BY <1>2, <1>6, FirstIs
<1>8. when[p[1]] <= when[p[i]]
  BY <1>2, <1>4, <1>5 DEF Sound, EventsOK
<1>9. e.when = when[d] /\ when[d] \in Nat /\ when[p[1]] \in Nat
  BY <1>2, <1>3, <1>7 DEF Event, TypeOK
<1>10. QED
  BY <1>4, <1>6, <1>7, <1>8, <1>9

LEMMA ServesFirst ==
  ASSUME EventInv, Next
  PROVE  /\ ServeEvent => \A e \in agenda : when[eventq_pending[1]] <= e.when
         /\ Servicing /\ calls' = <<>> => \A e \in agenda : e.when > Head(calls).now
<1>1. ASSUME ServeEvent PROVE \A e \in agenda : when[eventq_pending[1]] <= e.when
  BY <1>1, FirstIsEarliest DEF ServeEvent
<1>2. ASSUME Servicing, calls' = <<>> PROVE ServiceReturn
  <2>1. calls # <<>> /\ Head(calls).op = "service"
    BY <1>2 DEF Servicing
  <2>2. ~\E w \in Times : Queue(w)
    BY <1>2 DEF Queue, MayCall
  <2>3. ~\E i : eventq_remove(i) \/ eventq_execute(i)
    BY <1>2 DEF eventq_remove, eventq_execute, MayCall
  <2>4. ~(\E now \in Times : Service(now)) /\ ~ServeReturn /\ ~ExecuteReturn
    BY <2>1 DEF Service, ServeReturn, ExecuteReturn
  <2>5. ~ServeEvent
    <3> SUFFICES ASSUME ServeEvent PROVE FALSE
      OBVIOUS
    <3>1. PICK x : calls' = <<x>> \o calls
      BY DEF ServeEvent
    <3>2. calls \in Seq(Frames \cup {x})
      BY DEF EventInv, TypeOK
    <3>3. Len(calls') = Len(calls) + 1 /\ Len(calls) \in Nat
      BY <3>1, <3>2, PushIs
    <3>4. QED
      BY <1>2, <3>3
  <2>6. QED
    BY <2>2, <2>3, <2>4, <2>5 DEF Next
<1>3. ASSUME ServiceReturn, NEW e \in agenda PROVE e.when > Head(calls).now
  <2>1. Servicing /\ ~Due(Head(calls).now)
    BY <1>3 DEF ServiceReturn
  <2>2. /\ eventq_pending # NULL /\ when[eventq_pending[1]] \in Nat /\ e.when \in Nat
        /\ when[eventq_pending[1]] <= e.when
    BY <2>1, FirstIsEarliest
  <2>3. Head(calls).now \in Nat
    <3>1. calls \in Seq(Frames) /\ calls # <<>> /\ Head(calls).op = "service"
      BY <2>1 DEF EventInv, TypeOK, Servicing
    <3>2. Head(calls) \in Frames
      BY <3>1
    <3>3. Head(calls).now \in Times
      BY <3>1, <3>2 DEF Frames
    <3>4. QED
      BY <3>3, EventAssumption
  <2>4. ~(when[eventq_pending[1]] <= Head(calls).now)
    BY <2>1, <2>2 DEF Due
  <2>5. QED
    BY <2>2, <2>3, <2>4
<1>4. QED
  BY <1>1, <1>2, <1>3

LEMMA EventInvariance == ASSUME DELAY > 0, MAX_ID < ID_SPACE PROVE Spec => []EventInv
<1>1. Init => EventInv
  BY InitSound
<1>2. EventInv /\ [Next]_vars => EventInv'
  BY NextKeeps
<1>3. QED
  BY <1>1, <1>2, PTL DEF Spec

\* Callbacks that queue, remove and execute events while one is served, nested
\* to any depth, never make the lists share descriptors, run in circles or get
\* out of order, and lose no event and bring none back (eventq_service_events),
\* when what they queue is later than the event they belong to.
THEOREM EventsKept == ASSUME DELAY > 0, MAX_ID < ID_SPACE PROVE Spec => []NothingLost
<1>1. EventInv => NothingLost
  BY InvHoldsLists
<1>2. QED
  BY <1>1, EventInvariance, PTL

\* Under the same assumptions the events are started in the order of their
\* times, and eventq_service_events returns when none at or before NOW is left.
THEOREM InOrderOfTime == ASSUME DELAY > 0, MAX_ID < ID_SPACE PROVE Spec => ServedInOrder
<1>1. EventInv /\ [Next]_vars =>
        [ /\ ServeEvent => \A e \in agenda : when[eventq_pending[1]] <= e.when
          /\ Servicing /\ calls' = <<>> =>
               \A e \in agenda : e.when > Head(calls).now ]_vars
  BY ServesFirst
<1>2. QED
  BY <1>1, EventInvariance, PTL DEF Spec, ServedInOrder
=============================================================================
