---------------------------- MODULE CacheProofs ----------------------------
(***************************************************************************)
(* Proofs about the caches of SimCache, of any size, associativity and     *)
(* block size, about the prefetchers that only look at them, and about the *)
(* hierarchy of sim-cache.c, for any configuration and any addresses.      *)
(*                                                                         *)
(* A linked list is what its pointers reach (Reached), so the proofs about *)
(* them say what each pointer is: the way list is the image of a           *)
(* permutation of positions, of which an update moves one; a bucket is     *)
(* what Linked pairs of blocks make of it.  CacheOK collects what every    *)
(* operation keeps: the shape of the arrays, both kinds of lists, no block *)
(* held twice, a last-block pointer that is right, and tags in range.      *)
(*                                                                         *)
(* HierarchyInv is inductive: every cache is CacheOK, and the calls that   *)
(* are left are of kinds that the code makes at that place.  On top of it, *)
(* StoresInv follows the last store to an address: into the data cache it  *)
(* was made in, with every write-back into the level below, or to memory;  *)
(* and SyscallInv follows the flushes before a system call, level by level. *)
(*                                                                         *)
(* The refinement of CacheLines needs an order besides (Ordered): invalid  *)
(* blocks come last, and under LRU the last block is first.  Each operation*)
(* on a cache then is a step of CacheLines (IsStep), told by what it makes *)
(* of the order of its set and of the one block that it changes (Around).  *)
(***************************************************************************)
EXTENDS CacheRefinement, InductionLemmas, FiniteSetTheorems, SequenceTheorems,
        TLAPS

-----------------------------------------------------------------------------
(* Linked lists *)

LEMMA NullIsNoBlk == \A c : NULL \notin Blks(c)
BY DEF NULL, Blks

\* What is reached is what a function that makes the same steps says.
LEMMA ReachedIs ==
  ASSUME NEW c, c.assoc \in Nat, NEW head, NEW Step, NEW g,
         g = [n \in 0 .. c.assoc |-> IF n = 0 THEN head ELSE Step[g[n - 1]]]
  PROVE  Reached(c, head, Step) = g
<1> DEFINE K == c.assoc
           Is(at) == at = [n \in 0 .. K |-> IF n = 0 THEN head
                                            ELSE Step[at[n - 1]]]
           r == Reached(c, head, Step)
           S == {n \in Nat : n <= K => r[n] = g[n]}
<1>1. r = CHOOSE at : Is(at)
  BY Zenon DEF Reached
<1>2. Is(g)
  OBVIOUS
<1>3. Is(r)
  BY <1>1, <1>2, Zenon
<1> HIDE DEF r
<1>4. 0 \in S
  BY <1>3
<1>5. ASSUME NEW n \in Nat, n \in S PROVE n + 1 \in S
  <2> SUFFICES ASSUME n + 1 <= K PROVE r[n + 1] = g[n + 1]
    OBVIOUS
  <2>1. n + 1 \in 0 .. K /\ n + 1 # 0 /\ (n + 1) - 1 = n /\ n <= K
    OBVIOUS
  <2>2. r[n + 1] = Step[r[n]] /\ g[n + 1] = Step[g[n]]
    BY <1>3, <2>1
  <2>3. QED
    BY <1>5, <2>1, <2>2
<1>6. Nat \subseteq S
  BY <1>4, <1>5, Induction, Zenon
<1>7. ASSUME NEW n \in 0 .. K PROVE r[n] = g[n]
  <2>1. n \in Nat /\ n <= K
    OBVIOUS
  <2>2. n \in S
    BY <1>6, <2>1, Zenon
  <2>3. QED
    BY <2>1, <2>2
<1>8. QED
  BY <1>3, <1>7 DEF r

\* From head along next there are n blocks, p[1] to p[n].
ListFrom(c, head, next, n, p) ==
  /\ n \in 0 .. c.assoc /\ p \in [1 .. n -> Blks(c)]
  /\ head = IF n = 0 THEN NULL ELSE p[1]
  /\ \A i \in 1 .. n : next[p[i]] = IF i = n THEN NULL ELSE p[i + 1]

LEMMA ChainIs ==
  ASSUME NEW c, c.assoc \in Nat, NEW head, NEW next, NEW n, NEW p,
         ListFrom(c, head, next, n, p)
  PROVE  Chain(c, head, next) = p
<1> DEFINE K == c.assoc
           Step == [b \in Blks(c) \cup {NULL} |->
                      IF b = NULL THEN NULL ELSE next[b]]
           g == [i \in 0 .. K |-> IF i < n THEN p[i + 1] ELSE NULL]
<1>1. /\ n \in 0 .. K /\ p \in [1 .. n -> Blks(c)]
      /\ head = IF n = 0 THEN NULL ELSE p[1]
      /\ \A i \in 1 .. n : next[p[i]] = IF i = n THEN NULL ELSE p[i + 1]
  BY DEF ListFrom
<1>2. NULL \notin Blks(c)
  BY NullIsNoBlk
<1>3. \A i \in 0 .. K : g[i] = IF i = 0 THEN head ELSE Step[g[i - 1]]
  <2>1. g[0] = head
    BY <1>1
  <2>2. ASSUME NEW i \in 1 .. K PROVE g[i] = Step[g[i - 1]]
    <3>1. i - 1 \in 0 .. K /\ (i - 1) + 1 = i
      OBVIOUS
    <3>2. CASE i - 1 < n
      <4>1. i \in 1 .. n /\ g[i - 1] = p[i] /\ p[i] \in Blks(c) /\ p[i] # NULL
        BY <1>1, <1>2, <3>1, <3>2
      <4>2. Step[g[i - 1]] = next[p[i]]
        BY <4>1
      <4>3. g[i] = IF i = n THEN NULL ELSE p[i + 1]
        BY <1>1, <4>1
      <4>4. QED
        BY <1>1, <4>1, <4>2, <4>3
    <3>3. CASE ~(i - 1 < n)
      <4>1. g[i - 1] = NULL /\ g[i] = NULL
        BY <1>1, <3>1, <3>3
      <4>2. Step[NULL] = NULL
        OBVIOUS
      <4>3. QED
        BY <4>1, <4>2
    <3>4. QED
      BY <3>2, <3>3
  <2>3. \A i \in 0 .. K : i = 0 \/ i \in 1 .. K
    OBVIOUS
  <2> HIDE DEF g, Step
  <2>4. QED
    BY <2>1, <2>2, <2>3
<1>4. Reached(c, head, Step) = g
  <2> HIDE DEF Step
  <2>1. g = [i \in 0 .. K |-> IF i = 0 THEN head ELSE Step[g[i - 1]]]
    BY <1>3
  <2> HIDE DEF g
  <2>2. QED
    BY <2>1, ReachedIs
<1>5. Chain(c, head, next) = [i \in {i \in 1 .. K + 1 : g[i - 1] # NULL} |-> g[i - 1]]
  BY <1>4 DEF Chain
<1>6. {i \in 1 .. K + 1 : g[i - 1] # NULL} = 1 .. n
  <2>1. ASSUME NEW i \in 1 .. K + 1 PROVE g[i - 1] # NULL <=> i - 1 < n
    <3>1. i - 1 \in 0 .. K /\ (i - 1) + 1 = i
      OBVIOUS
    <3>2. g[i - 1] = IF i - 1 < n THEN p[i] ELSE NULL
      BY <3>1
    <3>3. i - 1 < n => p[i] \in Blks(c)
      BY <1>1
    <3>4. QED
      BY <1>2, <3>2, <3>3
  <2>2. \A i : i \in 1 .. n <=> i \in 1 .. K + 1 /\ i - 1 < n
    BY <1>1
  <2> HIDE DEF g
  <2>3. QED
    BY <2>1, <2>2
<1>7. \A i \in 1 .. n : g[i - 1] = p[i]
  BY <1>1
<1>8. Chain(c, head, next) = [i \in 1 .. n |-> p[i]]
  <2> HIDE DEF g
  <2>1. QED
    BY <1>5, <1>6, <1>7
<1>9. QED
  BY <1>1, <1>8

\* A search finds a block of the list that holds the address, if there is one.
LEMMA SearchIs ==
  ASSUME NEW c, c.assoc \in Nat, NEW head, NEW next, NEW addr, NEW n, NEW p,
         ListFrom(c, head, next, n, p)
  PROVE  LET found == Search(c, head, next, addr)
         IN \/ found = NULL /\ \A i \in 1 .. n : ~Holds(c, p[i], addr)
            \/ \E i \in 1 .. n : found = p[i] /\ Holds(c, p[i], addr)
<1> DEFINE K == c.assoc
           Step == [b \in Blks(c) \cup {NULL} |->
                      IF b = NULL \/ Holds(c, b, addr) THEN b ELSE next[b]]
           H == {i \in 1 .. n : Holds(c, p[i], addr)}
           At(m) == [j \in 0 .. K |-> IF j < m - 1 THEN p[j + 1]
                                      ELSE IF m = n + 1 THEN NULL ELSE p[m]]
           found == Search(c, head, next, addr)
<1>1. /\ n \in 0 .. K /\ p \in [1 .. n -> Blks(c)]
      /\ head = IF n = 0 THEN NULL ELSE p[1]
      /\ \A i \in 1 .. n : next[p[i]] = IF i = n THEN NULL ELSE p[i + 1]
  BY DEF ListFrom
<1>2. NULL \notin Blks(c)
  BY NullIsNoBlk
<1>3. ASSUME NEW m \in 1 .. n + 1, \A i \in 1 .. n : i < m => i \notin H,
             m = n + 1 \/ m \in H
      PROVE  found = IF m = n + 1 THEN NULL ELSE p[m]
  <2> DEFINE g == At(m)
             last == IF m = n + 1 THEN NULL ELSE p[m]
  <2>1. Step[last] = last
    <3>1. CASE m = n + 1
      BY <3>1
    <3>2. CASE m # n + 1
      <4>1. m \in 1 .. n /\ Holds(c, p[m], addr) /\ p[m] \in Blks(c)
        BY <1>1, <1>3, <3>2
      <4> HIDE DEF H
      <4>2. QED
        BY <3>2, <4>1
    <3>3. QED
      BY <3>1, <3>2
  <2>2. g[0] = head
    BY <1>1
  <2>3. ASSUME NEW i \in 1 .. K PROVE g[i] = Step[g[i - 1]]
    <3>1. i - 1 \in 0 .. K /\ (i - 1) + 1 = i
      OBVIOUS
    <3>2. CASE i - 1 < m - 1
      <4>1. i \in 1 .. n /\ i < m
        BY <1>1, <3>2
      <4>2. g[i - 1] = p[i] /\ p[i] \in Blks(c) /\ ~Holds(c, p[i], addr)
        BY <1>1, <1>3, <3>1, <3>2, <4>1
      <4>3. Step[g[i - 1]] = next[p[i]]
        BY <1>2, <4>2
      <4>4. next[p[i]] = IF i = n THEN NULL ELSE p[i + 1]
        BY <1>1, <4>1
      <4>5. g[i] = IF i < m - 1 THEN p[i + 1] ELSE last
        OBVIOUS
      <4>6. i < m - 1 => i # n
        BY <1>1
      <4>7. ~(i < m - 1) => i + 1 = m
        BY <4>1
      <4> HIDE DEF g, Step
      <4>8. QED
        BY <1>1, <4>1, <4>3, <4>4, <4>5, <4>6, <4>7
    <3>3. CASE ~(i - 1 < m - 1)
      <4>1. g[i - 1] = last /\ g[i] = last
        BY <1>1, <3>1, <3>3
      <4> HIDE DEF g, Step, last
      <4>2. QED
        BY <2>1, <4>1
    <3>4. QED
      BY <3>2, <3>3
  <2>4. \A i \in 0 .. K : i = 0 \/ i \in 1 .. K
    OBVIOUS
  <2>5. Reached(c, head, Step) = g
    <3>1. DOMAIN g = 0 .. K /\ g = [i \in 0 .. K |-> g[i]]
      OBVIOUS
    <3> HIDE DEF Step, g
    <3>2. g = [i \in 0 .. K |-> IF i = 0 THEN head ELSE Step[g[i - 1]]]
      BY <2>2, <2>3, <2>4, <3>1
    <3>3. QED
      BY <3>2, ReachedIs
  <2>6. found = g[K]
    BY <2>5 DEF Search
  <2>7. K \in 0 .. K /\ ~(K < m - 1)
    BY <1>1
  <2>8. g[K] = last
    BY <2>7
  <2> HIDE DEF g, found
  <2>9. QED
    BY <2>6, <2>8
<1> HIDE DEF At, Step, found
<1>4. CASE H = {}
  <2>1. found = NULL
    BY <1>1, <1>3, <1>4
  <2>2. QED
    BY <1>4, <2>1 DEF found
<1>5. CASE H # {}
  <2>1. H \in SUBSET Nat
    OBVIOUS
  <2>2. PICK m \in H : \A k \in H : m <= k
    BY <1>5, <2>1, Least
  <2>3. m \in 1 .. n /\ Holds(c, p[m], addr)
    OBVIOUS
  <2>4. m \in 1 .. n + 1 /\ m # n + 1
    BY <1>1, <2>3
  <2>5. \A i \in 1 .. n : i < m => i \notin H
    BY <2>2, <2>3
  <2>6. found = p[m]
    BY <1>3, <2>4, <2>5
  <2>7. QED
    BY <2>3, <2>6 DEF found
<1>6. QED
  BY <1>4, <1>5

-----------------------------------------------------------------------------
(* A cache and its lists *)

Shape(c) ==
  c \in [nsets : Nat \ {0}, bsize : Nat \ {0}, assoc : Nat \ {0}, hsize : Nat,
         policy : {"LRU", "FIFO", "Random"}, prefetch_type : Nat,
         way_head : [Sets(c) -> Blks(c)], way_tail : [Sets(c) -> Blks(c)],
         way_next : [Blks(c) -> Blks(c) \cup {NULL}],
         way_prev : [Blks(c) -> Blks(c) \cup {NULL}],
         hash : [Sets(c) -> [0 .. c.hsize - 1 -> Blks(c) \cup {NULL}]],
         hash_next : [Blks(c) -> Blks(c) \cup {NULL}],
         tag : [Blks(c) -> 0 .. ADDR_SPACE - 1],
         valid : [Blks(c) -> BOOLEAN], dirty : [Blks(c) -> BOOLEAN],
         last_tagset : Nat, last_blk : Blks(c) \cup {NULL}]

\* The ways of set s, in the order p.
WayOrder(c, s, p) ==
  /\ p \in [1 .. c.assoc -> {s} \X Ways(c)]
  /\ \A b \in {s} \X Ways(c) : \E i \in 1 .. c.assoc : p[i] = b
  /\ \A i, j \in 1 .. c.assoc : p[i] = p[j] => i = j
  /\ c.way_head[s] = p[1] /\ c.way_tail[s] = p[c.assoc]
  /\ \A i \in 1 .. c.assoc :
       /\ c.way_next[p[i]] = IF i = c.assoc THEN NULL ELSE p[i + 1]
       /\ c.way_prev[p[i]] = IF i = 1 THEN NULL ELSE p[i - 1]

\* The order after the block in place k has been moved to the head.
HeadOrder(c, p, k) ==
  [i \in 1 .. c.assoc |-> IF i = 1 THEN p[k] ELSE IF i <= k THEN p[i - 1]
                          ELSE p[i]]
TailOrder(c, p, k) ==
  [i \in 1 .. c.assoc |-> IF i = c.assoc THEN p[k] ELSE IF i >= k THEN p[i + 1]
                          ELSE p[i]]

Relinked(c, head, tail, next, prev) ==
  [c EXCEPT !.way_head = head, !.way_tail = tail, !.way_next = next,
            !.way_prev = prev]

Links == {"way_head", "way_tail", "way_next", "way_prev"}
IsRecord(c, Fields) == c = [x \in DOMAIN c |-> c[x]] /\ Fields \subseteq DOMAIN c

LEMMA ShapeIsRecord ==
  ASSUME NEW c, Shape(c)
  PROVE  IsRecord(c, Links)
BY DEF Shape, IsRecord, Links

LEMMA RelinkedIs ==
  ASSUME NEW c, IsRecord(c, Links), NEW h, NEW t, NEW n, NEW p
  PROVE  LET r == Relinked(c, h, t, n, p)
         IN /\ r.way_head = h /\ r.way_tail = t
            /\ r.way_next = n /\ r.way_prev = p
            /\ \A x \in DOMAIN c \ Links : r[x] = c[x]
            /\ DOMAIN r = DOMAIN c
BY DEF Relinked, IsRecord, Links

LEMMA LinkHeadIs ==
  ASSUME NEW c, IsRecord(c, Links), NEW h, NEW t, NEW n, NEW p,
         NEW s, NEW b
  PROVE  LinkHead(Relinked(c, h, t, n, p), s, b) =
           Relinked(c, [h EXCEPT ![s] = b], t, [n EXCEPT ![b] = h[s]],
                    [p EXCEPT ![b] = NULL, ![h[s]] = b])
BY DEF LinkHead, Relinked, IsRecord, Links

LEMMA LinkTailIs ==
  ASSUME NEW c, IsRecord(c, Links), NEW h, NEW t, NEW n, NEW p,
         NEW s, NEW b
  PROVE  LinkTail(Relinked(c, h, t, n, p), s, b) =
           Relinked(c, h, [t EXCEPT ![s] = b],
                    [n EXCEPT ![b] = NULL, ![t[s]] = b],
                    [p EXCEPT ![b] = t[s]])
BY DEF LinkTail, Relinked, IsRecord, Links

LEMMA UnlinkWayIs ==
  ASSUME NEW c, IsRecord(c, Links), NEW s, NEW b
  PROVE  LET prev == c.way_prev[b]
             next == c.way_next[b]
         IN UnlinkWay(c, s, b) =
              IF prev = NULL
                THEN Relinked(c, [c.way_head EXCEPT ![s] = next], c.way_tail,
                              c.way_next, [c.way_prev EXCEPT ![next] = NULL])
              ELSE IF next = NULL
                THEN Relinked(c, c.way_head, [c.way_tail EXCEPT ![s] = prev],
                              [c.way_next EXCEPT ![prev] = NULL], c.way_prev)
              ELSE Relinked(c, c.way_head, c.way_tail,
                            [c.way_next EXCEPT ![prev] = next],
                            [c.way_prev EXCEPT ![next] = prev])
<1> DEFINE prev == c.way_prev[b]
           next == c.way_next[b]
<1>1. CASE prev = NULL
  BY <1>1 DEF UnlinkWay, Relinked, IsRecord, Links
<1>2. CASE prev # NULL /\ next = NULL
  BY <1>2 DEF UnlinkWay, Relinked, IsRecord, Links
<1>3. CASE prev # NULL /\ next # NULL
  BY <1>3 DEF UnlinkWay, Relinked, IsRecord, Links
<1>4. QED
  BY <1>1, <1>2, <1>3

\* What the links are after the block in place k has been moved to the head.
IsToHead(c, s, p, k) ==
  update_way_list(c, s, p[k], "Head") =
    Relinked(c, [c.way_head EXCEPT ![s] = p[k]],
      IF k = c.assoc THEN [c.way_tail EXCEPT ![s] = p[k - 1]] ELSE c.way_tail,
      [c.way_next EXCEPT ![p[k - 1]] = c.way_next[p[k]], ![p[k]] = p[1]],
      [(IF k = c.assoc THEN c.way_prev
          ELSE [c.way_prev EXCEPT ![p[k + 1]] = p[k - 1]])
         EXCEPT ![p[k]] = NULL, ![p[1]] = p[k]])

LEMMA ToHeadIs ==
  ASSUME NEW c, Shape(c), NEW s \in Sets(c), NEW p, WayOrder(c, s, p),
         NEW k \in 2 .. c.assoc
  PROVE  IsToHead(c, s, p, k)
<1> DEFINE blk == p[k]
           un == UnlinkWay(c, s, blk)
<1>1. /\ p \in [1 .. c.assoc -> Blks(c)]
      /\ c.way_head[s] = p[1] /\ c.way_tail[s] = p[c.assoc]
      /\ c.way_next[blk] = IF k = c.assoc THEN NULL ELSE p[k + 1]
      /\ c.way_prev[blk] = p[k - 1]
  BY DEF WayOrder, Blks
<1>2. NULL \notin Blks(c)
  BY NullIsNoBlk
<1>3. k \in 1 .. c.assoc /\ k - 1 \in 1 .. c.assoc
      /\ (k # c.assoc => k + 1 \in 1 .. c.assoc)
  BY DEF Shape
<1>4. c.way_prev[blk] # NULL
  BY <1>1, <1>2, <1>3
<1>5. update_way_list(c, s, blk, "Head") = LinkHead(un, s, blk)
  BY <1>4 DEF update_way_list
<1>6. IsRecord(c, Links)
  BY ShapeIsRecord
<1>7. CASE k = c.assoc
  <2>1. un = Relinked(c, c.way_head, [c.way_tail EXCEPT ![s] = p[k - 1]],
                      [c.way_next EXCEPT ![p[k - 1]] = NULL], c.way_prev)
    <3>1. c.way_next[blk] = NULL
      BY <1>1, <1>7
    <3> HIDE DEF blk
    <3>2. QED
      BY <1>1, <1>4, <1>6, <3>1, UnlinkWayIs, Zenon
  <2> HIDE DEF un
  <2>2. LinkHead(un, s, blk) =
          Relinked(c, [c.way_head EXCEPT ![s] = blk],
            [c.way_tail EXCEPT ![s] = p[k - 1]],
            [[c.way_next EXCEPT ![p[k - 1]] = NULL] EXCEPT ![blk] = c.way_head[s]],
            [c.way_prev EXCEPT ![blk] = NULL, ![c.way_head[s]] = blk])
    BY <1>6, <2>1, LinkHeadIs
  <2>3. QED
    BY <1>1, <1>5, <1>7, <2>2 DEF IsToHead
<1>8. CASE k # c.assoc
  <2>1. p[k + 1] # NULL
    BY <1>1, <1>2, <1>3, <1>8
  <2>2. un = Relinked(c, c.way_head, c.way_tail,
                      [c.way_next EXCEPT ![p[k - 1]] = p[k + 1]],
                      [c.way_prev EXCEPT ![p[k + 1]] = p[k - 1]])
    <3>1. c.way_next[blk] = p[k + 1]
      BY <1>1, <1>8
    <3> HIDE DEF blk
    <3>2. un = Relinked(c, c.way_head, c.way_tail,
                        [c.way_next EXCEPT ![c.way_prev[blk]] = c.way_next[blk]],
                        [c.way_prev EXCEPT ![c.way_next[blk]] = c.way_prev[blk]])
      BY <1>4, <1>6, <2>1, <3>1, UnlinkWayIs, Zenon
    <3>3. QED
      BY <1>1, <3>1, <3>2, Zenon
  <2> HIDE DEF un
  <2>3. LinkHead(un, s, blk) =
          Relinked(c, [c.way_head EXCEPT ![s] = blk], c.way_tail,
            [[c.way_next EXCEPT ![p[k - 1]] = p[k + 1]] EXCEPT ![blk] = c.way_head[s]],
            [[c.way_prev EXCEPT ![p[k + 1]] = p[k - 1]]
               EXCEPT ![blk] = NULL, ![c.way_head[s]] = blk])
    BY <1>6, <2>2, LinkHeadIs
  <2>4. QED
    BY <1>1, <1>5, <1>8, <2>3 DEF IsToHead
<1>9. QED
  BY <1>7, <1>8

LEMMA ToTailIs ==
  ASSUME NEW c, Shape(c), NEW s \in Sets(c), NEW p, WayOrder(c, s, p),
         NEW k \in 1 .. c.assoc - 1
  PROVE  update_way_list(c, s, p[k], "Tail") =
           Relinked(c,
             IF k = 1 THEN [c.way_head EXCEPT ![s] = p[k + 1]] ELSE c.way_head,
             [c.way_tail EXCEPT ![s] = p[k]],
             [(IF k = 1 THEN c.way_next
                 ELSE [c.way_next EXCEPT ![p[k - 1]] = p[k + 1]])
                EXCEPT ![p[k]] = NULL, ![p[c.assoc]] = p[k]],
             [c.way_prev EXCEPT ![p[k + 1]] = c.way_prev[p[k]],
                                ![p[k]] = p[c.assoc]])
<1> DEFINE blk == p[k]
           un == UnlinkWay(c, s, blk)
<1>1. /\ p \in [1 .. c.assoc -> Blks(c)]
      /\ c.way_head[s] = p[1] /\ c.way_tail[s] = p[c.assoc]
      /\ c.way_next[blk] = p[k + 1]
      /\ c.way_prev[blk] = IF k = 1 THEN NULL ELSE p[k - 1]
  <2>1. k \in 1 .. c.assoc /\ k # c.assoc
    BY DEF Shape
  <2>2. QED
    BY <2>1 DEF WayOrder, Blks
<1>2. NULL \notin Blks(c)
  BY NullIsNoBlk
<1>3. k \in 1 .. c.assoc /\ k + 1 \in 1 .. c.assoc
      /\ (k # 1 => k - 1 \in 1 .. c.assoc)
  BY DEF Shape
<1>4. c.way_next[blk] # NULL
  BY <1>1, <1>2, <1>3
<1>5. update_way_list(c, s, blk, "Tail") = LinkTail(un, s, blk)
  BY <1>4 DEF update_way_list
<1>6. IsRecord(c, Links)
  BY ShapeIsRecord
<1>7. CASE k = 1
  <2>1. un = Relinked(c, [c.way_head EXCEPT ![s] = p[k + 1]], c.way_tail,
                      c.way_next, [c.way_prev EXCEPT ![p[k + 1]] = NULL])
    <3>1. c.way_prev[blk] = NULL /\ c.way_next[blk] = p[k + 1]
      BY <1>1, <1>7
    <3> HIDE DEF blk
    <3>2. QED
      BY <1>6, <3>1, UnlinkWayIs, Zenon
  <2>2. c.way_prev[blk] = NULL
    BY <1>1, <1>7
  <2> HIDE DEF un
  <2>3. LinkTail(un, s, blk) =
          Relinked(c, [c.way_head EXCEPT ![s] = p[k + 1]],
            [c.way_tail EXCEPT ![s] = blk],
            [c.way_next EXCEPT ![blk] = NULL, ![c.way_tail[s]] = blk],
            [[c.way_prev EXCEPT ![p[k + 1]] = NULL] EXCEPT ![blk] = c.way_tail[s]])
    BY <1>6, <2>1, LinkTailIs
  <2>4. QED
    BY <1>1, <1>5, <1>7, <2>2, <2>3
<1>8. CASE k # 1
  <2>1. p[k - 1] # NULL
    BY <1>1, <1>2, <1>3, <1>8
  <2>2. un = Relinked(c, c.way_head, c.way_tail,
                      [c.way_next EXCEPT ![p[k - 1]] = p[k + 1]],
                      [c.way_prev EXCEPT ![p[k + 1]] = p[k - 1]])
    <3>1. c.way_prev[blk] = p[k - 1]
      BY <1>1, <1>8
    <3> HIDE DEF blk
    <3>2. un = Relinked(c, c.way_head, c.way_tail,
                        [c.way_next EXCEPT ![c.way_prev[blk]] = c.way_next[blk]],
                        [c.way_prev EXCEPT ![c.way_next[blk]] = c.way_prev[blk]])
      BY <1>4, <1>6, <2>1, <3>1, UnlinkWayIs, Zenon
    <3>3. QED
      BY <1>1, <3>1, <3>2, Zenon
  <2>3. c.way_prev[blk] = p[k - 1]
    BY <1>1, <1>8
  <2> HIDE DEF un
  <2>4. LinkTail(un, s, blk) =
          Relinked(c, c.way_head, [c.way_tail EXCEPT ![s] = blk],
            [[c.way_next EXCEPT ![p[k - 1]] = p[k + 1]]
               EXCEPT ![blk] = NULL, ![c.way_tail[s]] = blk],
            [[c.way_prev EXCEPT ![p[k + 1]] = p[k - 1]] EXCEPT ![blk] = c.way_tail[s]])
    BY <1>6, <2>2, LinkTailIs
  <2>5. QED
    BY <1>1, <1>5, <1>8, <2>3, <2>4
<1>9. QED
  BY <1>7, <1>8

LEMMA RelinkedShape ==
  ASSUME NEW c, Shape(c), NEW h \in [Sets(c) -> Blks(c)],
         NEW t \in [Sets(c) -> Blks(c)],
         NEW n \in [Blks(c) -> Blks(c) \cup {NULL}],
         NEW p \in [Blks(c) -> Blks(c) \cup {NULL}]
  PROVE  Shape(Relinked(c, h, t, n, p))
<1> DEFINE r == Relinked(c, h, t, n, p)
<1>1. /\ r.way_head = h /\ r.way_tail = t /\ r.way_next = n /\ r.way_prev = p
      /\ \A x \in DOMAIN c \ Links : r[x] = c[x]
      /\ DOMAIN r = DOMAIN c
  <2>1. IsRecord(c, Links)
    BY ShapeIsRecord
  <2>2. QED
    BY <2>1, RelinkedIs
<1>2. r = [x \in DOMAIN r |-> r[x]]
  BY DEF Relinked
<1> HIDE DEF r
<1>3. /\ r.nsets = c.nsets /\ r.bsize = c.bsize /\ r.assoc = c.assoc
      /\ r.hsize = c.hsize
      /\ r.policy = c.policy /\ r.prefetch_type = c.prefetch_type
      /\ r.hash = c.hash /\ r.hash_next = c.hash_next /\ r.tag = c.tag
      /\ r.valid = c.valid /\ r.dirty = c.dirty
      /\ r.last_tagset = c.last_tagset /\ r.last_blk = c.last_blk
  BY <1>1 DEF Shape, Links
<1>4. Sets(r) = Sets(c) /\ Blks(r) = Blks(c)
  BY <1>3 DEF Sets, Blks, Ways
<1>5. Shape(r)
  BY <1>1, <1>2, <1>3, <1>4 DEF Shape
<1>6. QED
  BY <1>5 DEF r

\* c becomes r by a change of the way list of set s, from order p to q.
Reordered(c, r, s, q) ==
  /\ Shape(r) /\ DOMAIN r = DOMAIN c
  /\ \A x \in DOMAIN c \ Links : r[x] = c[x]
  /\ WayOrder(r, s, q)
  /\ \A t \in Sets(c) : t # s =>
       /\ r.way_head[t] = c.way_head[t] /\ r.way_tail[t] = c.way_tail[t]
       /\ \A b \in {t} \X Ways(c) : /\ r.way_next[b] = c.way_next[b]
                                    /\ r.way_prev[b] = c.way_prev[b]

LEMMA RelinkedReorders ==
  ASSUME NEW c, Shape(c), NEW s \in Sets(c),
         NEW h \in [Sets(c) -> Blks(c)], NEW t \in [Sets(c) -> Blks(c)],
         NEW n \in [Blks(c) -> Blks(c) \cup {NULL}],
         NEW p \in [Blks(c) -> Blks(c) \cup {NULL}],
         NEW q \in [1 .. c.assoc -> {s} \X Ways(c)],
         \A b \in {s} \X Ways(c) : \E i \in 1 .. c.assoc : q[i] = b,
         \A i, j \in 1 .. c.assoc : q[i] = q[j] => i = j,
         h[s] = q[1], t[s] = q[c.assoc],
         \A i \in 1 .. c.assoc :
           n[q[i]] = IF i = c.assoc THEN NULL ELSE q[i + 1],
         \A i \in 1 .. c.assoc :
           p[q[i]] = IF i = 1 THEN NULL ELSE q[i - 1],
         \A u \in Sets(c) : u # s =>
           /\ h[u] = c.way_head[u] /\ t[u] = c.way_tail[u]
           /\ \A b \in {u} \X Ways(c) : /\ n[b] = c.way_next[b]
                                        /\ p[b] = c.way_prev[b]
  PROVE  Reordered(c, Relinked(c, h, t, n, p), s, q)
<1> DEFINE r == Relinked(c, h, t, n, p)
<1>1. Shape(r)
  BY RelinkedShape
<1>2. /\ r.way_head = h /\ r.way_tail = t /\ r.way_next = n /\ r.way_prev = p
      /\ \A x \in DOMAIN c \ Links : r[x] = c[x]
      /\ DOMAIN r = DOMAIN c
  <2>1. IsRecord(c, Links)
    BY ShapeIsRecord
  <2>2. QED
    BY <2>1, RelinkedIs
<1> HIDE DEF r
<1>3. r.assoc = c.assoc /\ r.nsets = c.nsets
  BY <1>2 DEF Shape, Links
<1>4. Ways(r) = Ways(c)
  BY <1>3 DEF Ways
<1>5. WayOrder(r, s, q)
  BY <1>2, <1>3, <1>4 DEF WayOrder
<1>6. QED
  BY <1>1, <1>2, <1>5 DEF Reordered, r

LEMMA HeadMoved ==
  ASSUME NEW c, Shape(c), NEW s \in Sets(c), NEW p, WayOrder(c, s, p),
         NEW k \in 2 .. c.assoc
  PROVE  Reordered(c, update_way_list(c, s, p[k], "Head"), s,
                   HeadOrder(c, p, k))
<1> DEFINE K == c.assoc
           q == HeadOrder(c, p, k)
           h == [c.way_head EXCEPT ![s] = p[k]]
           t == IF k = K THEN [c.way_tail EXCEPT ![s] = p[k - 1]]
                         ELSE c.way_tail
           n == [c.way_next EXCEPT ![p[k - 1]] = c.way_next[p[k]],
                                   ![p[k]] = p[1]]
           v == [(IF k = K THEN c.way_prev
                    ELSE [c.way_prev EXCEPT ![p[k + 1]] = p[k - 1]])
                   EXCEPT ![p[k]] = NULL, ![p[1]] = p[k]]
<1>1. update_way_list(c, s, p[k], "Head") = Relinked(c, h, t, n, v)
  <2>1. IsToHead(c, s, p, k)
    BY ToHeadIs
  <2>2. QED
    BY <2>1 DEF IsToHead
<1>2. /\ K \in Nat /\ K >= 1
      /\ c.way_head \in [Sets(c) -> Blks(c)] /\ c.way_tail \in [Sets(c) -> Blks(c)]
      /\ c.way_next \in [Blks(c) -> Blks(c) \cup {NULL}]
      /\ c.way_prev \in [Blks(c) -> Blks(c) \cup {NULL}]
  BY DEF Shape
<1>3. /\ p \in [1 .. K -> {s} \X Ways(c)]
      /\ \A b \in {s} \X Ways(c) : \E i \in 1 .. K : p[i] = b
      /\ \A i, j \in 1 .. K : p[i] = p[j] => i = j
      /\ c.way_head[s] = p[1] /\ c.way_tail[s] = p[K]
      /\ \A i \in 1 .. K :
           /\ c.way_next[p[i]] = IF i = K THEN NULL ELSE p[i + 1]
           /\ c.way_prev[p[i]] = IF i = 1 THEN NULL ELSE p[i - 1]
  BY DEF WayOrder
<1>4. {s} \X Ways(c) \subseteq Blks(c)
  BY DEF Blks
<1>5. p \in [1 .. K -> Blks(c)]
  BY <1>3, <1>4
<1>6. k \in 1 .. K /\ k - 1 \in 1 .. K /\ 1 \in 1 .. K
      /\ (k # K => k + 1 \in 1 .. K)
  BY <1>2
<1>7. /\ h \in [Sets(c) -> Blks(c)] /\ t \in [Sets(c) -> Blks(c)]
      /\ n \in [Blks(c) -> Blks(c) \cup {NULL}]
      /\ v \in [Blks(c) -> Blks(c) \cup {NULL}]
  <2>1. h \in [Sets(c) -> Blks(c)] /\ t \in [Sets(c) -> Blks(c)]
    BY <1>2, <1>5, <1>6
  <2>2. n \in [Blks(c) -> Blks(c) \cup {NULL}]
    BY <1>2, <1>5, <1>6
  <2>3. v \in [Blks(c) -> Blks(c) \cup {NULL}]
    BY <1>2, <1>5, <1>6
  <2>4. QED
    BY <2>1, <2>2, <2>3
<1>8. \A j \in 1 .. K :
        /\ n[p[j]] = IF j = k THEN p[1]
                     ELSE IF j = k - 1
                       THEN IF k = K THEN NULL ELSE p[k + 1]
                     ELSE IF j = K THEN NULL ELSE p[j + 1]
        /\ v[p[j]] = IF j = 1 THEN p[k] ELSE IF j = k THEN NULL
                     ELSE IF j = k + 1 THEN p[k - 1] ELSE p[j - 1]
  <2> SUFFICES ASSUME NEW j \in 1 .. K
               PROVE  /\ n[p[j]] = IF j = k THEN p[1]
                                   ELSE IF j = k - 1
                                     THEN IF k = K THEN NULL ELSE p[k + 1]
                                   ELSE IF j = K THEN NULL ELSE p[j + 1]
                      /\ v[p[j]] = IF j = 1 THEN p[k] ELSE IF j = k THEN NULL
                                   ELSE IF j = k + 1 THEN p[k - 1] ELSE p[j - 1]
    OBVIOUS
  <2>1. p[j] = p[k] <=> j = k
    BY <1>3, <1>6
  <2>2. p[j] = p[k - 1] <=> j = k - 1
    BY <1>3, <1>6
  <2>3. k # K => (p[j] = p[k + 1] <=> j = k + 1)
    BY <1>3, <1>6
  <2>4. p[j] = p[1] <=> j = 1
    BY <1>3, <1>6
  <2>5. p[j] \in Blks(c) /\ p[j] \in DOMAIN c.way_next /\ p[j] \in DOMAIN c.way_prev
    BY <1>2, <1>5
  <2>6. /\ c.way_next[p[j]] = IF j = K THEN NULL ELSE p[j + 1]
        /\ c.way_prev[p[j]] = IF j = 1 THEN NULL ELSE p[j - 1]
        /\ c.way_next[p[k]] = IF k = K THEN NULL ELSE p[k + 1]
    BY <1>3, <1>6
  <2>7. n[p[j]] = IF j = k THEN p[1] ELSE IF j = k - 1 THEN c.way_next[p[k]]
                  ELSE c.way_next[p[j]]
    BY <2>1, <2>2, <2>5
  <2>8. v[p[j]] = IF j = 1 THEN p[k] ELSE IF j = k THEN NULL
                  ELSE IF k # K /\ j = k + 1 THEN p[k - 1] ELSE c.way_prev[p[j]]
    BY <2>1, <2>3, <2>4, <2>5
  <2>9. k = K => j # k + 1
    BY <1>2
  <2> HIDE DEF n, v, K
  <2>10. QED
    BY <2>6, <2>7, <2>8, <2>9
<1>9. \A u \in Sets(c) : u # s =>
        /\ h[u] = c.way_head[u] /\ t[u] = c.way_tail[u]
        /\ \A b \in {u} \X Ways(c) : /\ n[b] = c.way_next[b]
                                     /\ v[b] = c.way_prev[b]
  <2> SUFFICES ASSUME NEW u \in Sets(c), u # s
               PROVE  /\ h[u] = c.way_head[u] /\ t[u] = c.way_tail[u]
                      /\ \A b \in {u} \X Ways(c) : /\ n[b] = c.way_next[b]
                                                   /\ v[b] = c.way_prev[b]
    OBVIOUS
  <2>1. h[u] = c.way_head[u] /\ t[u] = c.way_tail[u]
    BY <1>2
  <2>2. ASSUME NEW b \in {u} \X Ways(c)
        PROVE  n[b] = c.way_next[b] /\ v[b] = c.way_prev[b]
    <3>1. \A j \in 1 .. K : p[j] # b
      BY <1>3
    <3>2. b \in Blks(c)
      BY DEF Blks
    <3>3. QED
      BY <1>2, <1>6, <3>1, <3>2
  <2>3. QED
    BY <2>1, <2>2
<1>10. h[s] = p[k] /\ t[s] = IF k = K THEN p[k - 1] ELSE p[K]
  BY <1>2, <1>3
<1>11. q = [i \in 1 .. K |-> IF i = 1 THEN p[k] ELSE IF i <= k THEN p[i - 1]
                             ELSE p[i]]
  BY DEF HeadOrder
<1> HIDE DEF h, t, n, v, q, K
<1>12. /\ q \in [1 .. K -> {s} \X Ways(c)]
       /\ \A b \in {s} \X Ways(c) : \E i \in 1 .. K : q[i] = b
       /\ \A i, j \in 1 .. K : q[i] = q[j] => i = j
  <2>1. q \in [1 .. K -> {s} \X Ways(c)]
    <3>1. \A i \in 1 .. K : i # 1 => i - 1 \in 1 .. K
      BY <1>2
    <3>2. QED
      BY <1>3, <1>6, <1>11, <3>1
  <2>2. ASSUME NEW b \in {s} \X Ways(c) PROVE \E i \in 1 .. K : q[i] = b
    <3>1. PICK j \in 1 .. K : p[j] = b
      BY <1>3
    <3>2. CASE j = k
      BY <1>6, <1>11, <3>1, <3>2
    <3>3. CASE j < k
      <4>1. j + 1 \in 1 .. K /\ j + 1 # 1 /\ j + 1 <= k /\ (j + 1) - 1 = j
        BY <1>2, <1>6, <3>3
      <4>2. q[j + 1] = p[j]
        BY <1>11, <4>1
      <4>3. QED
        BY <3>1, <4>1, <4>2
    <3>4. CASE j > k
      BY <1>6, <1>11, <3>1, <3>4
    <3>5. QED
      BY <1>2, <1>6, <3>2, <3>3, <3>4
  <2>3. ASSUME NEW i \in 1 .. K, NEW j \in 1 .. K, q[i] = q[j] PROVE i = j
    <3> DEFINE o == [x \in 1 .. K |-> IF x = 1 THEN k
                                     ELSE IF x <= k THEN x - 1 ELSE x]
    <3>1. \A x \in 1 .. K : o[x] \in 1 .. K /\ q[x] = p[o[x]]
      BY <1>2, <1>6, <1>11
    <3>2. p[o[i]] = p[o[j]]
      BY <2>3, <3>1
    <3>3. o[i] = o[j]
      <4> HIDE DEF o
      <4>1. QED
        BY <1>3, <3>1, <3>2
    <3>4. QED
      BY <1>2, <1>6, <3>3
  <2>4. QED
    BY <2>1, <2>2, <2>3
<1>13. h[s] = q[1] /\ t[s] = q[K]
  BY <1>2, <1>6, <1>10, <1>11
<1>14. \A i \in 1 .. K : n[q[i]] = IF i = K THEN NULL ELSE q[i + 1]
  <2> SUFFICES ASSUME NEW i \in 1 .. K
               PROVE  n[q[i]] = IF i = K THEN NULL ELSE q[i + 1]
    OBVIOUS
  <2>1. CASE i = 1
    <3>1. q[1] = p[k] /\ n[p[k]] = p[1] /\ 2 \in 1 .. K /\ q[2] = p[1] /\ i + 1 = 2
          /\ i # K
      BY <1>2, <1>6, <1>8, <1>11, <2>1
    <3>2. QED
      BY <2>1, <3>1
  <2>2. CASE i # 1 /\ i <= k
    <3>1. i - 1 \in 1 .. K /\ q[i] = p[i - 1] /\ i - 1 # k /\ i - 1 # K
          /\ (i - 1) + 1 = i
      BY <1>2, <1>11, <2>2
    <3>2. n[q[i]] = IF i = k THEN IF k = K THEN NULL ELSE p[k + 1] ELSE p[i]
      BY <1>6, <1>8, <3>1
    <3>3. i # K => q[i + 1] = IF i = k THEN p[k + 1] ELSE p[i]
      <4> SUFFICES ASSUME i # K PROVE q[i + 1] = IF i = k THEN p[k + 1] ELSE p[i]
        OBVIOUS
      <4>1. i + 1 \in 1 .. K /\ i + 1 # 1 /\ (i + 1) - 1 = i
        BY <1>2
      <4>2. q[i + 1] = IF i + 1 <= k THEN p[i] ELSE p[i + 1]
        BY <1>11, <4>1
      <4>3. i + 1 <= k <=> i # k
        BY <1>6, <2>2
      <4>4. QED
        BY <4>2, <4>3
    <3>4. i # k => i # K
      BY <1>6, <2>2
    <3>5. QED
      BY <3>2, <3>3, <3>4
  <2>3. CASE i > k
    <3>1. q[i] = p[i] /\ i # k /\ i # k - 1 /\ (i # K => q[i + 1] = p[i + 1])
      BY <1>2, <1>6, <1>11, <2>3
    <3>2. QED
      BY <1>8, <3>1
  <2>4. QED
    BY <1>6, <2>1, <2>2, <2>3
<1>15. \A i \in 1 .. K : v[q[i]] = IF i = 1 THEN NULL ELSE q[i - 1]
  <2> SUFFICES ASSUME NEW i \in 1 .. K
               PROVE  v[q[i]] = IF i = 1 THEN NULL ELSE q[i - 1]
    OBVIOUS
  <2>1. CASE i = 1
    <3>1. q[1] = p[k] /\ v[p[k]] = NULL
      BY <1>2, <1>6, <1>8, <1>11, <2>1
    <3>2. QED
      BY <2>1, <3>1
  <2>2. CASE i # 1 /\ i <= k
    <3>1. i - 1 \in 1 .. K /\ q[i] = p[i - 1] /\ i - 1 # k /\ i - 1 # k + 1
      BY <1>2, <1>6, <1>11, <2>2
    <3>2. v[q[i]] = IF i - 1 = 1 THEN p[k] ELSE p[(i - 1) - 1]
      BY <1>8, <3>1
    <3>3. q[i - 1] = IF i - 1 = 1 THEN p[k] ELSE p[(i - 1) - 1]
      BY <1>2, <1>6, <1>11, <2>2, <3>1
    <3>4. QED
      BY <2>2, <3>2, <3>3
  <2>3. CASE i > k
    <3>1. q[i] = p[i] /\ i # k /\ i # 1 /\ i - 1 \in 1 .. K
      BY <1>2, <1>6, <1>11, <2>3
    <3>2. v[q[i]] = IF i = k + 1 THEN p[k - 1] ELSE p[i - 1]
      BY <1>8, <3>1
    <3>3. q[i - 1] = IF i = k + 1 THEN p[k - 1] ELSE p[i - 1]
      BY <1>2, <1>6, <1>11, <2>3, <3>1
    <3>4. QED
      BY <3>1, <3>2, <3>3
  <2>4. QED
    BY <1>6, <2>1, <2>2, <2>3
<1>16. Reordered(c, Relinked(c, h, t, n, v), s, q)
  <2> USE DEF K
  <2>1. QED
    BY <1>7, <1>9, <1>12, <1>13, <1>14, <1>15, RelinkedReorders
<1>17. QED
  BY <1>1, <1>16 DEF q, h, t, n, v, K

LEMMA TailMoved ==
  ASSUME NEW c, Shape(c), NEW s \in Sets(c), NEW p, WayOrder(c, s, p),
         NEW k \in 1 .. c.assoc - 1
  PROVE  Reordered(c, update_way_list(c, s, p[k], "Tail"), s,
                   TailOrder(c, p, k))
<1> DEFINE K == c.assoc
           q == TailOrder(c, p, k)
           h == IF k = 1 THEN [c.way_head EXCEPT ![s] = p[k + 1]] ELSE c.way_head
           t == [c.way_tail EXCEPT ![s] = p[k]]
           n == [(IF k = 1 THEN c.way_next
                    ELSE [c.way_next EXCEPT ![p[k - 1]] = p[k + 1]])
                   EXCEPT ![p[k]] = NULL, ![p[K]] = p[k]]
           v == [c.way_prev EXCEPT ![p[k + 1]] = c.way_prev[p[k]],
                                   ![p[k]] = p[K]]
<1>1. update_way_list(c, s, p[k], "Tail") = Relinked(c, h, t, n, v)
  BY ToTailIs
<1>2. /\ K \in Nat /\ K >= 1
      /\ c.way_head \in [Sets(c) -> Blks(c)] /\ c.way_tail \in [Sets(c) -> Blks(c)]
      /\ c.way_next \in [Blks(c) -> Blks(c) \cup {NULL}]
      /\ c.way_prev \in [Blks(c) -> Blks(c) \cup {NULL}]
  BY DEF Shape
<1>3. /\ p \in [1 .. K -> {s} \X Ways(c)]
      /\ \A b \in {s} \X Ways(c) : \E i \in 1 .. K : p[i] = b
      /\ \A i, j \in 1 .. K : p[i] = p[j] => i = j
      /\ c.way_head[s] = p[1] /\ c.way_tail[s] = p[K]
      /\ \A i \in 1 .. K :
           /\ c.way_next[p[i]] = IF i = K THEN NULL ELSE p[i + 1]
           /\ c.way_prev[p[i]] = IF i = 1 THEN NULL ELSE p[i - 1]
  BY DEF WayOrder
<1>4. {s} \X Ways(c) \subseteq Blks(c)
  BY DEF Blks
<1>5. p \in [1 .. K -> Blks(c)]
  BY <1>3, <1>4
<1>6. k \in 1 .. K /\ k + 1 \in 1 .. K /\ 1 \in 1 .. K /\ K \in 1 .. K /\ k # K
      /\ (k # 1 => k - 1 \in 1 .. K)
  BY <1>2
<1>7. /\ h \in [Sets(c) -> Blks(c)] /\ t \in [Sets(c) -> Blks(c)]
      /\ n \in [Blks(c) -> Blks(c) \cup {NULL}]
      /\ v \in [Blks(c) -> Blks(c) \cup {NULL}]
  <2>1. h \in [Sets(c) -> Blks(c)] /\ t \in [Sets(c) -> Blks(c)]
    BY <1>2, <1>5, <1>6
  <2>2. n \in [Blks(c) -> Blks(c) \cup {NULL}]
    BY <1>2, <1>5, <1>6
  <2>3. c.way_prev[p[k]] \in Blks(c) \cup {NULL}
    BY <1>2, <1>5, <1>6
  <2>4. v \in [Blks(c) -> Blks(c) \cup {NULL}]
    BY <1>2, <1>5, <1>6, <2>3
  <2>5. QED
    BY <2>1, <2>2, <2>4
<1>8. \A j \in 1 .. K :
        /\ n[p[j]] = IF j = K THEN p[k] ELSE IF j = k THEN NULL
                     ELSE IF j = k - 1 THEN p[k + 1] ELSE p[j + 1]
        /\ v[p[j]] = IF j = k THEN p[K]
                     ELSE IF j = k + 1 THEN IF k = 1 THEN NULL ELSE p[k - 1]
                     ELSE IF j = 1 THEN NULL ELSE p[j - 1]
  <2> SUFFICES ASSUME NEW j \in 1 .. K
               PROVE  /\ n[p[j]] = IF j = K THEN p[k] ELSE IF j = k THEN NULL
                                   ELSE IF j = k - 1 THEN p[k + 1] ELSE p[j + 1]
                      /\ v[p[j]] = IF j = k THEN p[K]
                                   ELSE IF j = k + 1
                                     THEN IF k = 1 THEN NULL ELSE p[k - 1]
                                   ELSE IF j = 1 THEN NULL ELSE p[j - 1]
    OBVIOUS
  <2>1. p[j] = p[k] <=> j = k
    BY <1>3, <1>6
  <2>2. k # 1 => (p[j] = p[k - 1] <=> j = k - 1)
    BY <1>3, <1>6
  <2>3. p[j] = p[k + 1] <=> j = k + 1
    BY <1>3, <1>6
  <2>4. p[j] = p[K] <=> j = K
    BY <1>3, <1>6
  <2>5. p[j] \in Blks(c) /\ p[j] \in DOMAIN c.way_next /\ p[j] \in DOMAIN c.way_prev
    BY <1>2, <1>5
  <2>6. /\ c.way_next[p[j]] = IF j = K THEN NULL ELSE p[j + 1]
        /\ c.way_prev[p[j]] = IF j = 1 THEN NULL ELSE p[j - 1]
        /\ c.way_prev[p[k]] = IF k = 1 THEN NULL ELSE p[k - 1]
    BY <1>3, <1>6
  <2>7. n[p[j]] = IF j = K THEN p[k] ELSE IF j = k THEN NULL
                  ELSE IF k # 1 /\ j = k - 1 THEN p[k + 1] ELSE c.way_next[p[j]]
    BY <2>1, <2>2, <2>4, <2>5
  <2>8. v[p[j]] = IF j = k THEN p[K] ELSE IF j = k + 1 THEN c.way_prev[p[k]]
                  ELSE c.way_prev[p[j]]
    BY <2>1, <2>3, <2>5
  <2>9. k = 1 => j # k - 1
    BY <1>2
  <2> HIDE DEF n, v, K
  <2>10. QED
    BY <2>6, <2>7, <2>8, <2>9
<1>9. \A u \in Sets(c) : u # s =>
        /\ h[u] = c.way_head[u] /\ t[u] = c.way_tail[u]
        /\ \A b \in {u} \X Ways(c) : /\ n[b] = c.way_next[b]
                                     /\ v[b] = c.way_prev[b]
  <2> SUFFICES ASSUME NEW u \in Sets(c), u # s
               PROVE  /\ h[u] = c.way_head[u] /\ t[u] = c.way_tail[u]
                      /\ \A b \in {u} \X Ways(c) : /\ n[b] = c.way_next[b]
                                                   /\ v[b] = c.way_prev[b]
    OBVIOUS
  <2>1. h[u] = c.way_head[u] /\ t[u] = c.way_tail[u]
    BY <1>2
  <2>2. ASSUME NEW b \in {u} \X Ways(c)
        PROVE  n[b] = c.way_next[b] /\ v[b] = c.way_prev[b]
    <3>1. \A j \in 1 .. K : p[j] # b
      BY <1>3
    <3>2. b \in Blks(c)
      BY DEF Blks
    <3>3. QED
      BY <1>2, <1>6, <3>1, <3>2
  <2>3. QED
    BY <2>1, <2>2
<1>10. t[s] = p[k] /\ h[s] = IF k = 1 THEN p[k + 1] ELSE p[1]
  BY <1>2, <1>3
<1>11. q = [i \in 1 .. K |-> IF i = K THEN p[k] ELSE IF i >= k THEN p[i + 1]
                             ELSE p[i]]
  BY DEF TailOrder
<1> HIDE DEF h, t, n, v, q, K
<1>12. /\ q \in [1 .. K -> {s} \X Ways(c)]
       /\ \A b \in {s} \X Ways(c) : \E i \in 1 .. K : q[i] = b
       /\ \A i, j \in 1 .. K : q[i] = q[j] => i = j
  <2>1. q \in [1 .. K -> {s} \X Ways(c)]
    <3>1. \A i \in 1 .. K : i # K => i + 1 \in 1 .. K
      BY <1>2
    <3>2. QED
      BY <1>3, <1>6, <1>11, <3>1
  <2>2. ASSUME NEW b \in {s} \X Ways(c) PROVE \E i \in 1 .. K : q[i] = b
    <3>1. PICK j \in 1 .. K : p[j] = b
      BY <1>3
    <3>2. CASE j = k
      BY <1>6, <1>11, <3>1, <3>2
    <3>3. CASE j > k
      <4>1. j - 1 \in 1 .. K /\ j - 1 # K /\ j - 1 >= k /\ (j - 1) + 1 = j
        BY <1>2, <1>6, <3>3
      <4>2. q[j - 1] = p[j]
        BY <1>11, <4>1
      <4>3. QED
        BY <3>1, <4>1, <4>2
    <3>4. CASE j < k
      <4>1. j # K /\ ~(j >= k)
        BY <1>2, <1>6, <3>4
      <4>2. QED
        BY <1>11, <3>1, <4>1
    <3>5. QED
      BY <1>2, <1>6, <3>2, <3>3, <3>4
  <2>3. ASSUME NEW i \in 1 .. K, NEW j \in 1 .. K, q[i] = q[j] PROVE i = j
    <3> DEFINE o == [x \in 1 .. K |-> IF x = K THEN k
                                     ELSE IF x >= k THEN x + 1 ELSE x]
    <3>1. \A x \in 1 .. K : o[x] \in 1 .. K /\ q[x] = p[o[x]]
      BY <1>2, <1>6, <1>11
    <3>2. p[o[i]] = p[o[j]]
      BY <2>3, <3>1
    <3>3. o[i] = o[j]
      <4> HIDE DEF o
      <4>1. QED
        BY <1>3, <3>1, <3>2
    <3>4. QED
      BY <1>2, <1>6, <3>3
  <2>4. QED
    BY <2>1, <2>2, <2>3
<1>13. h[s] = q[1] /\ t[s] = q[K]
  BY <1>2, <1>6, <1>10, <1>11
<1>14. \A i \in 1 .. K : n[q[i]] = IF i = K THEN NULL ELSE q[i + 1]
  <2> SUFFICES ASSUME NEW i \in 1 .. K
               PROVE  n[q[i]] = IF i = K THEN NULL ELSE q[i + 1]
    OBVIOUS
  <2>1. CASE i = K
    BY <1>6, <1>8, <1>11, <2>1
  <2>2. CASE i # K /\ i >= k
    <3>1. /\ i + 1 \in 1 .. K /\ q[i] = p[i + 1] /\ i + 1 # k /\ i + 1 # k - 1
          /\ (i + 1) + 1 \in Nat
      BY <1>2, <1>6, <1>11, <2>2
    <3>2. n[q[i]] = IF i + 1 = K THEN p[k] ELSE p[(i + 1) + 1]
      BY <1>6, <1>8, <3>1
    <3>3. q[i + 1] = IF i + 1 = K THEN p[k] ELSE p[(i + 1) + 1]
      BY <1>2, <1>6, <1>11, <2>2, <3>1
    <3>4. QED
      BY <2>2, <3>2, <3>3
  <2>3. CASE i < k
    <3>1. q[i] = p[i] /\ i # k /\ i # K /\ i + 1 \in 1 .. K /\ i + 1 # K
      BY <1>2, <1>6, <1>11, <2>3
    <3>2. n[q[i]] = IF i = k - 1 THEN p[k + 1] ELSE p[i + 1]
      BY <1>8, <3>1
    <3>3. i + 1 >= k <=> i = k - 1
      BY <1>6, <2>3
    <3>4. i + 1 >= k => (i + 1) + 1 = k + 1
      BY <1>6, <2>3
    <3>5. q[i + 1] = IF i = k - 1 THEN p[k + 1] ELSE p[i + 1]
      BY <1>11, <3>1, <3>3, <3>4
    <3>6. QED
      BY <3>1, <3>2, <3>5
  <2>4. QED
    BY <1>6, <2>1, <2>2, <2>3
<1>15. \A i \in 1 .. K : v[q[i]] = IF i = 1 THEN NULL ELSE q[i - 1]
  <2> SUFFICES ASSUME NEW i \in 1 .. K
               PROVE  v[q[i]] = IF i = 1 THEN NULL ELSE q[i - 1]
    OBVIOUS
  <2>1. CASE i = K
    <3>1. q[K] = p[k] /\ v[p[k]] = p[K] /\ K # 1 /\ K - 1 \in 1 .. K
          /\ K - 1 # K /\ K - 1 >= k /\ (K - 1) + 1 = K
      BY <1>2, <1>6, <1>8, <1>11
    <3>2. q[K - 1] = p[K]
      BY <1>11, <3>1
    <3>3. QED
      BY <2>1, <3>1, <3>2
  <2>2. CASE i # K /\ i >= k
    <3>1. /\ i + 1 \in 1 .. K /\ q[i] = p[i + 1] /\ i + 1 # k /\ i + 1 # 1
          /\ (i + 1) - 1 = i
      <4>1. i + 1 \in 1 .. K /\ i + 1 # k /\ i + 1 # 1 /\ (i + 1) - 1 = i
        BY <1>2, <1>6, <2>2
      <4>2. QED
        BY <1>11, <2>2, <4>1
    <3>2. v[q[i]] = IF i + 1 = k + 1 THEN IF k = 1 THEN NULL ELSE p[k - 1]
                    ELSE p[i]
      BY <1>8, <3>1
    <3>3. i + 1 = k + 1 <=> i = k
      BY <1>6
    <3>4. i # 1 => i - 1 \in 1 .. K /\ i - 1 # K /\ (i - 1) + 1 = i
      BY <1>2
    <3>5. i # 1 => q[i - 1] = IF i - 1 >= k THEN p[i] ELSE p[i - 1]
      BY <1>11, <3>4
    <3>6. i - 1 >= k <=> i # k
      BY <1>6, <2>2
    <3>7. i # k => i # 1
      BY <1>6, <2>2
    <3>8. QED
      BY <3>2, <3>3, <3>5, <3>6, <3>7
  <2>3. CASE i < k
    <3>1. /\ q[i] = p[i] /\ i # k /\ i # k + 1
          /\ (i # 1 => i - 1 \in 1 .. K /\ i - 1 # K /\ ~(i - 1 >= k))
      BY <1>2, <1>6, <1>11, <2>3
    <3>2. v[q[i]] = IF i = 1 THEN NULL ELSE p[i - 1]
      BY <1>8, <3>1
    <3>3. i # 1 => q[i - 1] = p[i - 1]
      BY <1>11, <3>1
    <3>4. QED
      BY <3>2, <3>3
  <2>4. QED
    BY <1>6, <2>1, <2>2, <2>3
<1>16. Reordered(c, Relinked(c, h, t, n, v), s, q)
  <2> USE DEF K
  <2>1. QED
    BY <1>7, <1>9, <1>12, <1>13, <1>14, <1>15, RelinkedReorders
<1>17. QED
  BY <1>1, <1>16 DEF q, h, t, n, v, K

WaysOK(c) == \A s \in Sets(c) : \E p : WayOrder(c, s, p)

\* r differs from c in Fields only.
OnlyChanged(c, r, Fields) ==
  DOMAIN r = DOMAIN c /\ \A x \in DOMAIN c \ Fields : r[x] = c[x]

\* A block of the list may be moved to either end.
LEMMA UpdateKeepsWays ==
  ASSUME NEW c, Shape(c), WaysOK(c), NEW s \in Sets(c),
         NEW b \in {s} \X Ways(c), NEW where \in {"Head", "Tail"}
  PROVE  LET r == update_way_list(c, s, b, where)
         IN Shape(r) /\ WaysOK(r) /\ OnlyChanged(c, r, Links)
<1> DEFINE r == update_way_list(c, s, b, where)
<1>1. PICK p : WayOrder(c, s, p)
  BY DEF WaysOK
<1>2. PICK k \in 1 .. c.assoc : p[k] = b
  BY <1>1 DEF WayOrder
<1>3. /\ c.assoc \in Nat /\ p \in [1 .. c.assoc -> Blks(c)]
      /\ c.way_next[b] = IF k = c.assoc THEN NULL ELSE p[k + 1]
      /\ c.way_prev[b] = IF k = 1 THEN NULL ELSE p[k - 1]
  <2>1. c.assoc \in Nat
    BY DEF Shape
  <2>2. p \in [1 .. c.assoc -> Blks(c)]
    BY <1>1 DEF WayOrder, Blks
  <2>3. QED
    BY <1>1, <1>2, <2>1, <2>2 DEF WayOrder
<1>4. CASE r = c
  BY <1>4 DEF OnlyChanged
<1>5. CASE r # c
  <2>1. \/ where = "Head" /\ c.way_prev[b] # NULL
        \/ where = "Tail" /\ c.way_next[b] # NULL
    BY <1>5 DEF update_way_list
  <2>2. PICK q : Reordered(c, r, s, q)
    <3>1. CASE where = "Head" /\ c.way_prev[b] # NULL
      <4>1. k \in 2 .. c.assoc
        BY <1>3, <3>1
      <4>2. QED
        BY <1>1, <1>2, <3>1, <4>1, HeadMoved
    <3>2. CASE where = "Tail" /\ c.way_next[b] # NULL
      <4>1. k \in 1 .. c.assoc - 1
        BY <1>3, <3>2
      <4>2. QED
        BY <1>1, <1>2, <3>2, <4>1, TailMoved
    <3>3. QED
      BY <2>1, <3>1, <3>2
  <2> HIDE DEF r
  <2>3. Shape(r) /\ OnlyChanged(c, r, Links)
    BY <2>2 DEF Reordered, OnlyChanged
  <2>4. r.assoc = c.assoc /\ r.nsets = c.nsets
    BY <2>3 DEF Shape, Links, OnlyChanged
  <2>5. Sets(r) = Sets(c) /\ Ways(r) = Ways(c)
    BY <2>4 DEF Sets, Ways
  <2>6. ASSUME NEW t \in Sets(c), t # s PROVE \E o : WayOrder(r, t, o)
    <3>1. PICK o : WayOrder(c, t, o)
      BY DEF WaysOK
    <3>2. /\ r.way_head[t] = c.way_head[t] /\ r.way_tail[t] = c.way_tail[t]
          /\ \A x \in {t} \X Ways(c) : /\ r.way_next[x] = c.way_next[x]
                                       /\ r.way_prev[x] = c.way_prev[x]
      BY <2>2, <2>6 DEF Reordered
    <3>3. WayOrder(r, t, o)
      BY <2>4, <2>5, <3>1, <3>2 DEF WayOrder
    <3>4. QED
      BY <3>3
  <2>7. WayOrder(r, s, q)
    BY <2>2 DEF Reordered
  <2>8. WaysOK(r)
    BY <2>5, <2>6, <2>7 DEF WaysOK
  <2>9. QED
    BY <2>3, <2>8 DEF r
<1>6. QED
  BY <1>4, <1>5

LEMMA WaysAreLists ==
  ASSUME NEW c, Shape(c), NEW s \in Sets(c), NEW p, WayOrder(c, s, p)
  PROVE  ListFrom(c, c.way_head[s], c.way_next, c.assoc, p)
<1>1. c.assoc \in Nat /\ c.assoc >= 1
  BY DEF Shape
<1>2. p \in [1 .. c.assoc -> Blks(c)]
  BY DEF WayOrder, Blks
<1>3. QED
  BY <1>1, <1>2 DEF ListFrom, WayOrder

LEMMA WaysAreSound ==
  ASSUME NEW c, Shape(c), WaysOK(c)
  PROVE  WayListSound(c)
<1> SUFFICES ASSUME NEW s \in Sets(c)
             PROVE  LET ways == WayList(c, s)
                    IN /\ Len(ways) = c.assoc
                       /\ ToSet(ways) = {s} \X Ways(c)
                       /\ c.way_tail[s] = ways[c.assoc]
                       /\ \A i \in 1 .. c.assoc :
                            c.way_prev[ways[i]] =
                              IF i = 1 THEN NULL ELSE ways[i - 1]
  BY DEF WayListSound
<1>1. PICK p : WayOrder(c, s, p)
  BY DEF WaysOK
<1>2. c.assoc \in Nat
  BY DEF Shape
<1>3. WayList(c, s) = p
  BY <1>1, <1>2, WaysAreLists, ChainIs DEF WayList
<1>4. /\ p \in [1 .. c.assoc -> {s} \X Ways(c)]
      /\ \A b \in {s} \X Ways(c) : \E i \in 1 .. c.assoc : p[i] = b
      /\ c.way_tail[s] = p[c.assoc]
      /\ \A i \in 1 .. c.assoc :
           c.way_prev[p[i]] = IF i = 1 THEN NULL ELSE p[i - 1]
  BY <1>1 DEF WayOrder
<1>5. Len(p) = c.assoc
  BY <1>2, <1>4
<1>6. ToSet(p) = {s} \X Ways(c)
  BY <1>4 DEF ToSet
<1>7. QED
  BY <1>3, <1>4, <1>5, <1>6

-----------------------------------------------------------------------------
(* The hash chains *)

LEMMA AtMostTheWays ==
  ASSUME NEW c, c.assoc \in Nat, NEW s, NEW n \in Nat,
         NEW q \in [1 .. n -> {s} \X Ways(c)],
         \A i, j \in 1 .. n : q[i] = q[j] => i = j
  PROVE  n <= c.assoc
<1> DEFINE way == [i \in 1 .. n |-> q[i][2]]
<1>1. \A i \in 1 .. n : q[i] = <<s, way[i]>> /\ way[i] \in 1 .. c.assoc
  BY DEF Ways
<1>2. way \in Injection(1 .. n, 1 .. c.assoc)
  <2> HIDE DEF way
  <2>1. \A i, j \in 1 .. n : way[i] = way[j] => i = j
    BY <1>1
  <2>2. way \in [1 .. n -> 1 .. c.assoc]
    BY <1>1 DEF way
  <2>3. QED
    BY <2>1, <2>2 DEF Injection, IsInjective
<1>3. /\ IsFiniteSet(1 .. c.assoc)
      /\ Cardinality(1 .. c.assoc) = IF 1 > c.assoc THEN 0 ELSE c.assoc - 1 + 1
      /\ Cardinality(1 .. n) = IF 1 > n THEN 0 ELSE n - 1 + 1
  <2>1. 1 \in Int /\ c.assoc \in Int /\ n \in Int
    OBVIOUS
  <2>2. QED
    BY <2>1, FS_Interval
<1>4. Cardinality(1 .. n) <= Cardinality(1 .. c.assoc)
  BY <1>2, <1>3, FS_Injection
<1>5. QED
  BY <1>3, <1>4

\* Chain i of set s is q: its blocks but x, each once.
BucketIs(c, s, i, x, n, q) ==
  /\ ListFrom(c, c.hash[s][i], c.hash_next, n, q)
  /\ \A j, k \in 1 .. n : q[j] = q[k] => j = k
  /\ \A j \in 1 .. n : /\ q[j] \in {s} \X Ways(c) /\ q[j] # x
                       /\ CACHE_HASH(c, c.tag[q[j]]) = i
  /\ \A b \in {s} \X Ways(c) :
       b # x /\ CACHE_HASH(c, c.tag[b]) = i => \E j \in 1 .. n : q[j] = b

\* The chains hold every block but x (every one, if x is NULL).
BucketsOK(c, x) ==
  c.hsize # 0 =>
    \A s \in Sets(c), i \in 0 .. c.hsize - 1 :
      \E n, q : BucketIs(c, s, i, x, n, q)

Hashes == {"hash", "hash_next"}

Rehashed(c, hash, next) == [c EXCEPT !.hash = hash, !.hash_next = next]

LEMMA RehashedIs ==
  ASSUME NEW c, Shape(c),
         NEW h \in [Sets(c) -> [0 .. c.hsize - 1 -> Blks(c) \cup {NULL}]],
         NEW n \in [Blks(c) -> Blks(c) \cup {NULL}]
  PROVE  LET r == Rehashed(c, h, n)
         IN /\ Shape(r) /\ OnlyChanged(c, r, Hashes)
            /\ r.hash = h /\ r.hash_next = n
<1> DEFINE r == Rehashed(c, h, n)
<1>1. IsRecord(c, Hashes)
  BY DEF Shape, IsRecord, Hashes
<1>2. /\ r = [x \in DOMAIN r |-> r[x]] /\ DOMAIN r = DOMAIN c
      /\ r.hash = h /\ r.hash_next = n /\ \A x \in DOMAIN c \ Hashes : r[x] = c[x]
  BY <1>1 DEF Rehashed, IsRecord, Hashes
<1> HIDE DEF r
<1>3. /\ r.nsets = c.nsets /\ r.bsize = c.bsize /\ r.assoc = c.assoc
      /\ r.hsize = c.hsize
      /\ r.policy = c.policy /\ r.prefetch_type = c.prefetch_type
      /\ r.way_head = c.way_head /\ r.way_tail = c.way_tail
      /\ r.way_next = c.way_next /\ r.way_prev = c.way_prev
      /\ r.tag = c.tag /\ r.valid = c.valid /\ r.dirty = c.dirty
      /\ r.last_tagset = c.last_tagset /\ r.last_blk = c.last_blk
  BY <1>2 DEF Shape, Hashes
<1>4. Sets(r) = Sets(c) /\ Blks(r) = Blks(c)
  BY <1>3 DEF Sets, Blks, Ways
<1>5. Shape(r)
  BY <1>2, <1>3, <1>4 DEF Shape
<1>6. QED
  BY <1>2, <1>5 DEF OnlyChanged, r

LEMMA HashIsIndex ==
  ASSUME NEW c, Shape(c), c.hsize # 0, NEW tag \in Nat
  PROVE  CACHE_HASH(c, tag) \in 0 .. c.hsize - 1
BY DEF Shape, CACHE_HASH

LEMMA LinkIs ==
  ASSUME NEW c, Shape(c), c.hsize # 0, NEW b \in Blks(c), BucketsOK(c, b)
  PROVE  LET r == link_htab_ent(c, b[1], b)
         IN Shape(r) /\ OnlyChanged(c, r, Hashes) /\ BucketsOK(r, NULL)
<1> DEFINE s == b[1]
           i0 == CACHE_HASH(c, c.tag[b])
           h == [c.hash EXCEPT ![s][i0] = b]
           n == [c.hash_next EXCEPT ![b] = c.hash[s][i0]]
           r == Rehashed(c, h, n)
<1>1. /\ s \in Sets(c) /\ b \in {s} \X Ways(c) /\ c.tag[b] \in Nat
      /\ c.hash \in [Sets(c) -> [0 .. c.hsize - 1 -> Blks(c) \cup {NULL}]]
      /\ c.hash_next \in [Blks(c) -> Blks(c) \cup {NULL}]
      /\ c.assoc \in Nat
  BY DEF Shape, Blks
<1>2. i0 \in 0 .. c.hsize - 1
  BY <1>1, HashIsIndex
<1>3. link_htab_ent(c, s, b) = r
  <2>1. IsRecord(c, Hashes)
    BY DEF Shape, IsRecord, Hashes
  <2>2. QED
    BY <2>1 DEF link_htab_ent, Rehashed, IsRecord, Hashes
<1>4. /\ h \in [Sets(c) -> [0 .. c.hsize - 1 -> Blks(c) \cup {NULL}]]
      /\ n \in [Blks(c) -> Blks(c) \cup {NULL}]
  BY <1>1, <1>2
<1>5. /\ \A t \in Sets(c), i \in 0 .. c.hsize - 1 :
           h[t][i] = IF t = s /\ i = i0 THEN b ELSE c.hash[t][i]
      /\ \A x \in Blks(c) : n[x] = IF x = b THEN c.hash[s][i0]
                                            ELSE c.hash_next[x]
  BY <1>1, <1>2
<1> HIDE DEF h, n
<1>6. /\ Shape(r) /\ OnlyChanged(c, r, Hashes)
      /\ r.hash = h /\ r.hash_next = n
  BY <1>4, RehashedIs
<1> HIDE DEF r
<1>7. r.nsets = c.nsets /\ r.assoc = c.assoc /\ r.hsize = c.hsize
      /\ r.tag = c.tag
  BY <1>6 DEF Shape, OnlyChanged, Hashes
<1>8. /\ Sets(r) = Sets(c) /\ Ways(r) = Ways(c) /\ Blks(r) = Blks(c)
      /\ \A tag : CACHE_HASH(r, tag) = CACHE_HASH(c, tag)
  BY <1>7 DEF Sets, Ways, Blks, CACHE_HASH
<1>9. NULL \notin Blks(c)
  BY NullIsNoBlk
<1>10. ASSUME NEW t \in Sets(c), NEW i \in 0 .. c.hsize - 1
       PROVE  \E m, p : BucketIs(r, t, i, NULL, m, p)
  <2>1. PICK m, q : BucketIs(c, t, i, b, m, q)
    BY DEF BucketsOK
  <2>2. /\ m \in 0 .. c.assoc /\ q \in [1 .. m -> Blks(c)]
        /\ c.hash[t][i] = IF m = 0 THEN NULL ELSE q[1]
        /\ \A j \in 1 .. m : c.hash_next[q[j]] = IF j = m THEN NULL ELSE q[j + 1]
        /\ \A j, k \in 1 .. m : q[j] = q[k] => j = k
        /\ \A j \in 1 .. m : /\ q[j] \in {t} \X Ways(c) /\ q[j] # b
                             /\ CACHE_HASH(c, c.tag[q[j]]) = i
        /\ \A x \in {t} \X Ways(c) :
             x # b /\ CACHE_HASH(c, c.tag[x]) = i => \E j \in 1 .. m : q[j] = x
    BY <2>1 DEF BucketIs, ListFrom
  <2>3. CASE ~(t = s /\ i = i0)
    <3>1. \A x \in {t} \X Ways(c) : CACHE_HASH(c, c.tag[x]) = i => x # b
      BY <2>3
    <3>2. BucketIs(r, t, i, NULL, m, q)
      <4>1. ListFrom(r, r.hash[t][i], r.hash_next, m, q)
        BY <1>5, <1>6, <1>7, <1>8, <2>2, <2>3 DEF ListFrom
      <4>2. \A j \in 1 .. m : q[j] # NULL
        BY <1>9, <2>2
      <4>3. QED
        BY <1>7, <1>8, <2>2, <3>1, <4>1, <4>2 DEF BucketIs
    <3>3. QED
      BY <3>2
  <2>4. CASE t = s /\ i = i0
    <3> DEFINE p == [j \in 1 .. m + 1 |-> IF j = 1 THEN b ELSE q[j - 1]]
    <3>1. m \in Nat
      BY <2>2
    <3>2. \A j \in 1 .. m + 1 : j # 1 => j - 1 \in 1 .. m
      BY <3>1
    <3>3. /\ p \in [1 .. m + 1 -> {s} \X Ways(c)]
          /\ \A j \in 1 .. m + 1 : CACHE_HASH(c, c.tag[p[j]]) = i
      BY <1>1, <2>2, <2>4, <3>2
    <3>4. \A j, k \in 1 .. m + 1 : p[j] = p[k] => j = k
      <4> SUFFICES ASSUME NEW j \in 1 .. m + 1, NEW k \in 1 .. m + 1, p[j] = p[k]
                   PROVE  j = k
        OBVIOUS
      <4>1. j # 1 => q[j - 1] # b
        BY <2>2, <3>2
      <4>2. k # 1 => q[k - 1] # b
        BY <2>2, <3>2
      <4>3. j # 1 /\ k # 1 => j - 1 = k - 1
        BY <2>2, <3>2
      <4>4. QED
        BY <4>1, <4>2, <4>3
    <3>5. p[1] = b /\ \A j \in 1 .. m : p[j + 1] = q[j]
      BY <3>1
    <3> HIDE DEF p
    <3>6. m + 1 <= c.assoc
      <4>1. m + 1 \in Nat
        BY <3>1
      <4>2. QED
        BY <1>1, <3>3, <3>4, <4>1, AtMostTheWays
    <3>7. ListFrom(r, r.hash[t][i], r.hash_next, m + 1, p)
      <4>1. m + 1 \in 0 .. c.assoc
        BY <1>1, <3>1, <3>6
      <4>2. p \in [1 .. m + 1 -> Blks(c)]
        BY <1>1, <3>3 DEF Blks
      <4>3. r.hash[t][i] = b
        BY <1>5, <1>6, <2>4
      <4>4. ASSUME NEW j \in 1 .. m + 1
            PROVE  r.hash_next[p[j]] = IF j = m + 1 THEN NULL ELSE p[j + 1]
        <5>1. CASE j = 1
          <6>1. r.hash_next[p[j]] = c.hash[t][i]
            BY <1>5, <1>6, <2>4, <3>5, <5>1
          <6>2. m # 0 => p[2] = q[1]
            <7>1. m # 0 => 1 \in 1 .. m /\ 1 + 1 = 2
              BY <3>1
            <7>2. QED
              BY <3>5, <7>1
          <6>3. j = m + 1 <=> m = 0
            BY <3>1, <5>1
          <6>4. j + 1 = 2
            BY <5>1
          <6>5. QED
            BY <2>2, <6>1, <6>2, <6>3, <6>4
        <5>2. CASE j # 1
          <6>1. j - 1 \in 1 .. m /\ (j - 1) + 1 = j
            BY <3>2, <5>2
          <6>2. p[j] = q[j - 1] /\ q[j - 1] # b /\ q[j - 1] \in Blks(c)
            BY <2>2, <3>5, <6>1
          <6>3. r.hash_next[p[j]] = c.hash_next[q[j - 1]]
            BY <1>5, <1>6, <6>2
          <6>4. c.hash_next[q[j - 1]] = IF j - 1 = m THEN NULL ELSE q[j]
            BY <2>2, <6>1
          <6>5. j - 1 = m <=> j = m + 1
            BY <3>1
          <6>6. j # m + 1 => j \in 1 .. m
            BY <3>1
          <6>7. QED
            BY <3>5, <6>3, <6>4, <6>5, <6>6
        <5>3. QED
          BY <5>1, <5>2
      <4>5. m + 1 # 0
        BY <3>1
      <4>6. QED
        BY <1>7, <1>8, <3>5, <4>1, <4>2, <4>3, <4>4, <4>5 DEF ListFrom
    <3>8. \A x \in {t} \X Ways(c) :
            CACHE_HASH(c, c.tag[x]) = i => \E j \in 1 .. m + 1 : p[j] = x
      <4> SUFFICES ASSUME NEW x \in {t} \X Ways(c), CACHE_HASH(c, c.tag[x]) = i
                   PROVE  \E j \in 1 .. m + 1 : p[j] = x
        OBVIOUS
      <4>1. CASE x = b
        BY <3>1, <3>5, <4>1
      <4>2. CASE x # b
        <5>1. PICK j \in 1 .. m : q[j] = x
          BY <2>2, <4>2
        <5>2. j + 1 \in 1 .. m + 1
          BY <3>1
        <5>3. QED
          BY <3>5, <5>1, <5>2
      <4>3. QED
        BY <4>1, <4>2
    <3>9. \A j \in 1 .. m + 1 : p[j] # NULL
      BY <1>1, <1>9, <3>3 DEF Blks
    <3>10. BucketIs(r, t, i, NULL, m + 1, p)
      BY <1>7, <1>8, <2>4, <3>3, <3>4, <3>7, <3>8, <3>9 DEF BucketIs
    <3>11. QED
      BY <3>10
  <2>5. QED
    BY <2>3, <2>4
<1>11. BucketsOK(r, NULL)
  BY <1>7, <1>8, <1>10 DEF BucketsOK
<1>12. QED
  BY <1>3, <1>6, <1>11 DEF r

LEMMA UnlinkIs ==
  ASSUME NEW c, Shape(c), c.hsize # 0, NEW b \in Blks(c), BucketsOK(c, NULL)
  PROVE  LET r == unlink_htab_ent(c, b[1], b)
         IN Shape(r) /\ OnlyChanged(c, r, Hashes) /\ BucketsOK(r, b)
<1> DEFINE s == b[1]
           i0 == CACHE_HASH(c, c.tag[b])
<1>1. /\ s \in Sets(c) /\ b \in {s} \X Ways(c) /\ c.tag[b] \in Nat
      /\ c.hash \in [Sets(c) -> [0 .. c.hsize - 1 -> Blks(c) \cup {NULL}]]
      /\ c.hash_next \in [Blks(c) -> Blks(c) \cup {NULL}]
      /\ c.assoc \in Nat
  BY DEF Shape, Blks
<1>2. i0 \in 0 .. c.hsize - 1
  BY <1>1, HashIsIndex
<1>3. NULL \notin Blks(c)
  BY NullIsNoBlk
<1>4. PICK m, q : BucketIs(c, s, i0, NULL, m, q)
  BY <1>1, <1>2 DEF BucketsOK
<1>5. /\ m \in 0 .. c.assoc /\ q \in [1 .. m -> Blks(c)]
      /\ c.hash[s][i0] = IF m = 0 THEN NULL ELSE q[1]
      /\ \A j \in 1 .. m : c.hash_next[q[j]] = IF j = m THEN NULL ELSE q[j + 1]
      /\ \A j, k \in 1 .. m : q[j] = q[k] => j = k
      /\ \A j \in 1 .. m : /\ q[j] \in {s} \X Ways(c)
                           /\ CACHE_HASH(c, c.tag[q[j]]) = i0
      /\ \A x \in {s} \X Ways(c) :
           x # NULL /\ CACHE_HASH(c, c.tag[x]) = i0 => \E j \in 1 .. m : q[j] = x
  BY <1>4 DEF BucketIs, ListFrom
<1>6. m \in Nat /\ \A j \in 1 .. m : j # 1 => j - 1 \in 1 .. m
  BY <1>1, <1>5
<1>7. PICK k \in 1 .. m : q[k] = b
  BY <1>1, <1>3, <1>5
<1>8. Bucket(c, s, i0) = q
  <2>1. ListFrom(c, c.hash[s][i0], c.hash_next, m, q)
    BY <1>4 DEF BucketIs
  <2>2. QED
    BY <1>1, <2>1, ChainIs DEF Bucket
<1> DEFINE prev == {p \in ToSet(Bucket(c, s, i0)) : c.hash_next[p] = b}
<1>9. prev = IF k = 1 THEN {} ELSE {q[k - 1]}
  <2>1. \A p : p \in prev <=> \E j \in 1 .. m : p = q[j] /\ c.hash_next[q[j]] = b
    BY <1>5, <1>8 DEF ToSet
  <2>2. ASSUME NEW j \in 1 .. m PROVE c.hash_next[q[j]] = b <=> j + 1 = k
    <3>1. CASE j = m
      BY <1>3, <1>5, <1>7, <3>1
    <3>2. CASE j # m
      <4>1. j + 1 \in 1 .. m
        BY <1>6, <3>2
      <4>2. c.hash_next[q[j]] = q[j + 1]
        BY <1>5, <3>2
      <4>3. QED
        BY <1>5, <1>7, <4>1, <4>2
    <3>3. QED
      BY <3>1, <3>2
  <2> HIDE DEF prev
  <2>3. CASE k = 1
    <3>1. \A j \in 1 .. m : j + 1 # k
      BY <1>6, <2>3
    <3>2. QED
      BY <2>1, <2>2, <2>3, <3>1
  <2>4. CASE k # 1
    <3>1. k - 1 \in 1 .. m /\ \A j \in 1 .. m : j + 1 = k <=> j = k - 1
      BY <1>6, <2>4
    <3>2. \A p : p \in prev <=> p = q[k - 1]
      BY <2>1, <2>2, <3>1
    <3>3. QED
      BY <2>4, <3>2
  <2>5. QED
    BY <2>3, <2>4
<1> DEFINE h == IF k = 1 THEN [c.hash EXCEPT ![s][i0] = c.hash_next[b]] ELSE c.hash
           n == [(IF k = 1 THEN c.hash_next
                    ELSE [c.hash_next EXCEPT ![q[k - 1]] = c.hash_next[b]])
                   EXCEPT ![b] = NULL]
           r == Rehashed(c, h, n)
<1>10. unlink_htab_ent(c, s, b) = r
  <2>1. IsRecord(c, Hashes)
    BY DEF Shape, IsRecord, Hashes
  <2>2. CASE k = 1
    <3>1. prev = {}
      BY <1>9, <2>2
    <3>2. unlink_htab_ent(c, s, b) =
            [c EXCEPT !.hash[s][i0] = c.hash_next[b], !.hash_next[b] = NULL]
      BY <3>1 DEF unlink_htab_ent
    <3>3. QED
      BY <2>1, <2>2, <3>2 DEF Rehashed, IsRecord, Hashes
  <2>3. CASE k # 1
    <3>1. prev = {q[k - 1]}
      BY <1>9, <2>3
    <3> DEFINE new == [x \in Blks(c) |->
                         IF x = b THEN NULL
                         ELSE IF x \in prev THEN c.hash_next[b]
                         ELSE c.hash_next[x]]
    <3>2. unlink_htab_ent(c, s, b) = [c EXCEPT !.hash_next = new]
      <4>1. prev # {}
        BY <3>1
      <4> HIDE DEF prev
      <4>2. unlink_htab_ent(c, s, b) =
              IF prev = {}
                THEN [c EXCEPT !.hash[s][i0] = c.hash_next[b],
                               !.hash_next[b] = NULL]
              ELSE [c EXCEPT !.hash_next = new]
        BY Zenon DEF unlink_htab_ent, prev
      <4> HIDE DEF new
      <4>3. QED
        BY <4>1, <4>2
    <3>3. new = n
      <4>1. q[k - 1] \in Blks(c)
        BY <1>5, <1>6, <2>3
      <4> HIDE DEF prev
      <4>2. QED
        BY <1>1, <2>3, <3>1, <4>1
    <3> HIDE DEF new, n
    <3>4. QED
      BY <2>1, <2>3, <3>2, <3>3 DEF Rehashed, IsRecord, Hashes
  <2>4. QED
    BY <2>2, <2>3
<1>11. k # 1 => q[k - 1] \in Blks(c)
  BY <1>5, <1>6
<1>12. c.hash_next[b] \in Blks(c) \cup {NULL}
  BY <1>1
<1>13. /\ h \in [Sets(c) -> [0 .. c.hsize - 1 -> Blks(c) \cup {NULL}]]
       /\ n \in [Blks(c) -> Blks(c) \cup {NULL}]
  BY <1>1, <1>2, <1>11, <1>12
<1>14. /\ \A t \in Sets(c), i \in 0 .. c.hsize - 1 :
            h[t][i] = IF k = 1 /\ t = s /\ i = i0 THEN c.hash_next[b]
                      ELSE c.hash[t][i]
       /\ \A x \in Blks(c) :
            n[x] = IF x = b THEN NULL
                   ELSE IF k # 1 /\ x = q[k - 1] THEN c.hash_next[b]
                   ELSE c.hash_next[x]
  BY <1>1, <1>2, <1>11
<1> HIDE DEF h, n
<1>15. /\ Shape(r) /\ OnlyChanged(c, r, Hashes)
       /\ r.hash = h /\ r.hash_next = n
  BY <1>13, RehashedIs
<1> HIDE DEF r
<1>16. r.nsets = c.nsets /\ r.assoc = c.assoc /\ r.hsize = c.hsize
       /\ r.tag = c.tag
  BY <1>15 DEF Shape, OnlyChanged, Hashes
<1>17. /\ Sets(r) = Sets(c) /\ Ways(r) = Ways(c) /\ Blks(r) = Blks(c)
       /\ \A tag : CACHE_HASH(r, tag) = CACHE_HASH(c, tag)
  BY <1>16 DEF Sets, Ways, Blks, CACHE_HASH
<1>18. ASSUME NEW t \in Sets(c), NEW i \in 0 .. c.hsize - 1, ~(t = s /\ i = i0)
       PROVE  \E l, p : BucketIs(r, t, i, b, l, p)
  <2>1. PICK l, p : BucketIs(c, t, i, NULL, l, p)
    BY DEF BucketsOK
  <2>2. /\ l \in 0 .. c.assoc /\ p \in [1 .. l -> Blks(c)]
        /\ c.hash[t][i] = IF l = 0 THEN NULL ELSE p[1]
        /\ \A j \in 1 .. l : c.hash_next[p[j]] = IF j = l THEN NULL ELSE p[j + 1]
        /\ \A j, g \in 1 .. l : p[j] = p[g] => j = g
        /\ \A j \in 1 .. l : /\ p[j] \in {t} \X Ways(c)
                             /\ CACHE_HASH(c, c.tag[p[j]]) = i
        /\ \A x \in {t} \X Ways(c) :
             x # NULL /\ CACHE_HASH(c, c.tag[x]) = i => \E j \in 1 .. l : p[j] = x
    BY <2>1 DEF BucketIs, ListFrom
  <2>3. \A j \in 1 .. l : p[j] # b /\ (k # 1 => p[j] # q[k - 1])
    <3>1. ASSUME NEW j \in 1 .. l, NEW x \in {s} \X Ways(c),
                 CACHE_HASH(c, c.tag[x]) = i0
          PROVE  p[j] # x
      BY <1>18, <2>2, <3>1
    <3>2. QED
      BY <1>1, <1>5, <1>6, <3>1
  <2>4. ListFrom(r, r.hash[t][i], r.hash_next, l, p)
    <3>1. r.hash[t][i] = c.hash[t][i]
      BY <1>14, <1>15, <1>18
    <3>2. \A j \in 1 .. l : r.hash_next[p[j]] = c.hash_next[p[j]]
      BY <1>14, <1>15, <2>2, <2>3
    <3>3. QED
      BY <1>16, <1>17, <2>2, <3>1, <3>2 DEF ListFrom
  <2>5. \A x \in {t} \X Ways(c) : x # NULL
    BY <1>3 DEF Blks
  <2>6. BucketIs(r, t, i, b, l, p)
    BY <1>16, <1>17, <2>2, <2>3, <2>4, <2>5 DEF BucketIs
  <2>7. QED
    BY <2>6
<1>19. \E l, p : BucketIs(r, s, i0, b, l, p)
  <2> DEFINE p == [j \in 1 .. m - 1 |-> IF j < k THEN q[j] ELSE q[j + 1]]
             o == [j \in 1 .. m - 1 |-> IF j < k THEN j ELSE j + 1]
  <2>1. \A j \in 1 .. m - 1 : o[j] \in 1 .. m /\ o[j] # k /\ p[j] = q[o[j]]
    BY <1>6
  <2>2. \A j, g \in 1 .. m - 1 : o[j] = o[g] => j = g
    BY <1>6
  <2>3. \A g \in 1 .. m : g # k => \E j \in 1 .. m - 1 : o[j] = g
    <3> SUFFICES ASSUME NEW g \in 1 .. m, g # k
                 PROVE  \E j \in 1 .. m - 1 : o[j] = g
      OBVIOUS
    <3>1. CASE g < k
      <4>1. g \in 1 .. m - 1 /\ o[g] = g
        BY <1>6, <3>1
      <4>2. QED
        BY <4>1
    <3>2. CASE g > k
      <4>1. g - 1 \in 1 .. m - 1 /\ o[g - 1] = g
        BY <1>6, <3>2
      <4>2. QED
        BY <4>1
    <3>3. QED
      BY <1>6, <3>1, <3>2
  <2>4. p = [j \in 1 .. m - 1 |-> p[j]]
    OBVIOUS
  <2>5. /\ 1 \in 1 .. m - 1 => p[1] = IF k = 1 THEN q[2] ELSE q[1]
        /\ \A j \in 1 .. m - 1 : j + 1 \in 1 .. m - 1 =>
             p[j + 1] = IF j + 1 < k THEN q[j + 1] ELSE q[(j + 1) + 1]
        /\ \A j \in 1 .. m - 1 : p[j] = IF j < k THEN q[j] ELSE q[j + 1]
    BY <1>6
  <2>6. \A j \in 1 .. m - 1 : o[j] = IF j < k THEN j ELSE j + 1
    OBVIOUS
  <2> HIDE DEF p, o
  <2>7. p \in [1 .. m - 1 -> Blks(c)]
    BY <1>5, <2>1, <2>4
  <2>8. ListFrom(r, r.hash[s][i0], r.hash_next, m - 1, p)
    <3>1. m - 1 \in 0 .. c.assoc
      BY <1>1, <1>5, <1>7
    <3>2. r.hash[s][i0] = IF m - 1 = 0 THEN NULL ELSE p[1]
      <4>1. CASE k = 1
        <5>1. r.hash[s][i0] = IF m = 1 THEN NULL ELSE q[2]
          BY <1>1, <1>2, <1>5, <1>7, <1>14, <1>15, <4>1
        <5>2. m # 1 => 1 \in 1 .. m - 1
          BY <1>6, <1>7
        <5>3. m = 1 <=> m - 1 = 0
          BY <1>6
        <5>4. QED
          BY <2>5, <4>1, <5>1, <5>2, <5>3
      <4>2. CASE k # 1
        <5>1. r.hash[s][i0] = c.hash[s][i0] /\ m # 0
          BY <1>1, <1>2, <1>7, <1>14, <1>15, <4>2
        <5>2. 1 \in 1 .. m - 1 /\ m - 1 # 0
          BY <1>6, <1>7, <4>2
        <5>3. QED
          BY <1>5, <2>5, <4>2, <5>1, <5>2
      <4>3. QED
        BY <4>1, <4>2
    <3>3. ASSUME NEW j \in 1 .. m - 1
          PROVE  r.hash_next[p[j]] = IF j = m - 1 THEN NULL ELSE p[j + 1]
      <4>1. p[j] = q[o[j]] /\ o[j] \in 1 .. m /\ o[j] # k /\ p[j] \in Blks(c)
        BY <1>5, <2>1
      <4>2. p[j] # b
        BY <1>5, <1>7, <4>1
      <4>3. k # 1 => (p[j] = q[k - 1] <=> o[j] = k - 1)
        BY <1>5, <1>6, <4>1
      <4>4. r.hash_next[p[j]] = IF k # 1 /\ o[j] = k - 1 THEN c.hash_next[b]
                                ELSE c.hash_next[p[j]]
        BY <1>14, <1>15, <4>1, <4>2, <4>3
      <4>5. c.hash_next[p[j]] = IF o[j] = m THEN NULL ELSE q[o[j] + 1]
        BY <1>5, <4>1
      <4>6. c.hash_next[b] = IF k = m THEN NULL ELSE q[k + 1]
        BY <1>5, <1>7
      <4>7. m \in Nat /\ m >= 2 /\ k \in 1 .. m
        BY <1>6
      <4>8. CASE j < k - 1
        <5>1. o[j] = j /\ j # m /\ j # k - 1 /\ j # m - 1 /\ j + 1 < k
              /\ j + 1 \in 1 .. m - 1
          BY <2>6, <4>7, <4>8
        <5>2. QED
          BY <2>5, <4>4, <4>5, <5>1
      <4>9. CASE j = k - 1
        <5>1. o[j] = k - 1 /\ k # 1 /\ j + 1 = k /\ (j = m - 1 <=> k = m)
              /\ (k # m => j + 1 \in 1 .. m - 1) /\ ~(j + 1 < k)
          BY <2>6, <4>7, <4>9
        <5>2. k # m => p[j + 1] = q[k + 1]
          BY <2>5, <5>1
        <5>3. QED
          BY <4>4, <4>6, <5>1, <5>2
      <4>10. CASE j >= k
        <5>1. o[j] = j + 1 /\ (o[j] = m <=> j = m - 1) /\ o[j] # k - 1
              /\ (j # m - 1 => j + 1 \in 1 .. m - 1) /\ ~(j + 1 < k)
          BY <2>6, <4>7, <4>10
        <5>2. j # m - 1 => p[j + 1] = q[(j + 1) + 1]
          BY <2>5, <5>1
        <5>3. QED
          BY <4>4, <4>5, <5>1, <5>2
      <4>11. QED
        BY <4>7, <4>8, <4>9, <4>10
    <3>4. QED
      BY <1>16, <1>17, <2>7, <3>1, <3>2, <3>3 DEF ListFrom
  <2>9. \A j, g \in 1 .. m - 1 : p[j] = p[g] => j = g
    BY <1>5, <2>1, <2>2
  <2>10. \A j \in 1 .. m - 1 : /\ p[j] \in {s} \X Ways(c) /\ p[j] # b
                               /\ CACHE_HASH(c, c.tag[p[j]]) = i0
    BY <1>5, <1>7, <2>1
  <2>11. \A x \in {s} \X Ways(c) :
           x # b /\ CACHE_HASH(c, c.tag[x]) = i0 => \E j \in 1 .. m - 1 : p[j] = x
    <3> SUFFICES ASSUME NEW x \in {s} \X Ways(c), x # b,
                        CACHE_HASH(c, c.tag[x]) = i0
                 PROVE  \E j \in 1 .. m - 1 : p[j] = x
      OBVIOUS
    <3>1. x # NULL
      BY <1>1, <1>3 DEF Blks
    <3>2. PICK g \in 1 .. m : q[g] = x
      BY <1>5, <3>1
    <3>3. g # k
      BY <1>7, <3>2
    <3>4. QED
      BY <2>1, <2>3, <3>2, <3>3
  <2>12. BucketIs(r, s, i0, b, m - 1, p)
    BY <1>16, <1>17, <2>8, <2>9, <2>10, <2>11 DEF BucketIs
  <2>13. QED
    BY <2>12
<1>20. BucketsOK(r, b)
  BY <1>16, <1>17, <1>18, <1>19 DEF BucketsOK
<1>21. QED
  BY <1>10, <1>15, <1>20 DEF r

LEMMA BucketsAreSound ==
  ASSUME NEW c, Shape(c), BucketsOK(c, NULL)
  PROVE  HashChainsSound(c)
<1> SUFFICES ASSUME c.hsize # 0
             PROVE  /\ \A b \in Blks(c) : InBucket(c, b[1], b)
                    /\ \A s \in Sets(c), i \in 0 .. c.hsize - 1 :
                         /\ IsInjective(Bucket(c, s, i))
                         /\ \A b \in ToSet(Bucket(c, s, i)) :
                              b[1] = s /\ CACHE_HASH(c, c.tag[b]) = i
  BY DEF HashChainsSound
<1>1. ASSUME NEW s \in Sets(c), NEW i \in 0 .. c.hsize - 1
      PROVE  /\ IsInjective(Bucket(c, s, i))
             /\ \A b \in ToSet(Bucket(c, s, i)) :
                  b[1] = s /\ CACHE_HASH(c, c.tag[b]) = i
             /\ \A b \in {s} \X Ways(c) :
                  CACHE_HASH(c, c.tag[b]) = i => b \in ToSet(Bucket(c, s, i))
  <2>1. PICK n, q : BucketIs(c, s, i, NULL, n, q)
    BY DEF BucketsOK
  <2>2. Bucket(c, s, i) = q
    <3>1. c.assoc \in Nat
      BY DEF Shape
    <3>2. ListFrom(c, c.hash[s][i], c.hash_next, n, q)
      BY <2>1 DEF BucketIs
    <3>3. QED
      BY <3>1, <3>2, ChainIs DEF Bucket
  <2>3. q \in [1 .. n -> Blks(c)]
    BY <2>1 DEF BucketIs, ListFrom
  <2>4. IsInjective(q)
    BY <2>1, <2>3 DEF BucketIs, IsInjective
  <2>5. ASSUME NEW b \in ToSet(q)
        PROVE  b[1] = s /\ CACHE_HASH(c, c.tag[b]) = i
    <3>1. PICK j \in 1 .. n : b = q[j]
      BY <2>3 DEF ToSet
    <3>2. QED
      BY <2>1, <3>1 DEF BucketIs
  <2>6. ASSUME NEW b \in {s} \X Ways(c), CACHE_HASH(c, c.tag[b]) = i
        PROVE  b \in ToSet(q)
    <3>1. b # NULL
      BY NullIsNoBlk DEF Blks
    <3>2. PICK j \in 1 .. n : q[j] = b
      BY <2>1, <2>6, <3>1 DEF BucketIs
    <3>3. QED
      BY <2>3, <3>2 DEF ToSet
  <2>7. QED
    BY <2>2, <2>4, <2>5, <2>6
<1>2. ASSUME NEW b \in Blks(c) PROVE InBucket(c, b[1], b)
  <2>1. b[1] \in Sets(c) /\ b \in {b[1]} \X Ways(c) /\ c.tag[b] \in Nat
    BY DEF Blks, Shape
  <2>2. CACHE_HASH(c, c.tag[b]) \in 0 .. c.hsize - 1
    BY <2>1, HashIsIndex
  <2>3. QED
    BY <1>1, <2>1, <2>2 DEF InBucket
<1>3. QED
  BY <1>1, <1>2

-----------------------------------------------------------------------------
(* Addresses *)

LEMMA DivMod ==
  ASSUME NEW a \in Nat, NEW n \in Nat \ {0}
  PROVE  /\ a \div n \in Nat /\ a % n \in 0 .. n - 1
         /\ (a \div n) * n + (a % n) = a
OBVIOUS

LEMMA ProductOrder ==
  ASSUME NEW a \in Nat, NEW b \in Nat, NEW n \in Nat, a <= b
  PROVE  a * n \in Nat /\ b * n \in Nat /\ a * n <= b * n
<1>1. PICK k \in Nat : b = a + k
  <2>1. b - a \in Nat /\ b = a + (b - a)
    OBVIOUS
  <2>2. QED
    BY <2>1
<1>2. b * n = a * n + k * n
  BY <1>1
<1>3. k * n \in Nat /\ a * n \in Nat
  OBVIOUS
<1>4. QED
  BY <1>2, <1>3

\* Quotient and remainder are one pair of numbers.
LEMMA DivModUnique ==
  ASSUME NEW n \in Nat \ {0}, NEW p \in Nat, NEW q \in Nat,
         NEW r \in 0 .. n - 1, NEW s \in 0 .. n - 1, p * n + r = q * n + s
  PROVE  p = q /\ r = s
<1>1. ASSUME NEW x \in Nat, NEW y \in Nat, NEW u \in 0 .. n - 1,
             NEW v \in 0 .. n - 1, x < y
      PROVE  x * n + u # y * n + v
  <2>1. x + 1 \in Nat /\ x + 1 <= y
    BY <1>1
  <2>2. (x + 1) * n \in Nat /\ y * n \in Nat /\ (x + 1) * n <= y * n
    BY <2>1, ProductOrder
  <2>3. (x + 1) * n = x * n + n
    OBVIOUS
  <2>4. x * n \in Nat
    OBVIOUS
  <2>5. QED
    BY <2>2, <2>3, <2>4
<1>2. p = q
  BY <1>1
<1>3. p * n \in Nat
  OBVIOUS
<1>4. QED
  BY <1>2, <1>3

LEMMA AddressParts ==
  ASSUME NEW c, Shape(c), NEW addr \in Nat
  PROVE  /\ CACHE_SET(c, addr) \in Sets(c) /\ CACHE_TAG(c, addr) \in Nat
         /\ CACHE_TAG(c, addr) <= addr
         /\ CACHE_BADDR(c, addr) \in Nat /\ CACHE_BADDR(c, addr) <= addr
         /\ CACHE_MK_BADDR(c, CACHE_TAG(c, addr), CACHE_SET(c, addr)) =
              CACHE_BADDR(c, addr)
         /\ CACHE_SET(c, CACHE_BADDR(c, addr)) = CACHE_SET(c, addr)
         /\ CACHE_TAG(c, CACHE_BADDR(c, addr)) = CACHE_TAG(c, addr)
<1> DEFINE b == c.bsize
           n == c.nsets
           d == addr \div b
           t == d \div n
           s == d % n
<1>1. b \in Nat \ {0} /\ n \in Nat \ {0}
  BY DEF Shape
<1>2. d \in Nat /\ addr % b \in 0 .. b - 1 /\ d * b + (addr % b) = addr
  BY <1>1, DivMod
<1>3. t \in Nat /\ s \in 0 .. n - 1 /\ t * n + s = d
  BY <1>1, <1>2, DivMod
<1>4. d * b \in Nat /\ t * n \in Nat
  <2>1. \A x, y \in Nat : x * y \in Nat
    OBVIOUS
  <2> HIDE DEF b, n, d, t
  <2>2. QED
    BY <1>1, <1>2, <1>3, <2>1
<1>5. d * b <= addr
  BY <1>2, <1>4
<1>6. (d * b) \div b = d
  <2>1. /\ (d * b) \div b \in Nat /\ (d * b) % b \in 0 .. b - 1
        /\ ((d * b) \div b) * b + ((d * b) % b) = d * b
    BY <1>1, <1>4, DivMod
  <2>2. ((d * b) \div b) * b + ((d * b) % b) = d * b + 0 /\ 0 \in 0 .. b - 1
    <3>1. \A x \in Nat : x = x + 0
      OBVIOUS
    <3>2. 0 \in 0 .. b - 1
      BY <1>1
    <3> HIDE DEF b, d
    <3>3. QED
      BY <1>4, <2>1, <3>1, <3>2
  <2> HIDE DEF b, d
  <2>3. QED
    BY <1>1, <1>2, <2>1, <2>2, DivModUnique
<1>7. t <= addr
  <2>1. \A x \in Nat, y \in Nat \ {0} : x <= x * y
    <3> SUFFICES ASSUME NEW x \in Nat, NEW y \in Nat \ {0} PROVE x <= x * y
      OBVIOUS
    <3>1. 1 <= y /\ 1 \in Nat
      OBVIOUS
    <3>2. 1 * x <= y * x
      BY <3>1, ProductOrder
    <3>3. QED
      BY <3>2
  <2>2. t <= t * n /\ d <= d * b
    BY <1>1, <1>2, <1>3, <2>1
  <2> HIDE DEF b, n, d, t, s
  <2>3. t * n <= d
    BY <1>1, <1>3, <1>4
  <2>4. QED
    BY <1>2, <1>3, <1>4, <1>5, <2>2, <2>3
<1>8. /\ CACHE_SET(c, addr) = s /\ CACHE_TAG(c, addr) = t
      /\ CACHE_BADDR(c, addr) = d * b
      /\ CACHE_SET(c, d * b) = s /\ CACHE_TAG(c, d * b) = t
      /\ CACHE_MK_BADDR(c, t, s) = (t * n + s) * b
  <2>1. /\ CACHE_SET(c, d * b) = ((d * b) \div b) % n
        /\ CACHE_TAG(c, d * b) = ((d * b) \div b) \div n
    BY DEF CACHE_SET, CACHE_TAG
  <2>2. QED
    BY <1>6, <2>1, Zenon DEF CACHE_SET, CACHE_TAG, CACHE_BADDR, CACHE_MK_BADDR
<1>9. Sets(c) = 0 .. n - 1
  BY DEF Sets
<1> HIDE DEF b, n, d, t, s
<1>10. QED
  BY <1>3, <1>4, <1>5, <1>7, <1>8, <1>9

\* A tag and a set make one address.
LEMMA OneAddress ==
  ASSUME NEW c, Shape(c), NEW t \in Nat, NEW u \in Nat,
         NEW r \in Sets(c), NEW s \in Sets(c),
         CACHE_MK_BADDR(c, t, r) = CACHE_MK_BADDR(c, u, s)
  PROVE  t = u /\ r = s
<1> DEFINE b == c.bsize
           n == c.nsets
           x == t * n + r
           y == u * n + s
<1>1. b \in Nat \ {0} /\ n \in Nat \ {0} /\ r \in 0 .. n - 1 /\ s \in 0 .. n - 1
  BY DEF Shape, Sets
<1>2. x * b = y * b
  BY DEF CACHE_MK_BADDR
<1>3. x \in Nat /\ y \in Nat
  <2>1. \A i, j \in Nat : i * j \in Nat
    OBVIOUS
  <2>2. \A i, j \in Nat : i + j \in Nat
    OBVIOUS
  <2>3. t * n \in Nat /\ u * n \in Nat /\ r \in Nat /\ s \in Nat
    BY <1>1, <2>1
  <2>4. QED
    BY <2>2, <2>3
<1>4. x = y
  <2>1. \A i, j, k \in Nat : k # 0 /\ i * k = j * k => i = j
    <3> SUFFICES ASSUME NEW i \in Nat, NEW j \in Nat, NEW k \in Nat, k # 0,
                        i * k = j * k
                 PROVE  i = j
      OBVIOUS
    <3>1. i * k + 0 = j * k + 0 /\ 0 \in 0 .. k - 1
      OBVIOUS
    <3>2. QED
      BY <3>1, DivModUnique
  <2> HIDE DEF x, y, b
  <2>2. QED
    BY <1>1, <1>2, <1>3, <2>1
<1>5. QED
  BY <1>1, <1>4, DivModUnique

-----------------------------------------------------------------------------
(* The cache, and the operations on it *)

Sizes == {"nsets", "bsize", "assoc", "hsize", "policy", "prefetch_type"}
Data == {"tag", "valid", "dirty", "last_tagset", "last_blk"}

SameSizes(c, r) == \A x \in Sizes : r[x] = c[x]

LEMMA SameOperators ==
  ASSUME NEW c, NEW r, SameSizes(c, r)
  PROVE  /\ Sets(r) = Sets(c) /\ Ways(r) = Ways(c) /\ Blks(r) = Blks(c)
         /\ \A a : /\ CACHE_SET(r, a) = CACHE_SET(c, a)
                   /\ CACHE_TAG(r, a) = CACHE_TAG(c, a)
                   /\ CACHE_BADDR(r, a) = CACHE_BADDR(c, a)
                   /\ CACHE_TAGSET(r, a) = CACHE_TAGSET(c, a)
                   /\ CACHE_HASH(r, a) = CACHE_HASH(c, a)
         /\ \A t, s : CACHE_MK_BADDR(r, t, s) = CACHE_MK_BADDR(c, t, s)
<1>1. r.nsets = c.nsets /\ r.bsize = c.bsize /\ r.assoc = c.assoc
      /\ r.hsize = c.hsize
  BY DEF SameSizes, Sizes
<1>2. QED
  BY <1>1, Zenon DEF Sets, Ways, Blks, CACHE_SET, CACHE_TAG, CACHE_BADDR,
                     CACHE_TAGSET, CACHE_HASH, CACHE_MK_BADDR

\* No two valid blocks of a set have the same tag.
NoDup(c) ==
  \A a, b \in Blks(c) :
    c.valid[a] /\ c.valid[b] /\ a[1] = b[1] /\ c.tag[a] = c.tag[b] => a = b

\* What is cached has an address of the machine.
InRange(c) ==
  \A b \in Blks(c) : c.valid[b] => BlkAddr(c, b) \in 0 .. ADDR_SPACE - 1

\* The structures of c are sound, but for x, which is in no chain.
CacheBut(c, x) ==
  /\ Shape(c) /\ WaysOK(c) /\ BucketsOK(c, x)
  /\ NoDup(c) /\ LastBlkSound(c) /\ InRange(c)

CacheOK(c) == CacheBut(c, NULL)

LEMMA OnceIfSound ==
  ASSUME NEW c, Shape(c), NoDup(c)
  PROVE  NoDuplicates(c)
<1> SUFFICES ASSUME NEW a \in Blks(c), NEW b \in Blks(c),
                    c.valid[a], c.valid[b], BlkAddr(c, a) = BlkAddr(c, b)
             PROVE  a = b
  BY DEF NoDuplicates
<1>1. /\ c.tag[a] \in Nat /\ c.tag[b] \in Nat
      /\ a[1] \in Sets(c) /\ b[1] \in Sets(c)
  BY DEF Shape, Blks
<1>2. c.tag[a] = c.tag[b] /\ a[1] = b[1]
  BY <1>1, OneAddress DEF BlkAddr
<1>3. QED
  BY <1>2 DEF NoDup

\* A change that leaves the sizes and the data alone.
LEMMA DataKept ==
  ASSUME NEW c, Shape(c), NEW r, Shape(r), NEW F, OnlyChanged(c, r, F),
         F \cap (Sizes \cup Data) = {}
  PROVE  /\ SameSizes(c, r)
         /\ NoDup(c) => NoDup(r)
         /\ InRange(c) => InRange(r)
         /\ LastBlkSound(c) => LastBlkSound(r)
<1>1. /\ SameSizes(c, r)
      /\ r.tag = c.tag /\ r.valid = c.valid /\ r.dirty = c.dirty
      /\ r.last_tagset = c.last_tagset /\ r.last_blk = c.last_blk
  BY DEF Shape, OnlyChanged, Sizes, Data, SameSizes
<1>2. /\ Sets(r) = Sets(c) /\ Ways(r) = Ways(c) /\ Blks(r) = Blks(c)
      /\ \A a : /\ CACHE_SET(r, a) = CACHE_SET(c, a)
                /\ CACHE_TAG(r, a) = CACHE_TAG(c, a)
      /\ \A t, s : CACHE_MK_BADDR(r, t, s) = CACHE_MK_BADDR(c, t, s)
  BY <1>1, SameOperators
<1>3. NoDup(c) => NoDup(r)
  BY <1>1, <1>2 DEF NoDup
<1>4. InRange(c) => InRange(r)
  BY <1>1, <1>2 DEF InRange, BlkAddr
<1>5. LastBlkSound(c) => LastBlkSound(r)
  BY <1>1, <1>2 DEF LastBlkSound, Holds
<1>6. QED
  BY <1>1, <1>3, <1>4, <1>5

\* A change that leaves the way lists alone, or the chains.
LEMMA ListsKept ==
  ASSUME NEW c, Shape(c), NEW r, Shape(r), NEW F, OnlyChanged(c, r, F),
         F \cap Sizes = {}
  PROVE  /\ F \cap Links = {} /\ WaysOK(c) => WaysOK(r)
         /\ \A x : /\ F \cap Hashes = {} /\ BucketsOK(c, x)
                   /\ \A b \in Blks(c) : b # x => r.tag[b] = c.tag[b]
                   => BucketsOK(r, x)
<1>1. /\ SameSizes(c, r) /\ r.assoc = c.assoc /\ r.hsize = c.hsize
  BY DEF Shape, OnlyChanged, Sizes, SameSizes
<1>2. /\ Sets(r) = Sets(c) /\ Ways(r) = Ways(c) /\ Blks(r) = Blks(c)
      /\ \A a : CACHE_HASH(r, a) = CACHE_HASH(c, a)
  BY <1>1, SameOperators
<1>3. ASSUME F \cap Links = {}, WaysOK(c) PROVE WaysOK(r)
  <2>1. /\ r.way_head = c.way_head /\ r.way_tail = c.way_tail
        /\ r.way_next = c.way_next /\ r.way_prev = c.way_prev
    BY <1>3 DEF Shape, OnlyChanged, Links
  <2>2. \A s, p : WayOrder(c, s, p) => WayOrder(r, s, p)
    BY <1>1, <1>2, <2>1 DEF WayOrder
  <2>3. QED
    BY <1>2, <1>3, <2>2 DEF WaysOK
<1>4. ASSUME NEW x, F \cap Hashes = {}, BucketsOK(c, x),
             \A b \in Blks(c) : b # x => r.tag[b] = c.tag[b]
      PROVE  BucketsOK(r, x)
  <2>1. r.hash = c.hash /\ r.hash_next = c.hash_next
    BY <1>4 DEF Shape, OnlyChanged, Hashes
  <2>2. ASSUME NEW s \in Sets(c), NEW i, NEW n, NEW q,
               BucketIs(c, s, i, x, n, q)
        PROVE  BucketIs(r, s, i, x, n, q)
    <3>1. ListFrom(r, r.hash[s][i], r.hash_next, n, q)
      BY <1>1, <1>2, <2>1, <2>2 DEF BucketIs, ListFrom
    <3>2. \A b \in {s} \X Ways(c) : b # x => r.tag[b] = c.tag[b]
      BY <1>4 DEF Blks
    <3>3. QED
      BY <1>2, <2>2, <3>1, <3>2 DEF BucketIs
  <2>3. QED
    BY <1>1, <1>2, <1>4, <2>2 DEF BucketsOK
<1>5. QED
  BY <1>3, <1>4

LEMMA MoveKeeps ==
  ASSUME NEW c, NEW x, CacheBut(c, x), NEW s \in Sets(c),
         NEW b \in {s} \X Ways(c), NEW where \in {"Head", "Tail"}
  PROVE  LET r == update_way_list(c, s, b, where)
         IN CacheBut(r, x) /\ OnlyChanged(c, r, Links)
<1> DEFINE r == update_way_list(c, s, b, where)
<1>1. Shape(c) /\ WaysOK(c) /\ BucketsOK(c, x)
      /\ NoDup(c) /\ LastBlkSound(c) /\ InRange(c)
  BY DEF CacheBut
<1>2. Shape(r) /\ WaysOK(r) /\ OnlyChanged(c, r, Links)
  BY <1>1, UpdateKeepsWays
<1> HIDE DEF r
<1>3. Links \cap (Sizes \cup Data) = {} /\ Links \cap Sizes = {}
      /\ Links \cap Hashes = {}
  BY DEF Links, Sizes, Data, Hashes
<1>4. r.tag = c.tag
  BY <1>1, <1>2 DEF OnlyChanged, Links, Shape
<1>5. NoDup(r) /\ LastBlkSound(r) /\ InRange(r)
  BY <1>1, <1>2, <1>3, DataKept
<1>6. BucketsOK(r, x)
  BY <1>1, <1>2, <1>3, <1>4, ListsKept
<1>7. QED
  BY <1>2, <1>5, <1>6 DEF CacheBut, r

LEMMA UnlinkKeeps ==
  ASSUME NEW c, CacheOK(c), c.hsize # 0, NEW b \in Blks(c)
  PROVE  LET r == unlink_htab_ent(c, b[1], b)
         IN CacheBut(r, b) /\ OnlyChanged(c, r, Hashes)
<1> DEFINE r == unlink_htab_ent(c, b[1], b)
<1>1. Shape(c) /\ WaysOK(c) /\ BucketsOK(c, NULL)
      /\ NoDup(c) /\ LastBlkSound(c) /\ InRange(c)
  BY DEF CacheOK, CacheBut
<1>2. Shape(r) /\ BucketsOK(r, b) /\ OnlyChanged(c, r, Hashes)
  BY <1>1, UnlinkIs
<1> HIDE DEF r
<1>3. Hashes \cap (Sizes \cup Data) = {} /\ Hashes \cap Sizes = {}
      /\ Hashes \cap Links = {}
  BY DEF Links, Sizes, Data, Hashes
<1>4. NoDup(r) /\ LastBlkSound(r) /\ InRange(r)
  BY <1>1, <1>2, <1>3, DataKept
<1>5. WaysOK(r)
  BY <1>1, <1>2, <1>3, ListsKept
<1>6. QED
  BY <1>2, <1>4, <1>5 DEF CacheBut, r

LEMMA LinkKeeps ==
  ASSUME NEW c, NEW b \in Blks(c), CacheBut(c, b), c.hsize # 0
  PROVE  LET r == link_htab_ent(c, b[1], b)
         IN CacheOK(r) /\ OnlyChanged(c, r, Hashes)
<1> DEFINE r == link_htab_ent(c, b[1], b)
<1>1. Shape(c) /\ WaysOK(c) /\ BucketsOK(c, b)
      /\ NoDup(c) /\ LastBlkSound(c) /\ InRange(c)
  BY DEF CacheBut
<1>2. Shape(r) /\ BucketsOK(r, NULL) /\ OnlyChanged(c, r, Hashes)
  BY <1>1, LinkIs
<1> HIDE DEF r
<1>3. Hashes \cap (Sizes \cup Data) = {} /\ Hashes \cap Sizes = {}
      /\ Hashes \cap Links = {}
  BY DEF Links, Sizes, Data, Hashes
<1>4. NoDup(r) /\ LastBlkSound(r) /\ InRange(r)
  BY <1>1, <1>2, <1>3, DataKept
<1>5. WaysOK(r)
  BY <1>1, <1>2, <1>3, ListsKept
<1>6. QED
  BY <1>2, <1>4, <1>5 DEF CacheOK, CacheBut, r

\* What a lookup finds holds the address, and there is nothing else to find.
LEMMA LookupIs ==
  ASSUME NEW c, CacheOK(c), NEW addr \in Nat
  PROVE  LET set == CACHE_SET(c, addr)
             blk == Lookup(c, addr)
         IN /\ set \in Sets(c)
            /\ \/ blk = NULL /\ \A b \in {set} \X Ways(c) : ~Holds(c, b, addr)
               \/ blk \in {set} \X Ways(c) /\ Holds(c, blk, addr)
<1> DEFINE set == CACHE_SET(c, addr)
           tag == CACHE_TAG(c, addr)
           blk == Lookup(c, addr)
<1>1. Shape(c) /\ WaysOK(c) /\ BucketsOK(c, NULL) /\ c.assoc \in Nat
  BY DEF CacheOK, CacheBut, Shape
<1>2. set \in Sets(c) /\ tag \in Nat
  BY <1>1, AddressParts
<1> HIDE DEF set, tag
<1>3. CASE c.hsize # 0
  <2> DEFINE i == CACHE_HASH(c, tag)
  <2>1. i \in 0 .. c.hsize - 1
    BY <1>1, <1>2, <1>3, HashIsIndex
  <2>2. PICK n, q : BucketIs(c, set, i, NULL, n, q)
    BY <1>1, <1>2, <1>3, <2>1 DEF BucketsOK
  <2>3. ListFrom(c, c.hash[set][i], c.hash_next, n, q)
    BY <2>2 DEF BucketIs
  <2>4. blk = Search(c, c.hash[set][i], c.hash_next, addr)
    BY <1>3 DEF Lookup, set, tag
  <2>5. \/ blk = NULL /\ \A j \in 1 .. n : ~Holds(c, q[j], addr)
        \/ \E j \in 1 .. n : blk = q[j] /\ Holds(c, q[j], addr)
    BY <1>1, <2>3, <2>4, SearchIs
  <2>6. ASSUME NEW b \in {set} \X Ways(c), Holds(c, b, addr)
        PROVE  \E j \in 1 .. n : q[j] = b
    <3>1. CACHE_HASH(c, c.tag[b]) = i
      BY <2>6 DEF Holds, tag
    <3>2. b # NULL
      BY <1>2, NullIsNoBlk DEF Blks
    <3>3. QED
      BY <2>2, <3>1, <3>2 DEF BucketIs
  <2>7. \A j \in 1 .. n : q[j] \in {set} \X Ways(c)
    BY <2>2 DEF BucketIs
  <2> HIDE DEF blk
  <2>8. QED
    BY <1>2, <2>5, <2>6, <2>7 DEF blk, set
<1>4. CASE c.hsize = 0
  <2>1. PICK p : WayOrder(c, set, p)
    BY <1>1, <1>2 DEF WaysOK
  <2>2. ListFrom(c, c.way_head[set], c.way_next, c.assoc, p)
    BY <1>1, <1>2, <2>1, WaysAreLists
  <2>3. blk = Search(c, c.way_head[set], c.way_next, addr)
    BY <1>4 DEF Lookup, set
  <2>4. \/ blk = NULL /\ \A j \in 1 .. c.assoc : ~Holds(c, p[j], addr)
        \/ \E j \in 1 .. c.assoc : blk = p[j] /\ Holds(c, p[j], addr)
    BY <1>1, <2>2, <2>3, SearchIs
  <2>5. /\ \A b \in {set} \X Ways(c) : \E j \in 1 .. c.assoc : p[j] = b
        /\ \A j \in 1 .. c.assoc : p[j] \in {set} \X Ways(c)
    BY <2>1 DEF WayOrder
  <2> HIDE DEF blk
  <2>6. QED
    BY <1>2, <2>4, <2>5 DEF blk, set
<1>5. QED
  BY <1>3, <1>4

WithData(c, tag, valid, dirty, tagset, blk) ==
  [c EXCEPT !.tag = tag, !.valid = valid, !.dirty = dirty,
            !.last_tagset = tagset, !.last_blk = blk]

\* r is c with other data.
HasData(c, r, tag, valid, dirty, tagset, blk) ==
  /\ Shape(r) /\ OnlyChanged(c, r, Data) /\ SameSizes(c, r)
  /\ r.tag = tag /\ r.valid = valid /\ r.dirty = dirty
  /\ r.last_tagset = tagset /\ r.last_blk = blk

LEMMA WithDataIs ==
  ASSUME NEW c, Shape(c), NEW tag \in [Blks(c) -> 0 .. ADDR_SPACE - 1],
         NEW valid \in [Blks(c) -> BOOLEAN], NEW dirty \in [Blks(c) -> BOOLEAN],
         NEW tagset \in Nat, NEW blk \in Blks(c) \cup {NULL},
         NEW r, r = WithData(c, tag, valid, dirty, tagset, blk)
  PROVE  HasData(c, r, tag, valid, dirty, tagset, blk)
<1>1. IsRecord(c, Data)
  BY DEF Shape, IsRecord, Data
<1>2. /\ r = [x \in DOMAIN r |-> r[x]] /\ DOMAIN r = DOMAIN c
      /\ r.tag = tag /\ r.valid = valid /\ r.dirty = dirty
      /\ r.last_tagset = tagset /\ r.last_blk = blk
      /\ \A x \in DOMAIN c \ Data : r[x] = c[x]
  BY <1>1 DEF WithData, IsRecord, Data
<1>3. /\ r.nsets = c.nsets /\ r.bsize = c.bsize /\ r.assoc = c.assoc
      /\ r.hsize = c.hsize
      /\ r.policy = c.policy /\ r.prefetch_type = c.prefetch_type
      /\ r.way_head = c.way_head /\ r.way_tail = c.way_tail
      /\ r.way_next = c.way_next /\ r.way_prev = c.way_prev
      /\ r.hash = c.hash /\ r.hash_next = c.hash_next
  BY <1>2 DEF Shape, Data
<1>4. Sets(r) = Sets(c) /\ Blks(r) = Blks(c)
  BY <1>3 DEF Sets, Blks, Ways
<1>5. Shape(r)
  BY <1>2, <1>3, <1>4 DEF Shape
<1>6. OnlyChanged(c, r, Data) /\ SameSizes(c, r)
  BY <1>2, <1>3 DEF OnlyChanged, SameSizes, Sizes
<1>7. QED
  BY <1>2, <1>5, <1>6 DEF HasData

LEMMA DataOnly ==
  ASSUME NEW c, Shape(c), NEW r, Shape(r), OnlyChanged(c, r, Data)
  PROVE  /\ WaysOK(c) => WaysOK(r)
         /\ \A x : /\ BucketsOK(c, x)
                   /\ \A b \in Blks(c) : b # x => r.tag[b] = c.tag[b]
                   => BucketsOK(r, x)
<1>1. Data \cap Sizes = {} /\ Data \cap Links = {} /\ Data \cap Hashes = {}
  BY DEF Data, Sizes, Links, Hashes
<1>2. QED
  BY <1>1, ListsKept

\* blk may be the last block, when the blocks of valid are valid.
LastFits(c, valid, tagset, blk) ==
  blk # NULL => /\ valid[blk] /\ c.tag[blk] = CACHE_TAG(c, tagset)
                /\ blk[1] = CACHE_SET(c, tagset)

\* A change of the data that leaves every tag, and drops blocks or none.
LEMMA SmallChange ==
  ASSUME NEW c, NEW x, CacheBut(c, x), NEW valid \in [Blks(c) -> BOOLEAN],
         \A b \in Blks(c) : valid[b] => c.valid[b],
         NEW dirty \in [Blks(c) -> BOOLEAN],
         NEW tagset \in Nat, NEW blk \in Blks(c) \cup {NULL},
         LastFits(c, valid, tagset, blk),
         NEW r, r = WithData(c, c.tag, valid, dirty, tagset, blk)
  PROVE  /\ CacheBut(r, x) /\ OnlyChanged(c, r, Data)
         /\ r.tag = c.tag /\ r.valid = valid /\ r.dirty = dirty
         /\ r.last_tagset = tagset /\ r.last_blk = blk
<1>1. Shape(c) /\ WaysOK(c) /\ BucketsOK(c, x)
      /\ NoDup(c) /\ LastBlkSound(c) /\ InRange(c)
  BY DEF CacheBut
<1>2. c.tag \in [Blks(c) -> 0 .. ADDR_SPACE - 1]
  BY <1>1 DEF Shape
<1>3. /\ Shape(r) /\ OnlyChanged(c, r, Data) /\ SameSizes(c, r)
      /\ r.tag = c.tag /\ r.valid = valid /\ r.dirty = dirty
      /\ r.last_tagset = tagset /\ r.last_blk = blk
      /\ WaysOK(r) /\ BucketsOK(r, x)
  <2>1. /\ Shape(r) /\ OnlyChanged(c, r, Data) /\ SameSizes(c, r)
        /\ r.tag = c.tag /\ r.valid = valid /\ r.dirty = dirty
        /\ r.last_tagset = tagset /\ r.last_blk = blk
    <3>1. HasData(c, r, c.tag, valid, dirty, tagset, blk)
      BY <1>1, <1>2, WithDataIs
    <3>2. QED
      BY <3>1 DEF HasData
  <2>2. QED
    BY <1>1, <2>1, DataOnly
<1>4. /\ Blks(r) = Blks(c)
      /\ \A a : /\ CACHE_SET(r, a) = CACHE_SET(c, a)
                /\ CACHE_TAG(r, a) = CACHE_TAG(c, a)
      /\ \A t, s : CACHE_MK_BADDR(r, t, s) = CACHE_MK_BADDR(c, t, s)
  BY <1>3, SameOperators
<1>5. NoDup(r)
  BY <1>1, <1>3, <1>4 DEF NoDup
<1>6. InRange(r)
  BY <1>1, <1>3, <1>4 DEF InRange, BlkAddr
<1>7. LastBlkSound(r)
  BY <1>3, <1>4 DEF LastBlkSound, LastFits, Holds
<1>8. QED
  BY <1>3, <1>5, <1>6, <1>7 DEF CacheBut

\* The block addressed is one that holds the address: tag and set.
LEMMA HeldIs ==
  ASSUME NEW c, Shape(c), NEW addr \in Nat
  PROVE  /\ CACHE_TAGSET(c, addr) \in Nat
         /\ CACHE_TAG(c, CACHE_TAGSET(c, addr)) = CACHE_TAG(c, addr)
         /\ CACHE_SET(c, CACHE_TAGSET(c, addr)) = CACHE_SET(c, addr)
BY AddressParts DEF CACHE_TAGSET

Dirtied(c, cmd, blk) ==
  IF cmd = Writes THEN [c.dirty EXCEPT ![blk] = TRUE] ELSE c.dirty

LEMMA RememberKeeps ==
  ASSUME NEW c, CacheOK(c), NEW addr \in Nat, NEW blk \in Blks(c),
         Holds(c, blk, addr), blk[1] = CACHE_SET(c, addr)
  PROVE  LET r == RememberLast(c, addr, blk)
         IN /\ CacheOK(r) /\ OnlyChanged(c, r, Data)
            /\ r.tag = c.tag /\ r.valid = c.valid /\ r.dirty = c.dirty
            /\ r.last_tagset = CACHE_TAGSET(c, addr) /\ r.last_blk = blk
<1> DEFINE tagset == CACHE_TAGSET(c, addr)
<1>1. Shape(c)
  BY DEF CacheOK, CacheBut
<1>2. /\ tagset \in Nat /\ CACHE_TAG(c, tagset) = CACHE_TAG(c, addr)
      /\ CACHE_SET(c, tagset) = CACHE_SET(c, addr)
  BY <1>1, HeldIs
<1>3. RememberLast(c, addr, blk) =
        WithData(c, c.tag, c.valid, c.dirty, tagset, blk)
  <2>1. IsRecord(c, Data)
    BY <1>1 DEF Shape, IsRecord, Data
  <2> HIDE DEF tagset
  <2>2. QED
    BY <2>1 DEF RememberLast, WithData, IsRecord, Data, tagset
<1>4. c.valid \in [Blks(c) -> BOOLEAN] /\ c.dirty \in [Blks(c) -> BOOLEAN]
  BY <1>1 DEF Shape
<1>5. blk \in Blks(c) \cup {NULL} /\ LastFits(c, c.valid, tagset, blk)
  BY <1>2 DEF Holds, LastFits
<1> DEFINE r == RememberLast(c, addr, blk)
<1> HIDE DEF tagset
<1>6. r = WithData(c, c.tag, c.valid, c.dirty, tagset, blk)
  BY <1>3
<1> HIDE DEF r
<1>7. /\ CacheBut(r, NULL) /\ OnlyChanged(c, r, Data)
      /\ r.tag = c.tag /\ r.valid = c.valid /\ r.dirty = c.dirty
      /\ r.last_tagset = tagset /\ r.last_blk = blk
  BY <1>2, <1>4, <1>5, <1>6, SmallChange DEF CacheOK
<1>8. QED
  BY <1>7 DEF CacheOK, tagset, r

LEMMA SetDirtyKeeps ==
  ASSUME NEW c, CacheOK(c), NEW cmd, NEW blk \in Blks(c)
  PROVE  LET r == SetDirty(c, cmd, blk)
         IN /\ CacheOK(r) /\ OnlyChanged(c, r, {"dirty"})
            /\ r.dirty = Dirtied(c, cmd, blk)
<1>1. Shape(c) /\ LastBlkSound(c)
  BY DEF CacheOK, CacheBut
<1>2. CASE cmd = Writes
  <2> DEFINE dirty == [c.dirty EXCEPT ![blk] = TRUE]
             r == WithData(c, c.tag, c.valid, dirty, c.last_tagset, c.last_blk)
  <2>1. SetDirty(c, cmd, blk) = r
    <3>1. IsRecord(c, Data)
      BY <1>1 DEF Shape, IsRecord, Data
    <3>2. QED
      BY <1>2, <3>1 DEF SetDirty, WithData, IsRecord, Data
  <2>2. /\ c.valid \in [Blks(c) -> BOOLEAN] /\ dirty \in [Blks(c) -> BOOLEAN]
        /\ c.last_tagset \in Nat /\ c.last_blk \in Blks(c) \cup {NULL}
    BY <1>1 DEF Shape
  <2>3. LastFits(c, c.valid, c.last_tagset, c.last_blk)
    BY <1>1 DEF LastBlkSound, LastFits, Holds
  <2>a. r = WithData(c, c.tag, c.valid, dirty, c.last_tagset, c.last_blk)
    OBVIOUS
  <2> HIDE DEF dirty, r
  <2>4. /\ CacheBut(r, NULL) /\ OnlyChanged(c, r, Data)
        /\ r.tag = c.tag /\ r.valid = c.valid /\ r.dirty = dirty
        /\ r.last_tagset = c.last_tagset /\ r.last_blk = c.last_blk
    BY <2>2, <2>3, <2>a, SmallChange DEF CacheOK
  <2>5. OnlyChanged(c, r, {"dirty"})
    BY <2>4 DEF OnlyChanged, Data
  <2>6. QED
    BY <1>2, <2>1, <2>4, <2>5 DEF CacheOK, Dirtied, dirty, r
<1>3. CASE cmd # Writes
  BY <1>3 DEF SetDirty, Dirtied, OnlyChanged
<1>4. QED
  BY <1>2, <1>3

LEMMA ChangesCompose ==
  ASSUME NEW c, NEW d, NEW e, NEW F, NEW G,
         OnlyChanged(c, d, F), OnlyChanged(d, e, G)
  PROVE  OnlyChanged(c, e, F \cup G)
BY DEF OnlyChanged

LEMMA ChangeKeepsSizes ==
  ASSUME NEW c, Shape(c), NEW d, NEW F, OnlyChanged(c, d, F), F \cap Sizes = {}
  PROVE  SameSizes(c, d)
BY DEF OnlyChanged, Shape, SameSizes, Sizes

\* Each part of the data and each list, but nothing of the sizes.
All == Links \cup Hashes \cup Data

LEMMA AllIsNoSize == All \cap Sizes = {}
BY DEF All, Links, Hashes, Data, Sizes

LEMMA QuickHitKeeps ==
  ASSUME NEW c, CacheOK(c), NEW addr \in Nat, NEW cmd,
         FastHit(c, addr), c.last_blk # NULL
  PROVE  LET r == QuickHit(c, cmd, addr)
         IN /\ CacheOK(r) /\ SameSizes(c, r)
            /\ c.last_blk \in Blks(c) /\ Holds(c, c.last_blk, addr)
            /\ c.last_blk[1] = CACHE_SET(c, addr)
            /\ r.tag = c.tag /\ r.valid = c.valid
            /\ r.dirty = Dirtied(c, cmd, c.last_blk)
<1> DEFINE blk == c.last_blk
           d == SetDirty(c, cmd, blk)
           r == RememberLast(d, addr, blk)
<1>1. Shape(c) /\ LastBlkSound(c)
  BY DEF CacheOK, CacheBut
<1>2. blk \in Blks(c)
  BY <1>1 DEF Shape
<1>3. /\ CACHE_TAG(c, c.last_tagset) = CACHE_TAG(c, addr)
      /\ CACHE_SET(c, c.last_tagset) = CACHE_SET(c, addr)
  BY <1>1, HeldIs DEF FastHit
<1>4. Holds(c, blk, addr) /\ blk[1] = CACHE_SET(c, addr)
  BY <1>1, <1>3 DEF LastBlkSound, Holds
<1>5. CacheOK(d) /\ OnlyChanged(c, d, {"dirty"}) /\ d.dirty = Dirtied(c, cmd, blk)
  BY <1>2, SetDirtyKeeps
<1> HIDE DEF d
<1>6. /\ SameSizes(c, d) /\ d.tag = c.tag /\ d.valid = c.valid
  BY <1>1, <1>5 DEF OnlyChanged, Shape, SameSizes, Sizes
<1>7. /\ Blks(d) = Blks(c) /\ CACHE_TAG(d, addr) = CACHE_TAG(c, addr)
      /\ CACHE_SET(d, addr) = CACHE_SET(c, addr)
  BY <1>6, SameOperators
<1>8. Holds(d, blk, addr) /\ blk[1] = CACHE_SET(d, addr) /\ blk \in Blks(d)
  BY <1>2, <1>4, <1>6, <1>7 DEF Holds
<1> HIDE DEF blk
<1>9. /\ CacheOK(r) /\ OnlyChanged(d, r, Data)
      /\ r.tag = d.tag /\ r.valid = d.valid /\ r.dirty = d.dirty
  BY <1>5, <1>8, RememberKeeps
<1>10. QuickHit(c, cmd, addr) = r
  BY DEF QuickHit, r, d, blk
<1> HIDE DEF r
<1>11. SameSizes(d, r)
  BY <1>5, <1>9, ChangeKeepsSizes DEF CacheOK, CacheBut, Data, Sizes
<1>12. SameSizes(c, r)
  BY <1>6, <1>11 DEF SameSizes
<1>13. QED
  BY <1>2, <1>4, <1>5, <1>6, <1>9, <1>10, <1>12 DEF blk

LEMMA SlowHitKeeps ==
  ASSUME NEW c, CacheOK(c), NEW addr \in Nat, NEW cmd,
         NEW blk \in Blks(c), Holds(c, blk, addr), blk[1] = CACHE_SET(c, addr)
  PROVE  LET r == SlowHit(c, cmd, addr, blk)
         IN /\ CacheOK(r) /\ SameSizes(c, r)
            /\ r.tag = c.tag /\ r.valid = c.valid
            /\ r.dirty = Dirtied(c, cmd, blk)
<1> DEFINE d == SetDirty(c, cmd, blk)
           e == IF c.policy = "LRU" THEN update_way_list(d, blk[1], blk, "Head")
                                    ELSE d
           r == RememberLast(e, addr, blk)
<1>1. Shape(c)
  BY DEF CacheOK, CacheBut
<1>2. CacheOK(d) /\ OnlyChanged(c, d, {"dirty"}) /\ d.dirty = Dirtied(c, cmd, blk)
  BY SetDirtyKeeps
<1>3. SlowHit(c, cmd, addr, blk) = r
  BY DEF SlowHit
<1> HIDE DEF d
<1>4. SameSizes(c, d) /\ d.tag = c.tag /\ d.valid = c.valid
  BY <1>1, <1>2 DEF OnlyChanged, Shape, SameSizes, Sizes
<1>5. /\ Blks(d) = Blks(c) /\ Sets(d) = Sets(c) /\ Ways(d) = Ways(c)
      /\ CACHE_TAG(d, addr) = CACHE_TAG(c, addr)
      /\ CACHE_SET(d, addr) = CACHE_SET(c, addr)
  BY <1>4, SameOperators
<1>6. blk[1] \in Sets(d) /\ blk \in {blk[1]} \X Ways(d)
  BY <1>5 DEF Blks
<1>7. CacheOK(e) /\ OnlyChanged(d, e, Links)
  <2>1. CASE c.policy = "LRU"
    <3>1. CacheBut(d, NULL) /\ "Head" \in {"Head", "Tail"}
      BY <1>2 DEF CacheOK
    <3>2. QED
      BY <1>6, <2>1, <3>1, MoveKeeps DEF CacheOK
  <2>2. CASE c.policy # "LRU"
    BY <1>2, <2>2 DEF OnlyChanged
  <2>3. QED
    BY <2>1, <2>2
<1> HIDE DEF e
<1>8. SameSizes(d, e) /\ e.tag = d.tag /\ e.valid = d.valid /\ e.dirty = d.dirty
  BY <1>2, <1>7 DEF OnlyChanged, CacheOK, CacheBut, Shape, SameSizes, Sizes, Links
<1>9. /\ Blks(e) = Blks(c) /\ CACHE_TAG(e, addr) = CACHE_TAG(c, addr)
      /\ CACHE_SET(e, addr) = CACHE_SET(c, addr)
  BY <1>5, <1>8, SameOperators
<1>10. Holds(e, blk, addr) /\ blk[1] = CACHE_SET(e, addr) /\ blk \in Blks(e)
  BY <1>4, <1>8, <1>9 DEF Holds
<1>11. /\ CacheOK(r) /\ OnlyChanged(e, r, Data)
       /\ r.tag = e.tag /\ r.valid = e.valid /\ r.dirty = e.dirty
  BY <1>7, <1>10, RememberKeeps
<1> HIDE DEF r
<1>12. SameSizes(e, r)
  BY <1>7, <1>11, ChangeKeepsSizes DEF CacheOK, CacheBut, Data, Sizes
<1>13. SameSizes(c, r)
  BY <1>4, <1>8, <1>12 DEF SameSizes
<1>14. QED
  BY <1>2, <1>3, <1>4, <1>8, <1>11, <1>13

\* r is c with the block of addr in place of what repl held.
IsFilled(c, r, cmd, addr, repl) ==
  /\ SameSizes(c, r)
  /\ r.tag = [c.tag EXCEPT ![repl] = CACHE_TAG(c, addr)]
  /\ r.valid = [c.valid EXCEPT ![repl] = TRUE]
  /\ r.dirty = [c.dirty EXCEPT ![repl] = (cmd = Writes)]

\* The block that is filled is in no chain, and no valid block of its set has
\* the tag it gets.
LEMMA FillKeeps ==
  ASSUME NEW c, NEW x, NEW repl, CacheBut(c, x),
         x = repl \/ (x = NULL /\ c.hsize = 0),
         NEW addr \in 0 .. ADDR_SPACE - 1, NEW cmd,
         repl \in {CACHE_SET(c, addr)} \X Ways(c),
         \A b \in {CACHE_SET(c, addr)} \X Ways(c) : ~Holds(c, b, addr)
  PROVE  LET r == Fill(ForgetLast(c), cmd, addr, repl)
         IN /\ CacheBut(r, x) /\ IsFilled(c, r, cmd, addr, repl)
            /\ OnlyChanged(c, r, Data) /\ r.last_blk = NULL
<1> DEFINE set == CACHE_SET(c, addr)
           T == CACHE_TAG(c, addr)
           tag == [c.tag EXCEPT ![repl] = T]
           valid == [c.valid EXCEPT ![repl] = TRUE]
           dirty == [c.dirty EXCEPT ![repl] = (cmd = Writes)]
           r == WithData(c, tag, valid, dirty, 0, NULL)
<1>1. Shape(c) /\ WaysOK(c) /\ BucketsOK(c, x) /\ NoDup(c) /\ InRange(c)
  BY DEF CacheBut
<1>2. ADDR_SPACE \in Nat /\ addr \in Nat
  BY PrefetchAssumption
<1>3. /\ set \in Sets(c) /\ T \in Nat /\ T <= addr
      /\ CACHE_BADDR(c, addr) \in Nat /\ CACHE_BADDR(c, addr) <= addr
      /\ CACHE_MK_BADDR(c, T, set) = CACHE_BADDR(c, addr)
  BY <1>1, <1>2, AddressParts
<1>4. repl \in Blks(c) /\ repl[1] = set
  BY <1>3 DEF Blks
<1>5. T \in 0 .. ADDR_SPACE - 1 /\ CACHE_BADDR(c, addr) \in 0 .. ADDR_SPACE - 1
  BY <1>2, <1>3
<1>6. /\ c.tag \in [Blks(c) -> 0 .. ADDR_SPACE - 1]
      /\ c.valid \in [Blks(c) -> BOOLEAN] /\ c.dirty \in [Blks(c) -> BOOLEAN]
  BY <1>1 DEF Shape
<1> HIDE DEF set, T
<1>7. /\ tag \in [Blks(c) -> 0 .. ADDR_SPACE - 1]
      /\ valid \in [Blks(c) -> BOOLEAN] /\ dirty \in [Blks(c) -> BOOLEAN]
  BY <1>4, <1>5, <1>6
<1>8. Fill(ForgetLast(c), cmd, addr, repl) = r
  <2> DEFINE f == ForgetLast(c)
             g == [f EXCEPT !.tag[repl] = T, !.valid[repl] = TRUE,
                            !.dirty[repl] = FALSE]
  <2>1. IsRecord(c, Data)
    BY <1>1 DEF Shape, IsRecord, Data
  <2>2. f = [c EXCEPT !.last_tagset = 0, !.last_blk = NULL]
    BY DEF ForgetLast
  <2>3. SameSizes(c, f)
    BY <1>1, <2>2 DEF SameSizes, Sizes, Shape
  <2>4. CACHE_TAG(f, addr) = T
    BY <2>3, SameOperators DEF T
  <2>5. Fill(f, cmd, addr, repl) = SetDirty(g, cmd, repl)
    BY <2>4 DEF Fill
  <2>6. g = WithData(c, tag, valid, [c.dirty EXCEPT ![repl] = FALSE], 0, NULL)
    BY <2>1, <2>2 DEF WithData, IsRecord, Data
  <2>7. CASE cmd = Writes
    <3>1. SetDirty(g, cmd, repl) = [g EXCEPT !.dirty[repl] = TRUE]
      BY <2>7 DEF SetDirty
    <3>2. [[c.dirty EXCEPT ![repl] = FALSE] EXCEPT ![repl] = TRUE] = dirty
      BY <1>4, <1>6, <2>7
    <3> HIDE DEF g, tag, valid, dirty
    <3>3. [g EXCEPT !.dirty[repl] = TRUE] = r
      BY <2>1, <2>6, <3>2 DEF WithData, IsRecord, Data
    <3>4. QED
      BY <2>5, <3>1, <3>3
  <2>8. CASE cmd # Writes
    <3>1. SetDirty(g, cmd, repl) = g
      BY <2>8 DEF SetDirty
    <3>2. [c.dirty EXCEPT ![repl] = FALSE] = dirty
      BY <1>4, <1>6, <2>8
    <3> HIDE DEF g
    <3>3. QED
      BY <2>5, <2>6, <3>1, <3>2
  <2>9. QED
    BY <2>7, <2>8
<1>9. \A b \in Blks(c) : /\ tag[b] = IF b = repl THEN T ELSE c.tag[b]
                         /\ b # repl => (valid[b] <=> c.valid[b])
  BY <1>4, <1>6
<1>10. repl # NULL
  BY <1>4, NullIsNoBlk
<1> HIDE DEF tag, valid, dirty
<1>11. /\ Shape(r) /\ OnlyChanged(c, r, Data) /\ SameSizes(c, r)
       /\ r.tag = tag /\ r.valid = valid /\ r.dirty = dirty
       /\ r.last_tagset = 0 /\ r.last_blk = NULL
  <2> DEFINE tagset == 0
             blk == NULL
  <2>1. tagset \in Nat /\ blk \in Blks(c) \cup {NULL}
    OBVIOUS
  <2>2. r = WithData(c, tag, valid, dirty, tagset, blk)
    OBVIOUS
  <2>3. tagset = 0 /\ blk = NULL
    OBVIOUS
  <2> HIDE DEF tagset, blk, r
  <2>4. HasData(c, r, tag, valid, dirty, tagset, blk)
    BY <1>1, <1>7, <2>1, <2>2, WithDataIs
  <2>5. QED
    BY <2>3, <2>4 DEF HasData
<1> HIDE DEF r
<1>12. BucketsOK(r, x)
  <2>1. CASE x = repl
    BY <1>1, <1>9, <1>11, <2>1, DataOnly
  <2>2. CASE c.hsize = 0
    <3>1. r.hsize = 0
      BY <1>11, <2>2 DEF SameSizes, Sizes
    <3>2. QED
      BY <3>1 DEF BucketsOK
  <2>3. QED
    BY <2>1, <2>2
<1>13. /\ Blks(r) = Blks(c)
       /\ \A t, s : CACHE_MK_BADDR(r, t, s) = CACHE_MK_BADDR(c, t, s)
  BY <1>11, SameOperators
<1>14. \A b \in Blks(c) : b[1] = set /\ c.valid[b] => c.tag[b] # T
  BY <1>3 DEF Blks, Holds, set, T
<1>15. NoDup(r)
  <2> SUFFICES ASSUME NEW a \in Blks(c), NEW b \in Blks(c),
                      valid[a], valid[b], a[1] = b[1], tag[a] = tag[b]
               PROVE  a = b
    BY <1>11, <1>13 DEF NoDup
  <2>1. CASE a = repl /\ b # repl
    BY <1>4, <1>9, <1>14, <2>1
  <2>2. CASE a # repl /\ b = repl
    BY <1>4, <1>9, <1>14, <2>2
  <2>3. CASE a # repl /\ b # repl
    BY <1>1, <1>9, <2>3 DEF NoDup
  <2>4. QED
    BY <2>1, <2>2, <2>3
<1>16. InRange(r)
  <2> SUFFICES ASSUME NEW b \in Blks(c), valid[b]
               PROVE  CACHE_MK_BADDR(c, tag[b], b[1]) \in 0 .. ADDR_SPACE - 1
    BY <1>11, <1>13 DEF InRange, BlkAddr
  <2>1. CASE b = repl
    BY <1>3, <1>4, <1>5, <1>9, <2>1
  <2>2. CASE b # repl
    BY <1>1, <1>9, <2>2 DEF InRange, BlkAddr
  <2>3. QED
    BY <2>1, <2>2
<1>17. LastBlkSound(r)
  BY <1>11 DEF LastBlkSound
<1>18. CacheBut(r, x)
  BY <1>1, <1>11, <1>12, <1>15, <1>16, <1>17, DataOnly DEF CacheBut
<1>19. QED
  BY <1>8, <1>11, <1>18 DEF IsFilled, tag, valid, dirty, T

LEMMA ReplaceableIs ==
  ASSUME NEW c, CacheOK(c), NEW s \in Sets(c), NEW b \in Replaceable(c, s)
  PROVE  b \in {s} \X Ways(c)
<1>1. Shape(c) /\ WaysOK(c)
  BY DEF CacheOK, CacheBut
<1>2. PICK p : WayOrder(c, s, p)
  BY <1>1 DEF WaysOK
<1>3. c.assoc \in 1 .. c.assoc
  BY <1>1 DEF Shape
<1>4. c.way_tail[s] \in {s} \X Ways(c)
  BY <1>2, <1>3 DEF WayOrder
<1>5. QED
  BY <1>4 DEF Replaceable

\* A miss replaces one block, whatever it held, and keeps the structures sound.
LEMMA MissKeeps ==
  ASSUME NEW c, CacheOK(c), NEW addr \in 0 .. ADDR_SPACE - 1, NEW cmd,
         NEW repl \in {CACHE_SET(c, addr)} \X Ways(c), Lookup(c, addr) = NULL
  PROVE  LET r == Miss(c, cmd, addr, repl)
             moved == IF c.policy = "Random" THEN c
                      ELSE update_way_list(c, CACHE_SET(c, addr), repl, "Head")
         IN /\ CacheOK(r) /\ IsFilled(c, r, cmd, addr, repl)
            /\ OnlyChanged(moved, r, Hashes \cup Data) /\ r.last_blk = NULL
<1> DEFINE set == CACHE_SET(c, addr)
           d == IF c.policy = "Random" THEN c
                                       ELSE update_way_list(c, set, repl, "Head")
           e == IF c.hsize = 0 THEN d ELSE unlink_htab_ent(d, set, repl)
           f == Fill(ForgetLast(e), cmd, addr, repl)
           r == IF c.hsize = 0 THEN f ELSE link_htab_ent(f, set, repl)
           x == IF c.hsize = 0 THEN NULL ELSE repl
<1>1. Miss(c, cmd, addr, repl) = r
  BY DEF Miss
<1>2. addr \in Nat /\ Shape(c)
  BY PrefetchAssumption DEF CacheOK, CacheBut
<1>3. set \in Sets(c) /\ repl \in {set} \X Ways(c)
      /\ \A b \in {set} \X Ways(c) : ~Holds(c, b, addr)
  <2>1. CASE \A b \in {set} \X Ways(c) : ~Holds(c, b, addr)
    BY <1>2, <2>1, AddressParts
  <2>2. CASE Lookup(c, addr) \in {set} \X Ways(c)
    <3>1. Lookup(c, addr) \in Blks(c)
      BY <1>2, <2>2, AddressParts DEF Blks
    <3>2. QED
      BY <3>1, NullIsNoBlk
  <2>3. QED
    BY <1>2, <2>1, <2>2, LookupIs
<1>4. repl \in Blks(c) /\ repl[1] = set
  BY <1>3 DEF Blks
<1> HIDE DEF set
<1>5. CacheOK(d) /\ OnlyChanged(c, d, Links)
  <2>1. CASE c.policy # "Random"
    <3>1. CacheBut(c, NULL) /\ "Head" \in {"Head", "Tail"}
      BY DEF CacheOK
    <3>2. QED
      BY <1>3, <2>1, <3>1, MoveKeeps DEF CacheOK
  <2>2. CASE c.policy = "Random"
    BY <2>2 DEF OnlyChanged
  <2>3. QED
    BY <2>1, <2>2
<1> HIDE DEF d
<1>6. /\ SameSizes(c, d)
      /\ d.tag = c.tag /\ d.valid = c.valid /\ d.dirty = c.dirty
  BY <1>2, <1>5 DEF OnlyChanged, Shape, Links, SameSizes, Sizes
<1>7. CacheBut(e, x) /\ OnlyChanged(d, e, Hashes)
  <2>1. CASE c.hsize # 0
    <3>1. d.hsize # 0 /\ repl \in Blks(d)
      BY <1>4, <1>6, <2>1, SameOperators DEF SameSizes, Sizes
    <3>2. QED
      BY <1>4, <1>5, <2>1, <3>1, UnlinkKeeps
  <2>2. CASE c.hsize = 0
    BY <1>5, <2>2 DEF OnlyChanged, CacheOK
  <2>3. QED
    BY <2>1, <2>2
<1> HIDE DEF e
<1>8. Shape(d)
  BY <1>5 DEF CacheOK, CacheBut
<1>9. /\ SameSizes(c, e)
      /\ e.tag = c.tag /\ e.valid = c.valid /\ e.dirty = c.dirty
  BY <1>6, <1>7, <1>8 DEF OnlyChanged, Shape, Hashes, SameSizes, Sizes
<1>10. /\ CACHE_SET(e, addr) = set /\ CACHE_TAG(e, addr) = CACHE_TAG(c, addr)
       /\ Ways(e) = Ways(c)
  BY <1>9, SameOperators DEF set
<1>11. x = repl \/ (x = NULL /\ e.hsize = 0)
  BY <1>9 DEF SameSizes, Sizes
<1>12. /\ repl \in {CACHE_SET(e, addr)} \X Ways(e)
       /\ \A b \in {CACHE_SET(e, addr)} \X Ways(e) : ~Holds(e, b, addr)
  BY <1>3, <1>9, <1>10 DEF Holds
<1>13. /\ CacheBut(f, x) /\ IsFilled(e, f, cmd, addr, repl)
       /\ OnlyChanged(e, f, Data) /\ f.last_blk = NULL
  BY <1>7, <1>11, <1>12, FillKeeps
<1> HIDE DEF f
<1>14. IsFilled(c, f, cmd, addr, repl)
  BY <1>9, <1>10, <1>13 DEF IsFilled, SameSizes
<1>15. OnlyChanged(d, f, Hashes \cup Data)
  BY <1>7, <1>13, ChangesCompose
<1>16. CASE c.hsize = 0
  BY <1>1, <1>13, <1>14, <1>15, <1>16 DEF CacheOK, d, set
<1>17. CASE c.hsize # 0
  <2>1. SameSizes(c, f)
    BY <1>14 DEF IsFilled
  <2>2. f.hsize # 0 /\ repl \in Blks(f)
    BY <1>4, <1>17, <2>1, SameOperators DEF SameSizes, Sizes
  <2>3. CacheBut(f, repl)
    BY <1>13, <1>17
  <2>4. CacheOK(r) /\ OnlyChanged(f, r, Hashes)
    BY <1>4, <1>17, <2>2, <2>3, LinkKeeps
  <2> HIDE DEF r
  <2>5. Shape(f)
    BY <2>3 DEF CacheBut
  <2>6. /\ SameSizes(f, r)
        /\ r.tag = f.tag /\ r.valid = f.valid /\ r.dirty = f.dirty
        /\ r.last_blk = f.last_blk
    BY <2>4, <2>5 DEF OnlyChanged, Shape, Hashes, SameSizes, Sizes
  <2>7. IsFilled(c, r, cmd, addr, repl)
    BY <1>14, <2>6 DEF IsFilled, SameSizes
  <2>8. OnlyChanged(d, r, Hashes \cup Data)
    <3>1. OnlyChanged(d, r, (Hashes \cup Data) \cup Hashes)
      BY <1>15, <2>4, ChangesCompose
    <3>2. (Hashes \cup Data) \cup Hashes = Hashes \cup Data
      OBVIOUS
    <3>3. QED
      BY <3>1, <3>2
  <2>9. QED
    BY <1>1, <1>13, <2>4, <2>6, <2>7, <2>8 DEF d, set
<1>18. QED
  BY <1>16, <1>17

LEMMA FlushKeeps ==
  ASSUME NEW c, CacheOK(c)
  PROVE  LET r == cache_flush(c)
         IN /\ CacheOK(r) /\ OnlyChanged(c, r, Data)
            /\ r.tag = c.tag /\ r.dirty = c.dirty
            /\ r.valid = [b \in Blks(c) |-> FALSE]
<1> DEFINE r == cache_flush(c)
           valid == [b \in Blks(c) |-> FALSE]
           tagset == 0
           blk == NULL
<1>1. CacheBut(c, NULL) /\ Shape(c)
  BY DEF CacheOK, CacheBut
<1>2. r = WithData(c, c.tag, valid, c.dirty, tagset, blk)
  <2>1. IsRecord(c, Data)
    BY <1>1 DEF Shape, IsRecord, Data
  <2>2. QED
    BY <2>1 DEF cache_flush, ForgetLast, WithData, IsRecord, Data
<1>3. /\ tagset \in Nat /\ blk \in Blks(c) \cup {NULL}
      /\ valid \in [Blks(c) -> BOOLEAN] /\ c.dirty \in [Blks(c) -> BOOLEAN]
      /\ \A b \in Blks(c) : valid[b] => c.valid[b]
      /\ LastFits(c, valid, tagset, blk)
  BY <1>1 DEF Shape, LastFits
<1> HIDE DEF r, valid, tagset, blk
<1>4. /\ CacheBut(r, NULL) /\ OnlyChanged(c, r, Data)
      /\ r.tag = c.tag /\ r.valid = valid /\ r.dirty = c.dirty
  BY <1>1, <1>2, <1>3, SmallChange
<1>5. QED
  BY <1>4 DEF CacheOK, r, valid

LEMMA FlushAddrKeeps ==
  ASSUME NEW c, CacheOK(c), NEW addr \in Nat
  PROVE  LET r == cache_flush_addr(c, addr)
             blk == Lookup(c, addr)
         IN /\ CacheOK(r) /\ SameSizes(c, r)
            /\ r.tag = c.tag /\ r.dirty = c.dirty
            /\ r.valid = IF blk = NULL THEN c.valid
                                       ELSE [c.valid EXCEPT ![blk] = FALSE]
<1> DEFINE r == cache_flush_addr(c, addr)
           blk == Lookup(c, addr)
<1>1. CacheBut(c, NULL) /\ Shape(c)
  BY DEF CacheOK, CacheBut
<1>2. CASE blk = NULL
  BY <1>2 DEF cache_flush_addr, SameSizes
<1>3. CASE blk # NULL
  <2> DEFINE set == CACHE_SET(c, addr)
             valid == [c.valid EXCEPT ![blk] = FALSE]
             tagset == 0
             last == NULL
             d == ForgetLast([c EXCEPT !.valid[blk] = FALSE])
  <2>1. set \in Sets(c) /\ blk \in {set} \X Ways(c)
    BY <1>3, LookupIs
  <2>2. blk \in Blks(c) /\ blk[1] = set
    BY <2>1 DEF Blks
  <2>3. r = update_way_list(d, set, blk, "Tail")
    BY <1>3, <2>2 DEF cache_flush_addr
  <2> HIDE DEF set, blk
  <2>4. d = WithData(c, c.tag, valid, c.dirty, tagset, last)
    <3>1. IsRecord(c, Data)
      BY <1>1 DEF Shape, IsRecord, Data
    <3>2. QED
      BY <3>1 DEF ForgetLast, WithData, IsRecord, Data
  <2>5. /\ tagset \in Nat /\ last \in Blks(c) \cup {NULL}
        /\ valid \in [Blks(c) -> BOOLEAN] /\ c.dirty \in [Blks(c) -> BOOLEAN]
        /\ \A b \in Blks(c) : valid[b] => c.valid[b]
        /\ LastFits(c, valid, tagset, last)
    BY <1>1, <2>2 DEF Shape, LastFits
  <2> HIDE DEF d, valid, tagset, last
  <2>6. /\ CacheBut(d, NULL) /\ OnlyChanged(c, d, Data)
        /\ d.tag = c.tag /\ d.valid = valid /\ d.dirty = c.dirty
    BY <1>1, <2>4, <2>5, SmallChange
  <2>7. SameSizes(c, d)
    BY <1>1, <2>6, ChangeKeepsSizes DEF Data, Sizes
  <2>8. set \in Sets(d) /\ blk \in {set} \X Ways(d)
    BY <2>1, <2>7, SameOperators DEF set, blk
  <2>9. CacheBut(r, NULL) /\ OnlyChanged(d, r, Links)
    <3>1. "Tail" \in {"Head", "Tail"}
      OBVIOUS
    <3>2. QED
      BY <2>3, <2>6, <2>8, <3>1, MoveKeeps
  <2> HIDE DEF r
  <2>10. /\ SameSizes(d, r)
         /\ r.tag = d.tag /\ r.valid = d.valid /\ r.dirty = d.dirty
    BY <2>6, <2>9 DEF OnlyChanged, CacheBut, Shape, Links, SameSizes, Sizes
  <2>11. SameSizes(c, r)
    BY <2>7, <2>10 DEF SameSizes
  <2>12. QED
    BY <1>3, <2>6, <2>9, <2>10, <2>11 DEF CacheOK, r, blk, valid
<1>4. QED
  BY <1>2, <1>3

\* A cache starts with sound structures, whatever its sizes.
LEMMA CreatedIsSound ==
  ASSUME NEW c, Created(c)
  PROVE  CacheOK(c)
<1> DEFINE blks == Sets(c) \X Ways(c)
           older(b) == IF b[2] = 1 THEN NULL ELSE <<b[1], b[2] - 1>>
           newer(b) == IF b[2] = c.assoc THEN NULL ELSE <<b[1], b[2] + 1>>
           p(s) == [i \in 1 .. c.assoc |-> <<s, c.assoc + 1 - i>>]
<1>1. /\ c.nsets \in Nat \ {0} /\ c.bsize \in Nat \ {0} /\ c.assoc \in Nat \ {0}
      /\ c.hsize \in Nat /\ c.prefetch_type \in Nat
      /\ c.policy \in {"LRU", "FIFO", "Random"}
  BY DEF Created
<1>2. /\ c = [x \in {"nsets", "bsize", "assoc", "hsize", "policy",
                     "prefetch_type", "way_head", "way_tail", "way_next",
                     "way_prev", "hash", "hash_next", "tag", "valid", "dirty",
                     "last_tagset", "last_blk"} |-> c[x]]
      /\ c.way_head = [s \in Sets(c) |-> <<s, c.assoc>>]
      /\ c.way_tail = [s \in Sets(c) |-> <<s, 1>>]
      /\ c.way_next = [b \in Blks(c) |-> older(b)]
      /\ c.way_prev = [b \in Blks(c) |-> newer(b)]
      /\ c.hash = [s \in Sets(c) |-> [i \in 0 .. c.hsize - 1 |->
                                        IF i = 0 THEN <<s, c.assoc>> ELSE NULL]]
      /\ c.hash_next = [b \in Blks(c) |-> IF c.hsize = 0 THEN NULL ELSE older(b)]
      /\ c.tag = [b \in Blks(c) |-> 0]
      /\ c.valid = [b \in Blks(c) |-> FALSE]
      /\ c.dirty = [b \in Blks(c) |-> FALSE]
      /\ c.last_tagset = 0 /\ c.last_blk = NULL
  <2> DEFINE k == cache_create(c.nsets, c.bsize, c.assoc, c.hsize, c.policy,
                               c.prefetch_type)
  <2>1. c = k
    BY DEF Created
  <2>2. /\ k = [x \in {"nsets", "bsize", "assoc", "hsize", "policy",
                     "prefetch_type", "way_head", "way_tail", "way_next",
                     "way_prev", "hash", "hash_next", "tag", "valid", "dirty",
                     "last_tagset", "last_blk"} |-> k[x]]
        /\ k.way_head = [s \in Sets(c) |-> <<s, c.assoc>>]
        /\ k.way_tail = [s \in Sets(c) |-> <<s, 1>>]
        /\ k.way_next = [b \in Blks(c) |-> older(b)]
        /\ k.way_prev = [b \in Blks(c) |-> newer(b)]
        /\ k.hash = [s \in Sets(c) |-> [i \in 0 .. c.hsize - 1 |->
                                        IF i = 0 THEN <<s, c.assoc>> ELSE NULL]]
        /\ k.hash_next = [b \in Blks(c) |->
                            IF c.hsize = 0 THEN NULL ELSE older(b)]
        /\ k.tag = [b \in Blks(c) |-> 0]
        /\ k.valid = [b \in Blks(c) |-> FALSE]
        /\ k.dirty = [b \in Blks(c) |-> FALSE]
        /\ k.last_tagset = 0 /\ k.last_blk = NULL
    BY DEF cache_create, Sets, Ways, Blks
  <2> HIDE DEF k
  <2>3. QED
    BY <2>1, <2>2
<1>a. /\ \A b \in Blks(c) :
           /\ c.way_next[b] = older(b) /\ c.way_prev[b] = newer(b)
           /\ c.hsize # 0 => c.hash_next[b] = older(b)
           /\ c.tag[b] = 0
      /\ \A s \in Sets(c) : /\ c.way_head[s] = <<s, c.assoc>>
                            /\ c.way_tail[s] = <<s, 1>>
  <2>1. ASSUME NEW b \in Blks(c)
        PROVE  /\ c.way_next[b] = older(b) /\ c.way_prev[b] = newer(b)
    <3>1. c.way_next = [e \in Blks(c) |-> older(e)]
      BY <1>2
    <3>2. c.way_prev = [e \in Blks(c) |-> newer(e)]
      BY <1>2
    <3>3. QED
      BY <3>1, <3>2
  <2>2. ASSUME NEW b \in Blks(c), c.hsize # 0
        PROVE  c.hash_next[b] = older(b)
    <3>1. c.hash_next = [e \in Blks(c) |->
                           IF c.hsize = 0 THEN NULL ELSE older(e)]
      BY <1>2
    <3>2. QED
      BY <2>2, <3>1
  <2>3. \A b \in Blks(c) : c.tag[b] = 0
    BY <1>2
  <2>4. \A s \in Sets(c) : /\ c.way_head[s] = <<s, c.assoc>>
                           /\ c.way_tail[s] = <<s, 1>>
    BY <1>2
  <2> HIDE DEF older, newer
  <2>5. QED
    BY <2>1, <2>2, <2>3, <2>4
<1>b. \A s \in Sets(c), i \in 0 .. c.hsize - 1 :
        c.hash[s][i] = IF i = 0 THEN <<s, c.assoc>> ELSE NULL
  <2>1. c.hash = [s \in Sets(c) |-> [i \in 0 .. c.hsize - 1 |->
                                        IF i = 0 THEN <<s, c.assoc>> ELSE NULL]]
    BY <1>2
  <2>2. QED
    BY <2>1
<1>3. \A b \in Blks(c) : /\ b[1] \in Sets(c) /\ b[2] \in Ways(c)
                         /\ older(b) \in Blks(c) \cup {NULL}
                         /\ newer(b) \in Blks(c) \cup {NULL}
  BY <1>1 DEF Blks, Ways
<1>4. Shape(c)
  <2>1. /\ c.way_head \in [Sets(c) -> Blks(c)]
        /\ c.way_tail \in [Sets(c) -> Blks(c)]
    BY <1>1, <1>2 DEF Blks, Ways
  <2>2. /\ c.way_next \in [Blks(c) -> Blks(c) \cup {NULL}]
        /\ c.way_prev \in [Blks(c) -> Blks(c) \cup {NULL}]
    <3>1. c.way_next = [b \in Blks(c) |-> older(b)]
      BY <1>2
    <3>2. c.way_prev = [b \in Blks(c) |-> newer(b)]
      BY <1>2
    <3>3. c.way_next \in [Blks(c) -> Blks(c) \cup {NULL}]
      BY <1>3, <3>1
    <3>4. c.way_prev \in [Blks(c) -> Blks(c) \cup {NULL}]
      BY <1>3, <3>2
    <3>5. QED
      BY <3>3, <3>4
  <2>3. c.hash_next \in [Blks(c) -> Blks(c) \cup {NULL}]
    <3>1. c.hash_next = [b \in Blks(c) |->
                           IF c.hsize = 0 THEN NULL ELSE older(b)]
      BY <1>2
    <3>2. QED
      BY <1>3, <3>1
  <2>4. c.hash \in [Sets(c) -> [0 .. c.hsize - 1 -> Blks(c) \cup {NULL}]]
    BY <1>1, <1>2 DEF Blks, Ways
  <2>5. /\ c.tag \in [Blks(c) -> 0 .. ADDR_SPACE - 1]
        /\ c.valid \in [Blks(c) -> BOOLEAN] /\ c.dirty \in [Blks(c) -> BOOLEAN]
        /\ c.last_tagset \in Nat /\ c.last_blk \in Blks(c) \cup {NULL}
    <3>1. ADDR_SPACE \in Nat \ {0}
      BY PrefetchAssumption
    <3>2. /\ c.tag = [b \in Blks(c) |-> 0]
          /\ c.valid = [b \in Blks(c) |-> FALSE]
          /\ c.dirty = [b \in Blks(c) |-> FALSE]
          /\ c.last_tagset = 0 /\ c.last_blk = NULL
      BY <1>2
    <3>3. QED
      BY <3>1, <3>2
  <2> HIDE DEF older, newer
  <2>6. QED
    BY <1>1, <1>2, <2>1, <2>2, <2>3, <2>4, <2>5 DEF Shape
<1>5. ASSUME NEW s \in Sets(c)
      PROVE  /\ p(s) \in [1 .. c.assoc -> {s} \X Ways(c)]
             /\ \A b \in {s} \X Ways(c) : \E i \in 1 .. c.assoc : p(s)[i] = b
             /\ \A i, j \in 1 .. c.assoc : p(s)[i] = p(s)[j] => i = j
             /\ p(s)[1] = <<s, c.assoc>> /\ p(s)[c.assoc] = <<s, 1>>
             /\ \A i \in 1 .. c.assoc :
                  /\ older(p(s)[i]) = IF i = c.assoc THEN NULL ELSE p(s)[i + 1]
                  /\ newer(p(s)[i]) = IF i = 1 THEN NULL ELSE p(s)[i - 1]
  <2>1. p(s) \in [1 .. c.assoc -> {s} \X Ways(c)]
    BY <1>1 DEF Ways
  <2>2. ASSUME NEW b \in {s} \X Ways(c)
        PROVE  \E i \in 1 .. c.assoc : p(s)[i] = b
    <3>1. b[2] \in 1 .. c.assoc /\ b = <<s, b[2]>>
      BY DEF Ways
    <3>2. c.assoc + 1 - b[2] \in 1 .. c.assoc
      BY <1>1, <3>1
    <3>3. c.assoc + 1 - (c.assoc + 1 - b[2]) = b[2]
      BY <1>1, <3>1
    <3>4. QED
      BY <3>1, <3>2, <3>3
  <2>3. \A i, j \in 1 .. c.assoc : p(s)[i] = p(s)[j] => i = j
    BY <1>1
  <2>4. p(s)[1] = <<s, c.assoc>> /\ p(s)[c.assoc] = <<s, 1>>
    BY <1>1
  <2>5. \A i \in 1 .. c.assoc :
          /\ older(p(s)[i]) = IF i = c.assoc THEN NULL ELSE p(s)[i + 1]
          /\ newer(p(s)[i]) = IF i = 1 THEN NULL ELSE p(s)[i - 1]
    <3> TAKE i \in 1 .. c.assoc
    <3>1. p(s)[i][1] = s /\ p(s)[i][2] = c.assoc + 1 - i
      OBVIOUS
    <3>2. i # c.assoc => p(s)[i + 1] = <<s, c.assoc - i>>
      BY <1>1
    <3>3. i # 1 => p(s)[i - 1] = <<s, c.assoc + 2 - i>>
      BY <1>1
    <3>4. i # c.assoc => older(p(s)[i]) = p(s)[i + 1]
      <4> HAVE i # c.assoc
      <4>1. c.assoc + 1 - i # 1 /\ (c.assoc + 1 - i) - 1 = c.assoc - i
        BY <1>1
      <4>2. older(p(s)[i]) = <<s, c.assoc - i>>
        BY <3>1, <4>1
      <4>3. QED
        BY <3>2, <4>2
    <3>5. i # 1 => newer(p(s)[i]) = p(s)[i - 1]
      <4> HAVE i # 1
      <4>1. c.assoc + 1 - i # c.assoc /\ (c.assoc + 1 - i) + 1 = c.assoc + 2 - i
        BY <1>1
      <4>2. newer(p(s)[i]) = <<s, c.assoc + 2 - i>>
        BY <3>1, <4>1
      <4>3. QED
        BY <3>3, <4>2
    <3>6. i = 1 => newer(p(s)[i]) = NULL
      BY <1>1, <3>1
    <3>7. i = c.assoc => older(p(s)[i]) = NULL
      BY <1>1, <3>1
    <3> HIDE DEF older, newer, p
    <3>8. QED
      BY <3>4, <3>5, <3>6, <3>7
  <2>6. QED
    BY <2>1, <2>2, <2>3, <2>4, <2>5
<1>6. \A s \in Sets(c), i \in 1 .. c.assoc : p(s)[i] \in Blks(c)
  BY <1>5 DEF Blks
<1> HIDE DEF older, newer, p
<1>7. WaysOK(c)
  <2>1. ASSUME NEW s \in Sets(c)
        PROVE  WayOrder(c, s, p(s))
    <3>1. c.way_head[s] = p(s)[1] /\ c.way_tail[s] = p(s)[c.assoc]
      BY <1>a, <1>5
    <3>2. \A i \in 1 .. c.assoc :
            /\ c.way_next[p(s)[i]] = IF i = c.assoc THEN NULL ELSE p(s)[i + 1]
            /\ c.way_prev[p(s)[i]] = IF i = 1 THEN NULL ELSE p(s)[i - 1]
      BY <1>a, <1>5, <1>6
    <3>3. QED
      BY <1>5, <3>1, <3>2 DEF WayOrder
  <2>2. QED
    BY <2>1 DEF WaysOK
<1>8. BucketsOK(c, NULL)
  <2>1. ASSUME c.hsize # 0, NEW s \in Sets(c), NEW i \in 0 .. c.hsize - 1, i = 0
        PROVE  BucketIs(c, s, i, NULL, c.assoc, p(s))
    <3>1. c.hash[s][i] = <<s, c.assoc>>
      BY <1>b, <2>1
    <3>2. ListFrom(c, c.hash[s][i], c.hash_next, c.assoc, p(s))
      BY <1>1, <1>a, <1>5, <1>6, <2>1, <3>1 DEF ListFrom
    <3>3. CACHE_HASH(c, 0) = 0
      BY <1>1, <2>1 DEF CACHE_HASH
    <3>4. \A j \in 1 .. c.assoc : p(s)[j] # NULL /\ c.tag[p(s)[j]] = 0
      BY <1>a, <1>6, NullIsNoBlk
    <3>5. \A j, k \in 1 .. c.assoc : p(s)[j] = p(s)[k] => j = k
      BY <1>5
    <3>6. \A j \in 1 .. c.assoc : /\ p(s)[j] \in {s} \X Ways(c) /\ p(s)[j] # NULL
                                  /\ CACHE_HASH(c, c.tag[p(s)[j]]) = i
      <4>1. \A j \in 1 .. c.assoc : p(s)[j] \in {s} \X Ways(c)
        <5>1. PICK q : q = p(s)
          OBVIOUS
        <5>2. q \in [1 .. c.assoc -> {s} \X Ways(c)]
          BY <1>5, <5>1
        <5>3. QED
          BY <5>1, <5>2
      <4>2. \A j \in 1 .. c.assoc : CACHE_HASH(c, c.tag[p(s)[j]]) = i
        BY <2>1, <3>3, <3>4, Zenon
      <4>3. QED
        BY <3>4, <4>1, <4>2
    <3>7. \A b \in {s} \X Ways(c) : \E j \in 1 .. c.assoc : p(s)[j] = b
      BY <1>5
    <3>8. QED
      BY <3>2, <3>5, <3>6, <3>7, Zenon DEF BucketIs
  <2>2. ASSUME c.hsize # 0, NEW s \in Sets(c), NEW i \in 0 .. c.hsize - 1, i # 0
        PROVE  BucketIs(c, s, i, NULL, 0, <<>>)
    <3>1. c.hash[s][i] = NULL
      BY <1>b, <2>2
    <3>2. ListFrom(c, c.hash[s][i], c.hash_next, 0, <<>>)
      BY <1>1, <3>1 DEF ListFrom
    <3>3. CACHE_HASH(c, 0) = 0
      BY <1>1, <2>2 DEF CACHE_HASH
    <3>4. \A b \in {s} \X Ways(c) : c.tag[b] = 0
      BY <1>2 DEF Blks
    <3>5. QED
      BY <2>2, <3>2, <3>3, <3>4 DEF BucketIs
  <2>3. QED
    BY <2>1, <2>2 DEF BucketsOK
<1>9. NoDup(c) /\ LastBlkSound(c) /\ InRange(c)
  BY <1>2 DEF NoDup, LastBlkSound, InRange
<1>10. QED
  BY <1>4, <1>7, <1>8, <1>9 DEF CacheOK, CacheBut

-----------------------------------------------------------------------------
(* The blocks that a flush writes back *)

\* The n-th block along the way lists, set by set.
NthBlk(c, n) == WayList(c, (n - 1) \div c.assoc)[((n - 1) % c.assoc) + 1]

ToWriteBack(c) == {b \in Blks(c) : c.valid[b] /\ c.dirty[b]}

LEMMA NthBlkIs ==
  ASSUME NEW c, Shape(c), WaysOK(c)
  PROVE  /\ c.nsets * c.assoc \in Nat
         /\ \A n \in 1 .. c.nsets * c.assoc : NthBlk(c, n) \in Blks(c)
         /\ \A b \in Blks(c) : \E n \in 1 .. c.nsets * c.assoc : NthBlk(c, n) = b
<1> DEFINE N == c.nsets * c.assoc
<1>1. c.nsets \in Nat \ {0} /\ c.assoc \in Nat \ {0}
  BY DEF Shape
<1>2. N \in Nat
  BY <1>1
<1>3. ASSUME NEW s \in Sets(c)
      PROVE  /\ \A i \in 1 .. c.assoc : WayList(c, s)[i] \in {s} \X Ways(c)
             /\ \A b \in {s} \X Ways(c) :
                  \E i \in 1 .. c.assoc : WayList(c, s)[i] = b
  <2>1. PICK p : WayOrder(c, s, p)
    BY DEF WaysOK
  <2>2. WayList(c, s) = p
    BY <1>1, <2>1, WaysAreLists, ChainIs DEF WayList
  <2>3. QED
    BY <2>1, <2>2 DEF WayOrder
<1>4. ASSUME NEW n \in 1 .. N
      PROVE  NthBlk(c, n) \in Blks(c)
  <2> DEFINE s == (n - 1) \div c.assoc
             i == (n - 1) % c.assoc
  <2>1. n - 1 \in Nat /\ n - 1 < N
    BY <1>2
  <2>2. s \in Nat /\ i \in 0 .. c.assoc - 1 /\ s * c.assoc + i = n - 1
    BY <1>1, <2>1, DivMod
  <2> HIDE DEF s, i
  <2>3. s < c.nsets
    <3>1. SUFFICES ASSUME c.nsets <= s PROVE FALSE
      BY <1>1, <2>2
    <3>2. N <= s * c.assoc /\ s * c.assoc \in Nat
      BY <1>1, <2>2, <3>1, ProductOrder
    <3>3. QED
      BY <1>1, <1>2, <2>1, <2>2, <3>2
  <2>4. s \in Sets(c) /\ i + 1 \in 1 .. c.assoc
    BY <1>1, <2>2, <2>3 DEF Sets
  <2>5. WayList(c, s)[i + 1] \in {s} \X Ways(c)
    BY <1>3, <2>4
  <2>6. QED
    BY <2>4, <2>5 DEF NthBlk, Blks, s, i
<1>5. ASSUME NEW b \in Blks(c)
      PROVE  \E n \in 1 .. N : NthBlk(c, n) = b
  <2>1. PICK s \in Sets(c) : b \in {s} \X Ways(c)
    BY DEF Blks
  <2>2. PICK i \in 1 .. c.assoc : WayList(c, s)[i] = b
    BY <1>3, <2>1
  <2> DEFINE n == s * c.assoc + i
  <2>3. s \in Nat /\ s + 1 \in Nat /\ s + 1 <= c.nsets /\ s * c.assoc \in Nat
    BY <1>1 DEF Sets
  <2>4. (s + 1) * c.assoc <= N
    BY <1>1, <2>3, ProductOrder
  <2>5. (s + 1) * c.assoc = s * c.assoc + c.assoc
    BY <1>1, <2>3
  <2>6. n \in 1 .. N
    BY <1>1, <1>2, <2>3, <2>4, <2>5
  <2>7. n - 1 \in Nat /\ n - 1 = s * c.assoc + (i - 1) /\ i - 1 \in 0 .. c.assoc - 1
    BY <1>1, <2>3
  <2>8. /\ (n - 1) \div c.assoc \in Nat /\ (n - 1) % c.assoc \in 0 .. c.assoc - 1
        /\ ((n - 1) \div c.assoc) * c.assoc + ((n - 1) % c.assoc) = n - 1
    BY <1>1, <2>7, DivMod
  <2> HIDE DEF n
  <2>9. (n - 1) \div c.assoc = s /\ (n - 1) % c.assoc = i - 1
    <3> DEFINE q == (n - 1) \div c.assoc
               r == (n - 1) % c.assoc
               j == i - 1
    <3>1. /\ q \in Nat /\ r \in 0 .. c.assoc - 1 /\ j \in 0 .. c.assoc - 1
          /\ q * c.assoc + r = s * c.assoc + j
      BY <2>7, <2>8
    <3> HIDE DEF q, r, j
    <3>2. q = s /\ r = j
      BY <1>1, <2>3, <3>1, DivModUnique
    <3>3. QED
      BY <3>2 DEF q, r, j
  <2>10. (i - 1) + 1 = i
    BY <1>1
  <2>11. NthBlk(c, n) = b
    BY <2>2, <2>9, <2>10 DEF NthBlk
  <2>12. QED
    BY <2>6, <2>11
<1>6. QED
  BY <1>2, <1>4, <1>5

\* A flush writes every dirty block back, and no other.
LEMMA DirtyBlksIs ==
  ASSUME NEW c, Shape(c), WaysOK(c)
  PROVE  /\ DirtyBlks(c) \in Seq(ToWriteBack(c))
         /\ \A b \in ToWriteBack(c) :
              \E i \in 1 .. Len(DirtyBlks(c)) : DirtyBlks(c)[i] = b
<1> DEFINE N == c.nsets * c.assoc
           B == ToWriteBack(c)
           Added(list, n) == IF c.valid[NthBlk(c, n)] /\ c.dirty[NthBlk(c, n)]
                               THEN Append(list, NthBlk(c, n)) ELSE list
           Is(d) == d = [n \in 0 .. N |-> IF n = 0 THEN <<>>
                                          ELSE Added(d[n - 1], n)]
           all == CHOOSE d : Is(d)
<1>1. /\ N \in Nat
      /\ \A n \in 1 .. N : NthBlk(c, n) \in Blks(c)
      /\ \A b \in Blks(c) : \E n \in 1 .. N : NthBlk(c, n) = b
  BY NthBlkIs
<1>2. DirtyBlks(c) = all[N]
  BY Zenon DEF DirtyBlks, NthBlk
<1> HIDE DEF N
<1>3. \E d : Is(d)
  <2> DEFINE Upto(n, d) == /\ DOMAIN d = 0 .. n /\ d[0] = <<>>
                           /\ \A k \in 1 .. n : d[k] = Added(d[k - 1], k)
             S == {n \in Nat : \E d : Upto(n, d)}
  <2> HIDE DEF Added
  <2>1. 0 \in S
    <3>1. Upto(0, [k \in 0 .. 0 |-> <<>>])
      OBVIOUS
    <3>2. QED
      BY <3>1
  <2>2. ASSUME NEW n \in Nat, n \in S PROVE n + 1 \in S
    <3>1. PICK d : Upto(n, d)
      BY <2>2
    <3> DEFINE e == [k \in 0 .. n + 1 |-> IF k = n + 1 THEN Added(d[n], n + 1)
                                                       ELSE d[k]]
    <3>2. DOMAIN e = 0 .. n + 1 /\ e[0] = <<>>
      BY <3>1
    <3>3. ASSUME NEW k \in 1 .. n + 1 PROVE e[k] = Added(e[k - 1], k)
      <4>1. CASE k = n + 1
        <5>1. k - 1 = n /\ n \in 0 .. n + 1 /\ n # n + 1 /\ k \in 0 .. n + 1
          BY <4>1
        <5>2. e[k] = Added(d[n], k) /\ e[k - 1] = d[n]
          BY <4>1, <5>1
        <5>3. QED
          BY <5>2
      <4>2. CASE k # n + 1
        <5>1. /\ k \in 1 .. n /\ k \in 0 .. n + 1
              /\ k - 1 \in 0 .. n + 1 /\ k - 1 # n + 1
          BY <4>2
        <5>2. e[k] = d[k] /\ e[k - 1] = d[k - 1]
          BY <4>2, <5>1
        <5>3. QED
          BY <3>1, <5>1, <5>2
      <4>3. QED
        BY <4>1, <4>2
    <3> HIDE DEF e
    <3>4. Upto(n + 1, e)
      BY <3>2, <3>3
    <3>5. QED
      BY <3>4
  <2>3. N \in S
    <3> HIDE DEF S
    <3>1. Nat \subseteq S
      BY <2>1, <2>2, Induction, Zenon
    <3>2. QED
      BY <1>1, <3>1
  <2>4. PICK d : Upto(N, d)
    BY <2>3
  <2> DEFINE e == [n \in 0 .. N |-> d[n]]
  <2>5. ASSUME NEW n \in 0 .. N
        PROVE  e[n] = IF n = 0 THEN <<>> ELSE Added(e[n - 1], n)
    <3>1. CASE n = 0
      BY <2>4, <3>1
    <3>2. CASE n # 0
      <4>1. n \in 1 .. N /\ n - 1 \in 0 .. N
        BY <1>1, <3>2
      <4>2. QED
        BY <2>4, <3>2, <4>1
    <3>3. QED
      BY <3>1, <3>2
  <2>6. e = [n \in 0 .. N |-> IF n = 0 THEN <<>> ELSE Added(e[n - 1], n)]
    <3>1. e = [n \in 0 .. N |-> e[n]]
      OBVIOUS
    <3> HIDE DEF e
    <3>2. QED
      BY <2>5, <3>1
  <2>7. QED
    BY <2>6
<1>4. Is(all)
  BY <1>3, Zenon
<1> HIDE DEF all
<1>5. /\ all[0] = <<>>
      /\ \A n \in 1 .. N : all[n] = Added(all[n - 1], n)
  <2> HIDE DEF Added
  <2>1. 0 \in 0 .. N /\ \A n \in 1 .. N : n \in 0 .. N /\ n # 0
    BY <1>1
  <2>2. QED
    BY <1>4, <2>1
<1> DEFINE Holding(n) == \A k \in 1 .. n : NthBlk(c, k) \in B =>
                           \E i \in 1 .. Len(all[n]) : all[n][i] = NthBlk(c, k)
           T == {n \in Nat : n <= N => all[n] \in Seq(B) /\ Holding(n)}
<1>6. 0 \in T
  <2>1. all[0] \in Seq(B)
    BY <1>5
  <2>2. \A k \in 1 .. 0 : FALSE
    OBVIOUS
  <2>3. Holding(0)
    BY <2>2
  <2> HIDE DEF B
  <2>4. QED
    BY <2>1, <2>3
<1>7. ASSUME NEW n \in Nat, n \in T PROVE n + 1 \in T
  <2> SUFFICES ASSUME n + 1 <= N
               PROVE  all[n + 1] \in Seq(B) /\ Holding(n + 1)
    OBVIOUS
  <2> DEFINE b == NthBlk(c, n + 1)
             old == all[n]
             new == all[n + 1]
  <2>1. n + 1 \in 1 .. N /\ (n + 1) - 1 = n
    BY <1>1
  <2>2. /\ new = Added(old, n + 1) /\ old \in Seq(B) /\ Holding(n)
        /\ b \in Blks(c)
    BY <1>1, <1>5, <1>7, <2>1
  <2>3. \A k \in 1 .. n + 1 : k = n + 1 \/ k \in 1 .. n
    OBVIOUS
  <2>4. CASE b \in B
    <3>1. new = Append(old, b)
      BY <2>2, <2>4 DEF ToWriteBack
    <3> HIDE DEF b, old, new, B, Added
    <3>2. /\ new \in Seq(B) /\ Len(new) = Len(old) + 1 /\ new[Len(old) + 1] = b
          /\ \A i \in 1 .. Len(old) : new[i] = old[i]
          /\ Len(old) \in Nat
      BY <2>2, <2>4, <3>1, AppendProperties, LenProperties
    <3>3. ASSUME NEW k \in 1 .. n + 1, NthBlk(c, k) \in B
          PROVE  \E i \in 1 .. Len(new) : new[i] = NthBlk(c, k)
      <4>1. CASE k = n + 1
        <5>1. Len(old) + 1 \in 1 .. Len(new)
          BY <3>2
        <5>2. QED
          BY <3>2, <4>1, <5>1 DEF b
      <4>2. CASE k \in 1 .. n
        <5>1. PICK i \in 1 .. Len(old) : old[i] = NthBlk(c, k)
          BY <2>2, <3>3, <4>2 DEF old
        <5>2. i \in 1 .. Len(new) /\ new[i] = NthBlk(c, k)
          BY <3>2, <5>1
        <5>3. QED
          BY <5>2
      <4>3. QED
        BY <2>3, <4>1, <4>2
    <3>4. QED
      BY <3>2, <3>3 DEF new
  <2>5. CASE b \notin B
    <3>1. new = old
      BY <2>2, <2>5 DEF ToWriteBack
    <3> HIDE DEF old, new, B, Added
    <3>2. QED
      BY <2>2, <2>3, <2>5, <3>1 DEF b, old, new
  <2>6. QED
    BY <2>4, <2>5
<1>8. all[N] \in Seq(B) /\ Holding(N)
  <2> HIDE DEF T
  <2>1. Nat \subseteq T
    BY <1>6, <1>7, Induction, Zenon
  <2>2. N \in T /\ N <= N
    BY <1>1, <2>1
  <2>3. QED
    BY <2>2 DEF T
<1>9. ASSUME NEW b \in B
      PROVE  \E i \in 1 .. Len(all[N]) : all[N][i] = b
  <2>1. b \in Blks(c)
    BY DEF ToWriteBack
  <2>2. PICK n \in 1 .. N : NthBlk(c, n) = b
    BY <1>1, <2>1
  <2>3. QED
    BY <1>8, <2>2
<1>10. QED
  BY <1>2, <1>8, <1>9

-----------------------------------------------------------------------------
(* The calls that are left to do *)

\* The innermost call is replaced by those it makes.
LEMMA Pushed ==
  ASSUME NEW S, NEW t \in Seq(S), t # <<>>, NEW new \in Seq(S)
  PROVE  LET u == new \o Tail(t)
         IN /\ u \in Seq(S) /\ Head(t) = t[1] /\ Head(t) \in S
            /\ Len(new) \in Nat /\ Len(t) \in Nat \ {0}
            /\ Len(u) = Len(new) + Len(t) - 1
            /\ \A i \in 1 .. Len(new) : u[i] = new[i]
            /\ \A i \in 2 .. Len(t) : u[Len(new) + i - 1] = t[i]
            /\ \A i \in 1 .. Len(u) :
                 \/ i \in 1 .. Len(new) /\ u[i] = new[i]
                 \/ /\ i - Len(new) + 1 \in 2 .. Len(t)
                    /\ u[i] = t[i - Len(new) + 1]
<1> DEFINE m == Len(new)
           n == Len(t)
           rest == Tail(t)
           u == new \o rest
<1>1. /\ Head(t) \in S /\ rest \in Seq(S) /\ Len(rest) = n - 1
      /\ \A i \in 1 .. Len(rest) : rest[i] = t[i + 1]
  BY HeadTailProperties
<1>2. /\ Head(t) = t[1]
      /\ m \in Nat /\ n \in Nat /\ Len(rest) \in Nat
  BY <1>1, LenProperties
<1>3. n # 0
  BY <1>1, <1>2
<1> HIDE DEF rest
<1>4. /\ u \in Seq(S) /\ Len(u) = m + Len(rest)
      /\ \A i \in 1 .. m + Len(rest) :
           u[i] = IF i <= m THEN new[i] ELSE rest[i - m]
  BY <1>1, ConcatProperties
<1> HIDE DEF u, m, n
<1>5. Len(u) = m + n - 1
  BY <1>1, <1>2, <1>4
<1>6. \A i \in 1 .. m : u[i] = new[i]
  BY <1>2, <1>4
<1>7. ASSUME NEW i \in 2 .. n PROVE u[m + i - 1] = t[i]
  <2>1. /\ m + i - 1 \in 1 .. m + Len(rest) /\ ~(m + i - 1 <= m)
        /\ (m + i - 1) - m = i - 1 /\ i - 1 \in 1 .. Len(rest)
        /\ (i - 1) + 1 = i
    BY <1>1, <1>2
  <2>2. u[m + i - 1] = rest[i - 1] /\ rest[i - 1] = t[i]
    BY <1>1, <1>4, <2>1
  <2>3. QED
    BY <2>2
<1>8. ASSUME NEW i \in 1 .. Len(u)
      PROVE  \/ i \in 1 .. m /\ u[i] = new[i]
             \/ i - m + 1 \in 2 .. n /\ u[i] = t[i - m + 1]
  <2>1. CASE i <= m
    <3>1. i \in 1 .. m
      BY <1>2, <1>3, <1>5, <2>1
    <3>2. QED
      BY <1>6, <3>1
  <2>2. CASE ~(i <= m)
    <3>1. i - m + 1 \in 2 .. n /\ m + (i - m + 1) - 1 = i
      BY <1>2, <1>3, <1>5, <2>2
    <3>2. QED
      BY <1>7, <3>1
  <2>3. QED
    BY <2>1, <2>2
<1>9. QED
  BY <1>1, <1>2, <1>3, <1>4, <1>5, <1>6, <1>7, <1>8 DEF m, n, u, rest

LEMMA ConcatCalls ==
  ASSUME NEW S, NEW s \in Seq(S), NEW t \in Seq(S)
  PROVE  s \o t \in Seq(S)
BY ConcatProperties

-----------------------------------------------------------------------------
(* The prefetchers *)

Addresses == 0 .. ADDR_SPACE - 1

RPTEntries == [tag : Nat, prev_addr : Nat, stride : Int, state : RPTState]

PLTEntries ==
  [pc : Nat, stride : Int, confidence : 0 .. 7, history_idx : Nat,
   addr_history : [0 .. HISTORY_BITS - 1 -> Nat]]

RPTOK(t) == t = <<>> \/ \E k \in Nat \ {0} : t \in [0 .. k - 1 -> RPTEntries]
PLTOK(t) == t \in [0 .. TABLE_SIZE - 1 -> PLTEntries]

\* Wherever an address leads, it wraps around into the machine.
LEMMA LineAtIs ==
  ASSUME NEW c, Shape(c), NEW a \in Int
  PROVE  LineAt(c, a) \in Addresses
<1>1. ADDR_SPACE \in Nat \ {0}
  BY PrefetchAssumption
<1>2. a % ADDR_SPACE \in 0 .. ADDR_SPACE - 1
  BY <1>1
<1> DEFINE w == a % ADDR_SPACE
<1>3. w \in Nat /\ w <= ADDR_SPACE - 1
  BY <1>1, <1>2
<1> HIDE DEF w
<1>4. CACHE_BADDR(c, w) \in Nat /\ CACHE_BADDR(c, w) <= w
  BY <1>3, AddressParts
<1>5. CACHE_BADDR(c, w) \in Addresses
  BY <1>1, <1>3, <1>4 DEF Addresses
<1>6. QED
  BY <1>5 DEF LineAt, w

LEMMA StrideTrained ==
  ASSUME NEW e \in RPTEntries, NEW pc \in Nat, NEW addr \in Nat
  PROVE  stride_train(e, pc, addr) \in RPTEntries
<1>1. e.prev_addr \in Nat /\ e.stride \in Int /\ e.state \in RPTState
  BY DEF RPTEntries
<1>2. Confirmed(e.state) \in RPTState /\ Refuted(e.state) \in RPTState
  BY <1>1 DEF Confirmed, Refuted, RPTState
<1>a. e = [tag |-> e.tag, prev_addr |-> e.prev_addr, stride |-> e.stride,
           state |-> e.state] /\ e.tag \in Nat
  BY DEF RPTEntries
<1>3. CASE e.tag # pc
  <2>1. stride_train(e, pc, addr) =
          [tag |-> pc, prev_addr |-> addr, stride |-> 0, state |-> "INIT"]
    BY <1>3 DEF stride_train, NewRPTEntry
  <2>2. QED
    BY <2>1 DEF RPTEntries, RPTState
<1>4. CASE e.tag = pc /\ addr - e.prev_addr = e.stride
  BY <1>1, <1>2, <1>4 DEF stride_train, RPTEntries
<1>5. CASE e.tag = pc /\ addr - e.prev_addr # e.stride
  <2> DEFINE stride == IF e.state = "STEADY" THEN e.stride
                       ELSE addr - e.prev_addr
  <2>1. stride_train(e, pc, addr) =
          [tag |-> e.tag, prev_addr |-> addr, stride |-> stride,
           state |-> Refuted(e.state)]
    BY <1>a, <1>5 DEF stride_train
  <2>2. stride \in Int
    BY <1>1
  <2> HIDE DEF stride
  <2>3. QED
    BY <1>2, <1>a, <2>1, <2>2 DEF RPTEntries
<1>6. QED
  BY <1>3, <1>4, <1>5

LEMMA StrideTargets ==
  ASSUME NEW c, Shape(c), NEW e \in RPTEntries, NEW pc \in Nat, NEW addr \in Nat
  PROVE  stride_targets(c, e, pc, addr) \in Seq(Addresses)
<1> DEFINE stride == stride_train(e, pc, addr).stride
           line == LineAt(c, addr + stride)
<1>1. stride \in Int
  BY StrideTrained DEF RPTEntries
<1> HIDE DEF stride
<1>2. addr + stride \in Int
  BY <1>1
<1>3. line \in Addresses
  BY <1>2, LineAtIs
<1> HIDE DEF line
<1>4. <<>> \in Seq(Addresses) /\ <<line>> \in Seq(Addresses)
  BY <1>3
<1>5. QED
  BY <1>4 DEF stride_targets, line, stride

LEMMA OpenEndedTrained ==
  ASSUME NEW e \in PLTEntries, NEW pc \in Nat, NEW addr \in Nat
  PROVE  open_ended_train(e, pc, addr) \in PLTEntries
<1> DEFINE H == HISTORY_BITS
           Recent(n) == e.addr_history[(e.history_idx - n + H) % H]
           detected == detect_stride(e, addr)
<1>1. H \in Nat /\ H >= 2
  BY PrefetchAssumption
<1>2. /\ e.stride \in Int /\ e.confidence \in 0 .. 7 /\ e.history_idx \in Nat
      /\ e.addr_history \in [0 .. H - 1 -> Nat]
      /\ e = [pc |-> e.pc, stride |-> e.stride, confidence |-> e.confidence,
              history_idx |-> e.history_idx, addr_history |-> e.addr_history]
  BY DEF PLTEntries
<1> HIDE DEF H
<1>3. \A n \in 1 .. 2 : (e.history_idx - n + H) % H \in 0 .. H - 1
  BY <1>1, <1>2
<1>4. Recent(1) \in Nat /\ Recent(2) \in Nat
  <2>1. 1 \in 1 .. 2 /\ 2 \in 1 .. 2
    OBVIOUS
  <2>2. \A i \in 0 .. H - 1 : e.addr_history[i] \in Nat
    BY <1>2
  <2>3. QED
    BY <1>3, <2>1, <2>2
<1>5. detected \in Int
  BY <1>4 DEF detect_stride, H
<1>6. e.history_idx % H \in 0 .. H - 1 /\ 0 \in 0 .. H - 1
  BY <1>1, <1>2
<1>7. NextHistoryIdx(e.history_idx) \in Nat
  BY <1>1, <1>2 DEF NextHistoryIdx, H
<1> HIDE DEF detected
<1>8. NextConfidence(e, detected) \in 0 .. 7
  <2>1. PICK k \in 0 .. 7 : k = e.confidence
    BY <1>2
  <2>2. k < 7 => k + 1 \in 0 .. 7
    OBVIOUS
  <2>3. (k > 0 => k - 1 \in 0 .. 7) /\ (k > 1 => k - 1 \in 0 .. 7)
    OBVIOUS
  <2>4. QED
    BY <2>1, <2>2, <2>3 DEF NextConfidence
<1>9. CASE e.pc # pc
  <2> DEFINE ring == [e.addr_history EXCEPT ![0] = addr]
  <2>1. ring \in [0 .. H - 1 -> Nat]
    BY <1>2, <1>6
  <2>2. open_ended_train(e, pc, addr) =
          [pc |-> pc, stride |-> 0, confidence |-> 0, history_idx |-> 1,
           addr_history |-> ring]
    BY <1>2, <1>9 DEF open_ended_train
  <2> HIDE DEF ring
  <2>3. QED
    BY <2>1, <2>2 DEF PLTEntries, H
<1>10. CASE e.pc = pc
  <2> DEFINE ring == [e.addr_history EXCEPT ![e.history_idx % H] = addr]
             stride == IF detected # 0 THEN detected ELSE e.stride
  <2>1. ring \in [0 .. H - 1 -> Nat] /\ stride \in Int
    BY <1>2, <1>5, <1>6
  <2>2. open_ended_train(e, pc, addr) =
          [pc |-> pc, stride |-> stride,
           confidence |-> NextConfidence(e, detected),
           history_idx |-> NextHistoryIdx(e.history_idx),
           addr_history |-> ring]
    BY <1>2, <1>10 DEF open_ended_train, detected, H
  <2> HIDE DEF ring, stride
  <2>3. QED
    BY <1>7, <1>8, <2>1, <2>2 DEF PLTEntries, H
<1>11. QED
  BY <1>9, <1>10

LEMMA OpenEndedTargets ==
  ASSUME NEW c, Shape(c), NEW e \in PLTEntries, NEW pc \in Nat, NEW addr \in Nat
  PROVE  open_ended_targets(c, e, pc, addr) \in Seq(Addresses)
<1> DEFINE f == open_ended_train(e, pc, addr)
           stride == IF Abs(f.stride) >= c.bsize THEN f.stride
                     ELSE IF f.stride > 0 THEN c.bsize ELSE -c.bsize
           degree == calculate_degree(f.confidence)
           lines == [i \in 1 .. degree |-> LineAt(c, addr + i * stride)]
<1>1. f.stride \in Int /\ f.confidence \in 0 .. 7 /\ c.bsize \in Nat
  BY OpenEndedTrained DEF PLTEntries, Shape
<1> HIDE DEF f
<1>2. stride \in Int
  BY <1>1
<1>3. degree \in Nat
  BY <1>1 DEF calculate_degree, THETA
<1> HIDE DEF stride, degree
<1>4. \A i \in 1 .. degree : LineAt(c, addr + i * stride) \in Addresses
  <2> TAKE i \in 1 .. degree
  <2>1. addr + i * stride \in Int
    BY <1>2, <1>3
  <2>2. QED
    BY <2>1, LineAtIs
<1>5. lines \in Seq(Addresses)
  <2>1. lines \in [1 .. degree -> Addresses]
    BY <1>4
  <2>2. QED
    BY <1>3, <2>1, SeqDef
<1>6. <<>> \in Seq(Addresses)
  OBVIOUS
<1> HIDE DEF lines
<1>7. \/ open_ended_targets(c, e, pc, addr) = lines
      \/ open_ended_targets(c, e, pc, addr) = <<>>
  BY Zenon DEF open_ended_targets, lines, degree, stride, f
<1>8. QED
  BY <1>5, <1>6, <1>7

-----------------------------------------------------------------------------
(* What holds of the hierarchy between any two calls *)

CachesOK ==
  /\ "dl1" \in Caches /\ Caches \subseteq {"il1", "dl1", "dl2"}
  /\ \A n \in Caches : CacheOK(cp[n])

HierarchyInv ==
  /\ CachesOK
  /\ todo \in Seq(Calls)
  /\ RPTOK(RPT) /\ PLTOK(PLT)
  /\ PC \in Pcs \cup {0}
  /\ lastStore \in [DataAddrs -> {"memory"} \cup Caches]

\* A step changes what caches hold, never their sizes.
SizesKept == Caches' = Caches /\ \A n \in Caches : SameSizes(cp[n], cp'[n])

LEMMA CallsKept ==
  ASSUME SizesKept
  PROVE  Calls' = Calls
<1>1. /\ Caches' = Caches
      /\ \A n \in Caches : Blks(cp'[n]) = Blks(cp[n])
  BY SameOperators DEF SizesKept
<1>2. UNION {Blks(cp'[n]) : n \in Caches} = UNION {Blks(cp[n]) : n \in Caches}
  BY <1>1
<1>3. QED
  BY <1>1, <1>2 DEF Calls

LEMMA CacheChanged ==
  ASSUME CachesOK, NEW n \in Caches, NEW r, CacheOK(r), SameSizes(cp[n], r),
         cp' = [cp EXCEPT ![n] = r]
  PROVE  /\ CachesOK' /\ SizesKept
         /\ cp'[n] = r /\ \A m \in Caches : m # n => cp'[m] = cp[m]
<1>1. Caches' = Caches
  BY DEF Caches
<1>2. cp'[n] = r /\ \A m \in Caches : m # n => cp'[m] = cp[m]
  BY DEF Caches
<1>3. \A m : SameSizes(m, m)
  BY DEF SameSizes
<1>4. SizesKept
  BY <1>1, <1>2, <1>3 DEF SizesKept
<1>5. \A m \in Caches' : CacheOK(cp'[m])
  BY <1>1, <1>2 DEF CachesOK
<1>6. CachesOK'
  BY <1>1, <1>5 DEF CachesOK
<1>7. QED
  BY <1>2, <1>4, <1>6

LEMMA CachesUnchanged ==
  ASSUME CachesOK, cp' = cp
  PROVE  CachesOK' /\ SizesKept
BY DEF CachesOK, SizesKept, SameSizes, Caches

LEMMA CallKinds ==
  /\ \A n \in {"memory"} \cup Caches, cmd \in {Reads, Writes}, a \in Addresses,
        p \in BOOLEAN : Access(n, cmd, a, p) \in Calls
  /\ \A op \in {"generate", "prefetch", "flush", "syscall"}, n \in Caches,
        a \in Addresses : Then(op, n, a) \in Calls
  /\ \A n \in Caches : \A a \in Addresses, b \in Blks(cp[n]) :
        Return(n, a, b) \in Calls
BY DEF Calls, Access, Then, Return, Addresses

LEMMA CallIs ==
  ASSUME NEW call \in Calls
  PROVE  /\ call.addr \in Addresses
         /\ call.op \in {"access", "generate", "prefetch", "flush", "syscall",
                         "return"}
         /\ call.op = "access" => /\ call.cache \in {"memory"} \cup Caches
                                  /\ call.cmd \in {Reads, Writes}
                                  /\ call.prefetch \in BOOLEAN
         /\ call.op # "access" => call.cache \in Caches
BY DEF Calls, Addresses

LEMMA AddressIsNat ==
  /\ ADDR_SPACE \in Nat \ {0} /\ 0 \in Addresses
  /\ \A a \in Addresses : a \in Nat
  /\ Pcs \cup DataAddrs \cup FlushAddrs \subseteq Addresses
BY PrefetchAssumption, ProgramAssumption DEF Addresses

\* The cache that a miss or a write-back goes to.
LEMMA LowerIs ==
  ASSUME CachesOK, NEW n
  PROVE  /\ Lower(n) \in {"memory"} \cup Caches
         /\ Lower(n) \in {"dl2", "memory"}
         /\ n # "memory" => Lower(n) # n
BY DEF Lower

LEMMA BlockIsTyped ==
  ASSUME NEW c, CacheOK(c)
  PROVE  /\ \A b \in Blks(c) : c.valid[b] => BlkAddr(c, b) \in Addresses
         /\ \A a \in Addresses : CACHE_BADDR(c, a) \in Addresses
<1>1. Shape(c) /\ InRange(c)
  BY DEF CacheOK, CacheBut
<1>2. \A b \in Blks(c) : c.valid[b] => BlkAddr(c, b) \in Addresses
  BY <1>1 DEF InRange, Addresses
<1>3. ASSUME NEW a \in Addresses PROVE CACHE_BADDR(c, a) \in Addresses
  <2>1. a \in Nat
    BY AddressIsNat
  <2>2. CACHE_BADDR(c, a) \in Nat /\ CACHE_BADDR(c, a) <= a
    BY <1>1, <2>1, AddressParts
  <2>3. QED
    BY <2>2, AddressIsNat DEF Addresses
<1>4. QED
  BY <1>2, <1>3

-----------------------------------------------------------------------------
(* Each call keeps the caches sound and makes calls of the right kind *)

\* The first call is replaced by others.
Replaces(new) == new \in Seq(Calls) /\ todo' = new \o Tail(todo)

LEMMA OneCall ==
  ASSUME NEW call \in Calls
  PROVE  <<call>> \in Seq(Calls)
OBVIOUS

LEMMA NoCall == <<>> \in Seq(Calls)
OBVIOUS

\* What is known of the cache and the access when an access is first.
LEMMA AccessIs ==
  ASSUME HierarchyInv, Accessing
  PROVE  /\ todo \in Seq(Calls) /\ todo # <<>> /\ Call \in Calls
         /\ Call.cache \in Caches /\ CacheOK(Cache) /\ Call.op = "access"
         /\ Call.addr \in Addresses /\ Call.addr \in Nat
         /\ Call.cmd \in {Reads, Writes} /\ Call.prefetch \in BOOLEAN
         /\ AfterAccess \in Seq(Calls)
<1>1. /\ todo \in Seq(Calls) /\ todo # <<>> /\ Call.op = "access"
      /\ Call.cache \in Caches
  BY DEF HierarchyInv, Accessing, Calling
<1>2. Call \in Calls
  BY <1>1, HeadTailProperties DEF Call
<1>3. /\ Call.addr \in Addresses /\ Call.cmd \in {Reads, Writes}
      /\ Call.prefetch \in BOOLEAN
  BY <1>1, <1>2, CallIs
<1>4. Then("generate", Call.cache, Call.addr) \in Calls
  BY <1>1, <1>3, CallKinds
<1>5. AfterAccess \in Seq(Calls)
  BY <1>4, OneCall, NoCall DEF AfterAccess
<1>6. CacheOK(Cache)
  BY <1>1 DEF Cache, HierarchyInv, CachesOK
<1>7. QED
  BY <1>1, <1>2, <1>3, <1>5, <1>6, AddressIsNat

LEMMA FastHitCalls ==
  ASSUME HierarchyInv, AccessFastHit
  PROVE  /\ CachesOK' /\ SizesKept
         /\ Replaces(AfterAccess \o <<Return(Call.cache, Call.addr,
                                             Cache.last_blk)>>)
         /\ cp'[Call.cache] = QuickHit(Cache, Call.cmd, Call.addr)
         /\ \A m \in Caches : m # Call.cache => cp'[m] = cp[m]
<1> DEFINE r == QuickHit(Cache, Call.cmd, Call.addr)
           return == Return(Call.cache, Call.addr, Cache.last_blk)
<1>1. /\ Accessing /\ FastHit(Cache, Call.addr) /\ Cache.last_blk # NULL
      /\ cp' = [cp EXCEPT ![Call.cache] = r]
      /\ todo' = (AfterAccess \o <<return>>) \o Tail(todo)
  BY DEF AccessFastHit, Cache
<1>2. CacheOK(r) /\ SameSizes(Cache, r) /\ Cache.last_blk \in Blks(Cache)
  BY <1>1, AccessIs, QuickHitKeeps
<1>3. return \in Calls
  BY <1>1, <1>2, AccessIs, CallKinds DEF Cache
<1> HIDE DEF r, return
<1>4. AfterAccess \o <<return>> \in Seq(Calls)
  BY <1>1, <1>3, AccessIs, OneCall, ConcatCalls
<1>5. /\ CachesOK' /\ SizesKept /\ cp'[Call.cache] = r
      /\ \A m \in Caches : m # Call.cache => cp'[m] = cp[m]
  BY <1>1, <1>2, AccessIs, CacheChanged DEF HierarchyInv, Cache
<1>6. QED
  BY <1>1, <1>4, <1>5 DEF Replaces, r, return

LEMMA HitCalls ==
  ASSUME HierarchyInv, AccessHit
  PROVE  LET blk == Lookup(Cache, Call.addr)
         IN /\ CachesOK' /\ SizesKept
            /\ Replaces(AfterAccess \o <<Return(Call.cache, Call.addr, blk)>>)
            /\ cp'[Call.cache] = SlowHit(Cache, Call.cmd, Call.addr, blk)
            /\ \A m \in Caches : m # Call.cache => cp'[m] = cp[m]
            /\ blk \in Blks(Cache) /\ Holds(Cache, blk, Call.addr)
            /\ blk[1] = CACHE_SET(Cache, Call.addr)
<1> DEFINE blk == Lookup(Cache, Call.addr)
           r == SlowHit(Cache, Call.cmd, Call.addr, blk)
           return == Return(Call.cache, Call.addr, blk)
<1>1. /\ Accessing /\ blk # NULL
      /\ cp' = [cp EXCEPT ![Call.cache] = r]
      /\ todo' = (AfterAccess \o <<return>>) \o Tail(todo)
  BY DEF AccessHit, Cache
<1> HIDE DEF blk
<1>2. /\ CACHE_SET(Cache, Call.addr) \in Sets(Cache)
      /\ blk \in {CACHE_SET(Cache, Call.addr)} \X Ways(Cache)
      /\ Holds(Cache, blk, Call.addr)
  BY <1>1, AccessIs, LookupIs DEF blk
<1>3. blk \in Blks(Cache) /\ blk[1] = CACHE_SET(Cache, Call.addr)
  BY <1>2 DEF Blks
<1>4. CacheOK(r) /\ SameSizes(Cache, r)
  BY <1>1, <1>2, <1>3, AccessIs, SlowHitKeeps
<1>5. return \in Calls
  BY <1>1, <1>3, AccessIs, CallKinds DEF Cache
<1> HIDE DEF r, return
<1>6. AfterAccess \o <<return>> \in Seq(Calls)
  BY <1>1, <1>5, AccessIs, OneCall, ConcatCalls
<1>7. /\ CachesOK' /\ SizesKept /\ cp'[Call.cache] = r
      /\ \A m \in Caches : m # Call.cache => cp'[m] = cp[m]
  BY <1>1, <1>4, AccessIs, CacheChanged DEF HierarchyInv, Cache
<1>8. QED
  BY <1>1, <1>2, <1>3, <1>6, <1>7 DEF Replaces, r, return, blk

MissReplaces(repl) ==
  /\ repl \in Replaceable(Cache, CACHE_SET(Cache, Call.addr))
  /\ cp' = [cp EXCEPT ![Call.cache] = Miss(@, Call.cmd, Call.addr, repl)]
  /\ todo' = WriteBack(repl)
               \o <<Access(Lower(Call.cache), Reads,
                           CACHE_BADDR(Cache, Call.addr), Call.prefetch)>>
               \o AfterAccess \o Tail(todo)

LEMMA WriteBackIs ==
  ASSUME HierarchyInv, Accessing, NEW b \in Blks(Cache)
  PROVE  WriteBack(b) \in Seq(Calls)
<1>1. CASE Cache.valid[b] /\ Cache.dirty[b]
  <2> DEFINE a == BlkAddr(Cache, b)
             call == Access(Lower(Call.cache), Writes, a, FALSE)
  <2>1. a \in Addresses
    BY <1>1, AccessIs, BlockIsTyped
  <2>2. Lower(Call.cache) \in {"memory"} \cup Caches
    BY LowerIs DEF HierarchyInv
  <2>3. call \in Calls
    BY <2>1, <2>2, CallKinds
  <2> HIDE DEF call
  <2>4. QED
    BY <1>1, <2>3, OneCall DEF WriteBack, call
<1>2. CASE ~(Cache.valid[b] /\ Cache.dirty[b])
  BY <1>2, NoCall DEF WriteBack
<1>3. QED
  BY <1>1, <1>2

LEMMA MissCalls ==
  ASSUME HierarchyInv, AccessMiss, NEW repl, MissReplaces(repl)
  PROVE  LET set == CACHE_SET(Cache, Call.addr)
         IN /\ CachesOK' /\ SizesKept
            /\ Replaces(WriteBack(repl)
                          \o <<Access(Lower(Call.cache), Reads,
                                      CACHE_BADDR(Cache, Call.addr),
                                      Call.prefetch)>>
                          \o AfterAccess)
            /\ set \in Sets(Cache) /\ repl \in {set} \X Ways(Cache)
            /\ IsFilled(Cache, cp'[Call.cache], Call.cmd, Call.addr, repl)
            /\ \A m \in Caches : m # Call.cache => cp'[m] = cp[m]
<1> DEFINE set == CACHE_SET(Cache, Call.addr)
           r == Miss(Cache, Call.cmd, Call.addr, repl)
           read == Access(Lower(Call.cache), Reads,
                          CACHE_BADDR(Cache, Call.addr), Call.prefetch)
<1>1. /\ Accessing /\ Lookup(Cache, Call.addr) = NULL
      /\ repl \in Replaceable(Cache, set)
      /\ cp' = [cp EXCEPT ![Call.cache] = r]
      /\ todo' = ((WriteBack(repl) \o <<read>>) \o AfterAccess) \o Tail(todo)
  BY DEF AccessMiss, MissReplaces, Cache
<1>2. set \in Sets(Cache)
  BY <1>1, AccessIs, LookupIs
<1>3. repl \in {set} \X Ways(Cache)
  BY <1>1, <1>2, AccessIs, ReplaceableIs
<1>4. repl \in Blks(Cache)
  BY <1>2, <1>3 DEF Blks
<1>5. Call.addr \in 0 .. ADDR_SPACE - 1
  BY <1>1, AccessIs DEF Addresses
<1>6. CacheOK(r) /\ IsFilled(Cache, r, Call.cmd, Call.addr, repl)
  BY <1>1, <1>3, <1>5, AccessIs, MissKeeps
<1>7. read \in Calls
  <2>1. CACHE_BADDR(Cache, Call.addr) \in Addresses
    BY <1>1, AccessIs, BlockIsTyped
  <2>2. Lower(Call.cache) \in {"memory"} \cup Caches
    BY LowerIs DEF HierarchyInv
  <2>3. QED
    BY <1>1, <2>1, <2>2, AccessIs, CallKinds
<1>8. WriteBack(repl) \in Seq(Calls)
  BY <1>1, <1>4, WriteBackIs
<1> HIDE DEF r, read
<1>9. (WriteBack(repl) \o <<read>>) \o AfterAccess \in Seq(Calls)
  BY <1>1, <1>7, <1>8, AccessIs, OneCall, ConcatCalls
<1>10. SameSizes(Cache, r)
  BY <1>6 DEF IsFilled
<1>11. /\ CachesOK' /\ SizesKept /\ cp'[Call.cache] = r
       /\ \A m \in Caches : m # Call.cache => cp'[m] = cp[m]
  BY <1>1, <1>6, <1>10, AccessIs, CacheChanged DEF HierarchyInv, Cache
<1>12. QED
  BY <1>1, <1>2, <1>3, <1>6, <1>9, <1>11 DEF Replaces, read

\* A call that is first and is no access.
LEMMA OtherIs ==
  ASSUME HierarchyInv, NEW op, Calling(op),
         op \in {"generate", "prefetch", "flush", "syscall", "return"}
  PROVE  /\ todo \in Seq(Calls) /\ todo # <<>> /\ Call \in Calls
         /\ Call.cache \in Caches /\ CacheOK(Cache) /\ Shape(Cache)
         /\ Call.addr \in Addresses /\ Call.addr \in Nat
<1>1. todo \in Seq(Calls) /\ todo # <<>> /\ Call.op = op
  BY DEF HierarchyInv, Calling
<1>2. Call \in Calls
  BY <1>1, HeadTailProperties DEF Call
<1>3. Call.addr \in Addresses /\ Call.cache \in Caches
  BY <1>1, <1>2, CallIs
<1>4. CacheOK(Cache)
  BY <1>3 DEF Cache, HierarchyInv, CachesOK
<1>5. QED
  BY <1>1, <1>2, <1>3, <1>4, AddressIsNat DEF CacheOK, CacheBut

LEMMA PrefetchCallsAre ==
  ASSUME HierarchyInv, Calling("generate"), NEW targets \in Seq(Addresses)
  PROVE  PrefetchCalls(targets) \in Seq(Calls)
<1>1. Call.cache \in Caches
  BY OtherIs
<1>2. Len(targets) \in Nat /\ \A i \in 1 .. Len(targets) : targets[i] \in Addresses
  OBVIOUS
<1>3. \A i \in 1 .. Len(targets) :
        Then("prefetch", Call.cache, targets[i]) \in Calls
  BY <1>1, <1>2, CallKinds
<1>4. PrefetchCalls(targets) \in [1 .. Len(targets) -> Calls]
  BY <1>3 DEF PrefetchCalls
<1>5. QED
  BY <1>2, <1>4, SeqDef

LEMMA PCIsNat ==
  ASSUME HierarchyInv
  PROVE  PC \in Nat
BY AddressIsNat DEF HierarchyInv

\* Whatever is generated, the tables keep their entries and the calls are
\* prefetches of addresses of the machine.
LEMMA GenerateCalls ==
  ASSUME HierarchyInv,
         GenerateNone \/ GenerateNextLine \/ GenerateOpenEnded \/ GenerateStride
  PROVE  /\ cp' = cp /\ lastStore' = lastStore /\ PC' = PC
         /\ RPTOK(RPT') /\ PLTOK(PLT')
         /\ Calling("generate")
         /\ \E targets \in Seq(Addresses) : Replaces(PrefetchCalls(targets))
<1>1. /\ Calling("generate") /\ RPTOK(RPT) /\ PLTOK(PLT)
  BY DEF HierarchyInv, GenerateNone, GenerateNextLine, GenerateOpenEnded,
         GenerateStride
<1>2. Shape(Cache) /\ Call.addr \in Nat /\ PC \in Nat /\ todo \in Seq(Calls)
      /\ todo # <<>>
  BY <1>1, OtherIs, PCIsNat
<1>3. CASE GenerateNone
  <2> DEFINE none == <<>>
  <2>1. none \in Seq(Addresses)
    OBVIOUS
  <2>2. PrefetchCalls(none) = <<>>
    BY DEF PrefetchCalls
  <2>3. Tail(todo) \in Seq(Calls)
    BY <1>2, HeadTailProperties
  <2>4. todo' = PrefetchCalls(none) \o Tail(todo)
    BY <1>3, <2>2, <2>3, ConcatEmptySeq DEF GenerateNone
  <2> HIDE DEF none
  <2>5. Replaces(PrefetchCalls(none))
    BY <1>1, <2>1, <2>4, PrefetchCallsAre DEF Replaces
  <2>6. QED
    BY <1>1, <1>3, <2>1, <2>5 DEF GenerateNone, tableVars
<1>4. CASE GenerateNextLine
  <2> DEFINE targets == next_line(Cache, Call.addr)
  <2>1. Call.addr + Cache.bsize \in Int
    BY <1>2 DEF Shape
  <2>2. LineAt(Cache, Call.addr + Cache.bsize) \in Addresses
    BY <1>2, <2>1, LineAtIs
  <2>3. targets \in Seq(Addresses)
    BY <2>2 DEF next_line
  <2>4. todo' = PrefetchCalls(targets) \o Tail(todo)
    BY <1>4 DEF GenerateNextLine
  <2> HIDE DEF targets
  <2>5. Replaces(PrefetchCalls(targets))
    BY <1>1, <2>3, <2>4, PrefetchCallsAre DEF Replaces
  <2>6. QED
    BY <1>1, <1>4, <2>3, <2>5 DEF GenerateNextLine, tableVars
<1>5. CASE GenerateOpenEnded
  <2> DEFINE i == PLTIndex(PC)
             targets == open_ended_targets(Cache, PLT[i], PC, Call.addr)
             trained == open_ended_train(PLT[i], PC, Call.addr)
  <2>1. i \in 0 .. TABLE_SIZE - 1
    BY <1>2, PrefetchAssumption DEF PLTIndex
  <2>2. PLT[i] \in PLTEntries
    BY <1>1, <2>1 DEF PLTOK
  <2>3. targets \in Seq(Addresses) /\ trained \in PLTEntries
    BY <1>2, <2>2, OpenEndedTargets, OpenEndedTrained
  <2>4. /\ todo' = PrefetchCalls(targets) \o Tail(todo)
        /\ PLT' = [PLT EXCEPT ![i] = trained]
    BY <1>5 DEF GenerateOpenEnded
  <2> HIDE DEF targets, trained, i
  <2>5. PLTOK(PLT')
    BY <1>1, <2>1, <2>3, <2>4 DEF PLTOK
  <2>6. Replaces(PrefetchCalls(targets))
    BY <1>1, <2>3, <2>4, PrefetchCallsAre DEF Replaces
  <2>7. QED
    BY <1>1, <1>5, <2>3, <2>5, <2>6 DEF GenerateOpenEnded
<1>6. CASE GenerateStride
  <2> DEFINE table == IF RPT = <<>> THEN NewRPT(Cache.prefetch_type) ELSE RPT
             i == RPTIndex(table, PC)
             targets == stride_targets(Cache, table[i], PC, Call.addr)
             trained == stride_train(table[i], PC, Call.addr)
  <2>1. PICK k \in Nat \ {0} : table \in [0 .. k - 1 -> RPTEntries]
    <3>1. CASE RPT = <<>>
      <4>1. Cache.prefetch_type \in Nat \ {0}
        BY <1>2, <1>6 DEF Shape, GenerateStride
      <4>2. NewRPTEntry \in RPTEntries
        BY DEF NewRPTEntry, RPTEntries, RPTState
      <4>3. NewRPT(Cache.prefetch_type) \in
              [0 .. Cache.prefetch_type - 1 -> RPTEntries]
        BY <4>2 DEF NewRPT
      <4>4. QED
        BY <3>1, <4>1, <4>3
    <3>2. CASE RPT # <<>>
      BY <1>1, <3>2 DEF RPTOK
    <3>3. QED
      BY <3>1, <3>2
  <2> HIDE DEF table
  <2>2. i \in 0 .. k - 1
    <3>1. 0 \in Int /\ k - 1 \in Int /\ ~(0 > k - 1)
      OBVIOUS
    <3>2. Cardinality(0 .. k - 1) = (k - 1) - 0 + 1
      BY <3>1, FS_Interval
    <3>3. Cardinality(DOMAIN table) = k
      BY <2>1, <3>2
    <3>4. QED
      BY <1>2, <3>3 DEF RPTIndex
  <2>3. table[i] \in RPTEntries
    BY <2>1, <2>2
  <2>4. targets \in Seq(Addresses) /\ trained \in RPTEntries
    BY <1>2, <2>3, StrideTargets, StrideTrained
  <2>5. /\ todo' = PrefetchCalls(targets) \o Tail(todo)
        /\ RPT' = [table EXCEPT ![i] = trained]
    BY <1>6 DEF GenerateStride, table
  <2> HIDE DEF targets, trained, i
  <2>6. RPT' \in [0 .. k - 1 -> RPTEntries]
    BY <2>1, <2>2, <2>4, <2>5
  <2>7. RPTOK(RPT')
    BY <2>6 DEF RPTOK
  <2>8. Replaces(PrefetchCalls(targets))
    BY <1>1, <2>4, <2>5, PrefetchCallsAre DEF Replaces
  <2>9. QED
    BY <1>1, <1>6, <2>4, <2>7, <2>8 DEF GenerateStride
<1>7. QED
  BY <1>3, <1>4, <1>5, <1>6

LEMMA MemoryCalls ==
  ASSUME HierarchyInv, AccessMemory
  PROVE  /\ Replaces(<<>>) /\ Call \in Calls /\ Call.op = "access"
         /\ Call.cache = "memory" /\ Call.cmd \in {Reads, Writes}
         /\ todo \in Seq(Calls) /\ todo # <<>>
<1>1. /\ todo \in Seq(Calls) /\ todo # <<>> /\ Call.op = "access"
      /\ Call.cache = "memory" /\ todo' = Tail(todo)
  BY DEF HierarchyInv, AccessMemory, Calling
<1>2. Tail(todo) \in Seq(Calls) /\ Call \in Calls
  BY <1>1, HeadTailProperties DEF Call
<1>3. <<>> \o Tail(todo) = Tail(todo)
  BY <1>2, ConcatEmptySeq
<1>4. QED
  BY <1>1, <1>2, <1>3, CallIs, NoCall DEF Replaces

LEMMA PrefetchMakes ==
  ASSUME HierarchyInv, Prefetch
  PROVE  Replaces(IF Wanted(Call.addr)
                    THEN <<Access(Call.cache, Reads, Call.addr, TRUE)>>
                    ELSE <<>>)
<1> DEFINE call == Access(Call.cache, Reads, Call.addr, TRUE)
<1>1. Calling("prefetch")
  BY DEF Prefetch
<1>2. call \in Calls
  BY <1>1, OtherIs, CallKinds
<1> HIDE DEF call
<1>3. /\ todo' = (IF Wanted(Call.addr) THEN <<call>> ELSE <<>>) \o Tail(todo)
  BY Zenon DEF Prefetch, call
<1>4. (IF Wanted(Call.addr) THEN <<call>> ELSE <<>>) \in Seq(Calls)
  BY <1>2, OneCall, NoCall
<1>5. QED
  BY <1>3, <1>4, Zenon DEF Replaces, call

\* The calls that write back what a flush finds dirty.
FlushWrites ==
  [i \in 1 .. Len(DirtyBlks(Cache)) |->
     Access(Lower(Call.cache), Writes, BlkAddr(Cache, DirtyBlks(Cache)[i]), FALSE)]

LEMMA FlushMakes ==
  ASSUME HierarchyInv, Flush
  PROVE  /\ CachesOK' /\ SizesKept /\ Replaces(FlushWrites)
         /\ cp'[Call.cache] = cache_flush(Cache)
         /\ \A m \in Caches : m # Call.cache => cp'[m] = cp[m]
         /\ \A b \in Blks(Cache) :
              Cache.valid[b] /\ Cache.dirty[b] =>
                \E i \in 1 .. Len(FlushWrites) :
                  FlushWrites[i] = Access(Lower(Call.cache), Writes,
                                          BlkAddr(Cache, b), FALSE)
         /\ \A i \in 1 .. Len(FlushWrites) :
              \E b \in Blks(Cache) :
                /\ Cache.dirty[b]
                /\ FlushWrites[i] = Access(Lower(Call.cache), Writes,
                                           BlkAddr(Cache, b), FALSE)
<1> DEFINE r == cache_flush(Cache)
           written == DirtyBlks(Cache)
           Write(b) == Access(Lower(Call.cache), Writes, BlkAddr(Cache, b), FALSE)
<1>1. /\ Calling("flush")
      /\ cp' = [cp EXCEPT ![Call.cache] = r]
      /\ todo' = FlushWrites \o Tail(todo)
  BY DEF Flush, Cache, FlushWrites
<1>2. Call.cache \in Caches /\ CacheOK(Cache) /\ Shape(Cache) /\ WaysOK(Cache)
  BY <1>1, OtherIs DEF CacheOK, CacheBut
<1>3. CacheOK(r) /\ OnlyChanged(Cache, r, Data)
  BY <1>2, FlushKeeps
<1> HIDE DEF r
<1>4. SameSizes(Cache, r)
  BY <1>2, <1>3, ChangeKeepsSizes DEF Data, Sizes
<1>5. /\ CachesOK' /\ SizesKept /\ cp'[Call.cache] = r
      /\ \A m \in Caches : m # Call.cache => cp'[m] = cp[m]
  BY <1>1, <1>2, <1>3, <1>4, CacheChanged DEF HierarchyInv, Cache
<1>6. /\ written \in Seq(ToWriteBack(Cache))
      /\ \A b \in ToWriteBack(Cache) :
           \E i \in 1 .. Len(written) : written[i] = b
  BY <1>2, DirtyBlksIs
<1> HIDE DEF written
<1>7. Lower(Call.cache) \in {"memory"} \cup Caches
  BY LowerIs DEF HierarchyInv
<1>8. \A b \in ToWriteBack(Cache) : b \in Blks(Cache) /\ Write(b) \in Calls
  <2> TAKE b \in ToWriteBack(Cache)
  <2>1. b \in Blks(Cache) /\ BlkAddr(Cache, b) \in Addresses
    BY <1>2, BlockIsTyped DEF ToWriteBack
  <2>2. QED
    BY <1>7, <2>1, CallKinds
<1> HIDE DEF Write
<1>9. FlushWrites = [i \in 1 .. Len(written) |-> Write(written[i])]
  BY DEF FlushWrites, written, Write
<1>10. /\ Len(written) \in Nat
       /\ \A i \in 1 .. Len(written) : written[i] \in ToWriteBack(Cache)
  BY <1>6
<1>11. /\ FlushWrites \in [1 .. Len(written) -> Calls]
       /\ \A i \in 1 .. Len(written) : FlushWrites[i] = Write(written[i])
  BY <1>8, <1>9, <1>10
<1>12. FlushWrites \in Seq(Calls) /\ Len(FlushWrites) = Len(written)
  BY <1>10, <1>11, SeqDef
<1>13. \A b \in Blks(Cache) : Cache.valid[b] /\ Cache.dirty[b] =>
         \E i \in 1 .. Len(FlushWrites) : FlushWrites[i] = Write(b)
  BY <1>6, <1>11, <1>12 DEF ToWriteBack
<1>14. \A i \in 1 .. Len(FlushWrites) :
         \E b \in Blks(Cache) : Cache.dirty[b] /\ FlushWrites[i] = Write(b)
  BY <1>8, <1>10, <1>11, <1>12 DEF ToWriteBack
<1>15. QED
  BY <1>1, <1>5, <1>12, <1>13, <1>14 DEF Replaces, r, Write

LEMMA DataCallsAre ==
  ASSUME NEW data \in DataCalls
  PROVE  \/ data = <<>>
         \/ \E cmd \in Commands, a \in DataAddrs :
              data = <<Access("dl1", cmd, a, FALSE)>>
<1> DEFINE Of(cmd, a) == <<Access("dl1", cmd, a, FALSE)>>
<1>1. data \in {<<>>} \cup {Of(cmd, a) : cmd \in Commands, a \in DataAddrs}
  BY DEF DataCalls, Access
<1> HIDE DEF Of
<1>2. data = <<>> \/ \E cmd \in Commands, a \in DataAddrs : data = Of(cmd, a)
  BY <1>1
<1>3. QED
  BY <1>2 DEF Of

\* What the program calls for.
LEMMA ProgramCalls ==
  ASSUME CachesOK
  PROVE  /\ \A pc \in Pcs : FetchCalls(pc) \in Seq(Calls)
         /\ \A data \in DataCalls : data \in Seq(Calls)
         /\ FlushCalls \in Seq(Calls)
         /\ \A op \in {"flush", "syscall"} : Then(op, "dl1", 0) \in Calls
<1>1. "dl1" \in Caches
  BY DEF CachesOK
<1>2. ASSUME NEW pc \in Pcs PROVE FetchCalls(pc) \in Seq(Calls)
  <2>1. CASE "il1" \in Caches
    <3> DEFINE call == Access("il1", Reads, pc, FALSE)
    <3>1. call \in Calls
      BY <2>1, AddressIsNat, CallKinds
    <3> HIDE DEF call
    <3>2. QED
      BY <2>1, <3>1, OneCall DEF FetchCalls, call
  <2>2. CASE "il1" \notin Caches
    BY <2>2, NoCall DEF FetchCalls
  <2>3. QED
    BY <2>1, <2>2
<1>3. ASSUME NEW data \in DataCalls PROVE data \in Seq(Calls)
  <2>1. CASE data = <<>>
    BY <2>1, NoCall
  <2>2. CASE \E cmd \in Commands, a \in DataAddrs :
               data = <<Access("dl1", cmd, a, FALSE)>>
    <3>1. PICK cmd \in Commands, a \in DataAddrs :
                 data = <<Access("dl1", cmd, a, FALSE)>>
      BY <2>2
    <3>2. cmd \in {Reads, Writes} /\ a \in Addresses
      BY ProgramAssumption, AddressIsNat
    <3> DEFINE call == Access("dl1", cmd, a, FALSE)
    <3>3. call \in Calls
      BY <1>1, <3>2, CallKinds
    <3> HIDE DEF call
    <3>4. QED
      BY <3>1, <3>3, OneCall DEF call
  <2>3. QED
    BY <2>1, <2>2, DataCallsAre
<1>4. \A op \in {"flush", "syscall"} : Then(op, "dl1", 0) \in Calls
  BY <1>1, AddressIsNat, CallKinds
<1>5. FlushCalls \in Seq(Calls)
  <2> DEFINE upper == FlushCall("dl1")
             lower == FlushCall("dl2")
  <2>1. /\ upper \in Calls
        /\ "dl2" \in Caches => lower \in Calls
    BY <1>1, AddressIsNat, CallKinds DEF FlushCall
  <2> HIDE DEF upper, lower
  <2>2. \/ FlushCalls = <<>> \/ FlushCalls = <<upper>>
        \/ "dl2" \in Caches /\ FlushCalls = <<upper, lower>>
    BY Zenon DEF FlushCalls, upper, lower
  <2>3. /\ <<>> \in Seq(Calls) /\ <<upper>> \in Seq(Calls)
        /\ "dl2" \in Caches => <<upper, lower>> \in Seq(Calls)
    BY <2>1
  <2>4. QED
    BY <2>2, <2>3, Zenon
<1>6. QED
  BY <1>2, <1>3, <1>4, <1>5

LEMMA ExecuteCalls ==
  ASSUME HierarchyInv, NEW pc \in Pcs, Execute(pc) \/ SystemCall(pc)
  PROVE  todo' \in Seq(Calls) /\ cp' = cp /\ lastStore' = lastStore
<1>1. CASE Execute(pc)
  <2>1. PICK data \in DataCalls : todo' = FetchCalls(pc) \o data
    BY <1>1 DEF Execute
  <2>2. FetchCalls(pc) \in Seq(Calls) /\ data \in Seq(Calls)
    BY ProgramCalls DEF HierarchyInv
  <2>3. QED
    BY <1>1, <2>1, <2>2, ConcatCalls DEF Execute
<1>2. CASE SystemCall(pc)
  <2> DEFINE call == Then("syscall", "dl1", 0)
  <2>1. /\ FetchCalls(pc) \in Seq(Calls) /\ FlushCalls \in Seq(Calls)
        /\ call \in Calls
    BY ProgramCalls DEF HierarchyInv
  <2> HIDE DEF call
  <2>2. todo' = (FetchCalls(pc) \o FlushCalls) \o <<call>>
    BY <1>2 DEF SystemCall, call
  <2>3. todo' \in Seq(Calls)
    BY <2>1, <2>2, OneCall, ConcatCalls
  <2>4. QED
    BY <1>2, <2>3 DEF SystemCall
<1>3. QED
  BY <1>1, <1>2

LEMMA FlushAddrCalls ==
  ASSUME HierarchyInv, NEW addr \in FlushAddrs, FlushAddr(addr)
  PROVE  /\ CachesOK' /\ SizesKept /\ todo = <<>> /\ todo' \in Seq(Calls)
         /\ cp'["dl1"] = cache_flush_addr(cp["dl1"], addr)
         /\ \A m \in Caches : m # "dl1" => cp'[m] = cp[m]
         /\ addr \in Nat
<1> DEFINE c == cp["dl1"]
           r == cache_flush_addr(c, addr)
           blk == Lookup(c, addr)
           write == Access(Lower("dl1"), Writes, BlkAddr(c, blk), FALSE)
<1>1. "dl1" \in Caches /\ CacheOK(c) /\ addr \in Nat
  BY AddressIsNat DEF HierarchyInv, CachesOK
<1>2. CacheOK(r) /\ SameSizes(c, r)
  BY <1>1, FlushAddrKeeps
<1>3. /\ todo = <<>> /\ cp' = [cp EXCEPT !["dl1"] = r]
      /\ todo' = IF blk # NULL /\ c.dirty[blk] THEN <<write>> ELSE <<>>
  BY DEF FlushAddr
<1>4. todo' \in Seq(Calls)
  <2>1. CASE blk # NULL
    <3>1. CACHE_SET(c, addr) \in Sets(c) /\ Holds(c, blk, addr)
          /\ blk \in {CACHE_SET(c, addr)} \X Ways(c)
      BY <1>1, <2>1, LookupIs
    <3>2. blk \in Blks(c) /\ c.valid[blk]
      BY <3>1 DEF Blks, Holds
    <3>3. BlkAddr(c, blk) \in Addresses
      BY <1>1, <3>2, BlockIsTyped
    <3>4. Lower("dl1") \in {"memory"} \cup Caches
      BY LowerIs DEF HierarchyInv
    <3>5. write \in Calls
      BY <3>3, <3>4, CallKinds
    <3> HIDE DEF write, blk
    <3>6. QED
      BY <1>3, <3>5, OneCall, NoCall
  <2>2. CASE blk = NULL
    BY <1>3, <2>2, NoCall
  <2>3. QED
    BY <2>1, <2>2
<1> HIDE DEF r
<1>5. /\ CachesOK' /\ SizesKept /\ cp'["dl1"] = r
      /\ \A m \in Caches : m # "dl1" => cp'[m] = cp[m]
  BY <1>1, <1>2, <1>3, CacheChanged DEF HierarchyInv
<1>6. QED
  BY <1>1, <1>3, <1>4, <1>5 DEF r

LEMMA SyscallCalls ==
  ASSUME HierarchyInv, SyscallCached
  PROVE  \E data \in DataCalls : Replaces(data)
<1>1. PICK data \in DataCalls : todo' = data \o Tail(todo)
  BY DEF SyscallCached
<1>2. data \in Seq(Calls)
  BY ProgramCalls DEF HierarchyInv
<1>3. QED
  BY <1>1, <1>2 DEF Replaces

LEMMA ReturnMakes ==
  ASSUME HierarchyInv, todo # <<>>, todo' = Tail(todo)
  PROVE  Replaces(<<>>)
<1>1. Tail(todo) \in Seq(Calls)
  BY HeadTailProperties DEF HierarchyInv
<1>2. QED
  BY <1>1, NoCall, ConcatEmptySeq DEF Replaces

-----------------------------------------------------------------------------
(* HierarchyInv is an invariant *)

LEMMA StoresTyped ==
  ASSUME HierarchyInv, MoveStores, Call.cache \in {"memory"} \cup Caches
  PROVE  lastStore' \in [DataAddrs -> {"memory"} \cup Caches]
BY DEF HierarchyInv, MoveStores

LEMMA InvariantKept ==
  ASSUME HierarchyInv, CachesOK', SizesKept, todo' \in Seq(Calls),
         RPTOK(RPT'), PLTOK(PLT'), PC' \in Pcs \cup {0},
         lastStore' \in [DataAddrs -> {"memory"} \cup Caches]
  PROVE  HierarchyInv'
<1>1. Calls' = Calls /\ Caches' = Caches
  BY CallsKept DEF SizesKept
<1>2. QED
  BY <1>1 DEF HierarchyInv

LEMMA ReplacedKept ==
  ASSUME HierarchyInv, CachesOK', SizesKept, NEW new, Replaces(new),
         todo # <<>>, RPTOK(RPT'), PLTOK(PLT'), PC' = PC,
         lastStore' \in [DataAddrs -> {"memory"} \cup Caches]
  PROVE  HierarchyInv'
<1>1. todo \in Seq(Calls) /\ PC \in Pcs \cup {0}
  BY DEF HierarchyInv
<1>2. Tail(todo) \in Seq(Calls)
  BY <1>1, HeadTailProperties
<1>3. todo' \in Seq(Calls)
  BY <1>2, ConcatCalls DEF Replaces
<1>4. QED
  BY <1>1, <1>3, InvariantKept

LEMMA HierarchyStep ==
  ASSUME HierarchyInv, [Next]_vars
  PROVE  HierarchyInv'
<1>1. /\ CachesOK /\ RPTOK(RPT) /\ PLTOK(PLT) /\ PC \in Pcs \cup {0}
      /\ lastStore \in [DataAddrs -> {"memory"} \cup Caches]
      /\ todo \in Seq(Calls)
  BY DEF HierarchyInv
<1>2. CASE UNCHANGED vars
  <2>1. Caches' = Caches /\ Calls' = Calls
    BY <1>2 DEF vars, Caches, Calls
  <2>2. QED
    BY <1>2, <2>1 DEF vars, HierarchyInv, CachesOK
<1>3. ASSUME NEW pc \in Pcs, Execute(pc) \/ SystemCall(pc)
      PROVE  HierarchyInv'
  <2>1. /\ todo' \in Seq(Calls) /\ cp' = cp /\ lastStore' = lastStore
        /\ CachesOK' /\ SizesKept
    BY <1>1, <1>3, ExecuteCalls, CachesUnchanged
  <2>2. RPT' = RPT /\ PLT' = PLT /\ PC' = pc
    BY <1>3 DEF Execute, SystemCall, tableVars
  <2>3. QED
    BY <1>1, <2>1, <2>2, InvariantKept
<1>4. ASSUME NEW a \in FlushAddrs, FlushAddr(a)
      PROVE  HierarchyInv'
  <2>1. CachesOK' /\ SizesKept /\ todo' \in Seq(Calls)
    BY <1>4, FlushAddrCalls
  <2>2. RPT' = RPT /\ PLT' = PLT /\ PC' = PC /\ lastStore' = lastStore
    BY <1>4 DEF FlushAddr, tableVars
  <2>3. QED
    BY <1>1, <2>1, <2>2, InvariantKept
<1>5. ASSUME AccessFastHit \/ AccessHit \/ AccessMiss
      PROVE  HierarchyInv'
  <2>1. /\ RPT' = RPT /\ PLT' = PLT /\ PC' = PC /\ MoveStores /\ Accessing
    BY <1>5 DEF AccessFastHit, AccessHit, AccessMiss, tableVars
  <2>2. Call.cache \in Caches /\ todo # <<>>
    BY <2>1, AccessIs
  <2>3. lastStore' \in [DataAddrs -> {"memory"} \cup Caches]
    BY <2>1, <2>2, StoresTyped
  <2>4. \E new : CachesOK' /\ SizesKept /\ Replaces(new)
    <3>1. CASE AccessFastHit
      BY <3>1, FastHitCalls
    <3>2. CASE AccessHit
      BY <3>2, HitCalls
    <3>3. CASE AccessMiss
      <4>1. PICK repl : MissReplaces(repl)
        BY <3>3 DEF AccessMiss, MissReplaces
      <4>2. QED
        BY <3>3, <4>1, MissCalls
    <3>4. QED
      BY <1>5, <3>1, <3>2, <3>3
  <2>5. QED
    BY <1>1, <2>1, <2>2, <2>3, <2>4, ReplacedKept
<1>6. CASE AccessMemory
  <2>1. /\ Replaces(<<>>) /\ Call.cache = "memory" /\ todo # <<>>
    BY <1>6, MemoryCalls
  <2>2. /\ RPT' = RPT /\ PLT' = PLT /\ PC' = PC /\ MoveStores /\ cp' = cp
    BY <1>6 DEF AccessMemory, tableVars
  <2>3. lastStore' \in [DataAddrs -> {"memory"} \cup Caches]
    BY <2>1, <2>2, StoresTyped
  <2>4. CachesOK' /\ SizesKept
    BY <1>1, <2>2, CachesUnchanged
  <2>5. QED
    BY <1>1, <2>1, <2>2, <2>3, <2>4, ReplacedKept
<1>7. CASE GenerateNone \/ GenerateNextLine \/ GenerateOpenEnded \/ GenerateStride
  <2>1. /\ cp' = cp /\ lastStore' = lastStore /\ PC' = PC
        /\ RPTOK(RPT') /\ PLTOK(PLT') /\ todo # <<>>
        /\ \E targets \in Seq(Addresses) : Replaces(PrefetchCalls(targets))
    BY <1>7, GenerateCalls DEF Calling
  <2>2. CachesOK' /\ SizesKept
    BY <1>1, <2>1, CachesUnchanged
  <2>3. QED
    BY <1>1, <2>1, <2>2, ReplacedKept
<1>8. CASE Prefetch \/ ReturnHit \/ SyscallCached
  <2>1. /\ cp' = cp /\ lastStore' = lastStore /\ PC' = PC
        /\ RPT' = RPT /\ PLT' = PLT /\ todo # <<>>
    BY <1>8 DEF Prefetch, ReturnHit, SyscallCached, tableVars, Calling
  <2>2. CachesOK' /\ SizesKept
    BY <1>1, <2>1, CachesUnchanged
  <2>3. \E new : Replaces(new)
    <3>1. CASE Prefetch
      BY <3>1, PrefetchMakes
    <3>2. CASE ReturnHit
      BY <2>1, <3>2, ReturnMakes DEF ReturnHit
    <3>3. CASE SyscallCached
      BY <3>3, SyscallCalls
    <3>4. QED
      BY <1>8, <3>1, <3>2, <3>3
  <2>4. QED
    BY <1>1, <2>1, <2>2, <2>3, ReplacedKept
<1>9. CASE Flush
  <2>1. CachesOK' /\ SizesKept /\ Replaces(FlushWrites)
    BY <1>9, FlushMakes
  <2>2. /\ lastStore' = lastStore /\ PC' = PC
        /\ RPT' = RPT /\ PLT' = PLT /\ todo # <<>>
    BY <1>9 DEF Flush, tableVars, Calling
  <2>3. QED
    BY <1>1, <2>1, <2>2, ReplacedKept
<1>10. CASE SyscallUncached
  <2>1. /\ cp' = cp /\ PC' = PC /\ RPT' = RPT /\ PLT' = PLT
        /\ todo # <<>> /\ todo' = Tail(todo)
    BY <1>10 DEF SyscallUncached, tableVars, Calling
  <2>2. lastStore' \in [DataAddrs -> {"memory"} \cup Caches]
    BY <1>1, <1>10 DEF SyscallUncached
  <2>3. CachesOK' /\ SizesKept
    BY <1>1, <2>1, CachesUnchanged
  <2>4. Replaces(<<>>)
    BY <2>1, ReturnMakes
  <2>5. QED
    BY <1>1, <2>1, <2>2, <2>3, <2>4, ReplacedKept
<1>11. QED
  BY <1>2, <1>3, <1>4, <1>5, <1>6, <1>7, <1>8, <1>9, <1>10 DEF Next, Simulator

LEMMA HierarchyInit == Init => HierarchyInv
<1> SUFFICES ASSUME Init PROVE HierarchyInv
  OBVIOUS
<1>1. /\ cp \in Hierarchies /\ RPT = <<>> /\ PLT = NewPLT /\ PC = 0
      /\ todo = <<>> /\ lastStore = [a \in DataAddrs |-> "memory"]
  BY DEF Init
<1>2. /\ "dl1" \in Caches /\ Caches \subseteq {"il1", "dl1", "dl2"}
      /\ \A n \in Caches : Created(cp[n])
  BY <1>1, ProgramAssumption DEF Caches
<1>3. CachesOK
  BY <1>2, CreatedIsSound DEF CachesOK
<1>4. NewPLTEntry \in PLTEntries
  BY PrefetchAssumption DEF NewPLTEntry, PLTEntries
<1>5. RPTOK(RPT) /\ PLTOK(PLT)
  BY <1>1, <1>4 DEF RPTOK, PLTOK, NewPLT
<1>6. QED
  BY <1>1, <1>3, <1>5, NoCall DEF HierarchyInv

\* The structures of every cache are sound between any two calls, whatever the
\* sizes and policies of the caches, the tables of the prefetchers and the
\* program, and every call is one that the next call can serve.
THEOREM HierarchySound == Spec => []HierarchyInv
<1>1. HierarchyInv /\ [Next]_vars => HierarchyInv'
  BY HierarchyStep
<1>2. QED
  BY <1>1, HierarchyInit, PTL DEF Spec

-----------------------------------------------------------------------------
(* Blocks of two levels *)

LEMMA MultipleMod ==
  ASSUME NEW k \in Nat, NEW n \in Nat \ {0}
  PROVE  k * n \in Nat /\ (k * n) % n = 0
<1> DEFINE a == k * n
           q == a \div n
           r == a % n
<1>1. a \in Nat
  OBVIOUS
<1>2. q \in Nat /\ r \in 0 .. n - 1 /\ q * n + r = a
  BY <1>1, DivMod
<1>3. 0 \in 0 .. n - 1 /\ k * n + 0 = a
  BY <1>1
<1> HIDE DEF a, q, r
<1>4. r = 0
  BY <1>2, <1>3, DivModUnique
<1>5. QED
  BY <1>1, <1>4 DEF a, r

\* A block of n addresses lies within one of m, if m is a multiple of n.
LEMMA BlockWithin ==
  ASSUME NEW n \in Nat \ {0}, NEW m \in Nat \ {0}, m % n = 0,
         NEW addr \in Nat, addr % n = 0, NEW a \in addr .. addr + n - 1
  PROVE  a \div m = addr \div m
<1> DEFINE k == addr \div n
           j == m \div n
           q == addr \div m
           r == addr % m
           t == r \div n
           u == r % n
<1>1. k \in Nat /\ addr = k * n /\ j \in Nat /\ m = j * n
  BY DivMod
<1>2. q \in Nat /\ r \in 0 .. m - 1 /\ addr = q * m + r
  BY DivMod
<1>3. r \in Nat
  BY <1>2
<1>4. t \in Nat /\ u \in 0 .. n - 1 /\ r = t * n + u
  BY <1>3, DivMod
<1> HIDE DEF k, j, q, r, t, u
<1>5. (q * j + t) \in Nat /\ addr = (q * j + t) * n + u
  <2>1. q * j \in Nat /\ q * m = (q * j) * n
    BY <1>1, <1>2
  <2>2. (q * j + t) * n = (q * j) * n + t * n
    BY <1>4, <2>1
  <2>3. (q * j) * n \in Nat /\ t * n \in Nat
    BY <1>4, <2>1
  <2>4. QED
    BY <1>2, <1>4, <2>1, <2>2, <2>3
<1>6. u = 0
  <2> DEFINE v == q * j + t
             z == 0
  <2>1. z \in 0 .. n - 1 /\ k * n + z = v * n + u /\ v \in Nat
    BY <1>1, <1>5
  <2> HIDE DEF v, z
  <2>2. z = u
    BY <1>1, <1>4, <2>1, DivModUnique
  <2>3. QED
    BY <2>2 DEF z
<1>7. r + n <= m
  <2>1. r = t * n
    BY <1>3, <1>4, <1>6
  <2>2. t + 1 <= j
    <3>1. SUFFICES ASSUME j <= t PROVE FALSE
      BY <1>1, <1>4
    <3>2. j * n <= t * n
      BY <1>1, <1>4, <3>1, ProductOrder
    <3>3. QED
      BY <1>1, <1>2, <2>1, <3>2
  <2>3. (t + 1) * n <= j * n /\ (t + 1) * n = t * n + n
    BY <1>1, <1>4, <2>2, ProductOrder
  <2>4. QED
    BY <1>1, <2>1, <2>3
<1> DEFINE d == a - addr
<1>8. d \in 0 .. n - 1 /\ a = addr + d /\ a \in Nat
  OBVIOUS
<1>9. q * m \in Nat
  BY <1>2
<1> HIDE DEF d
<1>10. r + d \in 0 .. m - 1 /\ a = q * m + (r + d)
  BY <1>2, <1>3, <1>7, <1>8, <1>9
<1> DEFINE x == a \div m
           y == a % m
           w == r + d
<1>11. x \in Nat /\ y \in 0 .. m - 1 /\ x * m + y = a
  BY <1>8, DivMod
<1> HIDE DEF x, y, w
<1>12. w \in 0 .. m - 1 /\ x * m + y = q * m + w
  BY <1>10, <1>11 DEF w
<1>13. x = q
  BY <1>2, <1>11, <1>12, DivModUnique
<1>14. QED
  BY <1>13 DEF x, q

-----------------------------------------------------------------------------
(* The properties of the lists and of the lookup *)

\* The calls are typed, and so are the addresses of what is cached.
THEOREM TypeCorrect == Spec => []TypeOK
<1>1. HierarchyInv => TypeOK
  <2> SUFFICES ASSUME HierarchyInv PROVE TypeOK
    OBVIOUS
  <2>1. ToSet(todo) \subseteq Calls
    <3>1. todo \in Seq(Calls)
      BY DEF HierarchyInv
    <3>2. \A i \in DOMAIN todo : todo[i] \in Calls
      BY <3>1, ElementOfSeq, LenProperties
    <3>3. QED
      BY <3>2 DEF ToSet
  <2>2. ASSUME NEW n \in Caches, NEW b \in Blks(cp[n])
        PROVE  cp[n].tag[b] \in 0 .. ADDR_SPACE - 1
    <3> DEFINE c == cp[n]
    <3>1. Shape(c)
      BY DEF HierarchyInv, CachesOK, CacheOK, CacheBut
    <3>2. c.tag \in [Blks(c) -> 0 .. ADDR_SPACE - 1]
      BY <3>1 DEF Shape
    <3>3. QED
      BY <3>2
  <2>3. QED
    BY <2>1, <2>2 DEF TypeOK, HierarchyInv
<1>2. QED
  BY <1>1, HierarchySound, PTL

\* Whatever is accessed, replaced, prefetched and flushed, the way lists and
\* the hash chains of every cache are sound.
THEOREM ListsAlwaysSound == Spec => []ListsSound
<1>1. HierarchyInv => ListsSound
  <2> SUFFICES ASSUME HierarchyInv, NEW n \in Caches
               PROVE  WayListSound(cp[n]) /\ HashChainsSound(cp[n])
    BY DEF ListsSound, WayListsSound, HashChainsAreSound
  <2>1. Shape(cp[n]) /\ WaysOK(cp[n]) /\ BucketsOK(cp[n], NULL)
    BY DEF HierarchyInv, CachesOK, CacheOK, CacheBut
  <2>2. QED
    BY <2>1, WaysAreSound, BucketsAreSound
<1>2. QED
  BY <1>1, HierarchySound, PTL

\* No cache ever holds a line twice, and the last block of every cache is the
\* block that its last tag and set name.
THEOREM AlwaysFoundOnce == Spec => []FoundOnce
<1>1. HierarchyInv => FoundOnce
  <2> SUFFICES ASSUME HierarchyInv, NEW n \in Caches
               PROVE  NoDuplicates(cp[n]) /\ LastBlkSound(cp[n])
    BY DEF FoundOnce, LinesOnce, LastBlkCurrent
  <2>1. Shape(cp[n]) /\ NoDup(cp[n]) /\ LastBlkSound(cp[n])
    BY DEF HierarchyInv, CachesOK, CacheOK, CacheBut
  <2>2. QED
    BY <2>1, OnceIfSound
<1>2. QED
  BY <1>1, HierarchySound, PTL

-----------------------------------------------------------------------------
(* Where the last store to an address is *)

\* Cache c holds what was last stored at a, and has not written it back.
DirtyIn(c, a) ==
  \E b \in Blks(c) : Holds(c, b, a) /\ b[1] = CACHE_SET(c, a) /\ c.dirty[b]

LEMMA DirtyIsFound ==
  ASSUME NEW c, CacheOK(c), NEW a \in Nat, DirtyIn(c, a)
  PROVE  Lookup(c, a) # NULL /\ c.dirty[Lookup(c, a)]
<1> DEFINE blk == Lookup(c, a)
           set == CACHE_SET(c, a)
<1>1. PICK b \in Blks(c) : Holds(c, b, a) /\ b[1] = set /\ c.dirty[b]
  BY DEF DirtyIn
<1>2. b \in {set} \X Ways(c)
  BY <1>1 DEF Blks
<1>3. blk \in {set} \X Ways(c) /\ Holds(c, blk, a) /\ set \in Sets(c)
  BY <1>1, <1>2, LookupIs
<1>4. blk \in Blks(c) /\ blk[1] = set
  BY <1>3 DEF Blks
<1>5. blk = b
  BY <1>1, <1>3, <1>4 DEF CacheOK, CacheBut, NoDup, Holds
<1>6. QED
  BY <1>1, <1>4, <1>5, NullIsNoBlk

\* Addresses of one block are found in the same place.
LEMMA SameBlock ==
  ASSUME NEW c, NEW a, NEW addr, a \div c.bsize = addr \div c.bsize,
         DirtyIn(c, addr)
  PROVE  DirtyIn(c, a)
<1>1. CACHE_SET(c, a) = CACHE_SET(c, addr) /\ CACHE_TAG(c, a) = CACHE_TAG(c, addr)
  BY Zenon DEF CACHE_SET, CACHE_TAG
<1>2. QED
  BY <1>1 DEF DirtyIn, Holds

LEMMA InItsBlock ==
  ASSUME NEW c, Shape(c), NEW a \in Nat
  PROVE  a \in CACHE_BADDR(c, a) .. CACHE_BADDR(c, a) + c.bsize - 1
<1> DEFINE n == c.bsize
           q == a \div n
           r == a % n
           p == q * n
<1>1. n \in Nat \ {0}
  BY DEF Shape
<1>2. q \in Nat /\ r \in 0 .. n - 1 /\ p + r = a
  BY <1>1, DivMod
<1>3. p \in Nat
  BY <1>1, <1>2, MultipleMod
<1>4. CACHE_BADDR(c, a) = p
  BY DEF CACHE_BADDR
<1> HIDE DEF p, q, r
<1>5. QED
  BY <1>1, <1>2, <1>3, <1>4

\* A hit leaves what is dirty, and a store makes its block dirty.
LEMMA HitDirties ==
  ASSUME NEW c, NEW r, Shape(c), SameSizes(c, r), NEW cmd, NEW blk \in Blks(c),
         r.tag = c.tag, r.valid = c.valid, r.dirty = Dirtied(c, cmd, blk)
  PROVE  /\ \A a : DirtyIn(c, a) => DirtyIn(r, a)
         /\ \A a : cmd = Writes /\ Holds(c, blk, a) /\ blk[1] = CACHE_SET(c, a)
                    => DirtyIn(r, a)
         /\ cmd # Writes => r.dirty = c.dirty
<1>1. /\ Blks(r) = Blks(c)
      /\ \A a : /\ CACHE_SET(r, a) = CACHE_SET(c, a)
                /\ CACHE_TAG(r, a) = CACHE_TAG(c, a)
  BY SameOperators
<1>2. c.dirty \in [Blks(c) -> BOOLEAN]
  BY DEF Shape
<1>3. \A b \in Blks(c) : c.dirty[b] => r.dirty[b]
  BY <1>2 DEF Dirtied
<1>4. cmd = Writes => r.dirty[blk]
  BY <1>2 DEF Dirtied
<1>5. \A a, b : Holds(c, b, a) => Holds(r, b, a)
  BY <1>1 DEF Holds
<1>6. ASSUME NEW a, DirtyIn(c, a) PROVE DirtyIn(r, a)
  BY <1>1, <1>3, <1>5, <1>6 DEF DirtyIn
<1>7. ASSUME NEW a, cmd = Writes, Holds(c, blk, a), blk[1] = CACHE_SET(c, a)
      PROVE  DirtyIn(r, a)
  BY <1>1, <1>4, <1>5, <1>7 DEF DirtyIn
<1>8. cmd # Writes => r.dirty = c.dirty
  BY DEF Dirtied
<1>9. QED
  BY <1>6, <1>7, <1>8

\* A miss loses the block it replaces, and what was stored in it.
LEMMA MissDirties ==
  ASSUME NEW c, NEW r, Shape(c), NEW cmd, NEW addr \in Nat, NEW repl,
         IsFilled(c, r, cmd, addr, repl), repl \in Blks(c),
         repl[1] = CACHE_SET(c, addr)
  PROVE  /\ cmd = Writes => DirtyIn(r, addr)
         /\ \A a \in Nat : DirtyIn(c, a) =>
              \/ DirtyIn(r, a)
              \/ /\ c.valid[repl] /\ c.dirty[repl]
                 /\ BlkAddr(c, repl) = CACHE_BADDR(c, a)
         /\ cmd # Writes /\ (\A b \in Blks(c) : ~c.dirty[b]) =>
              \A b \in Blks(c) : ~r.dirty[b]
<1>1. /\ Blks(r) = Blks(c)
      /\ \A a : /\ CACHE_SET(r, a) = CACHE_SET(c, a)
                /\ CACHE_TAG(r, a) = CACHE_TAG(c, a)
  BY SameOperators DEF IsFilled
<1>2. /\ c.dirty \in [Blks(c) -> BOOLEAN] /\ c.valid \in [Blks(c) -> BOOLEAN]
      /\ c.tag \in [Blks(c) -> 0 .. ADDR_SPACE - 1]
  BY DEF Shape
<1>3. /\ r.tag[repl] = CACHE_TAG(c, addr) /\ r.valid[repl]
      /\ r.dirty[repl] = (cmd = Writes)
      /\ \A b \in Blks(c) : b # repl => /\ r.tag[b] = c.tag[b]
                                        /\ r.valid[b] = c.valid[b]
                                        /\ r.dirty[b] = c.dirty[b]
  BY <1>2 DEF IsFilled
<1>4. ASSUME cmd = Writes PROVE DirtyIn(r, addr)
  BY <1>1, <1>3, <1>4 DEF DirtyIn, Holds
<1>5. ASSUME NEW a \in Nat, DirtyIn(c, a)
      PROVE  \/ DirtyIn(r, a)
             \/ /\ c.valid[repl] /\ c.dirty[repl]
                /\ BlkAddr(c, repl) = CACHE_BADDR(c, a)
  <2>1. PICK b \in Blks(c) :
               Holds(c, b, a) /\ b[1] = CACHE_SET(c, a) /\ c.dirty[b]
    BY <1>5 DEF DirtyIn
  <2>2. CASE b # repl
    BY <1>1, <1>3, <2>1, <2>2 DEF DirtyIn, Holds
  <2>3. CASE b = repl
    <3>1. BlkAddr(c, repl) = CACHE_MK_BADDR(c, CACHE_TAG(c, a), CACHE_SET(c, a))
      BY <2>1, <2>3 DEF Holds, BlkAddr
    <3>2. QED
      BY <2>1, <2>3, <3>1, AddressParts DEF Holds
  <2>4. QED
    BY <2>2, <2>3
<1>6. QED
  BY <1>3, <1>4, <1>5

\* The call writes a block of so many addresses, a among them, to cache low.
Carries(call, low, size, a) ==
  /\ call.op = "access" /\ call.cmd = Writes /\ call.cache = low
  /\ a \in call.addr .. call.addr + size - 1

Carried(calls, low, size, a) ==
  \E i \in 1 .. Len(calls) : Carries(calls[i], low, size, a)

\* What a call carries reaches the next step, unless it is served.
LEMMA StillCarried ==
  ASSUME NEW S, NEW t \in Seq(S), t # <<>>, NEW new \in Seq(S),
         NEW low, NEW size, NEW a
  PROVE  /\ Carried(t, low, size, a) =>
              \/ Carries(Head(t), low, size, a)
              \/ Carried(new \o Tail(t), low, size, a)
         /\ Carried(new, low, size, a) => Carried(new \o Tail(t), low, size, a)
<1> DEFINE u == new \o Tail(t)
           m == Len(new)
           n == Len(t)
<1>1. /\ Head(t) = t[1] /\ m \in Nat /\ n \in Nat \ {0}
      /\ Len(u) = m + n - 1
      /\ \A i \in 1 .. m : u[i] = new[i]
      /\ \A i \in 2 .. n : u[m + i - 1] = t[i]
  BY Pushed
<1> HIDE DEF u, m, n
<1>2. ASSUME Carried(t, low, size, a), ~Carries(Head(t), low, size, a)
      PROVE  Carried(u, low, size, a)
  <2>1. PICK i \in 1 .. n : Carries(t[i], low, size, a)
    BY <1>2 DEF Carried, n
  <2>2. i # 1
    BY <1>1, <1>2, <2>1
  <2>3. i \in 2 .. n /\ m + i - 1 \in 1 .. Len(u)
    BY <1>1, <2>2
  <2>4. Carries(u[m + i - 1], low, size, a)
    BY <1>1, <2>1, <2>3
  <2>5. QED
    BY <2>3, <2>4 DEF Carried
<1>3. ASSUME Carried(new, low, size, a)
      PROVE  Carried(u, low, size, a)
  <2>1. PICK i \in 1 .. m : Carries(new[i], low, size, a)
    BY <1>3 DEF Carried, m
  <2>2. i \in 1 .. Len(u) /\ u[i] = new[i]
    BY <1>1
  <2>3. QED
    BY <2>1, <2>2 DEF Carried
<1>4. QED
  BY <1>2, <1>3 DEF u

\* The last store to a is where lastStore says, or on its way from there.
StoredAt(at, a) ==
  \/ at = "memory"
  \/ at \in Caches /\ DirtyIn(cp[at], a)
  \/ at \in Caches /\ Carried(todo, Lower(at), cp[at].bsize, a)

\* The blocks written to the second level are those of dl1: il1 writes none.
GoodWrite(call) ==
  call.op = "access" /\ call.cmd = Writes =>
    /\ call.cache # "il1"
    /\ call.cache = "dl2" => call.addr % cp["dl1"].bsize = 0

GoodWrites(calls) == \A i \in 1 .. Len(calls) : GoodWrite(calls[i])

Nested == "dl2" \in Caches => cp["dl2"].bsize % cp["dl1"].bsize = 0

FetchedIsClean ==
  "il1" \in Caches => \A b \in Blks(cp["il1"]) : ~cp["il1"].dirty[b]

StoresInv ==
  /\ \A a \in DataAddrs : lastStore[a] # "il1" /\ StoredAt(lastStore[a], a)
  /\ GoodWrites(todo) /\ Nested /\ FetchedIsClean

LEMMA SizesSame ==
  ASSUME CachesOK, SizesKept
  PROVE  /\ Caches' = Caches /\ Nested' = Nested
         /\ \A n \in Caches : cp'[n].bsize = cp[n].bsize
         /\ \A n : Lower(n)' = Lower(n)
         /\ \A call : GoodWrite(call)' = GoodWrite(call)
<1>1. /\ Caches' = Caches /\ "dl1" \in Caches
      /\ \A n \in Caches : cp'[n].bsize = cp[n].bsize
  BY DEF CachesOK, SizesKept, SameSizes, Sizes
<1>2. \A n : Lower(n)' = Lower(n)
  BY <1>1 DEF Lower
<1>3. Nested' = Nested
  BY <1>1 DEF Nested
<1>4. \A call : GoodWrite(call)' = GoodWrite(call)
  BY <1>1 DEF GoodWrite
<1>5. QED
  BY <1>1, <1>2, <1>3, <1>4

LEMMA WritesStayGood ==
  ASSUME HierarchyInv, SizesKept, GoodWrites(todo), todo # <<>>,
         NEW new, Replaces(new), GoodWrites(new)
  PROVE  GoodWrites(todo)'
<1>1. todo \in Seq(Calls) /\ CachesOK
  BY DEF HierarchyInv
<1>2. ASSUME NEW i \in 1 .. Len(todo') PROVE GoodWrite(todo'[i])
  <2>1. \/ i \in 1 .. Len(new) /\ todo'[i] = new[i]
        \/ /\ i - Len(new) + 1 \in 2 .. Len(todo)
           /\ todo'[i] = todo[i - Len(new) + 1]
    BY <1>1, Pushed DEF Replaces
  <2>2. Len(todo) \in Nat
    BY <1>1, LenProperties
  <2>3. QED
    BY <2>1, <2>2 DEF GoodWrites
<1>3. QED
  BY <1>1, <1>2, SizesSame DEF GoodWrites

LEMMA StaysStored ==
  ASSUME HierarchyInv, SizesKept, todo # <<>>, NEW new, Replaces(new),
         NEW a \in Nat, NEW at \in {"memory"} \cup Caches, StoredAt(at, a),
         at \in Caches =>
           /\ ~Carries(Call, Lower(at), cp[at].bsize, a)
           /\ DirtyIn(cp[at], a) => \/ DirtyIn(cp'[at], a)
                                    \/ Carried(new, Lower(at), cp[at].bsize, a)
  PROVE  StoredAt(at, a)'
<1>1. CASE at = "memory"
  BY <1>1 DEF StoredAt
<1>2. CASE at \in Caches /\ at # "memory"
  <2> DEFINE low == Lower(at)
             size == cp[at].bsize
  <2>1. todo \in Seq(Calls) /\ CachesOK /\ new \in Seq(Calls)
        /\ todo' = new \o Tail(todo)
    BY DEF HierarchyInv, Replaces
  <2>2. at \in Caches' /\ low' = low /\ size' = size
    BY <1>2, <2>1, SizesSame
  <2> HIDE DEF low, size
  <2>3. /\ Carried(todo, low, size, a) => Carried(todo', low, size, a)
        /\ Carried(new, low, size, a) => Carried(todo', low, size, a)
    BY <1>2, <2>1, StillCarried DEF Call, low, size
  <2>4. DirtyIn(cp'[at], a) \/ Carried(todo', low, size, a)
    BY <1>2, <2>3 DEF StoredAt, low, size
  <2>5. QED
    BY <2>2, <2>4 DEF StoredAt, low, size
<1>3. QED
  BY <1>1, <1>2

\* What an access leaves in its cache, and the calls it makes.
AccessMakes(r, new) ==
  /\ CachesOK' /\ SizesKept /\ Replaces(new)
  /\ cp'[Call.cache] = r
  /\ \A m \in Caches : m # Call.cache => cp'[m] = cp[m]
  /\ Call.cmd = Writes => DirtyIn(r, Call.addr)
  /\ \A a \in Nat : DirtyIn(Cache, a) =>
       DirtyIn(r, a) \/ Carried(new, Lower(Call.cache), Cache.bsize, a)
  /\ Call.cmd # Writes /\ (\A b \in Blks(Cache) : ~Cache.dirty[b]) =>
       \A b \in Blks(Cache) : ~r.dirty[b]
  /\ GoodWrites(new)

\* An access moves the last stores with the data.
LEMMA AccessKeepsStores ==
  ASSUME HierarchyInv, StoresInv, Accessing, MoveStores,
         NEW r, NEW new, AccessMakes(r, new)
  PROVE  StoresInv'
<1>1. /\ CachesOK /\ lastStore \in [DataAddrs -> {"memory"} \cup Caches]
      /\ CachesOK' /\ SizesKept /\ Replaces(new)
      /\ cp'[Call.cache] = r
      /\ \A m \in Caches : m # Call.cache => cp'[m] = cp[m]
  BY DEF HierarchyInv, AccessMakes
<1>2. /\ todo \in Seq(Calls) /\ todo # <<>> /\ Call \in Calls
      /\ Call.cache \in Caches /\ CacheOK(Cache) /\ Call.op = "access"
      /\ Call.addr \in Nat /\ Call.cmd \in {Reads, Writes}
  BY AccessIs
<1>3. Call.cache # "memory"
  BY <1>1, <1>2 DEF CachesOK
<1>4. GoodWrite(Call)
  <2>1. Head(todo) = todo[1] /\ Len(todo) \in Nat \ {0}
    BY <1>2, NoCall, Pushed
  <2>2. QED
    BY <2>1 DEF StoresInv, GoodWrites, Call
<1>5. ASSUME NEW a \in DataAddrs, NEW at, at = lastStore[a],
             NEW now, now = lastStore'[a]
      PROVE  now # "il1" /\ StoredAt(now, a)'
  <2> DEFINE own == Call.cache = "dl1" /\ a = Call.addr
             down == /\ Call.cache # "dl1"
                     /\ at \in Caches /\ Lower(at) = Call.cache
                     /\ a \in BlockOf(at, Call.addr)
  <2>1. a \in Nat /\ at \in {"memory"} \cup Caches /\ at # "il1"
        /\ StoredAt(at, a)
    BY <1>1, <1>5, AddressIsNat DEF StoresInv, StoredAt
  <2>2. now = IF Call.cmd = Writes /\ (own \/ down) THEN Call.cache ELSE at
    BY <1>5 DEF MoveStores
  <2>3. CASE Call.cmd = Writes /\ own
    <3>1. now = "dl1" /\ Call.cache = "dl1" /\ a = Call.addr
      BY <2>2, <2>3
    <3>2. DirtyIn(cp'["dl1"], a) /\ "dl1" \in Caches'
      BY <1>1, <2>3, <3>1 DEF AccessMakes, SizesKept, CachesOK
    <3>3. StoredAt("dl1", a)'
      BY <3>2 DEF StoredAt
    <3>4. QED
      BY <3>1, <3>3
  <2>4. CASE Call.cmd = Writes /\ ~own /\ down
    <3>1. /\ now = "dl2" /\ Call.cache = "dl2" /\ at \in Caches /\ at = "dl1"
          /\ a \in BlockOf(at, Call.addr)
      BY <1>1, <1>3, <2>1, <2>2, <2>4, LowerIs DEF CachesOK
    <3> DEFINE n == cp["dl1"].bsize
               m == cp["dl2"].bsize
    <3>2. /\ n \in Nat \ {0} /\ m \in Nat \ {0}
      BY <1>1, <1>2, <3>1 DEF CachesOK, CacheOK, CacheBut, Shape
    <3>3. m % n = 0 /\ Call.addr % n = 0
      BY <1>2, <1>4, <2>4, <3>1 DEF StoresInv, Nested, GoodWrite
    <3>4. a \in Call.addr .. Call.addr + n - 1
      BY <3>1 DEF BlockOf
    <3> HIDE DEF n, m
    <3>5. a \div m = Call.addr \div m
      BY <1>2, <3>2, <3>3, <3>4, BlockWithin
    <3>6. DirtyIn(r, Call.addr) /\ r = cp'["dl2"] /\ r.bsize = m
          /\ "dl2" \in Caches'
      BY <1>1, <1>2, <2>4, <3>1, SizesSame DEF AccessMakes, m
    <3>7. DirtyIn(r, a)
      BY <3>5, <3>6, SameBlock
    <3>8. StoredAt("dl2", a)'
      BY <3>6, <3>7 DEF StoredAt
    <3>9. QED
      BY <3>1, <3>8
  <2>5. CASE ~(Call.cmd = Writes /\ (own \/ down))
    <3>1. now = at
      BY <2>2, <2>5
    <3>2. ASSUME at \in Caches
          PROVE  /\ ~Carries(Call, Lower(at), cp[at].bsize, a)
                 /\ DirtyIn(cp[at], a) =>
                      \/ DirtyIn(cp'[at], a)
                      \/ Carried(new, Lower(at), cp[at].bsize, a)
      <4>1. ~Carries(Call, Lower(at), cp[at].bsize, a)
        <5>1. Call.cache = Lower(at) => Call.cache # "dl1"
          BY <1>1, LowerIs
        <5>2. QED
          BY <2>5, <3>2, <5>1 DEF Carries, BlockOf
      <4>2. CASE at = Call.cache
        BY <1>1, <2>1, <4>1, <4>2 DEF AccessMakes, Cache
      <4>3. CASE at # Call.cache
        BY <1>1, <3>2, <4>1, <4>3
      <4>4. QED
        BY <4>2, <4>3
    <3> HIDE DEF own, down
    <3>3. StoredAt(at, a)'
      BY <1>1, <1>2, <2>1, <3>2, StaysStored
    <3>4. QED
      BY <2>1, <3>1, <3>3
  <2>6. QED
    BY <2>3, <2>4, <2>5
<1>6. GoodWrites(todo)' /\ Nested'
  BY <1>1, <1>2, WritesStayGood, SizesSame DEF StoresInv, AccessMakes
<1>7. FetchedIsClean'
  <2> SUFFICES ASSUME "il1" \in Caches, NEW b \in Blks(cp["il1"])
               PROVE  ~cp'["il1"].dirty[b]
    <3>1. Caches' = Caches
      BY <1>1 DEF SizesKept
    <3>2. "il1" \in Caches => Blks(cp'["il1"]) = Blks(cp["il1"])
      BY <1>1, SameOperators DEF SizesKept
    <3>3. QED
      BY <3>1, <3>2 DEF FetchedIsClean
  <2>1. ~cp["il1"].dirty[b]
    BY DEF StoresInv, FetchedIsClean
  <2>2. CASE Call.cache = "il1"
    <3>1. Call.cmd # Writes
      BY <1>2, <1>4, <2>2 DEF GoodWrite
    <3>2. QED
      BY <1>1, <2>2, <3>1 DEF AccessMakes, Cache, StoresInv, FetchedIsClean
  <2>3. CASE Call.cache # "il1"
    BY <1>1, <2>1, <2>3
  <2>4. QED
    BY <2>2, <2>3
<1>8. \A a \in DataAddrs :
        lastStore'[a] # "il1" /\ StoredAt(lastStore[a], a)'
  BY <1>5 DEF StoredAt
<1>9. QED
  BY <1>6, <1>7, <1>8 DEF StoresInv

LEMMA GoodWritesJoin ==
  ASSUME NEW s \in Seq(Calls), NEW t \in Seq(Calls),
         GoodWrites(s), GoodWrites(t)
  PROVE  GoodWrites(s \o t)
<1> DEFINE u == s \o t
<1>1. Len(s) \in Nat /\ Len(t) \in Nat
  BY LenProperties
<1>2. Len(u) = Len(s) + Len(t)
      /\ \A i \in 1 .. Len(s) + Len(t) :
           u[i] = IF i <= Len(s) THEN s[i] ELSE t[i - Len(s)]
  BY ConcatProperties
<1> HIDE DEF u
<1>3. ASSUME NEW i \in 1 .. Len(u) PROVE GoodWrite(u[i])
  <2>1. CASE i <= Len(s)
    <3>1. i \in 1 .. Len(s) /\ u[i] = s[i]
      BY <1>1, <1>2, <2>1
    <3>2. QED
      BY <3>1 DEF GoodWrites
  <2>2. CASE ~(i <= Len(s))
    <3>1. i - Len(s) \in 1 .. Len(t) /\ u[i] = t[i - Len(s)]
      BY <1>1, <1>2, <2>2
    <3>2. QED
      BY <3>1 DEF GoodWrites
  <2>3. QED
    BY <2>1, <2>2
<1>4. QED
  BY <1>3 DEF GoodWrites, u

LEMMA OneGoodWrite ==
  /\ \A call : GoodWrite(call) => GoodWrites(<<call>>)
  /\ GoodWrites(<<>>)
BY DEF GoodWrites

LEMMA NoWrites ==
  /\ \A op, n, a : op # "access" => GoodWrite(Then(op, n, a))
  /\ \A n, a, b : GoodWrite(Return(n, a, b))
  /\ \A n, a, p : GoodWrite(Access(n, Reads, a, p))
  /\ GoodWrites(AfterAccess)
<1>1. \A op, n, a : op # "access" => GoodWrite(Then(op, n, a))
  BY DEF GoodWrite, Then
<1>2. \A n, a, b : GoodWrite(Return(n, a, b))
  BY DEF GoodWrite, Return
<1>3. \A n, a, p : GoodWrite(Access(n, Reads, a, p))
  BY DEF GoodWrite, Access, Reads, Writes
<1>4. GoodWrites(AfterAccess)
  <2>1. GoodWrite(Then("generate", Call.cache, Call.addr))
    BY <1>1
  <2>2. QED
    BY <2>1, OneGoodWrite DEF AfterAccess
<1>5. QED
  BY <1>1, <1>2, <1>3, <1>4

\* A block that is written back is one of the second level's, which go to
\* memory, or one of dl1's.
LEMMA WrittenBack ==
  ASSUME HierarchyInv, StoresInv, NEW n \in Caches, NEW b \in Blks(cp[n]),
         cp[n].dirty[b]
  PROVE  GoodWrite(Access(Lower(n), Writes, BlkAddr(cp[n], b), FALSE))
<1> DEFINE low == Lower(n)
           addr == BlkAddr(cp[n], b)
           call == Access(low, Writes, addr, FALSE)
<1>1. low \in {"dl2", "memory"} /\ n \in {"il1", "dl1", "dl2"} /\ low # n
  BY LowerIs DEF HierarchyInv, CachesOK
<1>2. n # "il1"
  BY DEF StoresInv, FetchedIsClean
<1>3. ASSUME low = "dl2" PROVE addr % cp["dl1"].bsize = 0
  <2>1. n = "dl1"
    BY <1>1, <1>2, <1>3
  <2> DEFINE c == cp["dl1"]
             k == c.tag[b] * c.nsets + b[1]
  <2>2. Shape(c)
    BY <2>1 DEF HierarchyInv, CachesOK, CacheOK, CacheBut
  <2>3. /\ c.tag[b] \in Nat /\ c.nsets \in Nat \ {0} /\ c.bsize \in Nat \ {0}
        /\ b[1] \in Nat
    <3>1. b[1] \in 0 .. c.nsets - 1 /\ c.nsets \in Nat \ {0}
          /\ c.bsize \in Nat \ {0}
      BY <2>1, <2>2 DEF Blks, Sets, Shape
    <3>2. c.tag[b] \in Nat
      BY <2>1, <2>2 DEF Shape
    <3>3. QED
      BY <3>1, <3>2
  <2>4. c.tag[b] * c.nsets \in Nat
    BY <2>3, MultipleMod
  <2>5. k \in Nat
    BY <2>3, <2>4
  <2>6. addr = k * c.bsize
    BY <2>1 DEF BlkAddr, CACHE_MK_BADDR
  <2> HIDE DEF k, c, addr
  <2>7. QED
    BY <2>3, <2>5, <2>6, MultipleMod DEF c
<1>4. call.cache = low /\ call.addr = addr
  BY DEF Access
<1> HIDE DEF call, low, addr
<1>5. GoodWrite(call)
  BY <1>1, <1>3, <1>4 DEF GoodWrite
<1>6. QED
  BY <1>5 DEF call, low, addr

LEMMA HitMakes ==
  ASSUME HierarchyInv, StoresInv, AccessFastHit \/ AccessHit
  PROVE  \E r, new : AccessMakes(r, new)
<1> DEFINE blk == IF AccessFastHit THEN Cache.last_blk
                                   ELSE Lookup(Cache, Call.addr)
           r == cp'[Call.cache]
           return == Return(Call.cache, Call.addr, blk)
           new == AfterAccess \o <<return>>
<1>1. Accessing
  BY DEF AccessFastHit, AccessHit
<1>2. /\ CachesOK' /\ SizesKept /\ Replaces(new)
      /\ \A m \in Caches : m # Call.cache => cp'[m] = cp[m]
      /\ blk \in Blks(Cache) /\ Holds(Cache, blk, Call.addr)
      /\ blk[1] = CACHE_SET(Cache, Call.addr)
      /\ r.tag = Cache.tag /\ r.valid = Cache.valid
      /\ r.dirty = Dirtied(Cache, Call.cmd, blk)
  <2>1. CASE AccessFastHit
    <3>1. FastHit(Cache, Call.addr) /\ Cache.last_blk # NULL
      BY <2>1 DEF AccessFastHit
    <3>2. blk = Cache.last_blk
      BY <2>1
    <3>3. r = QuickHit(Cache, Call.cmd, Call.addr)
      BY <2>1, FastHitCalls
    <3> HIDE DEF r
    <3>4. /\ blk \in Blks(Cache) /\ Holds(Cache, blk, Call.addr)
          /\ blk[1] = CACHE_SET(Cache, Call.addr)
          /\ r.tag = Cache.tag /\ r.valid = Cache.valid
          /\ r.dirty = Dirtied(Cache, Call.cmd, blk)
      BY <1>1, <3>1, <3>2, <3>3, AccessIs, QuickHitKeeps
    <3>5. /\ CachesOK' /\ SizesKept /\ Replaces(new)
          /\ \A m \in Caches : m # Call.cache => cp'[m] = cp[m]
      BY <2>1, <3>2, FastHitCalls
    <3>6. QED
      BY <3>4, <3>5
  <2>2. CASE ~AccessFastHit
    <3>1. blk = Lookup(Cache, Call.addr) /\ AccessHit
      BY <2>2
    <3>2. /\ CachesOK' /\ SizesKept /\ Replaces(new)
          /\ \A m \in Caches : m # Call.cache => cp'[m] = cp[m]
          /\ r = SlowHit(Cache, Call.cmd, Call.addr, blk)
          /\ blk \in Blks(Cache) /\ Holds(Cache, blk, Call.addr)
          /\ blk[1] = CACHE_SET(Cache, Call.addr)
      BY <3>1, HitCalls
    <3> HIDE DEF r, blk
    <3>3. /\ r.tag = Cache.tag /\ r.valid = Cache.valid
          /\ r.dirty = Dirtied(Cache, Call.cmd, blk)
      BY <1>1, <3>2, AccessIs, SlowHitKeeps
    <3>4. QED
      BY <3>2, <3>3
  <2>3. QED
    BY <2>1, <2>2
<1>3. Shape(Cache) /\ Call.cache \in Caches /\ AfterAccess \in Seq(Calls)
  BY <1>1, AccessIs DEF CacheOK, CacheBut
<1> HIDE DEF blk, r
<1>4. SameSizes(Cache, r)
  BY <1>2, <1>3 DEF SizesKept, Cache, r
<1>5. /\ \A a : DirtyIn(Cache, a) => DirtyIn(r, a)
      /\ Call.cmd = Writes => DirtyIn(r, Call.addr)
      /\ Call.cmd # Writes => r.dirty = Cache.dirty
  BY <1>2, <1>3, <1>4, HitDirties
<1>6. GoodWrites(new)
  <2>1. return \in Calls
    <3>1. Call.addr \in Addresses
      BY <1>1, AccessIs
    <3>2. QED
      BY <1>2, <1>3, <3>1, CallKinds DEF Cache
  <2>2. GoodWrite(return) /\ GoodWrites(AfterAccess)
    BY NoWrites
  <2> HIDE DEF return
  <2>3. <<return>> \in Seq(Calls) /\ GoodWrites(<<return>>)
    BY <2>1, <2>2, OneCall, OneGoodWrite
  <2>4. QED
    BY <1>3, <2>2, <2>3, GoodWritesJoin
<1> HIDE DEF new
<1>7. AccessMakes(r, new)
  BY <1>2, <1>5, <1>6 DEF AccessMakes, r
<1>8. QED
  BY <1>7

LEMMA CarriedFirst ==
  ASSUME NEW s \in Seq(Calls), NEW t \in Seq(Calls),
         NEW low, NEW size, NEW a, Carried(s, low, size, a)
  PROVE  Carried(s \o t, low, size, a)
<1> DEFINE u == s \o t
<1>1. PICK i \in 1 .. Len(s) : Carries(s[i], low, size, a)
  BY DEF Carried
<1>2. Len(s) \in Nat /\ Len(t) \in Nat
  BY LenProperties
<1>3. Len(u) = Len(s) + Len(t)
      /\ \A j \in 1 .. Len(s) + Len(t) :
           u[j] = IF j <= Len(s) THEN s[j] ELSE t[j - Len(s)]
  BY ConcatProperties
<1> HIDE DEF u
<1>4. i \in 1 .. Len(u) /\ u[i] = s[i]
  BY <1>2, <1>3
<1>5. QED
  BY <1>1, <1>4 DEF Carried, u

\* The write-back of a block carries what was stored in it.
LEMMA BlockCarries ==
  ASSUME NEW c, Shape(c), NEW b, NEW a \in Nat, NEW low,
         BlkAddr(c, b) = CACHE_BADDR(c, a)
  PROVE  Carries(Access(low, Writes, BlkAddr(c, b), FALSE), low, c.bsize, a)
<1>1. a \in BlkAddr(c, b) .. BlkAddr(c, b) + c.bsize - 1
  BY InItsBlock
<1>2. QED
  BY <1>1 DEF Carries, Access

LEMMA MissMakes ==
  ASSUME HierarchyInv, StoresInv, AccessMiss
  PROVE  \E r, new : AccessMakes(r, new)
<1>1. PICK repl : MissReplaces(repl)
  BY DEF AccessMiss, MissReplaces
<1> DEFINE r == cp'[Call.cache]
           set == CACHE_SET(Cache, Call.addr)
           low == Lower(Call.cache)
           read == Access(low, Reads, CACHE_BADDR(Cache, Call.addr),
                          Call.prefetch)
           write == Access(low, Writes, BlkAddr(Cache, repl), FALSE)
           back == WriteBack(repl)
           new == back \o <<read>> \o AfterAccess
<1>2. Accessing
  BY DEF AccessMiss
<1>3. /\ Shape(Cache) /\ CacheOK(Cache) /\ Call.cache \in Caches
      /\ AfterAccess \in Seq(Calls)
      /\ Call.addr \in Nat /\ Call.addr \in Addresses /\ Call.prefetch \in BOOLEAN
  BY <1>2, AccessIs DEF CacheOK, CacheBut
<1>4. /\ CachesOK' /\ SizesKept /\ Replaces(new)
      /\ \A m \in Caches : m # Call.cache => cp'[m] = cp[m]
      /\ set \in Sets(Cache) /\ repl \in {set} \X Ways(Cache)
      /\ IsFilled(Cache, r, Call.cmd, Call.addr, repl)
  BY <1>1, MissCalls
<1>5. repl \in Blks(Cache) /\ repl[1] = set
  BY <1>4 DEF Blks
<1>6. back \in Seq(Calls)
  BY <1>2, <1>5, WriteBackIs
<1>7. read \in Calls
  <2>1. CACHE_BADDR(Cache, Call.addr) \in Addresses
    BY <1>3, BlockIsTyped
  <2>2. low \in {"memory"} \cup Caches
    BY LowerIs DEF HierarchyInv
  <2>3. QED
    BY <1>3, <2>1, <2>2, CallKinds
<1>8. back = IF Cache.valid[repl] /\ Cache.dirty[repl] THEN <<write>> ELSE <<>>
  BY DEF WriteBack
<1>9. GoodWrites(back)
  <2>1. Cache.dirty[repl] => GoodWrite(write)
    BY <1>3, <1>5, WrittenBack DEF Cache
  <2> HIDE DEF write, back
  <2>2. QED
    BY <1>8, <2>1, OneGoodWrite
<1>10. GoodWrite(read) /\ GoodWrites(AfterAccess)
  BY NoWrites
<1> HIDE DEF r, read, back, set
<1>11. <<read>> \in Seq(Calls) /\ GoodWrites(<<read>>)
  BY <1>7, <1>10, OneCall, OneGoodWrite
<1>12. back \o <<read>> \in Seq(Calls) /\ GoodWrites(back \o <<read>>)
  BY <1>6, <1>9, <1>11, GoodWritesJoin, ConcatCalls
<1>13. GoodWrites(new)
  BY <1>3, <1>10, <1>12, GoodWritesJoin
<1>14. /\ Call.cmd = Writes => DirtyIn(r, Call.addr)
       /\ \A a \in Nat : DirtyIn(Cache, a) =>
            \/ DirtyIn(r, a)
            \/ /\ Cache.valid[repl] /\ Cache.dirty[repl]
               /\ BlkAddr(Cache, repl) = CACHE_BADDR(Cache, a)
       /\ Call.cmd # Writes /\ (\A b \in Blks(Cache) : ~Cache.dirty[b]) =>
            \A b \in Blks(Cache) : ~r.dirty[b]
  <2> DEFINE c == Cache
             cmd == Call.cmd
             addr == Call.addr
  <2>1. /\ Shape(c) /\ addr \in Nat /\ IsFilled(c, r, cmd, addr, repl)
        /\ repl \in Blks(c) /\ repl[1] = CACHE_SET(c, addr)
    BY <1>3, <1>4, <1>5 DEF set
  <2> HIDE DEF c, cmd, addr
  <2>2. /\ cmd = Writes => DirtyIn(r, addr)
        /\ \A a \in Nat : DirtyIn(c, a) =>
             \/ DirtyIn(r, a)
             \/ /\ c.valid[repl] /\ c.dirty[repl]
                /\ BlkAddr(c, repl) = CACHE_BADDR(c, a)
        /\ cmd # Writes /\ (\A b \in Blks(c) : ~c.dirty[b]) =>
             \A b \in Blks(c) : ~r.dirty[b]
    BY <2>1, MissDirties
  <2>3. QED
    BY <2>2 DEF c, cmd, addr
<1>15. ASSUME NEW a \in Nat, Cache.valid[repl] /\ Cache.dirty[repl],
              BlkAddr(Cache, repl) = CACHE_BADDR(Cache, a)
       PROVE  Carried(new, low, Cache.bsize, a)
  <2>1. Carries(write, low, Cache.bsize, a)
    BY <1>3, <1>15, BlockCarries
  <2>2. back = <<write>>
    BY <1>8, <1>15
  <2> HIDE DEF write
  <2>3. Carried(back, low, Cache.bsize, a)
    BY <2>1, <2>2 DEF Carried
  <2>4. Carried(back \o <<read>>, low, Cache.bsize, a)
    BY <1>6, <1>11, <2>3, CarriedFirst
  <2>5. QED
    BY <1>3, <1>12, <2>4, CarriedFirst
<1>16. \A a \in Nat : DirtyIn(Cache, a) =>
         DirtyIn(r, a) \/ Carried(new, low, Cache.bsize, a)
  BY <1>14, <1>15
<1> HIDE DEF new
<1>17. AccessMakes(r, new)
  BY <1>4, <1>13, <1>14, <1>16 DEF AccessMakes, r
<1>18. QED
  BY <1>17

\* An access to memory leaves what it carries there.
LEMMA MemoryKeepsStores ==
  ASSUME HierarchyInv, StoresInv, AccessMemory
  PROVE  StoresInv'
<1>1. /\ Replaces(<<>>) /\ Call \in Calls /\ Call.op = "access"
      /\ Call.cache = "memory" /\ todo # <<>> /\ todo \in Seq(Calls)
  BY MemoryCalls
<1>2. /\ cp' = cp /\ MoveStores /\ CachesOK
      /\ lastStore \in [DataAddrs -> {"memory"} \cup Caches]
  BY DEF AccessMemory, HierarchyInv
<1>3. CachesOK' /\ SizesKept
  BY <1>2, CachesUnchanged
<1>4. ASSUME NEW a \in DataAddrs, NEW at, at = lastStore[a],
             NEW now, now = lastStore'[a]
      PROVE  now # "il1" /\ StoredAt(now, a)'
  <2>1. a \in Nat /\ at \in {"memory"} \cup Caches /\ at # "il1"
        /\ StoredAt(at, a)
    BY <1>2, <1>4, AddressIsNat DEF StoresInv, StoredAt
  <2>2. now = IF /\ Call.cmd = Writes
                 /\ at \in Caches /\ Lower(at) = "memory"
                 /\ a \in BlockOf(at, Call.addr)
                THEN "memory" ELSE at
    BY <1>1, <1>2, <1>4 DEF MoveStores
  <2>3. CASE now = "memory"
    BY <2>3 DEF StoredAt
  <2>4. CASE now # "memory"
    <3>1. now = at
      BY <2>2, <2>4
    <3>2. at \in Caches => ~Carries(Call, Lower(at), cp[at].bsize, a)
      BY <1>1, <2>2, <2>4, <3>1 DEF Carries, BlockOf
    <3>3. StoredAt(at, a)'
      BY <1>1, <1>2, <1>3, <2>1, <3>2, StaysStored
    <3>4. QED
      BY <2>1, <3>1, <3>3
  <2>5. QED
    BY <2>3, <2>4
<1>5. \A a \in DataAddrs :
        lastStore'[a] # "il1" /\ StoredAt(lastStore[a], a)'
  BY <1>4 DEF StoredAt
<1>6. GoodWrites(todo)' /\ Nested'
  BY <1>1, <1>2, <1>3, WritesStayGood, SizesSame, OneGoodWrite DEF StoresInv
<1>7. FetchedIsClean'
  BY <1>2, <1>3 DEF StoresInv, FetchedIsClean, SizesKept
<1>8. QED
  BY <1>5, <1>6, <1>7 DEF StoresInv

\* A step that is no access: the last stores stay, or leave for memory.
LEMMA OtherKeepsStores ==
  ASSUME HierarchyInv, StoresInv, CachesOK', SizesKept, todo # <<>>,
         Call.op # "access", NEW new, Replaces(new), GoodWrites(new),
         \A a \in DataAddrs : lastStore'[a] \in {lastStore[a], "memory"},
         \A n \in Caches : cp'[n].dirty = cp[n].dirty,
         \A n \in Caches : \A a \in Nat : DirtyIn(cp[n], a) =>
           DirtyIn(cp'[n], a) \/ Carried(new, Lower(n), cp[n].bsize, a)
  PROVE  StoresInv'
<1>1. CachesOK /\ lastStore \in [DataAddrs -> {"memory"} \cup Caches]
  BY DEF HierarchyInv
<1>2. ASSUME NEW a \in DataAddrs, NEW at, at = lastStore[a],
             NEW now, now = lastStore'[a]
      PROVE  now # "il1" /\ StoredAt(now, a)'
  <2>1. a \in Nat /\ at \in {"memory"} \cup Caches /\ at # "il1"
        /\ StoredAt(at, a)
    BY <1>1, <1>2, AddressIsNat DEF StoresInv, StoredAt
  <2>2. StoredAt(at, a)'
    <3>1. at \in Caches => ~Carries(Call, Lower(at), cp[at].bsize, a)
      BY DEF Carries
    <3>2. QED
      BY <1>1, <2>1, <3>1, StaysStored
  <2>3. StoredAt("memory", a)'
    BY DEF StoredAt
  <2>4. QED
    BY <1>2, <2>1, <2>2, <2>3
<1>3. \A a \in DataAddrs :
        lastStore'[a] # "il1" /\ StoredAt(lastStore[a], a)'
  BY <1>2 DEF StoredAt
<1>4. GoodWrites(todo)' /\ Nested'
  BY <1>1, WritesStayGood, SizesSame DEF StoresInv
<1>5. FetchedIsClean'
  <2>1. /\ Caches' = Caches
        /\ "il1" \in Caches => Blks(cp'["il1"]) = Blks(cp["il1"])
    BY SameOperators DEF SizesKept
  <2>2. QED
    BY <2>1 DEF StoresInv, FetchedIsClean
<1>6. QED
  BY <1>3, <1>4, <1>5 DEF StoresInv

\* A step between two instructions.
LEMMA StartKeepsStores ==
  ASSUME HierarchyInv, StoresInv, CachesOK', SizesKept, todo = <<>>,
         lastStore' = lastStore, GoodWrites(todo'),
         \A n \in Caches : cp'[n].dirty = cp[n].dirty,
         \A n \in Caches : \A a \in Nat : DirtyIn(cp[n], a) =>
           DirtyIn(cp'[n], a) \/ Carried(todo', Lower(n), cp[n].bsize, a)
  PROVE  StoresInv'
<1>1. CachesOK /\ lastStore \in [DataAddrs -> {"memory"} \cup Caches]
  BY DEF HierarchyInv
<1>2. ASSUME NEW a \in DataAddrs, NEW at, at = lastStore[a]
      PROVE  at # "il1" /\ StoredAt(at, a)'
  <2>1. a \in Nat /\ at \in {"memory"} \cup Caches /\ at # "il1"
        /\ StoredAt(at, a)
    BY <1>1, <1>2, AddressIsNat DEF StoresInv, StoredAt
  <2>2. \/ at = "memory"
        \/ at \in Caches /\ DirtyIn(cp[at], a)
    BY <2>1 DEF StoredAt, Carried
  <2>3. \/ at = "memory"
        \/ /\ at \in Caches /\ Lower(at)' = Lower(at)
           /\ cp'[at].bsize = cp[at].bsize
           /\ \/ DirtyIn(cp'[at], a)
              \/ Carried(todo', Lower(at), cp[at].bsize, a)
    BY <1>1, <2>1, <2>2, SizesSame
  <2>4. Caches' = Caches
    BY DEF SizesKept
  <2>5. QED
    BY <2>1, <2>3, <2>4 DEF StoredAt
<1>3. \A a \in DataAddrs :
        lastStore'[a] # "il1" /\ StoredAt(lastStore[a], a)'
  BY <1>2 DEF StoredAt
<1>4. GoodWrites(todo)' /\ Nested'
  BY <1>1, SizesSame DEF StoresInv, GoodWrites
<1>5. FetchedIsClean'
  <2>1. /\ Caches' = Caches
        /\ "il1" \in Caches => Blks(cp'["il1"]) = Blks(cp["il1"])
    BY SameOperators DEF SizesKept
  <2>2. QED
    BY <2>1 DEF StoresInv, FetchedIsClean
<1>6. QED
  BY <1>3, <1>4, <1>5 DEF StoresInv

LEMMA FlushKeepsStores ==
  ASSUME HierarchyInv, StoresInv, Flush
  PROVE  StoresInv'
<1> DEFINE c == Cache
           low == Lower(Call.cache)
           new == FlushWrites
           Write(b) == Access(low, Writes, BlkAddr(c, b), FALSE)
<1>1. /\ todo # <<>> /\ Call.op = "flush" /\ lastStore' = lastStore
      /\ Calling("flush")
  BY DEF Flush, Calling
<1>2. Call.cache \in Caches /\ CacheOK(c) /\ Shape(c)
  BY <1>1, OtherIs
<1>3. /\ CachesOK' /\ SizesKept /\ Replaces(new)
      /\ cp'[Call.cache] = cache_flush(c)
      /\ \A m \in Caches : m # Call.cache => cp'[m] = cp[m]
      /\ \A b \in Blks(c) : c.valid[b] /\ c.dirty[b] =>
           \E i \in 1 .. Len(new) : new[i] = Write(b)
      /\ \A i \in 1 .. Len(new) :
           \E b \in Blks(c) : c.dirty[b] /\ new[i] = Write(b)
  BY FlushMakes
<1>4. \A b \in Blks(c) : c.dirty[b] => GoodWrite(Write(b))
  BY <1>2, WrittenBack DEF Cache
<1>5. \A n \in Caches : cp'[n].dirty = cp[n].dirty
  <2>1. cache_flush(c).dirty = c.dirty
    BY <1>2, FlushKeeps
  <2>2. QED
    BY <1>3, <2>1 DEF Cache
<1>6. ASSUME NEW a \in Nat, DirtyIn(c, a)
      PROVE  Carried(new, low, c.bsize, a)
  <2>1. PICK b \in Blks(c) :
               Holds(c, b, a) /\ b[1] = CACHE_SET(c, a) /\ c.dirty[b]
    BY <1>6 DEF DirtyIn
  <2>2. BlkAddr(c, b) = CACHE_BADDR(c, a)
    BY <1>2, <2>1, AddressParts DEF Holds, BlkAddr
  <2>3. Carries(Write(b), low, c.bsize, a)
    BY <1>2, <2>2, BlockCarries
  <2> HIDE DEF Write, new
  <2>4. PICK i \in 1 .. Len(new) : new[i] = Write(b)
    BY <1>3, <2>1 DEF Holds
  <2>5. QED
    BY <2>3, <2>4 DEF Carried
<1> HIDE DEF Write, new
<1>7. GoodWrites(new)
  BY <1>3, <1>4 DEF GoodWrites
<1>8. \A n \in Caches : \A a \in Nat : DirtyIn(cp[n], a) =>
        DirtyIn(cp'[n], a) \/ Carried(new, Lower(n), cp[n].bsize, a)
  BY <1>3, <1>6 DEF Cache
<1>9. \A a \in DataAddrs : lastStore'[a] \in {lastStore[a], "memory"}
  BY <1>1
<1>10. QED
  BY <1>1, <1>3, <1>5, <1>7, <1>8, <1>9, OtherKeepsStores

LEMMA FlushAddrKeepsStores ==
  ASSUME HierarchyInv, StoresInv, NEW addr \in FlushAddrs, FlushAddr(addr)
  PROVE  StoresInv'
<1> DEFINE c == cp["dl1"]
           r == cp'["dl1"]
           blk == Lookup(c, addr)
           write == Access(Lower("dl1"), Writes, BlkAddr(c, blk), FALSE)
<1>1. /\ CachesOK' /\ SizesKept /\ todo = <<>>
      /\ r = cache_flush_addr(c, addr)
      /\ \A m \in Caches : m # "dl1" => cp'[m] = cp[m]
      /\ addr \in Nat
  BY FlushAddrCalls
<1>2. "dl1" \in Caches /\ CacheOK(c) /\ Shape(c)
  BY DEF HierarchyInv, CachesOK, CacheOK, CacheBut
<1>3. /\ SameSizes(c, r) /\ r.tag = c.tag /\ r.dirty = c.dirty
      /\ r.valid = IF blk = NULL THEN c.valid
                                 ELSE [c.valid EXCEPT ![blk] = FALSE]
  <2> HIDE DEF c, r
  <2>1. SameSizes(c, cache_flush_addr(c, addr))
    BY <1>1, <1>2, FlushAddrKeeps
  <2>2. /\ r.tag = c.tag /\ r.dirty = c.dirty
        /\ r.valid = IF Lookup(c, addr) = NULL THEN c.valid
                     ELSE [c.valid EXCEPT ![Lookup(c, addr)] = FALSE]
    BY <1>1, <1>2, FlushAddrKeeps
  <2>3. QED
    BY <1>1, <2>1, <2>2
<1>4. /\ lastStore' = lastStore
      /\ todo' = IF blk # NULL /\ c.dirty[blk] THEN <<write>> ELSE <<>>
  BY DEF FlushAddr
<1>5. blk # NULL => blk \in Blks(c)
  <2>1. blk # NULL => blk \in {CACHE_SET(c, addr)} \X Ways(c)
                      /\ CACHE_SET(c, addr) \in Sets(c)
    BY <1>1, <1>2, LookupIs
  <2>2. QED
    BY <2>1 DEF Blks
<1>6. blk # NULL /\ c.dirty[blk] => GoodWrite(write)
  BY <1>2, <1>5, WrittenBack
<1>7. ASSUME NEW a \in Nat, DirtyIn(c, a)
      PROVE  DirtyIn(r, a) \/ Carried(todo', Lower("dl1"), c.bsize, a)
  <2>1. PICK b \in Blks(c) :
               Holds(c, b, a) /\ b[1] = CACHE_SET(c, a) /\ c.dirty[b]
    BY <1>7 DEF DirtyIn
  <2>2. CASE b = blk
    <3>1. BlkAddr(c, blk) = CACHE_BADDR(c, a)
      BY <1>2, <2>1, <2>2, AddressParts DEF Holds, BlkAddr
    <3>2. Carries(write, Lower("dl1"), c.bsize, a)
      BY <1>2, <3>1, BlockCarries
    <3>3. todo' = <<write>>
      BY <1>4, <2>1, <2>2, NullIsNoBlk
    <3> HIDE DEF write
    <3>4. QED
      BY <3>2, <3>3 DEF Carried
  <2>3. CASE b # blk
    <3>1. /\ Blks(r) = Blks(c) /\ CACHE_SET(r, a) = CACHE_SET(c, a)
          /\ CACHE_TAG(r, a) = CACHE_TAG(c, a)
      BY <1>3, SameOperators
    <3>2. c.valid \in [Blks(c) -> BOOLEAN]
      BY <1>2 DEF Shape
    <3> HIDE DEF r, c, blk
    <3>3. r.valid[b] = c.valid[b]
      BY <1>3, <2>3, <3>2
    <3>4. QED
      BY <1>3, <2>1, <3>1, <3>3 DEF DirtyIn, Holds
  <2>4. QED
    BY <2>2, <2>3
<1> HIDE DEF write
<1>8. GoodWrites(todo')
  BY <1>4, <1>6, OneGoodWrite
<1>9. \A n \in Caches : cp'[n].dirty = cp[n].dirty
  BY <1>1, <1>3
<1>10. \A n \in Caches : \A a \in Nat : DirtyIn(cp[n], a) =>
        DirtyIn(cp'[n], a) \/ Carried(todo', Lower(n), cp[n].bsize, a)
  BY <1>1, <1>7
<1>11. QED
  BY <1>1, <1>4, <1>8, <1>9, <1>10, StartKeepsStores

LEMMA ProgramWrites ==
  /\ \A pc : GoodWrites(FetchCalls(pc))
  /\ \A data \in DataCalls : GoodWrites(data)
  /\ GoodWrites(FlushCalls)
  /\ \A targets \in Seq(Addresses) : GoodWrites(PrefetchCalls(targets))
<1>1. ASSUME NEW pc PROVE GoodWrites(FetchCalls(pc))
  <2>1. GoodWrite(Access("il1", Reads, pc, FALSE))
    BY NoWrites
  <2>2. QED
    BY <2>1, OneGoodWrite DEF FetchCalls
<1>2. ASSUME NEW data \in DataCalls PROVE GoodWrites(data)
  <2>1. \A cmd, a : GoodWrite(Access("dl1", cmd, a, FALSE))
    BY DEF GoodWrite, Access
  <2>2. QED
    BY <2>1, DataCallsAre, OneGoodWrite
<1>3. GoodWrites(FlushCalls)
  <2> DEFINE upper == FlushCall("dl1")
             lower == FlushCall("dl2")
  <2>1. GoodWrite(upper) /\ GoodWrite(lower)
    BY NoWrites DEF FlushCall
  <2> HIDE DEF upper, lower
  <2>2. FlushCalls = <<>> \/ FlushCalls = <<upper>> \/ FlushCalls = <<upper, lower>>
    BY Zenon DEF FlushCalls, upper, lower
  <2>3. GoodWrites(<<upper, lower>>)
    BY <2>1 DEF GoodWrites
  <2>4. QED
    BY <2>1, <2>2, <2>3, OneGoodWrite
<1>4. ASSUME NEW targets \in Seq(Addresses)
      PROVE  GoodWrites(PrefetchCalls(targets))
  <2> DEFINE calls == PrefetchCalls(targets)
  <2>1. /\ Len(calls) = Len(targets)
        /\ \A i \in 1 .. Len(targets) :
             calls[i] = Then("prefetch", Call.cache, targets[i])
    BY DEF PrefetchCalls
  <2> HIDE DEF calls
  <2>2. QED
    BY <2>1, NoWrites DEF GoodWrites, calls
<1>5. QED
  BY <1>1, <1>2, <1>3, <1>4

LEMMA StoresStep ==
  ASSUME HierarchyInv, StoresInv, [Next]_vars
  PROVE  StoresInv'
<1>1. CachesOK
  BY DEF HierarchyInv
<1>2. ASSUME cp' = cp
      PROVE  /\ CachesOK' /\ SizesKept
             /\ \A n \in Caches : cp'[n].dirty = cp[n].dirty
             /\ \A n \in Caches, a \in Nat :
                  DirtyIn(cp[n], a) => DirtyIn(cp'[n], a)
  BY <1>1, <1>2, CachesUnchanged
<1>3. CASE UNCHANGED vars
  BY <1>3 DEF vars, StoresInv, StoredAt, GoodWrites, GoodWrite, Nested,
              FetchedIsClean, Caches, Lower
<1>4. ASSUME NEW pc \in Pcs, Execute(pc) \/ SystemCall(pc)
      PROVE  StoresInv'
  <2>1. /\ todo = <<>> /\ cp' = cp /\ lastStore' = lastStore
    BY <1>4 DEF Execute, SystemCall
  <2>2. GoodWrites(todo')
    <3>1. CASE Execute(pc)
      <4>1. PICK data \in DataCalls : todo' = FetchCalls(pc) \o data
        BY <3>1 DEF Execute
      <4>2. /\ FetchCalls(pc) \in Seq(Calls) /\ data \in Seq(Calls)
            /\ GoodWrites(FetchCalls(pc)) /\ GoodWrites(data)
        BY <1>1, ProgramCalls, ProgramWrites
      <4>3. QED
        BY <4>1, <4>2, GoodWritesJoin
    <3>2. CASE SystemCall(pc)
      <4> DEFINE call == Then("syscall", "dl1", 0)
      <4>1. todo' = (FetchCalls(pc) \o FlushCalls) \o <<call>>
        BY <3>2 DEF SystemCall
      <4>2. call \in Calls /\ GoodWrite(call)
        BY <1>1, ProgramCalls, NoWrites
      <4> HIDE DEF call
      <4>3. <<call>> \in Seq(Calls) /\ GoodWrites(<<call>>)
        BY <4>2, OneCall, OneGoodWrite
      <4>4. /\ FetchCalls(pc) \in Seq(Calls) /\ FlushCalls \in Seq(Calls)
            /\ GoodWrites(FetchCalls(pc)) /\ GoodWrites(FlushCalls)
        BY <1>1, ProgramCalls, ProgramWrites
      <4>5. /\ FetchCalls(pc) \o FlushCalls \in Seq(Calls)
            /\ GoodWrites(FetchCalls(pc) \o FlushCalls)
        BY <4>4, GoodWritesJoin, ConcatCalls
      <4>6. QED
        BY <4>1, <4>3, <4>5, GoodWritesJoin
    <3>3. QED
      BY <1>4, <3>1, <3>2
  <2>3. QED
    BY <1>2, <2>1, <2>2, StartKeepsStores
<1>5. ASSUME NEW a \in FlushAddrs, FlushAddr(a)
      PROVE  StoresInv'
  BY <1>5, FlushAddrKeepsStores
<1>6. CASE AccessFastHit \/ AccessHit \/ AccessMiss
  <2>1. Accessing /\ MoveStores
    BY <1>6 DEF AccessFastHit, AccessHit, AccessMiss
  <2>2. PICK r, new : AccessMakes(r, new)
    BY <1>6, HitMakes, MissMakes
  <2>3. QED
    BY <2>1, <2>2, AccessKeepsStores
<1>7. CASE AccessMemory
  BY <1>7, MemoryKeepsStores
<1>8. CASE Flush
  BY <1>8, FlushKeepsStores
<1>9. ASSUME todo # <<>>, Call.op # "access", cp' = cp,
             \A a \in DataAddrs : lastStore'[a] \in {lastStore[a], "memory"},
             NEW new, Replaces(new), GoodWrites(new)
      PROVE  StoresInv'
  BY <1>2, <1>9, OtherKeepsStores
<1>10. CASE GenerateNone \/ GenerateNextLine \/ GenerateOpenEnded
            \/ GenerateStride
  <2>1. /\ cp' = cp /\ lastStore' = lastStore /\ todo # <<>>
        /\ Call.op = "generate"
        /\ \E targets \in Seq(Addresses) : Replaces(PrefetchCalls(targets))
    BY <1>10, GenerateCalls DEF Calling
  <2>2. PICK targets \in Seq(Addresses) : Replaces(PrefetchCalls(targets))
    BY <2>1
  <2>3. GoodWrites(PrefetchCalls(targets))
    BY ProgramWrites
  <2>4. QED
    BY <1>9, <2>1, <2>2, <2>3
<1>11. CASE Prefetch
  <2> DEFINE call == Access(Call.cache, Reads, Call.addr, TRUE)
             new == IF Wanted(Call.addr) THEN <<call>> ELSE <<>>
  <2>1. Replaces(new)
    BY <1>11, PrefetchMakes
  <2>2. GoodWrite(call)
    BY NoWrites
  <2> HIDE DEF call
  <2>3. GoodWrites(new)
    BY <2>2, OneGoodWrite
  <2>4. cp' = cp /\ lastStore' = lastStore /\ todo # <<>> /\ Call.op = "prefetch"
    BY <1>11 DEF Prefetch, Calling
  <2> HIDE DEF new
  <2>5. QED
    BY <1>9, <2>1, <2>3, <2>4
<1>12. CASE ReturnHit \/ SyscallUncached
  <2>1. /\ cp' = cp /\ todo # <<>> /\ todo' = Tail(todo)
        /\ Call.op \in {"return", "syscall"}
    BY <1>12 DEF ReturnHit, SyscallUncached, Calling
  <2>2. \A a \in DataAddrs : lastStore'[a] \in {lastStore[a], "memory"}
    <3>1. lastStore \in [DataAddrs -> {"memory"} \cup Caches]
      BY DEF HierarchyInv
    <3>2. QED
      BY <1>12, <3>1 DEF ReturnHit, SyscallUncached
  <2>3. Replaces(<<>>) /\ GoodWrites(<<>>)
    BY <2>1, ReturnMakes, OneGoodWrite
  <2>4. QED
    BY <1>9, <2>1, <2>2, <2>3
<1>13. CASE SyscallCached
  <2>1. PICK data \in DataCalls : Replaces(data)
    BY <1>13, SyscallCalls
  <2>2. GoodWrites(data)
    BY ProgramWrites
  <2>3. cp' = cp /\ lastStore' = lastStore /\ todo # <<>> /\ Call.op = "syscall"
    BY <1>13 DEF SyscallCached, Calling
  <2>4. QED
    BY <1>9, <2>1, <2>2, <2>3
<1>14. QED
  BY <1>3, <1>4, <1>5, <1>6, <1>7, <1>8, <1>10, <1>11, <1>12, <1>13
     DEF Next, Simulator

LEMMA StoresInit == Init => StoresInv
<1> SUFFICES ASSUME Init PROVE StoresInv
  OBVIOUS
<1>1. /\ cp \in Hierarchies /\ todo = <<>>
      /\ lastStore = [a \in DataAddrs |-> "memory"]
  BY DEF Init
<1>2. /\ "dl1" \in Caches /\ \A n \in Caches : Created(cp[n])
      /\ "dl2" \in Caches =>
           \A n \in Caches : cp["dl2"].bsize % cp[n].bsize = 0
  BY <1>1, ProgramAssumption DEF Caches
<1>3. \A a \in DataAddrs : lastStore[a] # "il1" /\ StoredAt(lastStore[a], a)
  BY <1>1 DEF StoredAt
<1>4. GoodWrites(todo) /\ Nested
  BY <1>1, <1>2 DEF GoodWrites, Nested
<1>5. FetchedIsClean
  <2>1. \A c : Created(c) => \A b \in Blks(c) : ~c.dirty[b]
    <3> SUFFICES ASSUME NEW c, Created(c), NEW b \in Blks(c) PROVE ~c.dirty[b]
      OBVIOUS
    <3>1. c.dirty = [x \in Blks(c) |-> FALSE]
      BY DEF Created, cache_create, Blks, Sets, Ways
    <3>2. QED
      BY <3>1
  <2>2. QED
    BY <1>2, <2>1 DEF FetchedIsClean
<1>6. QED
  BY <1>3, <1>4, <1>5 DEF StoresInv

\* The last store to every address is in memory, in a dirty block that a lookup
\* finds, or in a write-back on its way, in every hierarchy whose second level
\* has blocks of whole first-level ones.
THEOREM StoresAlwaysHeld == Spec => []LastStoreHeld
<1>1. HierarchyInv /\ StoresInv => LastStoreHeld
  <2> SUFFICES ASSUME HierarchyInv, StoresInv, NEW a \in DataAddrs,
                      NEW at, at = lastStore[a]
               PROVE  \/ at = "memory"
                      \/ LET blk == Lookup(cp[at], a)
                         IN blk # NULL /\ cp[at].dirty[blk]
                      \/ \E i \in 1 .. Len(todo) :
                           /\ todo[i].op = "access" /\ todo[i].cmd = Writes
                           /\ todo[i].cache = Lower(at)
                           /\ a \in BlockOf(at, todo[i].addr)
    BY DEF LastStoreHeld
  <2>1. StoredAt(at, a) /\ a \in Nat
    BY AddressIsNat DEF StoresInv, StoredAt
  <2>2. CASE at \in Caches /\ DirtyIn(cp[at], a)
    <3>1. CacheOK(cp[at])
      BY <2>2 DEF HierarchyInv, CachesOK
    <3>2. QED
      BY <2>1, <2>2, <3>1, DirtyIsFound
  <2>3. CASE at \in Caches /\ Carried(todo, Lower(at), cp[at].bsize, a)
    BY <2>3 DEF Carried, Carries, BlockOf
  <2>4. QED
    BY <2>1, <2>2, <2>3 DEF StoredAt
<1>2. HierarchyInv /\ StoresInv /\ [Next]_vars => StoresInv'
  BY StoresStep
<1>3. Spec => []StoresInv
  BY <1>2, StoresInit, HierarchySound, PTL DEF Spec
<1>4. QED
  BY <1>1, <1>3, HierarchySound, PTL

-----------------------------------------------------------------------------
(* What a system call finds, if the caches are flushed for it *)

\* The call is served by cache n or may make calls that are.
Touches(call, n) ==
  /\ call.op \in {"access", "generate", "prefetch", "flush"}
  /\ call.cache \in Caches
  /\ Lower(call.cache) = n \/ (call.op # "flush" /\ call.cache = n)

Flushes(call, n) == call.op = "flush" /\ call.cache = n

Empty(n) == \A b \in Blks(cp[n]) : ~cp[n].valid[b]

\* Before the last call is served, cache n is emptied for good.
Emptied(n) ==
  \/ \E j \in 1 .. Len(todo) :
       /\ Flushes(todo[j], n)
       /\ \A k \in 1 .. Len(todo) : k > j => ~Touches(todo[k], n)
  \/ Empty(n) /\ \A k \in 1 .. Len(todo) : ~Touches(todo[k], n)

SyscallInv ==
  \A i \in 1 .. Len(todo) : todo[i].op = "syscall" =>
    /\ i = Len(todo)
    /\ \A n \in Caches \cap {"dl1", "dl2"} : Emptied(n)

\* No call makes others that reach a cache that it does not.
TameCalls ==
  {call \in Calls :
     /\ call.op # "syscall"
     /\ \A n \in Caches : Touches(call, n) => Touches(Call, n)}

\* The call has no effect on the caches it does not touch, and empties the
\* one it flushes.
Leaves(n) ==
  /\ ~Touches(Call, n) /\ ~Flushes(Call, n) => cp'[n] = cp[n]
  /\ Flushes(Call, n) => Empty(n)'

LEMMA TouchesSame ==
  ASSUME CachesOK, SizesKept
  PROVE  /\ \A call, n : Touches(call, n)' = Touches(call, n)
         /\ Caches' = Caches
<1>1. /\ Caches' = Caches /\ \A n : Lower(n)' = Lower(n)
  BY SizesSame
<1>2. QED
  BY <1>1 DEF Touches

LEMMA StaysEmptied ==
  ASSUME HierarchyInv, SizesKept, todo # <<>>, NEW new \in Seq(TameCalls),
         Replaces(new), NEW n \in Caches, Leaves(n), Emptied(n)
  PROVE  Emptied(n)'
<1> DEFINE m == Len(new)
           t == todo
           u == todo'
<1>1. /\ m \in Nat /\ Len(t) \in Nat \ {0} /\ Len(u) = m + Len(t) - 1
      /\ Call = t[1]
      /\ \A i \in 2 .. Len(t) : u[m + i - 1] = t[i]
      /\ \A i \in 1 .. Len(u) :
           \/ i \in 1 .. m /\ u[i] = new[i]
           \/ i - m + 1 \in 2 .. Len(t) /\ u[i] = t[i - m + 1]
  BY Pushed DEF HierarchyInv, Replaces, Call
<1>2. n \in Caches' /\ \A call : Touches(call, n)' = Touches(call, n)
  BY TouchesSame DEF HierarchyInv
<1>3. \A i \in 1 .. m : Touches(new[i], n) => Touches(Call, n)
  <2>1. \A i \in 1 .. m : new[i] \in TameCalls
    OBVIOUS
  <2>2. QED
    BY <2>1 DEF TameCalls
<1> HIDE DEF m, t, u
<1>4. CASE \E j \in 2 .. Len(t) :
             /\ Flushes(t[j], n)
             /\ \A k \in 1 .. Len(t) : k > j => ~Touches(t[k], n)
  <2>1. PICK j \in 2 .. Len(t) :
               /\ Flushes(t[j], n)
               /\ \A k \in 1 .. Len(t) : k > j => ~Touches(t[k], n)
    BY <1>4
  <2> DEFINE i == m + j - 1
  <2>2. i \in 1 .. Len(u) /\ u[i] = t[j] /\ i >= m + 1
    <3>1. u[i] = t[j]
      BY <1>1
    <3>2. m \in Nat /\ Len(t) \in Nat /\ Len(u) = m + Len(t) - 1
      BY <1>1
    <3>3. i \in 1 .. Len(u) /\ i >= m + 1
      BY <3>2
    <3>4. QED
      BY <3>1, <3>3
  <2>3. ASSUME NEW k \in 1 .. Len(u), k > i PROVE ~Touches(u[k], n)
    <3>1. k - m + 1 \in 2 .. Len(t) /\ u[k] = t[k - m + 1] /\ k - m + 1 > j
      BY <1>1, <2>2, <2>3
    <3>2. QED
      BY <1>1, <2>1, <3>1
  <2> HIDE DEF i
  <2>4. QED
    BY <1>2, <2>1, <2>2, <2>3 DEF Emptied, Flushes, u
<1>5. CASE /\ \A k \in 2 .. Len(t) : ~Touches(t[k], n)
           /\ ~Touches(Call, n) /\ Empty(n)'
  <2>1. \A k \in 1 .. Len(u) : ~Touches(u[k], n)
    BY <1>1, <1>3, <1>5
  <2>2. QED
    BY <1>2, <1>5, <2>1 DEF Emptied, u
<1>6. CASE /\ Flushes(Call, n)
           /\ \A k \in 1 .. Len(t) : k > 1 => ~Touches(t[k], n)
  <2>1. ~Touches(Call, n)
    BY <1>6, LowerIs DEF Touches, Flushes, HierarchyInv, CachesOK
  <2>2. Empty(n)'
    BY <1>6 DEF Leaves
  <2>3. QED
    BY <1>1, <1>5, <1>6, <2>1, <2>2
<1>7. CASE Empty(n) /\ \A k \in 1 .. Len(t) : ~Touches(t[k], n)
  <2>1. ~Touches(Call, n)
    <3>1. 1 \in 1 .. Len(t)
      BY <1>1
    <3>2. ~Touches(t[1], n)
      BY <1>7, <3>1
    <3>3. QED
      BY <1>1, <3>2
  <2>2. Empty(n)'
    BY <1>7, <2>1 DEF Leaves, Empty
  <2>3. QED
    BY <1>1, <1>5, <1>7, <2>1, <2>2
<1>8. QED
  <2>1. CASE Empty(n) /\ \A k \in 1 .. Len(t) : ~Touches(t[k], n)
    BY <1>7, <2>1
  <2>2. CASE \E j \in 1 .. Len(t) :
               /\ Flushes(t[j], n)
               /\ \A k \in 1 .. Len(t) : k > j => ~Touches(t[k], n)
    <3>1. PICK j \in 1 .. Len(t) :
                 /\ Flushes(t[j], n)
                 /\ \A k \in 1 .. Len(t) : k > j => ~Touches(t[k], n)
      BY <2>2
    <3>2. j = 1 \/ j \in 2 .. Len(t)
      BY <1>1
    <3>3. QED
      BY <1>1, <1>4, <1>6, <3>1, <3>2
  <2>3. QED
    BY <2>1, <2>2 DEF Emptied, t

LEMMA ReplacedStaysEmptied ==
  ASSUME HierarchyInv, SyscallInv, SizesKept, todo # <<>>,
         NEW new \in Seq(TameCalls), Replaces(new), \A n \in Caches : Leaves(n)
  PROVE  SyscallInv'
<1>1. /\ Len(new) \in Nat /\ Len(todo) \in Nat \ {0}
      /\ Len(todo') = Len(new) + Len(todo) - 1
      /\ \A i \in 1 .. Len(todo') :
           \/ i \in 1 .. Len(new) /\ todo'[i] = new[i]
           \/ /\ i - Len(new) + 1 \in 2 .. Len(todo)
              /\ todo'[i] = todo[i - Len(new) + 1]
  BY Pushed DEF HierarchyInv, Replaces
<1>2. Caches' = Caches
  BY DEF SizesKept
<1>3. ASSUME NEW i \in 1 .. Len(todo'), todo'[i].op = "syscall"
      PROVE  /\ i = Len(todo')
             /\ \A n \in Caches \cap {"dl1", "dl2"} : Emptied(n)'
  <2> DEFINE j == i - Len(new) + 1
  <2>1. j \in 2 .. Len(todo) /\ todo'[i] = todo[j]
    <3>1. \A k \in 1 .. Len(new) : new[k] \in TameCalls
      OBVIOUS
    <3>2. QED
      BY <1>1, <1>3, <3>1 DEF TameCalls
  <2>2. j \in 1 .. Len(todo)
    BY <1>1, <2>1
  <2>3. j = Len(todo) /\ \A n \in Caches \cap {"dl1", "dl2"} : Emptied(n)
    BY <1>3, <2>1, <2>2 DEF SyscallInv
  <2>4. \A n \in Caches \cap {"dl1", "dl2"} : Emptied(n)'
    BY <2>3, StaysEmptied
  <2>5. QED
    BY <1>1, <2>3, <2>4
<1>4. QED
  BY <1>2, <1>3 DEF SyscallInv

LEMMA TameSequences ==
  /\ <<>> \in Seq(TameCalls)
  /\ \A call \in TameCalls : <<call>> \in Seq(TameCalls)
  /\ \A s, t \in Seq(TameCalls) : s \o t \in Seq(TameCalls)
<1>1. \A S : /\ <<>> \in Seq(S) /\ \A x \in S : <<x>> \in Seq(S)
             /\ \A s, t \in Seq(S) : s \o t \in Seq(S)
  BY ConcatCalls
<1>2. QED
  BY <1>1

\* Calls that are no access to a cache, or to the one of the call or below it.
LEMMA TameIs ==
  ASSUME CachesOK, NEW call \in Calls, call.op # "syscall",
         \/ call.op = "return"
         \/ call.cache \notin Caches
         \/ /\ Call.cache \in Caches /\ call.op # "flush"
            /\ \/ /\ Call.op \in {"access", "generate", "prefetch", "flush"}
                  /\ call.cache = Lower(Call.cache)
               \/ /\ Call.op \in {"access", "generate", "prefetch"}
                  /\ call.cache = Call.cache
  PROVE  call \in TameCalls
<1> SUFFICES ASSUME NEW n \in Caches, Touches(call, n)
             PROVE  Touches(Call, n)
  BY DEF TameCalls
<1>1. /\ call.op \in {"access", "generate", "prefetch", "flush"}
      /\ call.cache \in Caches
      /\ Lower(call.cache) = n \/ (call.op # "flush" /\ call.cache = n)
  BY DEF Touches
<1>2. CASE /\ Call.op \in {"access", "generate", "prefetch", "flush"}
           /\ call.cache = Lower(Call.cache) /\ Call.cache \in Caches
  <2>1. call.cache = "dl2" /\ n # "memory"
    BY <1>1, <1>2, LowerIs DEF CachesOK
  <2>2. Lower(call.cache) = "memory"
    BY <2>1 DEF Lower
  <2>3. QED
    BY <1>1, <1>2, <2>1, <2>2 DEF Touches
<1>3. CASE /\ Call.op \in {"access", "generate", "prefetch"}
           /\ call.cache = Call.cache
  BY <1>1, <1>3 DEF Touches
<1>4. QED
  BY <1>1, <1>2, <1>3

LEMMA AccessIsTame ==
  ASSUME HierarchyInv, Accessing
  PROVE  /\ AfterAccess \in Seq(TameCalls)
         /\ \A b \in Blks(Cache) :
              Return(Call.cache, Call.addr, b) \in TameCalls
         /\ \A cmd \in {Reads, Writes}, a \in Addresses, p \in BOOLEAN :
              Access(Lower(Call.cache), cmd, a, p) \in TameCalls
         /\ \A n \in Caches :
              /\ ~Flushes(Call, n)
              /\ n = Call.cache => Touches(Call, n)
<1>1. /\ Call.op = "access" /\ Call.cache \in Caches /\ CachesOK
      /\ Call.addr \in Addresses
  BY AccessIs DEF HierarchyInv
<1>2. AfterAccess \in Seq(TameCalls)
  <2> DEFINE call == Then("generate", Call.cache, Call.addr)
  <2>1. call \in Calls /\ call.op = "generate" /\ call.cache = Call.cache
    BY <1>1, CallKinds DEF Then
  <2> HIDE DEF call
  <2>2. call \in TameCalls
    BY <1>1, <2>1, TameIs
  <2>3. QED
    BY <2>2, TameSequences DEF AfterAccess, call
<1>3. ASSUME NEW b \in Blks(Cache)
      PROVE  Return(Call.cache, Call.addr, b) \in TameCalls
  <2> DEFINE call == Return(Call.cache, Call.addr, b)
  <2>1. call \in Calls /\ call.op = "return"
    BY <1>1, CallKinds DEF Return, Cache
  <2> HIDE DEF call
  <2>2. call \in TameCalls
    BY <1>1, <2>1, TameIs
  <2>3. QED
    BY <2>2 DEF call
<1>4. ASSUME NEW cmd \in {Reads, Writes}, NEW a \in Addresses, NEW p \in BOOLEAN
      PROVE  Access(Lower(Call.cache), cmd, a, p) \in TameCalls
  <2> DEFINE call == Access(Lower(Call.cache), cmd, a, p)
  <2>1. /\ call \in Calls /\ call.op = "access"
        /\ call.cache = Lower(Call.cache)
    BY <1>1, CallKinds, LowerIs DEF Access
  <2> HIDE DEF call
  <2>2. call \in TameCalls
    BY <1>1, <2>1, TameIs
  <2>3. QED
    BY <2>2 DEF call
<1>5. \A n \in Caches : /\ ~Flushes(Call, n)
                        /\ n = Call.cache => Touches(Call, n)
  BY <1>1 DEF Flushes, Touches
<1>6. QED
  BY <1>2, <1>3, <1>4, <1>5

LEMMA AccessLeaves ==
  ASSUME HierarchyInv, SyscallInv, AccessFastHit \/ AccessHit \/ AccessMiss
  PROVE  SyscallInv'
<1>1. Accessing
  BY DEF AccessFastHit, AccessHit, AccessMiss
<1>2. todo # <<>> /\ CacheOK(Cache) /\ Call.addr \in Nat
      /\ Call.addr \in Addresses /\ Call.prefetch \in BOOLEAN
      /\ Call.cache \in Caches
  BY <1>1, AccessIs
<1>3. ASSUME NEW new \in Seq(TameCalls), Replaces(new), SizesKept,
             \A m \in Caches : m # Call.cache => cp'[m] = cp[m]
      PROVE  SyscallInv'
  <2>1. \A n \in Caches : Leaves(n)
    BY <1>1, <1>3, AccessIsTame DEF Leaves
  <2>2. QED
    BY <1>2, <1>3, <2>1, ReplacedStaysEmptied
<1>4. CASE AccessFastHit
  <2> DEFINE return == Return(Call.cache, Call.addr, Cache.last_blk)
             new == AfterAccess \o <<return>>
  <2>1. Cache.last_blk \in Blks(Cache)
    BY <1>2, <1>4 DEF AccessFastHit, CacheOK, CacheBut, Shape
  <2>2. return \in TameCalls
    BY <1>1, <2>1, AccessIsTame
  <2>3. /\ Replaces(new) /\ SizesKept
        /\ \A m \in Caches : m # Call.cache => cp'[m] = cp[m]
    BY <1>4, FastHitCalls
  <2> HIDE DEF return
  <2>4. new \in Seq(TameCalls)
    BY <1>1, <2>2, AccessIsTame, TameSequences
  <2>5. QED
    BY <1>3, <2>3, <2>4
<1>5. CASE AccessHit
  <2> DEFINE blk == Lookup(Cache, Call.addr)
             return == Return(Call.cache, Call.addr, blk)
             new == AfterAccess \o <<return>>
  <2>1. /\ Replaces(new) /\ SizesKept /\ blk \in Blks(Cache)
        /\ \A m \in Caches : m # Call.cache => cp'[m] = cp[m]
    BY <1>5, HitCalls
  <2>2. return \in TameCalls
    BY <1>1, <2>1, AccessIsTame
  <2> HIDE DEF return
  <2>3. new \in Seq(TameCalls)
    BY <1>1, <2>2, AccessIsTame, TameSequences
  <2>4. QED
    BY <1>3, <2>1, <2>3
<1>6. CASE AccessMiss
  <2>1. PICK repl : MissReplaces(repl)
    BY <1>6 DEF AccessMiss, MissReplaces
  <2> DEFINE low == Lower(Call.cache)
             set == CACHE_SET(Cache, Call.addr)
             read == Access(low, Reads, CACHE_BADDR(Cache, Call.addr),
                            Call.prefetch)
             write == Access(low, Writes, BlkAddr(Cache, repl), FALSE)
             back == WriteBack(repl)
             new == back \o <<read>> \o AfterAccess
  <2>2. /\ SizesKept /\ Replaces(new)
        /\ \A m \in Caches : m # Call.cache => cp'[m] = cp[m]
        /\ set \in Sets(Cache) /\ repl \in {set} \X Ways(Cache)
    BY <1>6, <2>1, MissCalls
  <2>3. repl \in Blks(Cache)
    BY <2>2 DEF Blks
  <2>4. read \in TameCalls
    <3>1. CACHE_BADDR(Cache, Call.addr) \in Addresses
      BY <1>2, BlockIsTyped
    <3>2. QED
      BY <1>1, <1>2, <3>1, AccessIsTame
  <2>5. back \in Seq(TameCalls)
    <3>1. Cache.valid[repl] => write \in TameCalls
      <4>1. Cache.valid[repl] => BlkAddr(Cache, repl) \in Addresses
        BY <1>2, <2>3, BlockIsTyped
      <4>2. QED
        BY <1>1, <4>1, AccessIsTame
    <3>2. back = IF Cache.valid[repl] /\ Cache.dirty[repl] THEN <<write>>
                                                          ELSE <<>>
      BY DEF WriteBack
    <3> HIDE DEF write, back
    <3>3. QED
      BY <3>1, <3>2, TameSequences
  <2> HIDE DEF read, back
  <2>6. new \in Seq(TameCalls)
    <3>1. back \o <<read>> \in Seq(TameCalls)
      BY <2>4, <2>5, TameSequences
    <3>2. AfterAccess \in Seq(TameCalls)
      BY <1>1, AccessIsTame
    <3>3. QED
      BY <3>1, <3>2, TameSequences
  <2> HIDE DEF new
  <2>7. QED
    BY <1>3, <2>2, <2>6
<1>7. QED
  BY <1>4, <1>5, <1>6

LEMMA SequenceOf ==
  ASSUME NEW S, NEW T, NEW s \in Seq(S), \A i \in 1 .. Len(s) : s[i] \in T
  PROVE  s \in Seq(T)
<1>1. Len(s) \in Nat /\ s \in [1 .. Len(s) -> S]
  BY LenProperties
<1>2. s \in [1 .. Len(s) -> T]
  BY <1>1
<1>3. QED
  BY <1>1, <1>2, SeqDef

LEMMA FlushLeaves ==
  ASSUME HierarchyInv, SyscallInv, Flush
  PROVE  SyscallInv'
<1> DEFINE c == Cache
           low == Lower(Call.cache)
           new == FlushWrites
           Write(b) == Access(low, Writes, BlkAddr(c, b), FALSE)
<1>1. todo # <<>> /\ Call.op = "flush" /\ Calling("flush") /\ CachesOK
  BY DEF Flush, Calling, HierarchyInv
<1>2. Call.cache \in Caches /\ CacheOK(c)
  BY <1>1, OtherIs
<1>3. /\ SizesKept /\ Replaces(new)
      /\ cp'[Call.cache] = cache_flush(c)
      /\ \A m \in Caches : m # Call.cache => cp'[m] = cp[m]
      /\ \A i \in 1 .. Len(new) : \E b \in Blks(c) : new[i] = Write(b)
  BY FlushMakes
<1>4. \A b : Write(b).op = "access" /\ Write(b).cache = low
  BY DEF Access
<1> HIDE DEF Write, new
<1>5. new \in Seq(Calls)
  BY <1>3 DEF Replaces
<1>6. \A i \in 1 .. Len(new) : new[i] \in TameCalls
  <2> TAKE i \in 1 .. Len(new)
  <2>1. /\ new[i] \in Calls /\ new[i].op = "access"
        /\ new[i].cache = Lower(Call.cache)
    BY <1>3, <1>4, <1>5
  <2>2. QED
    BY <1>1, <1>2, <2>1, TameIs
<1>7. new \in Seq(TameCalls)
  BY <1>5, <1>6, SequenceOf
<1>8. ASSUME NEW n \in Caches PROVE Leaves(n)
  <2>1. CASE n = Call.cache
    <3>1. cp'[n].valid = [b \in Blks(cp[n]) |-> FALSE]
      BY <1>2, <1>3, <2>1, FlushKeeps DEF Cache
    <3>2. Blks(cp'[n]) = Blks(cp[n])
      BY <1>3, SameOperators DEF SizesKept
    <3>3. Empty(n)'
      BY <3>1, <3>2 DEF Empty
    <3>4. Flushes(Call, n)
      BY <1>1, <2>1 DEF Flushes
    <3>5. QED
      BY <3>3, <3>4 DEF Leaves
  <2>2. CASE n # Call.cache
    BY <1>3, <2>2 DEF Leaves, Flushes
  <2>3. QED
    BY <2>1, <2>2
<1>9. QED
  BY <1>1, <1>3, <1>7, <1>8, ReplacedStaysEmptied

LEMMA OtherLeaves ==
  ASSUME HierarchyInv, SyscallInv, todo # <<>>, Call.op # "flush", cp' = cp,
         NEW new \in Seq(TameCalls), Replaces(new)
  PROVE  SyscallInv'
<1>1. CachesOK' /\ SizesKept
  BY CachesUnchanged DEF HierarchyInv
<1>2. \A n \in Caches : Leaves(n)
  BY DEF Leaves, Flushes
<1>3. QED
  BY <1>1, <1>2, ReplacedStaysEmptied

\* A system call flushes dl1 before dl2, which no later call touches.
LEMMA SystemCallStarts ==
  ASSUME HierarchyInv, flush_on_syscalls, NEW pc \in Pcs, SystemCall(pc)
  PROVE  SyscallInv'
<1> DEFINE fetch == FetchCalls(pc)
           upper == FlushCall("dl1")
           lower == FlushCall("dl2")
           call == Then("syscall", "dl1", 0)
           f == Len(fetch)
           u == todo'
<1>1. /\ CachesOK /\ cp' = cp /\ "dl1" \in Caches
      /\ u = (fetch \o FlushCalls) \o <<call>>
  BY DEF SystemCall, HierarchyInv, CachesOK
<1>2. Caches' = Caches /\ \A k, n : Touches(k, n)' = Touches(k, n)
  BY <1>1, CachesUnchanged, TouchesSame
<1>3. /\ fetch \in Seq(Calls) /\ FlushCalls \in Seq(Calls)
      /\ call \in Calls
  BY <1>1, ProgramCalls
<1>4. \A i \in 1 .. f : fetch[i].op = "access"
  BY DEF FetchCalls, Access
<1>5. /\ upper.op = "flush" /\ upper.cache = "dl1"
      /\ lower.op = "flush" /\ lower.cache = "dl2" /\ call.op = "syscall"
  BY DEF FlushCall, Then
<1>6. FlushCalls = IF "dl2" \in Caches THEN <<upper, lower>> ELSE <<upper>>
  BY Zenon DEF FlushCalls
<1>7. \A n : ~Touches(call, n)
  BY <1>5 DEF Touches
<1>8. /\ ~Touches(lower, "dl1") /\ ~Touches(lower, "dl2")
  BY <1>1, <1>5, LowerIs DEF Touches
<1> HIDE DEF fetch, upper, lower, call
<1>9. f \in Nat
  BY <1>3, LenProperties
<1>10. CASE "dl2" \in Caches
  <2>1. /\ Len(u) = f + 3
        /\ \A i \in 1 .. f : u[i] = fetch[i]
        /\ u[f + 1] = upper /\ u[f + 2] = lower /\ u[f + 3] = call
    BY <1>1, <1>3, <1>6, <1>9, <1>10
  <2> HIDE DEF u, f
  <2>2. \A i \in 1 .. Len(u) : u[i].op = "syscall" => i = Len(u)
    <3> SUFFICES ASSUME NEW i \in 1 .. Len(u), u[i].op = "syscall", i # Len(u)
                 PROVE  FALSE
      OBVIOUS
    <3>1. i \in 1 .. f \/ i = f + 1 \/ i = f + 2
      BY <1>9, <2>1
    <3>2. QED
      BY <1>4, <1>5, <2>1, <3>1 DEF f
  <2>3. /\ f + 1 \in 1 .. Len(u) /\ f + 2 \in 1 .. Len(u)
        /\ \A k \in 1 .. Len(u) : k > f + 1 => k = f + 2 \/ k = f + 3
    BY <1>9, <2>1
  <2>4. /\ \A k \in 1 .. Len(u) : k > f + 1 => ~Touches(u[k], "dl1")
        /\ \A k \in 1 .. Len(u) : k > f + 2 => ~Touches(u[k], "dl2")
    BY <1>7, <1>8, <1>9, <2>1, <2>3
  <2>5. Flushes(u[f + 1], "dl1") /\ Flushes(u[f + 2], "dl2")
    BY <1>5, <2>1 DEF Flushes
  <2>6. Emptied("dl1")' /\ Emptied("dl2")'
    BY <1>2, <2>3, <2>4, <2>5 DEF Emptied, Flushes, u
  <2>7. QED
    BY <1>2, <2>2, <2>6 DEF SyscallInv, u
<1>11. CASE "dl2" \notin Caches
  <2>1. /\ Len(u) = f + 2
        /\ \A i \in 1 .. f : u[i] = fetch[i]
        /\ u[f + 1] = upper /\ u[f + 2] = call
    BY <1>1, <1>3, <1>6, <1>9, <1>11
  <2> HIDE DEF u, f
  <2>2. \A i \in 1 .. Len(u) : u[i].op = "syscall" => i = Len(u)
    <3> SUFFICES ASSUME NEW i \in 1 .. Len(u), u[i].op = "syscall", i # Len(u)
                 PROVE  FALSE
      OBVIOUS
    <3>1. i \in 1 .. f \/ i = f + 1
      BY <1>9, <2>1
    <3>2. QED
      BY <1>4, <1>5, <2>1, <3>1 DEF f
  <2>3. /\ f + 1 \in 1 .. Len(u)
        /\ \A k \in 1 .. Len(u) : k > f + 1 => k = f + 2
    BY <1>9, <2>1
  <2>4. \A k \in 1 .. Len(u) : k > f + 1 => ~Touches(u[k], "dl1")
    BY <1>7, <2>1, <2>3
  <2>5. Flushes(u[f + 1], "dl1")
    BY <1>5, <2>1 DEF Flushes
  <2>6. Emptied("dl1")'
    BY <1>2, <2>3, <2>4, <2>5 DEF Emptied, Flushes, u
  <2>7. QED
    BY <1>2, <1>11, <2>2, <2>6 DEF SyscallInv, u
<1>12. QED
  BY <1>10, <1>11

LEMMA NoSyscalls ==
  ASSUME CachesOK, SizesKept, \A i \in 1 .. Len(todo') : todo'[i].op # "syscall"
  PROVE  SyscallInv'
BY DEF SyscallInv

\* What an instruction or a cache_flush_addr calls for is no system call.
LEMMA NoSyscallStarts ==
  ASSUME HierarchyInv,
         \/ \E pc \in Pcs : Execute(pc)
         \/ \E a \in FlushAddrs : FlushAddr(a)
  PROVE  SyscallInv'
<1>1. CachesOK
  BY DEF HierarchyInv
<1>2. ASSUME NEW pc \in Pcs, Execute(pc) PROVE SyscallInv'
  <2>1. PICK data \in DataCalls : todo' = FetchCalls(pc) \o data
    BY <1>2 DEF Execute
  <2> DEFINE NoneIn(s) == \A i \in 1 .. Len(s) : s[i].op # "syscall"
             fetch == FetchCalls(pc)
  <2>2. fetch \in Seq(Calls) /\ data \in Seq(Calls)
    BY <1>1, ProgramCalls
  <2>3. NoneIn(fetch)
    BY DEF FetchCalls, Access
  <2>4. NoneIn(data)
    <3>1. \A cmd, a : NoneIn(<<Access("dl1", cmd, a, FALSE)>>)
      BY DEF Access
    <3>2. NoneIn(<<>>)
      OBVIOUS
    <3> HIDE DEF NoneIn
    <3>3. QED
      BY <3>1, <3>2, DataCallsAre
  <2> HIDE DEF fetch
  <2>5. NoneIn(fetch \o data)
    <3> DEFINE u == fetch \o data
    <3>1. Len(fetch) \in Nat /\ Len(data) \in Nat
      BY <2>2, LenProperties
    <3>2. /\ Len(u) = Len(fetch) + Len(data)
          /\ \A i \in 1 .. Len(fetch) + Len(data) :
               u[i] = IF i <= Len(fetch) THEN fetch[i] ELSE data[i - Len(fetch)]
      BY <2>2, ConcatProperties
    <3> HIDE DEF u
    <3>3. ASSUME NEW i \in 1 .. Len(u) PROVE u[i].op # "syscall"
      <4>1. CASE i <= Len(fetch)
        BY <2>3, <3>1, <3>2, <4>1
      <4>2. CASE ~(i <= Len(fetch))
        <5>1. i - Len(fetch) \in 1 .. Len(data) /\ u[i] = data[i - Len(fetch)]
          BY <3>1, <3>2, <4>2
        <5>2. QED
          BY <2>4, <5>1
      <4>3. QED
        BY <4>1, <4>2
    <3>4. QED
      BY <3>3 DEF u
  <2>6. cp' = cp
    BY <1>2 DEF Execute
  <2>7. QED
    BY <1>1, <2>1, <2>5, <2>6, CachesUnchanged, NoSyscalls DEF fetch
<1>3. ASSUME NEW a \in FlushAddrs, FlushAddr(a) PROVE SyscallInv'
  <2>1. SizesKept
    BY <1>3, FlushAddrCalls
  <2>2. \A i \in 1 .. Len(todo') : todo'[i].op # "syscall"
    BY <1>3 DEF FlushAddr, Access
  <2>3. QED
    BY <1>1, <2>1, <2>2, NoSyscalls
<1>4. QED
  BY <1>2, <1>3

LEMMA SyscallStep ==
  ASSUME flush_on_syscalls, HierarchyInv, SyscallInv, [Next]_vars
  PROVE  SyscallInv'
<1>1. CachesOK
  BY DEF HierarchyInv
<1>2. CASE UNCHANGED vars
  BY <1>2 DEF vars, SyscallInv, Emptied, Empty, Flushes, Touches, Caches, Lower
<1>3. ASSUME NEW pc \in Pcs, Execute(pc) \/ SystemCall(pc)
      PROVE  SyscallInv'
  BY <1>3, NoSyscallStarts, SystemCallStarts
<1>4. ASSUME NEW a \in FlushAddrs, FlushAddr(a)
      PROVE  SyscallInv'
  BY <1>4, NoSyscallStarts
<1>5. CASE AccessFastHit \/ AccessHit \/ AccessMiss
  BY <1>5, AccessLeaves
<1>6. CASE Flush
  BY <1>6, FlushLeaves
<1>7. CASE AccessMemory \/ ReturnHit \/ SyscallUncached
  <2>1. /\ cp' = cp /\ todo # <<>> /\ todo' = Tail(todo) /\ Call.op # "flush"
    BY <1>7 DEF AccessMemory, ReturnHit, SyscallUncached, Calling
  <2>2. Replaces(<<>>)
    BY <2>1, ReturnMakes
  <2>3. QED
    BY <2>1, <2>2, OtherLeaves, TameSequences
<1>8. CASE GenerateNone \/ GenerateNextLine \/ GenerateOpenEnded
           \/ GenerateStride
  <2>1. cp' = cp /\ Calling("generate")
        /\ \E targets \in Seq(Addresses) : Replaces(PrefetchCalls(targets))
    BY <1>8, GenerateCalls
  <2>2. PICK targets \in Seq(Addresses) : Replaces(PrefetchCalls(targets))
    BY <2>1
  <2> DEFINE new == PrefetchCalls(targets)
  <2>3. todo # <<>> /\ Call.op = "generate" /\ Call.cache \in Caches
    BY <2>1, OtherIs DEF Calling
  <2>4. new \in Seq(Calls)
    BY <2>1, PrefetchCallsAre
  <2>5. \A i \in 1 .. Len(new) : new[i] \in TameCalls
    <3> TAKE i \in 1 .. Len(new)
    <3>1. new[i].op = "prefetch" /\ new[i].cache = Call.cache
      BY DEF PrefetchCalls, Then
    <3>2. new[i] \in Calls
      BY <2>4
    <3> HIDE DEF new
    <3>3. QED
      BY <1>1, <2>3, <3>1, <3>2, TameIs
  <2> HIDE DEF new
  <2>6. new \in Seq(TameCalls)
    BY <2>4, <2>5, SequenceOf
  <2>7. QED
    BY <2>1, <2>2, <2>3, <2>6, OtherLeaves DEF new
<1>9. CASE Prefetch
  <2> DEFINE call == Access(Call.cache, Reads, Call.addr, TRUE)
             new == IF Wanted(Call.addr) THEN <<call>> ELSE <<>>
  <2>1. /\ cp' = cp /\ todo # <<>> /\ Call.op = "prefetch"
        /\ Calling("prefetch")
    BY <1>9 DEF Prefetch, Calling
  <2>2. Replaces(new)
    BY <1>9, PrefetchMakes
  <2>3. /\ call \in Calls /\ Call.cache \in Caches
        /\ call.op = "access" /\ call.cache = Call.cache
    BY <2>1, OtherIs, CallKinds DEF Access
  <2> HIDE DEF call
  <2>4. call \in TameCalls
    BY <1>1, <2>1, <2>3, TameIs
  <2>5. new \in Seq(TameCalls)
    BY <2>4, TameSequences
  <2> HIDE DEF new
  <2>6. QED
    BY <2>1, <2>2, <2>5, OtherLeaves
<1>10. CASE SyscallCached
  BY <1>10 DEF SyscallCached
<1>11. QED
  BY <1>2, <1>3, <1>4, <1>5, <1>6, <1>7, <1>8, <1>9, <1>10
     DEF Next, Simulator

\* If the caches are flushed for system calls, one finds the last store to every
\* address in memory: no fetch, prefetch or write-back of the flush itself
\* leaves a dirty block behind.
THEOREM SyscallAlwaysSeesMemory ==
  ASSUME flush_on_syscalls
  PROVE  Spec => []SyscallSeesMemory
<1>1. HierarchyInv /\ StoresInv /\ SyscallInv => SyscallSeesMemory
  <2> SUFFICES ASSUME HierarchyInv, StoresInv, SyscallInv, Calling("syscall"),
                      NEW a \in DataAddrs
               PROVE  lastStore[a] = "memory"
    BY DEF SyscallSeesMemory
  <2> DEFINE at == lastStore[a]
  <2>1. /\ todo \in Seq(Calls) /\ todo # <<>> /\ Head(todo).op = "syscall"
        /\ CachesOK
    BY DEF Calling, Call, HierarchyInv
  <2>2. Len(todo) \in Nat \ {0} /\ Head(todo) = todo[1]
    BY <2>1, NoCall, Pushed
  <2>3. 1 \in 1 .. Len(todo)
    BY <2>2
  <2>4. /\ Len(todo) = 1
        /\ \A n \in Caches \cap {"dl1", "dl2"} : Emptied(n)
    BY <2>1, <2>2, <2>3 DEF SyscallInv
  <2>5. \A i \in 1 .. Len(todo) : i = 1 /\ todo[i].op = "syscall"
    BY <2>1, <2>2, <2>4
  <2>6. \A n \in Caches \cap {"dl1", "dl2"} : Empty(n)
    BY <2>4, <2>5 DEF Emptied, Flushes
  <2>7. at # "il1" /\ StoredAt(at, a)
    BY DEF StoresInv, StoredAt
  <2>8. at \in Caches => at \in Caches \cap {"dl1", "dl2"}
    BY <2>1, <2>7 DEF CachesOK
  <2>9. at \in Caches => ~DirtyIn(cp[at], a)
    BY <2>6, <2>8 DEF Empty, DirtyIn, Holds
  <2>10. ~Carried(todo, Lower(at), cp[at].bsize, a)
    BY <2>5 DEF Carried, Carries
  <2>11. QED
    BY <2>7, <2>9, <2>10 DEF StoredAt
<1>2. HierarchyInv /\ SyscallInv /\ [Next]_vars => SyscallInv'
  BY SyscallStep
<1>3. Init => SyscallInv
  BY DEF Init, SyscallInv
<1>4. HierarchyInv /\ StoresInv /\ [Next]_vars => StoresInv'
  BY StoresStep
<1>5. QED
  BY <1>1, <1>2, <1>3, <1>4, StoresInit, HierarchySound, PTL DEF Spec

-----------------------------------------------------------------------------
(* The lines that a list of blocks holds *)

\* What holds of the empty sequence, and of longer ones, holds of all.
LEMMA SeqInduction ==
  ASSUME NEW S, NEW P, <<>> \in P,
         \A s \in Seq(S), e \in S : s \in P => Append(s, e) \in P
  PROVE  Seq(S) \subseteq P
<1> DEFINE T == {n \in Nat : \A s \in Seq(S) : Len(s) = n => s \in P}
<1>1. 0 \in T
  <2>1. \A s \in Seq(S) : Len(s) = 0 => s = <<>>
    BY EmptySeq
  <2>2. QED
    BY <2>1
<1>2. ASSUME NEW n \in Nat, n \in T PROVE n + 1 \in T
  <2>1. ASSUME NEW s \in Seq(S), Len(s) = n + 1 PROVE s \in P
    <3>1. s # <<>>
      BY <2>1, EmptySeq
    <3>2. PICK t \in Seq(S), e \in S : s = Append(t, e)
      BY <3>1, SequenceEmptyOrAppend
    <3>3. Len(s) = Len(t) + 1 /\ Len(t) \in Nat
      BY <3>2, AppendProperties, LenProperties
    <3>4. Len(t) = n
      BY <2>1, <3>3
    <3>5. t \in P
      BY <1>2, <3>4
    <3>6. QED
      BY <3>2, <3>5
  <2>2. QED
    BY <2>1
<1>3. Nat \subseteq T
  <2> HIDE DEF T
  <2>1. QED
    BY <1>1, <1>2, Induction, Zenon
<1>4. ASSUME NEW s \in Seq(S) PROVE s \in P
  <2>1. Len(s) \in T
    BY <1>3, LenProperties
  <2>2. QED
    BY <2>1
<1>5. QED
  BY <1>4

\* The lines of a list that goes on with b.
HeldStep(c, held, b) ==
  IF c.valid[b] THEN Append(held, BlkAddr(c, b)) ELSE held

Unfolds(c, list, h) ==
  /\ h[0] = <<>>
  /\ \A k \in 1 .. Len(list) : h[k] = HeldStep(c, h[k - 1], list[k])

LEMMA AddressIsInt ==
  ASSUME NEW c, Shape(c), NEW b \in Blks(c)
  PROVE  BlkAddr(c, b) \in Int /\ c.valid[b] \in BOOLEAN
<1>1. /\ c.tag \in [Blks(c) -> 0 .. ADDR_SPACE - 1]
      /\ c.valid \in [Blks(c) -> BOOLEAN]
      /\ c.nsets \in Nat /\ c.bsize \in Nat
  BY DEF Shape
<1>2. c.tag[b] \in Int /\ b[1] \in Int
  BY <1>1 DEF Blks, Sets
<1>3. QED
  BY <1>1, <1>2 DEF BlkAddr, CACHE_MK_BADDR

LEMMA HeldUnfolds ==
  ASSUME NEW c, Shape(c), NEW list \in Seq(Blks(c))
  PROVE  \E h \in [0 .. Len(list) -> Seq(Int)] :
           Unfolds(c, list, h) /\ HeldLines(c, list) = h[Len(list)]
<1> DEFINE n == Len(list)
           V == Seq(Int)
           Is(d) == d = [i \in 0 .. n |->
                           IF i = 0 THEN <<>>
                           ELSE IF c.valid[list[i]]
                                  THEN Append(d[i - 1], BlkAddr(c, list[i]))
                           ELSE d[i - 1]]
           held == CHOOSE d : Is(d)
           step == [x \in Nat \X V |->
                      IF x[1] < n THEN HeldStep(c, x[2], list[x[1] + 1])
                                  ELSE x[2]]
<1>1. HeldLines(c, list) = held[n]
  BY Zenon DEF HeldLines
<1>2. n \in Nat /\ \A k \in 1 .. n : list[k] \in Blks(c)
  BY LenProperties, ElementOfSeq
<1>3. step \in [Nat \X V -> V]
  <2>1. ASSUME NEW x \in Nat \X V, x[1] < n
        PROVE  HeldStep(c, x[2], list[x[1] + 1]) \in V
    <3>1. list[x[1] + 1] \in Blks(c) /\ x[2] \in V
      BY <1>2, <2>1
    <3>2. BlkAddr(c, list[x[1] + 1]) \in Int
      BY <3>1, AddressIsInt
    <3>3. QED
      BY <3>1, <3>2, AppendProperties DEF HeldStep
  <2>2. \A x \in Nat \X V : x[2] \in V
    OBVIOUS
  <2> HIDE DEF V, n
  <2>3. QED
    BY <2>1, <2>2
<1>4. PICK f \in [0 .. n -> V] : Follows(f, n, <<>>, step)
  <2>1. <<>> \in V
    BY EmptySeq
  <2> HIDE DEF V, step, n
  <2>2. QED
    BY <1>2, <1>3, <2>1, Recursion
<1>5. Unfolds(c, list, f)
  <2>1. f[0] = <<>>
    BY <1>4 DEF Follows
  <2>2. ASSUME NEW k \in 1 .. n PROVE f[k] = HeldStep(c, f[k - 1], list[k])
    <3>1. k - 1 \in 0 .. n - 1 /\ k - 1 \in Nat /\ k - 1 < n /\ (k - 1) + 1 = k
      BY <1>2
    <3>2. f[k] = step[<<k - 1, f[k - 1]>>] /\ f[k - 1] \in V
      <4>1. f[(k - 1) + 1] = step[<<k - 1, f[k - 1]>>]
        BY <1>4, <3>1 DEF Follows
      <4>2. k - 1 \in 0 .. n
        BY <1>2
      <4>3. QED
        BY <1>4, <3>1, <4>1, <4>2
    <3> HIDE DEF V
    <3>3. <<k - 1, f[k - 1]>> \in Nat \X V
      BY <3>1, <3>2
    <3>4. QED
      BY <3>1, <3>2, <3>3
  <2>3. QED
    BY <2>1, <2>2 DEF Unfolds
<1>6. Is(f)
  <2>1. ASSUME NEW i \in 0 .. n
        PROVE  f[i] = IF i = 0 THEN <<>> ELSE HeldStep(c, f[i - 1], list[i])
    <3>1. i # 0 => i \in 1 .. n
      BY <1>2
    <3>2. QED
      BY <1>5, <3>1 DEF Unfolds
  <2>2. f = [i \in 0 .. n |-> f[i]]
    BY <1>4
  <2>3. f = [i \in 0 .. n |-> IF i = 0 THEN <<>>
                              ELSE HeldStep(c, f[i - 1], list[i])]
    BY <2>1, <2>2
  <2>4. QED
    BY <2>3, Zenon DEF HeldStep
<1>7. Is(held)
  BY <1>6, Zenon
<1>8. held \in [0 .. n -> V] /\ Unfolds(c, list, held)
  <2>1. held = f
    <3>1. /\ held[0] = f[0]
          /\ \A k \in 0 .. n - 1 : held[k] = f[k] => held[k + 1] = f[k + 1]
      <4>1. held[0] = <<>>
        <5>1. 0 \in 0 .. n
          BY <1>2
        <5> HIDE DEF held
        <5>2. QED
          BY <1>7, <5>1
      <4>2. ASSUME NEW k \in 0 .. n - 1, held[k] = f[k]
            PROVE  held[k + 1] = f[k + 1]
        <5>1. k + 1 \in 1 .. n /\ k + 1 \in 0 .. n /\ k + 1 # 0 /\ (k + 1) - 1 = k
          BY <1>2
        <5> HIDE DEF held
        <5>2. held[k + 1] = IF c.valid[list[k + 1]]
                              THEN Append(held[k], BlkAddr(c, list[k + 1]))
                              ELSE held[k]
          BY <1>7, <5>1
        <5>3. f[k + 1] = HeldStep(c, f[k], list[k + 1])
          BY <1>5, <5>1 DEF Unfolds
        <5>4. QED
          BY <4>2, <5>2, <5>3 DEF HeldStep
      <4>3. QED
        BY <1>5, <4>1, <4>2 DEF Unfolds
    <3> HIDE DEF held
    <3>2. \A k \in 0 .. n : held[k] = f[k]
      BY <1>2, <3>1, SameValues
    <3>3. held = [k \in 0 .. n |-> held[k]] /\ f = [k \in 0 .. n |-> f[k]]
      BY <1>4, <1>7
    <3>4. QED
      BY <3>2, <3>3
  <2> HIDE DEF held
  <2>2. QED
    BY <1>4, <1>5, <2>1
<1> HIDE DEF held
<1>9. QED
  BY <1>1, <1>8

LEMMA HeldEmpty ==
  ASSUME NEW c, Shape(c)
  PROVE  HeldLines(c, <<>>) = <<>>
<1>1. <<>> \in Seq(Blks(c)) /\ Len(<<>>) = 0
  BY EmptySeq
<1>2. PICK h \in [0 .. Len(<<>>) -> Seq(Int)] :
        Unfolds(c, <<>>, h) /\ HeldLines(c, <<>>) = h[Len(<<>>)]
  BY <1>1, HeldUnfolds
<1>3. QED
  BY <1>1, <1>2 DEF Unfolds

LEMMA HeldTyped ==
  ASSUME NEW c, Shape(c), NEW list \in Seq(Blks(c))
  PROVE  HeldLines(c, list) \in Seq(Int)
<1>1. PICK h \in [0 .. Len(list) -> Seq(Int)] :
        Unfolds(c, list, h) /\ HeldLines(c, list) = h[Len(list)]
  BY HeldUnfolds
<1>2. Len(list) \in 0 .. Len(list)
  BY LenProperties
<1>3. QED
  BY <1>1, <1>2

LEMMA HeldAppend ==
  ASSUME NEW c, Shape(c), NEW list \in Seq(Blks(c)), NEW b \in Blks(c)
  PROVE  HeldLines(c, Append(list, b)) = HeldStep(c, HeldLines(c, list), b)
<1> DEFINE more == Append(list, b)
           n == Len(list)
<1>1. /\ n \in Nat /\ more \in Seq(Blks(c)) /\ Len(more) = n + 1
      /\ \A k \in 1 .. n : more[k] = list[k]
      /\ more[n + 1] = b
  BY AppendProperties, LenProperties
<1> HIDE DEF more
<1>2. PICK h \in [0 .. Len(more) -> Seq(Int)] :
        Unfolds(c, more, h) /\ HeldLines(c, more) = h[Len(more)]
  BY <1>1, HeldUnfolds
<1>3. PICK g \in [0 .. n -> Seq(Int)] :
        Unfolds(c, list, g) /\ HeldLines(c, list) = g[n]
  BY HeldUnfolds
<1>4. h[0] = g[0] /\ \A k \in 0 .. n - 1 : h[k] = g[k] => h[k + 1] = g[k + 1]
  <2>1. \A k \in 0 .. n - 1 : /\ k + 1 \in 1 .. n /\ k + 1 \in 1 .. Len(more)
                               /\ (k + 1) - 1 = k
    BY <1>1
  <2>2. ASSUME NEW k \in 0 .. n - 1, h[k] = g[k] PROVE h[k + 1] = g[k + 1]
    <3>1. h[k + 1] = HeldStep(c, h[k], list[k + 1])
      BY <1>1, <1>2, <2>1 DEF Unfolds
    <3>2. g[k + 1] = HeldStep(c, g[k], list[k + 1])
      BY <1>3, <2>1 DEF Unfolds
    <3>3. QED
      BY <2>2, <3>1, <3>2
  <2>3. QED
    BY <1>2, <1>3, <2>2 DEF Unfolds
<1>5. h[n] = g[n]
  <2>1. n \in Nat
    BY <1>1
  <2>2. h[0] = g[0]
    BY <1>4
  <2>3. \A k \in 0 .. n - 1 : h[k] = g[k] => h[k + 1] = g[k + 1]
    BY <1>4
  <2>4. StepsAlike(n, h, g)
    BY <2>2, <2>3 DEF StepsAlike
  <2> HIDE DEF n
  <2>5. QED
    BY <2>1, <2>4, EndsAlike
<1>6. h[n + 1] = HeldStep(c, h[n], b)
  <2>1. n + 1 \in 1 .. Len(more) /\ (n + 1) - 1 = n
    BY <1>1
  <2>2. QED
    BY <1>1, <1>2, <2>1 DEF Unfolds
<1>7. QED
  BY <1>1, <1>2, <1>3, <1>5, <1>6 DEF more

LEMMA ConcatAppend ==
  ASSUME NEW S, NEW s \in Seq(S), NEW t \in Seq(S), NEW e \in S
  PROVE  s \o Append(t, e) = Append(s \o t, e)
<1>1. <<e>> \in Seq(S) /\ s \o t \in Seq(S)
  BY ConcatProperties
<1>2. Append(t, e) = t \o <<e>> /\ Append(s \o t, e) = (s \o t) \o <<e>>
  BY <1>1, AppendIsConcat
<1>3. QED
  BY <1>1, <1>2, ConcatAssociative

\* The lines of two lists are those of the one and then those of the other.
LEMMA HeldConcat ==
  ASSUME NEW c, Shape(c), NEW s \in Seq(Blks(c)), NEW t \in Seq(Blks(c))
  PROVE  HeldLines(c, s \o t) = HeldLines(c, s) \o HeldLines(c, t)
<1> DEFINE B == Blks(c)
           P == {u \in Seq(B) :
                   HeldLines(c, s \o u) = HeldLines(c, s) \o HeldLines(c, u)}
<1>1. <<>> \in P
  <2>1. <<>> \in Seq(B) /\ s \o <<>> = s
    BY EmptySeq, ConcatEmptySeq
  <2>2. HeldLines(c, s) \o <<>> = HeldLines(c, s)
    BY HeldTyped, ConcatEmptySeq
  <2>3. QED
    BY <2>1, <2>2, HeldEmpty
<1>2. ASSUME NEW u \in Seq(B), NEW e \in B, u \in P PROVE Append(u, e) \in P
  <2>1. /\ Append(u, e) \in Seq(B) /\ s \o u \in Seq(B)
        /\ s \o Append(u, e) = Append(s \o u, e)
    BY AppendProperties, ConcatProperties, ConcatAppend
  <2>2. /\ HeldLines(c, Append(s \o u, e)) = HeldStep(c, HeldLines(c, s \o u), e)
        /\ HeldLines(c, Append(u, e)) = HeldStep(c, HeldLines(c, u), e)
    BY <2>1, HeldAppend
  <2>3. HeldLines(c, s \o u) = HeldLines(c, s) \o HeldLines(c, u)
    BY <1>2
  <2>4. /\ HeldLines(c, s) \in Seq(Int) /\ HeldLines(c, u) \in Seq(Int)
        /\ BlkAddr(c, e) \in Int
    BY HeldTyped, AddressIsInt
  <2>5. HeldLines(c, s) \o Append(HeldLines(c, u), BlkAddr(c, e)) =
          Append(HeldLines(c, s) \o HeldLines(c, u), BlkAddr(c, e))
    <3>1. PICK x, y, z, I : /\ x = HeldLines(c, s) /\ y = HeldLines(c, u)
                            /\ z = BlkAddr(c, e) /\ I = Int
      OBVIOUS
    <3>2. x \in Seq(I) /\ y \in Seq(I) /\ z \in I
      BY <2>4, <3>1
    <3>3. x \o Append(y, z) = Append(x \o y, z)
      BY <3>2, ConcatAppend
    <3>4. QED
      BY <3>1, <3>3
  <2>6. QED
    BY <2>1, <2>2, <2>3, <2>5 DEF HeldStep
<1>3. Seq(B) \subseteq P
  <2> HIDE DEF P, B
  <2>1. QED
    BY <1>1, <1>2, SeqInduction
<1>4. QED
  BY <1>3

\* a is the address of a valid block of the list.
Listed(c, list, a) ==
  \E i \in 1 .. Len(list) : c.valid[list[i]] /\ BlkAddr(c, list[i]) = a

LEMMA HeldMembers ==
  ASSUME NEW c, Shape(c), NEW list \in Seq(Blks(c))
  PROVE  LET held == HeldLines(c, list)
         IN \A a : (\E i \in 1 .. Len(held) : held[i] = a) <=> Listed(c, list, a)
<1> DEFINE B == Blks(c)
           In(s, a) == \E i \in 1 .. Len(s) : s[i] = a
           P == {u \in Seq(B) :
                   \A a : In(HeldLines(c, u), a) <=> Listed(c, u, a)}
<1>1. <<>> \in P
  <2>1. <<>> \in Seq(B) /\ HeldLines(c, <<>>) = <<>>
    BY EmptySeq, HeldEmpty
  <2>2. \A a : ~In(<<>>, a) /\ ~Listed(c, <<>>, a)
    BY DEF Listed
  <2> HIDE DEF In
  <2>3. QED
    BY <2>1, <2>2
<1>2. ASSUME NEW u \in Seq(B), NEW e \in B, u \in P PROVE Append(u, e) \in P
  <2> DEFINE n == Len(u)
             more == Append(u, e)
             old == HeldLines(c, u)
             x == BlkAddr(c, e)
  <2>1. /\ more \in Seq(B) /\ Len(more) = n + 1 /\ n \in Nat
        /\ \A i \in 1 .. n : more[i] = u[i]
        /\ more[n + 1] = e
    BY AppendProperties, LenProperties
  <2>2. HeldLines(c, more) = HeldStep(c, old, e)
    BY HeldAppend
  <2>3. old \in Seq(Int) /\ x \in Int /\ c.valid[e] \in BOOLEAN
    BY HeldTyped, AddressIsInt
  <2>4. \A a : In(old, a) <=> Listed(c, u, a)
    BY <1>2
  <2> HIDE DEF more, old, x
  <2>5. \A a : Listed(c, more, a) <=>
                 Listed(c, u, a) \/ (c.valid[e] /\ a = x)
    <3>1. \A i \in 1 .. n + 1 : i = n + 1 \/ i \in 1 .. n
      BY <2>1
    <3>2. n + 1 \in 1 .. n + 1 /\ \A i \in 1 .. n : i \in 1 .. n + 1
      BY <2>1
    <3>3. QED
      BY <2>1, <3>1, <3>2 DEF Listed, x
  <2>6. \A a : In(Append(old, x), a) <=> In(old, a) \/ a = x
    <3> DEFINE m == Len(old)
    <3>1. /\ Len(Append(old, x)) = m + 1 /\ m \in Nat
          /\ \A i \in 1 .. m : Append(old, x)[i] = old[i]
          /\ Append(old, x)[m + 1] = x
      BY <2>3, AppendProperties, LenProperties
    <3>2. \A i \in 1 .. m + 1 : i = m + 1 \/ i \in 1 .. m
      BY <3>1
    <3>3. m + 1 \in 1 .. m + 1 /\ \A i \in 1 .. m : i \in 1 .. m + 1
      BY <3>1
    <3> HIDE DEF m
    <3>4. QED
      BY <3>1, <3>2, <3>3 DEF m
  <2> HIDE DEF In
  <2>7. \A a : In(HeldLines(c, more), a) <=> Listed(c, more, a)
    <3>1. CASE c.valid[e]
      BY <2>2, <2>4, <2>5, <2>6, <3>1 DEF HeldStep, x
    <3>2. CASE ~c.valid[e]
      BY <2>2, <2>4, <2>5, <3>2 DEF HeldStep
    <3>3. QED
      BY <2>3, <3>1, <3>2
  <2>8. QED
    BY <2>1, <2>7 DEF more
<1>3. Seq(B) \subseteq P
  <2> HIDE DEF P, B
  <2>1. QED
    BY <1>1, <1>2, SeqInduction
<1>4. QED
  BY <1>3

Distinct(list) == \A i, j \in 1 .. Len(list) : list[i] = list[j] => i = j

LEMMA HeldOnce ==
  ASSUME NEW c, Shape(c), NoDuplicates(c), NEW list \in Seq(Blks(c)),
         Distinct(list)
  PROVE  IsInjective(HeldLines(c, list))
<1> DEFINE B == Blks(c)
           P == {u \in Seq(B) : Distinct(u) => Distinct(HeldLines(c, u))}
<1>1. <<>> \in P
  <2>1. <<>> \in Seq(B) /\ HeldLines(c, <<>>) = <<>> /\ Len(<<>>) = 0
    BY EmptySeq, HeldEmpty
  <2>2. Distinct(<<>>)
    BY <2>1 DEF Distinct
  <2>3. QED
    BY <2>1, <2>2
<1>2. ASSUME NEW u \in Seq(B), NEW e \in B, u \in P PROVE Append(u, e) \in P
  <2> DEFINE n == Len(u)
             more == Append(u, e)
             old == HeldLines(c, u)
             x == BlkAddr(c, e)
             m == Len(old)
  <2>1. /\ more \in Seq(B) /\ Len(more) = n + 1 /\ n \in Nat
        /\ \A i \in 1 .. n : more[i] = u[i]
        /\ more[n + 1] = e
    BY AppendProperties, LenProperties
  <2>2. HeldLines(c, more) = HeldStep(c, old, e)
    BY HeldAppend
  <2>3. old \in Seq(Int) /\ x \in Int /\ c.valid[e] \in BOOLEAN
    BY HeldTyped, AddressIsInt
  <2>4. \A a : (\E i \in 1 .. m : old[i] = a) <=> Listed(c, u, a)
    BY HeldMembers
  <2> SUFFICES ASSUME Distinct(more) PROVE Distinct(HeldLines(c, more))
    BY <2>1
  <2>5. n + 1 \in 1 .. n + 1 /\ \A i \in 1 .. n : i \in 1 .. n + 1 /\ i # n + 1
    BY <2>1
  <2>6. Distinct(u) /\ \A i \in 1 .. n : u[i] # e
    <3> HIDE DEF more
    <3>1. QED
      BY <2>1, <2>5 DEF Distinct
  <2>7. Distinct(old)
    BY <1>2, <2>6
  <2>8. CASE c.valid[e]
    <3>1. \A i \in 1 .. m : old[i] # x
      <4> SUFFICES ASSUME NEW i \in 1 .. m, old[i] = x PROVE FALSE
        OBVIOUS
      <4>1. Listed(c, u, x)
        BY <2>4
      <4>2. PICK k \in 1 .. Len(u) : c.valid[u[k]] /\ BlkAddr(c, u[k]) = x
        BY <4>1 DEF Listed
      <4>3. u[k] \in B /\ u[k] # e
        BY <2>6, ElementOfSeq
      <4>4. QED
        BY <2>8, <4>2, <4>3 DEF NoDuplicates
    <3>2. /\ Len(Append(old, x)) = m + 1 /\ m \in Nat
          /\ \A i \in 1 .. m : Append(old, x)[i] = old[i]
          /\ Append(old, x)[m + 1] = x
      BY <2>3, AppendProperties, LenProperties
    <3>3. \A i \in 1 .. m + 1 : i = m + 1 \/ i \in 1 .. m
      BY <3>2
    <3> HIDE DEF m, old, x
    <3>4. Distinct(Append(old, x))
      BY <2>7, <3>1, <3>2, <3>3 DEF Distinct, m
    <3>5. HeldLines(c, more) = Append(old, x)
      BY <2>2, <2>8 DEF HeldStep, x
    <3>6. QED
      BY <3>4, <3>5
  <2>9. CASE ~c.valid[e]
    BY <2>2, <2>7, <2>9 DEF HeldStep
  <2>10. QED
    BY <2>3, <2>8, <2>9
<1>3. Seq(B) \subseteq P
  <2> HIDE DEF P, B
  <2>1. QED
    BY <1>1, <1>2, SeqInduction
<1>4. Distinct(HeldLines(c, list))
  BY <1>3
<1>5. DOMAIN HeldLines(c, list) = 1 .. Len(HeldLines(c, list))
  BY HeldTyped, LenProperties
<1>6. QED
  BY <1>4, <1>5 DEF IsInjective, Distinct

\* There is a line for every block exactly if they are all valid.
LEMMA HeldLength ==
  ASSUME NEW c, Shape(c), NEW list \in Seq(Blks(c))
  PROVE  LET held == HeldLines(c, list)
         IN /\ Len(held) \in Nat /\ Len(held) <= Len(list)
            /\ Len(held) = Len(list) <=> \A i \in 1 .. Len(list) : c.valid[list[i]]
<1> DEFINE B == Blks(c)
           AllValid(u) == \A i \in 1 .. Len(u) : c.valid[u[i]]
           Fits(u, held) == /\ Len(held) <= Len(u)
                            /\ Len(held) = Len(u) <=> AllValid(u)
           P == {u \in Seq(B) : Fits(u, HeldLines(c, u))}
<1>1. <<>> \in P
  <2>1. <<>> \in Seq(B) /\ HeldLines(c, <<>>) = <<>> /\ Len(<<>>) = 0
    BY EmptySeq, HeldEmpty
  <2>2. Fits(<<>>, <<>>)
    BY <2>1
  <2> HIDE DEF Fits
  <2>3. QED
    BY <2>1, <2>2
<1>2. ASSUME NEW u \in Seq(B), NEW e \in B, u \in P PROVE Append(u, e) \in P
  <2> DEFINE n == Len(u)
             more == Append(u, e)
             old == HeldLines(c, u)
             x == BlkAddr(c, e)
             m == Len(old)
  <2>1. /\ more \in Seq(B) /\ Len(more) = n + 1 /\ n \in Nat
        /\ \A i \in 1 .. n : more[i] = u[i]
        /\ more[n + 1] = e
    BY AppendProperties, LenProperties
  <2>2. HeldLines(c, more) = HeldStep(c, old, e)
    BY HeldAppend
  <2>3. old \in Seq(Int) /\ x \in Int /\ c.valid[e] \in BOOLEAN
    BY HeldTyped, AddressIsInt
  <2>4. Len(Append(old, x)) = m + 1 /\ m \in Nat
    BY <2>3, AppendProperties, LenProperties
  <2>5. m <= n /\ (m = n <=> AllValid(u))
    BY <1>2
  <2> HIDE DEF more, old, x, m
  <2>6. AllValid(more) <=> AllValid(u) /\ c.valid[e]
    <3>1. \A i \in 1 .. n + 1 : i = n + 1 \/ i \in 1 .. n
      BY <2>1
    <3>2. n + 1 \in 1 .. n + 1 /\ \A i \in 1 .. n : i \in 1 .. n + 1
      BY <2>1
    <3>3. QED
      BY <2>1, <3>1, <3>2
  <2> HIDE DEF AllValid
  <2>7. Fits(more, HeldLines(c, more))
    <3>1. CASE c.valid[e]
      <4>1. HeldLines(c, more) = Append(old, x)
        BY <2>2, <3>1 DEF HeldStep, x
      <4>2. QED
        BY <2>1, <2>4, <2>5, <2>6, <3>1, <4>1
    <3>2. CASE ~c.valid[e]
      <4>1. HeldLines(c, more) = old
        BY <2>2, <3>2 DEF HeldStep
      <4>2. QED
        BY <2>1, <2>4, <2>5, <2>6, <3>2, <4>1 DEF m
    <3>3. QED
      BY <2>3, <3>1, <3>2
  <2> HIDE DEF Fits
  <2>8. QED
    BY <2>1, <2>7 DEF more
<1>3. Seq(B) \subseteq P
  <2> HIDE DEF P, B
  <2>1. QED
    BY <1>1, <1>2, SeqInduction
<1>4. Fits(list, HeldLines(c, list))
  <2> HIDE DEF Fits
  <2>1. QED
    BY <1>3
<1>5. Len(HeldLines(c, list)) \in Nat
  BY HeldTyped, LenProperties
<1>6. QED
  BY <1>4, <1>5

\* The lines of a list depend only on its blocks.
LEMMA HeldSame ==
  ASSUME NEW c, NEW r, Shape(c), Shape(r), Blks(r) = Blks(c),
         NEW list \in Seq(Blks(c)),
         \A i \in 1 .. Len(list) : /\ r.valid[list[i]] = c.valid[list[i]]
                                   /\ BlkAddr(r, list[i]) = BlkAddr(c, list[i])
  PROVE  HeldLines(r, list) = HeldLines(c, list)
<1> DEFINE B == Blks(c)
           Alike(u) == \A i \in 1 .. Len(u) :
                         /\ r.valid[u[i]] = c.valid[u[i]]
                         /\ BlkAddr(r, u[i]) = BlkAddr(c, u[i])
           P == {u \in Seq(B) : Alike(u) => HeldLines(r, u) = HeldLines(c, u)}
<1>1. <<>> \in P
  <2>1. <<>> \in Seq(B)
    BY EmptySeq
  <2>2. HeldLines(c, <<>>) = <<>> /\ HeldLines(r, <<>>) = <<>>
    BY HeldEmpty
  <2>3. QED
    BY <2>1, <2>2
<1>2. ASSUME NEW u \in Seq(B), NEW e \in B, u \in P PROVE Append(u, e) \in P
  <2> DEFINE n == Len(u)
             more == Append(u, e)
  <2>1. /\ more \in Seq(B) /\ Len(more) = n + 1 /\ n \in Nat
        /\ \A i \in 1 .. n : more[i] = u[i]
        /\ more[n + 1] = e
    BY AppendProperties, LenProperties
  <2>2. /\ HeldLines(c, more) = HeldStep(c, HeldLines(c, u), e)
        /\ HeldLines(r, more) = HeldStep(r, HeldLines(r, u), e)
    BY HeldAppend
  <2> SUFFICES ASSUME Alike(more) PROVE HeldLines(r, more) = HeldLines(c, more)
    BY <2>1
  <2> HIDE DEF more
  <2>3. Alike(u) /\ r.valid[e] = c.valid[e] /\ BlkAddr(r, e) = BlkAddr(c, e)
    <3>1. n + 1 \in 1 .. n + 1 /\ \A i \in 1 .. n : i \in 1 .. n + 1
      BY <2>1
    <3>2. QED
      BY <2>1, <3>1
  <2>4. HeldLines(r, u) = HeldLines(c, u)
    BY <1>2, <2>3
  <2>5. QED
    BY <2>2, <2>3, <2>4 DEF HeldStep
<1>3. Seq(B) \subseteq P
  <2> HIDE DEF P, B
  <2>1. QED
    BY <1>1, <1>2, SeqInduction
<1>4. QED
  BY <1>3

\* A line that is there once is taken out.
LEMMA RemoveFirstIs ==
  ASSUME NEW u \in Seq(Int), NEW w \in Seq(Int), NEW a \in Int,
         \A i \in 1 .. Len(u) : u[i] # a
  PROVE  RemoveFirst(u \o (<<a>> \o w), a) = u \o w
<1> DEFINE s == u \o (<<a>> \o w)
           m == Len(u)
           n == Len(w)
           I == {i \in 1 .. Len(s) : s[i] = a}
<1>1. /\ s \in Seq(Int) /\ m \in Nat /\ n \in Nat /\ Len(s) = m + 1 + n
      /\ \A i \in 1 .. m : s[i] = u[i]
      /\ s[m + 1] = a
      /\ \A i \in 1 .. n : s[m + 1 + i] = w[i]
  <2>1. <<a>> \in Seq(Int) /\ Len(<<a>>) = 1 /\ <<a>>[1] = a
    OBVIOUS
  <2>2. m \in Nat /\ n \in Nat
    BY LenProperties
  <2> DEFINE v == <<a>> \o w
  <2>3. /\ v \in Seq(Int) /\ Len(v) = 1 + n
        /\ v[1] = a /\ \A i \in 1 .. n : v[i + 1] = w[i]
    <3>1. /\ v \in Seq(Int) /\ Len(v) = 1 + n
          /\ \A i \in 1 .. 1 + n : v[i] = IF i <= 1 THEN a ELSE w[i - 1]
      <4>1. /\ v \in Seq(Int) /\ Len(v) = Len(<<a>>) + n
            /\ \A i \in 1 .. Len(<<a>>) + n :
                 v[i] = IF i <= Len(<<a>>) THEN <<a>>[i] ELSE w[i - Len(<<a>>)]
        BY <2>1, ConcatProperties
      <4> HIDE DEF v
      <4>2. QED
        BY <2>1, <2>2, <4>1
    <3> HIDE DEF v
    <3>2. /\ 1 \in 1 .. 1 + n
          /\ \A i \in 1 .. n : /\ i + 1 \in 1 .. 1 + n /\ ~(i + 1 <= 1)
                               /\ (i + 1) - 1 = i
      BY <2>2
    <3>3. v[1] = a
      BY <3>1, <3>2
    <3>4. ASSUME NEW i \in 1 .. n PROVE v[i + 1] = w[i]
      <4>1. v[i + 1] = w[(i + 1) - 1]
        BY <3>1, <3>2
      <4>2. QED
        BY <3>2, <4>1
    <3>5. QED
      BY <3>1, <3>3, <3>4
  <2>4. /\ s \in Seq(Int) /\ Len(s) = m + Len(v)
        /\ \A i \in 1 .. m + Len(v) : s[i] = IF i <= m THEN u[i] ELSE v[i - m]
    BY <2>3, ConcatProperties
  <2> HIDE DEF v, s
  <2>5. /\ \A i \in 1 .. m : i \in 1 .. m + 1 + n /\ i <= m
        /\ m + 1 \in 1 .. m + 1 + n /\ ~(m + 1 <= m) /\ (m + 1) - m = 1
        /\ \A i \in 1 .. n : /\ m + 1 + i \in 1 .. m + 1 + n
                             /\ ~(m + 1 + i <= m) /\ (m + 1 + i) - m = i + 1
    BY <2>2
  <2>6. m + Len(v) = m + 1 + n
    BY <2>2, <2>3
  <2>7. \A i \in 1 .. m + 1 + n : s[i] = IF i <= m THEN u[i] ELSE v[i - m]
    BY <2>4, <2>6
  <2>8. ASSUME NEW i \in 1 .. m PROVE s[i] = u[i]
    BY <2>5, <2>7
  <2>9. s[m + 1] = a
    BY <2>3, <2>5, <2>7
  <2>10. ASSUME NEW i \in 1 .. n PROVE s[m + 1 + i] = w[i]
    <3>1. s[m + 1 + i] = v[i + 1]
      BY <2>5, <2>7
    <3>2. QED
      BY <2>3, <3>1
  <2>11. QED
    BY <2>2, <2>4, <2>6, <2>8, <2>9, <2>10
<1> HIDE DEF s
<1>2. m + 1 \in I /\ \A i \in I : m + 1 <= i
  <2>1. m + 1 \in 1 .. Len(s)
    BY <1>1
  <2>2. ASSUME NEW i \in I PROVE m + 1 <= i
    <3>1. i \in Int /\ i >= 1 /\ s[i] = a
      BY <1>1
    <3>2. ASSUME i <= m PROVE FALSE
      <4>1. i \in 1 .. m
        BY <1>1, <3>1, <3>2
      <4>2. u[i] = a
        BY <1>1, <3>1, <4>1
      <4>3. QED
        BY <4>1, <4>2
    <3>3. QED
      BY <1>1, <3>1, <3>2
  <2>3. QED
    BY <1>1, <2>1, <2>2
<1>3. RemoveFirst(s, a) = SubSeq(s, 1, (m + 1) - 1) \o SubSeq(s, (m + 1) + 1, Len(s))
  <2>1. \E i \in 1 .. Len(s) : s[i] = a
    BY <1>2
  <2>2. SelectInSeq(s, LAMBDA v : v = a) = Min(I)
    BY <1>2 DEF SelectInSeq
  <2>3. Min(I) = m + 1
    <3>1. \A i \in I : i \in Int
      BY <1>1
    <3> HIDE DEF I
    <3>2. /\ Min(I) \in I /\ \A i \in I : Min(I) <= i
      BY <1>2, Zenon DEF Min
    <3>3. PICK v : v = Min(I)
      OBVIOUS
    <3>4. v <= m + 1 /\ m + 1 <= v
      BY <1>2, <3>2, <3>3
    <3>5. v \in Int /\ m \in Int
      BY <1>1, <3>1, <3>2, <3>3
    <3>6. v = m + 1
      BY <3>4, <3>5
    <3>7. QED
      BY <3>3, <3>6
  <2>4. QED
    BY <2>1, <2>2, <2>3 DEF RemoveFirst, RemoveAt
<1>4. SubSeq(s, 1, m) = u
  <2>1. \A i \in 1 .. m : s[i] \in Int
    BY <1>1, ElementOfSeq
  <2>2. /\ SubSeq(s, 1, m) \in Seq(Int)
        /\ Len(SubSeq(s, 1, m)) = IF 1 <= m THEN m - 1 + 1 ELSE 0
        /\ \A i \in 1 .. m - 1 + 1 : SubSeq(s, 1, m)[i] = s[1 + i - 1]
    BY <1>1, <2>1, SubSeqProperties
  <2>3. Len(SubSeq(s, 1, m)) = m
    BY <1>1, <2>2
  <2>4. \A i \in 1 .. m : SubSeq(s, 1, m)[i] = u[i]
    BY <1>1, <2>2
  <2>5. QED
    BY <2>2, <2>3, <2>4, SeqEqual
<1>5. SubSeq(s, m + 2, m + 1 + n) = w
  <2>1. \A i \in m + 2 .. m + 1 + n : s[i] \in Int
    BY <1>1, ElementOfSeq
  <2> DEFINE t == SubSeq(s, m + 2, m + 1 + n)
             k == (m + 1 + n) - (m + 2) + 1
  <2>2. /\ t \in Seq(Int)
        /\ Len(t) = IF m + 2 <= m + 1 + n THEN k ELSE 0
        /\ \A i \in 1 .. k : t[i] = s[(m + 2) + i - 1]
    BY <1>1, <2>1, SubSeqProperties
  <2> HIDE DEF t
  <2>3. k = n
    BY <1>1
  <2>4. Len(t) = n
    BY <1>1, <2>2, <2>3
  <2>5. ASSUME NEW i \in 1 .. n PROVE t[i] = w[i]
    <3>1. (m + 2) + i - 1 = m + 1 + i
      BY <1>1
    <3>2. QED
      BY <1>1, <2>2, <2>3, <3>1
  <2>6. QED
    BY <2>2, <2>4, <2>5, SeqEqual DEF t
<1>6. (m + 1) - 1 = m /\ (m + 1) + 1 = m + 2 /\ Len(s) = m + 1 + n
  BY <1>1
<1>7. QED
  BY <1>3, <1>4, <1>5, <1>6 DEF s

-----------------------------------------------------------------------------
(* The orders of a set, as lists *)

\* What comes before place k of a list of n blocks, and after it.
Before(p, k) == [i \in 1 .. k - 1 |-> p[i]]
After(p, k, n) == [i \in 1 .. n - k |-> p[i + k]]

IsConcat(S, q, s, m, t, n) ==
  /\ q \in Seq(S) /\ Len(q) = m + n
  /\ \A i \in 1 .. m + n : q[i] = IF i <= m THEN s[i] ELSE t[i - m]

LEMMA ConcatIs ==
  ASSUME NEW S, NEW s \in Seq(S), NEW t \in Seq(S), NEW m, NEW n,
         Len(s) = m, Len(t) = n
  PROVE  IsConcat(S, s \o t, s, m, t, n)
BY ConcatProperties DEF IsConcat

\* The parts of an order, and how they are put together again.
Parts(c, B, n, p, k, u, w) ==
  /\ u \in Seq(B) /\ w \in Seq(B) /\ <<p[k]>> \in Seq(B)
  /\ Len(u) = k - 1 /\ Len(w) = n - k
  /\ p = u \o (<<p[k]>> \o w)
  /\ HeadOrder(c, p, k) = <<p[k]>> \o (u \o w)
  /\ TailOrder(c, p, k) = (u \o w) \o <<p[k]>>

LEMMA OrderParts ==
  ASSUME NEW c, NEW B, NEW n \in Nat, c.assoc = n, NEW p \in [1 .. n -> B],
         NEW k \in 1 .. n
  PROVE  Parts(c, B, n, p, k, Before(p, k), After(p, k, n))
<1> DEFINE u == Before(p, k)
           w == After(p, k, n)
           b == <<p[k]>>
<1>1. /\ u \in Seq(B) /\ w \in Seq(B) /\ b \in Seq(B) /\ p \in Seq(B)
      /\ Len(u) = k - 1 /\ Len(w) = n - k /\ Len(b) = 1 /\ Len(p) = n
      /\ b[1] = p[k]
      /\ \A i \in 1 .. k - 1 : u[i] = p[i]
      /\ \A i \in 1 .. n - k : w[i] = p[i + k]
  <2>1. u \in [1 .. k - 1 -> B] /\ k - 1 \in Nat
    BY DEF Before
  <2>2. w \in [1 .. n - k -> B] /\ n - k \in Nat
    BY DEF After
  <2>3. u \in Seq(B) /\ Len(u) = k - 1
    BY <2>1
  <2>4. w \in Seq(B) /\ Len(w) = n - k
    BY <2>2
  <2>5. p \in Seq(B) /\ Len(p) = n
    OBVIOUS
  <2>6. b \in Seq(B) /\ Len(b) = 1 /\ b[1] = p[k]
    OBVIOUS
  <2>7. QED
    BY <2>3, <2>4, <2>5, <2>6 DEF Before, After
<1> HIDE DEF u, w, b
<1> DEFINE v == u \o w
           x == b \o w
<1>2. /\ v \in Seq(B) /\ Len(v) = n - 1
      /\ \A i \in 1 .. n - 1 : v[i] = IF i <= k - 1 THEN p[i] ELSE p[i + 1]
  <2>1. /\ v \in Seq(B) /\ Len(v) = (k - 1) + (n - k)
        /\ \A i \in 1 .. (k - 1) + (n - k) :
             v[i] = IF i <= k - 1 THEN u[i] ELSE w[i - (k - 1)]
    <3>1. IsConcat(B, v, u, k - 1, w, n - k)
      BY <1>1, ConcatIs
    <3> HIDE DEF v
    <3>2. QED
      BY <3>1 DEF IsConcat
  <2>2. (k - 1) + (n - k) = n - 1
    OBVIOUS
  <2>3. ASSUME NEW i \in 1 .. n - 1
        PROVE  v[i] = IF i <= k - 1 THEN p[i] ELSE p[i + 1]
    <3> HIDE DEF v
    <3>1. CASE i <= k - 1
      BY <1>1, <2>1, <2>2, <3>1
    <3>2. CASE ~(i <= k - 1)
      <4>1. i - (k - 1) \in 1 .. n - k /\ (i - (k - 1)) + k = i + 1
        BY <3>2
      <4>2. QED
        BY <1>1, <2>1, <2>2, <3>2, <4>1
    <3>3. QED
      BY <3>1, <3>2
  <2>4. QED
    BY <2>1, <2>2, <2>3
<1>3. /\ x \in Seq(B) /\ Len(x) = n - k + 1
      /\ \A i \in 1 .. n - k + 1 : x[i] = p[i + k - 1]
  <2>1. /\ x \in Seq(B) /\ Len(x) = 1 + (n - k)
        /\ \A i \in 1 .. 1 + (n - k) : x[i] = IF i <= 1 THEN b[i] ELSE w[i - 1]
    <3>1. IsConcat(B, x, b, 1, w, n - k)
      BY <1>1, ConcatIs
    <3> HIDE DEF x
    <3>2. QED
      BY <3>1 DEF IsConcat
  <2>2. ASSUME NEW i \in 1 .. n - k + 1 PROVE x[i] = p[i + k - 1]
    <3> HIDE DEF x
    <3>1. CASE i = 1
      BY <1>1, <2>1, <3>1
    <3>2. CASE i # 1
      <4>1. i - 1 \in 1 .. n - k /\ (i - 1) + k = i + k - 1 /\ ~(i <= 1)
        BY <3>2
      <4>2. i \in 1 .. 1 + (n - k)
        OBVIOUS
      <4>3. QED
        BY <1>1, <2>1, <4>1, <4>2
    <3>3. QED
      BY <3>1, <3>2
  <2>3. QED
    BY <2>1, <2>2
<1>4. p = u \o x
  <2> DEFINE q == u \o x
  <2>1. /\ q \in Seq(B) /\ Len(q) = (k - 1) + (n - k + 1)
        /\ \A i \in 1 .. (k - 1) + (n - k + 1) :
             q[i] = IF i <= k - 1 THEN u[i] ELSE x[i - (k - 1)]
    <3>1. IsConcat(B, q, u, k - 1, x, n - k + 1)
      BY <1>1, <1>3, ConcatIs
    <3> HIDE DEF q
    <3>2. QED
      BY <3>1 DEF IsConcat
  <2> HIDE DEF q, x
  <2>2. Len(q) = n
    BY <2>1
  <2>3. ASSUME NEW i \in 1 .. n PROVE q[i] = p[i]
    <3>1. CASE i <= k - 1
      BY <1>1, <2>1, <3>1
    <3>2. CASE ~(i <= k - 1)
      <4>1. i - (k - 1) \in 1 .. n - k + 1 /\ (i - (k - 1)) + k - 1 = i
        BY <3>2
      <4>2. i \in 1 .. (k - 1) + (n - k + 1)
        OBVIOUS
      <4>3. QED
        BY <1>3, <2>1, <3>2, <4>1, <4>2
    <3>3. QED
      BY <3>1, <3>2
  <2>4. q = p
    BY <1>1, <2>1, <2>2, <2>3, SeqEqual
  <2>5. QED
    BY <2>4 DEF q
<1>5. HeadOrder(c, p, k) = b \o v
  <2> DEFINE q == b \o v
             h == HeadOrder(c, p, k)
  <2>1. /\ q \in Seq(B) /\ Len(q) = 1 + (n - 1)
        /\ \A i \in 1 .. 1 + (n - 1) : q[i] = IF i <= 1 THEN b[i] ELSE v[i - 1]
    <3>1. IsConcat(B, q, b, 1, v, n - 1)
      BY <1>1, <1>2, ConcatIs
    <3> HIDE DEF q
    <3>2. QED
      BY <3>1 DEF IsConcat
  <2>2. /\ h \in Seq(B) /\ Len(h) = n
        /\ \A i \in 1 .. n : h[i] = IF i = 1 THEN p[k] ELSE IF i <= k THEN p[i - 1]
                                    ELSE p[i]
    <3>1. h = [i \in 1 .. n |-> IF i = 1 THEN p[k] ELSE IF i <= k THEN p[i - 1]
                                ELSE p[i]]
      BY DEF HeadOrder
    <3> HIDE DEF h
    <3>2. h \in [1 .. n -> B]
      BY <3>1
    <3>3. QED
      BY <3>1, <3>2
  <2> HIDE DEF q, h, v
  <2>3. ASSUME NEW i \in 1 .. n PROVE q[i] = h[i]
    <3>1. i \in 1 .. 1 + (n - 1)
      OBVIOUS
    <3>2. CASE i = 1
      BY <1>1, <2>1, <2>2, <3>1, <3>2
    <3>3. CASE i # 1
      <4>1. /\ i - 1 \in 1 .. n - 1 /\ ~(i <= 1) /\ (i - 1) + 1 = i
            /\ i - 1 <= k - 1 <=> i <= k
        BY <3>3
      <4>2. q[i] = v[i - 1]
        BY <2>1, <3>1, <4>1
      <4>3. v[i - 1] = IF i <= k THEN p[i - 1] ELSE p[i]
        BY <1>2, <4>1
      <4>4. QED
        BY <2>2, <3>3, <4>2, <4>3
    <3>4. QED
      BY <3>2, <3>3
  <2>4. Len(q) = n
    BY <2>1
  <2>5. q = h
    <3>1. q \in Seq(B) /\ h \in Seq(B) /\ Len(q) = Len(h)
      BY <2>1, <2>2, <2>4
    <3>2. \A i \in 1 .. Len(q) : q[i] = h[i]
      BY <2>3, <2>4
    <3>3. QED
      BY <3>1, <3>2, SeqEqual, Zenon
  <2>6. QED
    BY <2>5 DEF q, h
<1>6. TailOrder(c, p, k) = v \o b
  <2> DEFINE q == v \o b
             h == TailOrder(c, p, k)
  <2>1. /\ q \in Seq(B) /\ Len(q) = (n - 1) + 1
        /\ \A i \in 1 .. (n - 1) + 1 :
             q[i] = IF i <= n - 1 THEN v[i] ELSE b[i - (n - 1)]
    <3>1. IsConcat(B, q, v, n - 1, b, 1)
      BY <1>1, <1>2, ConcatIs
    <3> HIDE DEF q
    <3>2. QED
      BY <3>1 DEF IsConcat
  <2>2. /\ h \in Seq(B) /\ Len(h) = n
        /\ \A i \in 1 .. n : h[i] = IF i = n THEN p[k] ELSE IF i >= k THEN p[i + 1]
                                    ELSE p[i]
    <3>1. h = [i \in 1 .. n |-> IF i = n THEN p[k] ELSE IF i >= k THEN p[i + 1]
                                ELSE p[i]]
      BY DEF TailOrder
    <3> HIDE DEF h
    <3>2. h \in [1 .. n -> B]
      BY <3>1
    <3>3. QED
      BY <3>1, <3>2
  <2> HIDE DEF q, h, v
  <2>3. ASSUME NEW i \in 1 .. n PROVE q[i] = h[i]
    <3>1. i \in 1 .. (n - 1) + 1
      OBVIOUS
    <3>2. CASE i = n
      <4>1. i - (n - 1) = 1 /\ ~(i <= n - 1)
        BY <3>2
      <4>2. QED
        BY <1>1, <2>1, <2>2, <3>1, <3>2, <4>1
    <3>3. CASE i # n
      <4>1. i \in 1 .. n - 1 /\ i <= n - 1 /\ (i <= k - 1 <=> ~(i >= k))
        BY <3>3
      <4>2. q[i] = v[i]
        BY <2>1, <3>1, <4>1
      <4>3. v[i] = IF i >= k THEN p[i + 1] ELSE p[i]
        BY <1>2, <4>1
      <4>4. QED
        BY <2>2, <3>3, <4>2, <4>3
    <3>4. QED
      BY <3>2, <3>3
  <2>4. Len(q) = n
    BY <2>1
  <2>5. q = h
    <3>1. q \in Seq(B) /\ h \in Seq(B) /\ Len(q) = Len(h)
      BY <2>1, <2>2, <2>4
    <3>2. \A i \in 1 .. Len(q) : q[i] = h[i]
      BY <2>3, <2>4
    <3>3. QED
      BY <3>1, <3>2, SeqEqual, Zenon
  <2>6. QED
    BY <2>5 DEF q, h
<1>7. QED
  BY <1>1, <1>4, <1>5, <1>6 DEF u, w, b, v, x, Parts

\* The way list is the order of the ways.
LEMMA OrderIs ==
  ASSUME NEW c, Shape(c), NEW s \in Sets(c), NEW p, WayOrder(c, s, p)
  PROVE  WayList(c, s) = p
<1>1. ListFrom(c, c.way_head[s], c.way_next, c.assoc, p)
  BY WaysAreLists
<1>2. c.assoc \in Nat
  BY DEF Shape
<1>3. QED
  BY <1>1, <1>2, ChainIs DEF WayList

-----------------------------------------------------------------------------
(* What the operations make of the orders *)

OrdersKept(c, r) == \A s, p : WayOrder(c, s, p) => WayOrder(r, s, p)

\* Of the orders only that of set s changes, to q.
OrderBecomes(c, r, s, q) ==
  /\ WayOrder(r, s, q)
  /\ \A t \in Sets(c) \ {s} : \A p : WayOrder(c, t, p) => WayOrder(r, t, p)

LEMMA OrdersStay ==
  ASSUME NEW c, Shape(c), NEW r, NEW F, OnlyChanged(c, r, F),
         F \cap (Sizes \cup Links) = {}
  PROVE  OrdersKept(c, r) /\ SameSizes(c, r)
<1>1. SameSizes(c, r) /\ r.assoc = c.assoc
  BY DEF Shape, OnlyChanged, Sizes, SameSizes
<1>2. Ways(r) = Ways(c)
  BY <1>1, SameOperators
<1>3. /\ r.way_head = c.way_head /\ r.way_tail = c.way_tail
      /\ r.way_next = c.way_next /\ r.way_prev = c.way_prev
  BY DEF Shape, OnlyChanged, Links
<1>4. QED
  BY <1>1, <1>2, <1>3 DEF OrdersKept, WayOrder

LEMMA OrderComposes ==
  ASSUME NEW c, NEW d, NEW e, NEW r, NEW s, NEW q, SameSizes(c, d),
         OrdersKept(c, d), OrderBecomes(d, e, s, q), OrdersKept(e, r)
  PROVE  OrderBecomes(c, r, s, q)
<1>1. Sets(d) = Sets(c)
  BY SameOperators
<1>2. QED
  BY <1>1 DEF OrdersKept, OrderBecomes

LEMMA KeptIsBecome ==
  ASSUME NEW c, NEW r, OrdersKept(c, r), NEW s, NEW p, WayOrder(c, s, p)
  PROVE  OrderBecomes(c, r, s, p)
BY DEF OrdersKept, OrderBecomes

LEMMA ReorderedBecomes ==
  ASSUME NEW c, Shape(c), NEW r, NEW s, NEW q, Reordered(c, r, s, q)
  PROVE  OrderBecomes(c, r, s, q) /\ SameSizes(c, r)
<1>1. OnlyChanged(c, r, Links)
  BY DEF Reordered, OnlyChanged
<1>2. SameSizes(c, r) /\ r.assoc = c.assoc
  BY <1>1 DEF Shape, OnlyChanged, Sizes, SameSizes, Links
<1>3. Ways(r) = Ways(c)
  BY <1>2, SameOperators
<1>4. ASSUME NEW t \in Sets(c) \ {s}, NEW p, WayOrder(c, t, p)
      PROVE  WayOrder(r, t, p)
  <2>1. /\ r.way_head[t] = c.way_head[t] /\ r.way_tail[t] = c.way_tail[t]
        /\ \A b \in {t} \X Ways(c) : /\ r.way_next[b] = c.way_next[b]
                                     /\ r.way_prev[b] = c.way_prev[b]
    BY <1>4 DEF Reordered
  <2>2. QED
    BY <1>2, <1>3, <1>4, <2>1 DEF WayOrder
<1>5. QED
  BY <1>2, <1>4 DEF OrderBecomes, Reordered

\* The block in place k is moved to the head, or stays if it is there.
LEMMA HeadBecomes ==
  ASSUME NEW c, Shape(c), NEW s \in Sets(c), NEW p, WayOrder(c, s, p),
         NEW k \in 1 .. c.assoc
  PROVE  OrderBecomes(c, update_way_list(c, s, p[k], "Head"), s,
                      HeadOrder(c, p, k))
<1>1. CASE k = 1
  <2>1. update_way_list(c, s, p[k], "Head") = c
    BY <1>1 DEF update_way_list, WayOrder
  <2>2. HeadOrder(c, p, k) = p
    <3>1. c.assoc \in Nat /\ p \in [1 .. c.assoc -> {s} \X Ways(c)]
      BY DEF Shape, WayOrder
    <3>2. HeadOrder(c, p, k) = [i \in 1 .. c.assoc |-> p[i]]
      BY <1>1, <3>1 DEF HeadOrder
    <3>3. QED
      BY <3>1, <3>2
  <2>3. QED
    BY <2>1, <2>2 DEF OrderBecomes
<1>2. CASE k # 1
  <2>1. k \in 2 .. c.assoc
    BY <1>2 DEF Shape
  <2>2. QED
    BY <2>1, HeadMoved, ReorderedBecomes
<1>3. QED
  BY <1>1, <1>2

LEMMA TailBecomes ==
  ASSUME NEW c, Shape(c), NEW s \in Sets(c), NEW p, WayOrder(c, s, p),
         NEW k \in 1 .. c.assoc
  PROVE  OrderBecomes(c, update_way_list(c, s, p[k], "Tail"), s,
                      TailOrder(c, p, k))
<1>1. CASE k = c.assoc
  <2>1. update_way_list(c, s, p[k], "Tail") = c
    BY <1>1 DEF update_way_list, WayOrder
  <2>2. TailOrder(c, p, k) = p
    <3>1. c.assoc \in Nat /\ p \in [1 .. c.assoc -> {s} \X Ways(c)]
      BY DEF Shape, WayOrder
    <3>2. TailOrder(c, p, k) = [i \in 1 .. c.assoc |-> p[i]]
      BY <1>1, <3>1 DEF TailOrder
    <3>3. QED
      BY <3>1, <3>2
  <2>3. QED
    BY <2>1, <2>2 DEF OrderBecomes
<1>2. CASE k # c.assoc
  <2>1. k \in 1 .. c.assoc - 1
    BY <1>2 DEF Shape
  <2>2. QED
    BY <2>1, TailMoved, ReorderedBecomes
<1>3. QED
  BY <1>1, <1>2

\* Where the block of a set is.
LEMMA PlaceOf ==
  ASSUME NEW c, CacheOK(c), NEW b \in Blks(c)
  PROVE  /\ b[1] \in Sets(c)
         /\ \E p : /\ WayOrder(c, b[1], p)
                   /\ \E k \in 1 .. c.assoc : p[k] = b
<1>1. b[1] \in Sets(c) /\ b \in {b[1]} \X Ways(c)
  BY DEF Blks
<1>2. PICK p : WayOrder(c, b[1], p)
  BY <1>1 DEF CacheOK, CacheBut, WaysOK
<1>3. \E k \in 1 .. c.assoc : p[k] = b
  BY <1>1, <1>2 DEF WayOrder
<1>4. QED
  BY <1>1, <1>2, <1>3

LEMMA QuickHitOrder ==
  ASSUME NEW c, CacheOK(c), NEW addr \in Nat, NEW cmd,
         FastHit(c, addr), c.last_blk # NULL
  PROVE  LET r == QuickHit(c, cmd, addr)
         IN OrdersKept(c, r) /\ r.last_blk = c.last_blk
<1> DEFINE d == SetDirty(c, cmd, c.last_blk)
           r == QuickHit(c, cmd, addr)
<1>1. Shape(c) /\ c.last_blk \in Blks(c)
  BY DEF CacheOK, CacheBut, Shape
<1>2. CacheOK(d) /\ OnlyChanged(c, d, {"dirty"})
  BY <1>1, SetDirtyKeeps
<1>3. OrdersKept(c, d) /\ SameSizes(c, d) /\ d.tag = c.tag /\ d.valid = c.valid
  <2>1. {"dirty"} \cap (Sizes \cup Links) = {}
    BY DEF Sizes, Links
  <2> HIDE DEF d
  <2>2. OrdersKept(c, d) /\ SameSizes(c, d)
    BY <1>1, <1>2, <2>1, OrdersStay
  <2>3. d.tag = c.tag /\ d.valid = c.valid
    BY <1>1, <1>2 DEF OnlyChanged, Shape
  <2>4. QED
    BY <2>2, <2>3
<1>4. r = RememberLast(d, addr, c.last_blk)
  BY DEF QuickHit
<1>5. Holds(c, c.last_blk, addr) /\ c.last_blk[1] = CACHE_SET(c, addr)
  BY QuickHitKeeps
<1> HIDE DEF d
<1>6. /\ Holds(d, c.last_blk, addr) /\ c.last_blk[1] = CACHE_SET(d, addr)
      /\ c.last_blk \in Blks(d)
  <2>1. /\ Blks(d) = Blks(c) /\ CACHE_TAG(d, addr) = CACHE_TAG(c, addr)
        /\ CACHE_SET(d, addr) = CACHE_SET(c, addr)
    BY <1>3, SameOperators
  <2>2. QED
    BY <1>1, <1>3, <1>5, <2>1 DEF Holds
<1>7. OnlyChanged(d, r, Data) /\ r.last_blk = c.last_blk
  BY <1>2, <1>4, <1>6, RememberKeeps
<1> HIDE DEF r
<1>8. OrdersKept(d, r)
  <2>1. Data \cap (Sizes \cup Links) = {}
    BY DEF Data, Sizes, Links
  <2>2. Shape(d)
    BY <1>2 DEF CacheOK, CacheBut
  <2>3. QED
    BY <1>7, <2>1, <2>2, OrdersStay
<1>9. OrdersKept(c, r)
  BY <1>3, <1>8 DEF OrdersKept
<1>10. QED
  BY <1>7, <1>9 DEF r

\* The block in place k of the order p of set s has hit.
HitOrder(c, r, s, p, k) ==
  /\ OrderBecomes(c, r, s, IF c.policy = "LRU" THEN HeadOrder(c, p, k) ELSE p)
  /\ r.last_blk = p[k]

LEMMA SlowHitOrder ==
  ASSUME NEW c, CacheOK(c), NEW addr \in Nat, NEW cmd,
         NEW p, WayOrder(c, CACHE_SET(c, addr), p), NEW k \in 1 .. c.assoc,
         Holds(c, p[k], addr)
  PROVE  HitOrder(c, SlowHit(c, cmd, addr, p[k]), CACHE_SET(c, addr), p, k)
<1> DEFINE s == CACHE_SET(c, addr)
           blk == p[k]
           d == SetDirty(c, cmd, blk)
           e == IF c.policy = "LRU" THEN update_way_list(d, s, blk, "Head")
                                    ELSE d
           r == RememberLast(e, addr, blk)
           q == IF c.policy = "LRU" THEN HeadOrder(c, p, k) ELSE p
<1>1. Shape(c) /\ s \in Sets(c) /\ blk \in {s} \X Ways(c)
      /\ blk \in Blks(c) /\ blk[1] = s
  <2>1. Shape(c)
    BY DEF CacheOK, CacheBut
  <2>2. s \in Sets(c)
    BY <2>1, AddressParts
  <2>3. blk \in {s} \X Ways(c)
    BY DEF WayOrder
  <2> HIDE DEF s, blk
  <2>4. QED
    BY <2>1, <2>2, <2>3 DEF Blks
<1>2. SlowHit(c, cmd, addr, blk) = r
  <2> HIDE DEF s, blk
  <2>1. QED
    BY <1>1 DEF SlowHit
<1>3. CacheOK(d) /\ OnlyChanged(c, d, {"dirty"})
  BY <1>1, SetDirtyKeeps
<1>4. Shape(d)
  BY <1>3 DEF CacheOK, CacheBut
<1> HIDE DEF d
<1>5. OrdersKept(c, d) /\ SameSizes(c, d) /\ d.tag = c.tag /\ d.valid = c.valid
  <2>1. {"dirty"} \cap (Sizes \cup Links) = {}
    BY DEF Sizes, Links
  <2>2. OrdersKept(c, d) /\ SameSizes(c, d)
    BY <1>1, <1>3, <2>1, OrdersStay
  <2>3. d.tag = c.tag /\ d.valid = c.valid
    BY <1>1, <1>3 DEF OnlyChanged, Shape
  <2>4. QED
    BY <2>2, <2>3
<1>6. /\ Blks(d) = Blks(c) /\ Sets(d) = Sets(c) /\ Ways(d) = Ways(c)
      /\ CACHE_TAG(d, addr) = CACHE_TAG(c, addr)
      /\ CACHE_SET(d, addr) = CACHE_SET(c, addr)
      /\ d.assoc = c.assoc /\ HeadOrder(d, p, k) = HeadOrder(c, p, k)
  <2>1. d.assoc = c.assoc
    BY <1>5 DEF SameSizes, Sizes
  <2>2. QED
    BY <1>5, <2>1, SameOperators DEF HeadOrder
<1>7. WayOrder(d, s, p)
  BY <1>5 DEF OrdersKept
<1>8. OrderBecomes(d, e, s, q) /\ CacheOK(e) /\ SameSizes(d, e)
      /\ e.tag = d.tag /\ e.valid = d.valid
  <2>1. CASE c.policy = "LRU"
    <3>1. OrderBecomes(d, update_way_list(d, s, p[k], "Head"), s,
                       HeadOrder(d, p, k))
      BY <1>1, <1>4, <1>6, <1>7, HeadBecomes
    <3>2. CacheBut(d, NULL) /\ "Head" \in {"Head", "Tail"}
      BY <1>3 DEF CacheOK
    <3>3. e = update_way_list(d, s, blk, "Head")
      BY <2>1
    <3> HIDE DEF e, blk, s
    <3>4. CacheBut(e, NULL) /\ OnlyChanged(d, e, Links)
      BY <1>1, <1>6, <3>2, <3>3, MoveKeeps
    <3>5. SameSizes(d, e) /\ e.tag = d.tag /\ e.valid = d.valid
      BY <1>4, <3>4 DEF OnlyChanged, Shape, SameSizes, Sizes, Links
    <3>6. QED
      BY <1>6, <2>1, <3>1, <3>3, <3>4, <3>5 DEF CacheOK, blk
  <2>2. CASE c.policy # "LRU"
    BY <1>3, <1>7, <2>2 DEF OrderBecomes, SameSizes
  <2>3. QED
    BY <2>1, <2>2
<1> HIDE DEF e, q
<1>9. /\ Holds(e, blk, addr) /\ blk[1] = CACHE_SET(e, addr) /\ blk \in Blks(e)
  <2>1. /\ Blks(e) = Blks(c) /\ CACHE_TAG(e, addr) = CACHE_TAG(c, addr)
        /\ CACHE_SET(e, addr) = CACHE_SET(c, addr)
    BY <1>6, <1>8, SameOperators
  <2>2. QED
    BY <1>1, <1>5, <1>8, <2>1 DEF Holds
<1>10. OnlyChanged(e, r, Data) /\ r.last_blk = blk
  <2> HIDE DEF blk
  <2>1. QED
    BY <1>8, <1>9, RememberKeeps
<1> HIDE DEF r
<1>11. OrdersKept(e, r)
  <2>1. Data \cap (Sizes \cup Links) = {}
    BY DEF Data, Sizes, Links
  <2>2. Shape(e)
    BY <1>8 DEF CacheOK, CacheBut
  <2>3. QED
    BY <1>10, <2>1, <2>2, OrdersStay
<1>12. OrderBecomes(c, r, s, q)
  <2> HIDE DEF s
  <2>1. QED
    BY <1>5, <1>8, <1>11, OrderComposes
<1>13. QED
  <2>1. HitOrder(c, r, s, p, k)
    BY <1>10, <1>12 DEF HitOrder, q, blk
  <2>2. QED
    BY <1>2, <2>1

LEMMA MissOrder ==
  ASSUME NEW c, CacheOK(c), NEW addr \in 0 .. ADDR_SPACE - 1, NEW cmd,
         NEW p, WayOrder(c, CACHE_SET(c, addr), p), NEW k \in 1 .. c.assoc,
         Lookup(c, addr) = NULL
  PROVE  LET r == Miss(c, cmd, addr, p[k])
         IN /\ OrderBecomes(c, r, CACHE_SET(c, addr),
                            IF c.policy = "Random" THEN p ELSE HeadOrder(c, p, k))
            /\ r.last_blk = NULL
<1> DEFINE s == CACHE_SET(c, addr)
           d == IF c.policy = "Random" THEN c
                                       ELSE update_way_list(c, s, p[k], "Head")
           r == Miss(c, cmd, addr, p[k])
           q == IF c.policy = "Random" THEN p ELSE HeadOrder(c, p, k)
<1>1. Shape(c) /\ addr \in Nat
  BY PrefetchAssumption DEF CacheOK, CacheBut
<1>2. s \in Sets(c) /\ p[k] \in {s} \X Ways(c)
  BY <1>1, AddressParts DEF WayOrder
<1>3. OnlyChanged(d, r, Hashes \cup Data) /\ r.last_blk = NULL
  BY <1>2, MissKeeps
<1> HIDE DEF s, r
<1>4. Shape(d) /\ OrderBecomes(c, d, s, q)
  <2>1. CASE c.policy = "Random"
    BY <1>1, <2>1 DEF OrderBecomes, s
  <2>2. CASE c.policy # "Random"
    <3>1. OrderBecomes(c, update_way_list(c, s, p[k], "Head"), s,
                       HeadOrder(c, p, k))
      BY <1>1, <1>2, HeadBecomes DEF s
    <3>2. CacheBut(c, NULL) /\ "Head" \in {"Head", "Tail"}
      BY DEF CacheOK
    <3>3. CacheBut(update_way_list(c, s, p[k], "Head"), NULL)
      BY <1>2, <3>2, MoveKeeps
    <3>4. QED
      BY <2>2, <3>1, <3>3 DEF CacheBut
  <2>3. QED
    BY <2>1, <2>2
<1> HIDE DEF d, q
<1>5. OrdersKept(d, r)
  <2>1. (Hashes \cup Data) \cap (Sizes \cup Links) = {}
    BY DEF Hashes, Data, Sizes, Links
  <2>2. QED
    BY <1>3, <1>4, <2>1, OrdersStay
<1>6. OrderBecomes(c, r, s, q)
  BY <1>4, <1>5 DEF OrderBecomes, OrdersKept
<1>7. QED
  BY <1>3, <1>6 DEF s, r, q

LEMMA FlushOrder ==
  ASSUME NEW c, CacheOK(c)
  PROVE  OrdersKept(c, cache_flush(c)) /\ cache_flush(c).last_blk = NULL
<1> DEFINE r == cache_flush(c)
<1>1. Shape(c) /\ OnlyChanged(c, r, Data)
  BY FlushKeeps DEF CacheOK, CacheBut
<1>2. r.last_blk = NULL
  <2>1. IsRecord(c, Data)
    BY <1>1 DEF Shape, IsRecord, Data
  <2>2. QED
    BY <2>1 DEF cache_flush, ForgetLast, IsRecord, Data
<1> HIDE DEF r
<1>3. Data \cap (Sizes \cup Links) = {}
  BY DEF Data, Sizes, Links
<1>4. OrdersKept(c, r)
  BY <1>1, <1>3, OrdersStay
<1>5. QED
  BY <1>2, <1>4 DEF r

LEMMA FlushAddrOrder ==
  ASSUME NEW c, CacheOK(c), NEW addr \in Nat,
         NEW p, WayOrder(c, CACHE_SET(c, addr), p), NEW k \in 1 .. c.assoc,
         Lookup(c, addr) = p[k]
  PROVE  LET r == cache_flush_addr(c, addr)
         IN /\ OrderBecomes(c, r, CACHE_SET(c, addr), TailOrder(c, p, k))
            /\ r.last_blk = NULL
<1> DEFINE s == CACHE_SET(c, addr)
           blk == p[k]
           valid == [c.valid EXCEPT ![blk] = FALSE]
           tagset == 0
           last == NULL
           d == ForgetLast([c EXCEPT !.valid[blk] = FALSE])
           r == cache_flush_addr(c, addr)
<1>1. CacheBut(c, NULL) /\ Shape(c)
  BY DEF CacheOK, CacheBut
<1>2. /\ s \in Sets(c) /\ blk \in {s} \X Ways(c)
      /\ blk \in Blks(c) /\ blk[1] = s /\ blk # NULL
  <2>1. s \in Sets(c) /\ blk \in {s} \X Ways(c)
    BY <1>1, AddressParts DEF WayOrder
  <2> HIDE DEF s, blk
  <2>2. blk \in Blks(c) /\ blk[1] = s
    BY <2>1 DEF Blks
  <2>3. QED
    BY <2>1, <2>2, NullIsNoBlk
<1>3. r = update_way_list(d, s, blk, "Tail")
  <2> HIDE DEF s
  <2>1. Lookup(c, addr) = blk
    OBVIOUS
  <2> HIDE DEF blk
  <2>2. QED
    BY <1>2, <2>1 DEF cache_flush_addr
<1> HIDE DEF r
<1>4. d = WithData(c, c.tag, valid, c.dirty, tagset, last)
  <2>1. IsRecord(c, Data)
    BY <1>1 DEF Shape, IsRecord, Data
  <2>2. QED
    BY <2>1 DEF ForgetLast, WithData, IsRecord, Data
<1>5. /\ tagset \in Nat /\ last \in Blks(c) \cup {NULL}
      /\ valid \in [Blks(c) -> BOOLEAN] /\ c.dirty \in [Blks(c) -> BOOLEAN]
      /\ \A b \in Blks(c) : valid[b] => c.valid[b]
      /\ LastFits(c, valid, tagset, last)
  BY <1>1, <1>2 DEF Shape, LastFits
<1>6. last = NULL
  OBVIOUS
<1> HIDE DEF d, valid, tagset, last
<1>7. CacheBut(d, NULL) /\ OnlyChanged(c, d, Data) /\ d.last_blk = last
  BY <1>1, <1>4, <1>5, SmallChange
<1>8. OrdersKept(c, d) /\ SameSizes(c, d)
  <2>1. Data \cap (Sizes \cup Links) = {}
    BY DEF Data, Sizes, Links
  <2>2. QED
    BY <1>1, <1>7, <2>1, OrdersStay
<1>9. /\ s \in Sets(d) /\ blk \in {s} \X Ways(d) /\ Shape(d)
      /\ WayOrder(d, s, p) /\ d.assoc = c.assoc
      /\ TailOrder(d, p, k) = TailOrder(c, p, k)
  <2>1. Sets(d) = Sets(c) /\ Ways(d) = Ways(c) /\ d.assoc = c.assoc
    BY <1>8, SameOperators DEF SameSizes, Sizes
  <2>2. QED
    BY <1>2, <1>7, <1>8, <2>1 DEF CacheBut, OrdersKept, TailOrder
<1>10. OrderBecomes(d, r, s, TailOrder(c, p, k))
  <2>1. OrderBecomes(d, update_way_list(d, s, p[k], "Tail"), s,
                     TailOrder(d, p, k))
    BY <1>9, TailBecomes
  <2>2. QED
    BY <1>3, <1>9, <2>1
<1>11. r.last_blk = NULL
  <2>1. "Tail" \in {"Head", "Tail"}
    OBVIOUS
  <2> HIDE DEF s, blk
  <2>2. OnlyChanged(d, r, Links)
    BY <1>3, <1>7, <1>9, <2>1, MoveKeeps
  <2>3. QED
    BY <1>6, <1>7, <1>9, <2>2 DEF OnlyChanged, Shape, Links
<1>12. OrderBecomes(c, r, s, TailOrder(c, p, k))
  <2>1. OrdersKept(r, r)
    BY DEF OrdersKept
  <2> HIDE DEF s
  <2>2. QED
    BY <1>8, <1>10, <2>1, OrderComposes
<1>13. QED
  BY <1>11, <1>12 DEF r

-----------------------------------------------------------------------------
(* What the operations make of the lines *)

\* The lines of all sets.
AllLines(c) == {BlkAddr(c, b) : b \in {b \in Blks(c) : c.valid[b]}}

LEMMA OrderIsList ==
  ASSUME NEW c, Shape(c), NEW s \in Sets(c), NEW p, WayOrder(c, s, p)
  PROVE  /\ p \in Seq(Blks(c)) /\ Len(p) = c.assoc /\ Distinct(p)
         /\ p \in Seq({s} \X Ways(c)) /\ {s} \X Ways(c) \subseteq Blks(c)
         /\ WayList(c, s) = p /\ c.assoc \in Nat \ {0}
<1>1. c.assoc \in Nat \ {0} /\ {s} \X Ways(c) \subseteq Blks(c)
  BY DEF Shape, Blks
<1>2. p \in [1 .. c.assoc -> {s} \X Ways(c)]
  BY DEF WayOrder
<1>3. p \in Seq({s} \X Ways(c)) /\ Len(p) = c.assoc
  BY <1>1, <1>2
<1>4. p \in Seq(Blks(c))
  BY <1>1, <1>3, SeqMonotonic
<1>5. Distinct(p)
  BY <1>3 DEF Distinct, WayOrder
<1>6. QED
  BY <1>1, <1>3, <1>4, <1>5, OrderIs

LEMMA MembersOfOrder ==
  ASSUME NEW c, Shape(c), NEW s \in Sets(c), NEW p, WayOrder(c, s, p)
  PROVE  /\ HeldLines(c, p) \in Seq(Int)
         /\ \A a : a \in ToSet(HeldLines(c, p)) <=>
              \E b \in {s} \X Ways(c) : c.valid[b] /\ BlkAddr(c, b) = a
<1> DEFINE held == HeldLines(c, p)
<1>1. p \in Seq(Blks(c)) /\ Len(p) = c.assoc
  BY OrderIsList
<1>2. held \in Seq(Int)
  BY <1>1, HeldTyped
<1>3. \A a : (\E i \in 1 .. Len(held) : held[i] = a) <=> Listed(c, p, a)
  BY <1>1, HeldMembers
<1>4. \A a : Listed(c, p, a) <=>
               \E b \in {s} \X Ways(c) : c.valid[b] /\ BlkAddr(c, b) = a
  <2>1. \A i \in 1 .. Len(p) : p[i] \in {s} \X Ways(c)
    BY <1>1 DEF WayOrder
  <2>2. \A b \in {s} \X Ways(c) : \E i \in 1 .. Len(p) : p[i] = b
    BY <1>1 DEF WayOrder
  <2>3. QED
    BY <2>1, <2>2 DEF Listed
<1> HIDE DEF held
<1>5. DOMAIN held = 1 .. Len(held)
  BY <1>2, LenProperties
<1>6. \A a : a \in ToSet(held) <=> \E i \in 1 .. Len(held) : held[i] = a
  BY <1>5 DEF ToSet
<1>7. QED
  BY <1>2, <1>3, <1>4, <1>6 DEF held

One(c, b) == IF c.valid[b] THEN <<BlkAddr(c, b)>> ELSE <<>>

LEMMA HeldOne ==
  ASSUME NEW c, Shape(c), NEW b \in Blks(c)
  PROVE  HeldLines(c, <<b>>) = One(c, b) /\ One(c, b) \in Seq(Int)
<1>1. <<>> \in Seq(Blks(c)) /\ <<b>> = Append(<<>>, b)
  BY EmptySeq
<1>2. HeldLines(c, <<b>>) = HeldStep(c, <<>>, b)
  <2> DEFINE none == <<>>
  <2>1. none \in Seq(Blks(c)) /\ <<b>> = Append(none, b)
    BY <1>1
  <2>2. HeldLines(c, none) = <<>>
    BY HeldEmpty
  <2> HIDE DEF none
  <2>3. HeldLines(c, Append(none, b)) = HeldStep(c, HeldLines(c, none), b)
    BY <2>1, HeldAppend
  <2>4. QED
    BY <2>1, <2>2, <2>3
<1>3. BlkAddr(c, b) \in Int
  BY AddressIsInt
<1>4. Append(<<>>, BlkAddr(c, b)) = <<BlkAddr(c, b)>>
  BY <1>3
<1>5. One(c, b) \in Seq(Int)
  BY <1>3 DEF One
<1>6. QED
  BY <1>2, <1>4, <1>5 DEF HeldStep, One

\* The lines of a set when only what block b holds changes, at place k: the
\* lines u before it and w after it are the same.
Around(c, r, p, k, u, w) ==
  /\ u \in Seq(Int) /\ w \in Seq(Int)
  /\ HeldLines(c, p) = u \o (One(c, p[k]) \o w)
  /\ HeldLines(r, p) = u \o (One(r, p[k]) \o w)
  /\ HeldLines(r, HeadOrder(c, p, k)) = One(r, p[k]) \o (u \o w)
  /\ HeldLines(r, TailOrder(c, p, k)) = (u \o w) \o One(r, p[k])
  /\ k = c.assoc => w = <<>>
  /\ NoDuplicates(c) /\ c.valid[p[k]] =>
       \A i \in 1 .. Len(u) : u[i] # BlkAddr(c, p[k])

LEMMA LinesAround ==
  ASSUME NEW c, NEW r, Shape(c), Shape(r), SameSizes(c, r),
         NEW s \in Sets(c), NEW p, WayOrder(c, s, p), NEW k \in 1 .. c.assoc,
         \A b \in {s} \X Ways(c) :
           b # p[k] => r.valid[b] = c.valid[b] /\ r.tag[b] = c.tag[b]
  PROVE  \E u, w : Around(c, r, p, k, u, w)
<1> DEFINE B == Blks(c)
           n == c.assoc
           b == p[k]
           x == Before(p, k)
           y == After(p, k, n)
           u == HeldLines(c, x)
           w == HeldLines(c, y)
<1>1. /\ Blks(r) = B
      /\ \A d \in {s} \X Ways(c) : d # b =>
           r.valid[d] = c.valid[d] /\ BlkAddr(r, d) = BlkAddr(c, d)
  BY SameOperators DEF BlkAddr
<1>2. /\ n \in Nat /\ p \in [1 .. n -> B] /\ b \in B
      /\ p \in [1 .. n -> {s} \X Ways(c)] /\ {s} \X Ways(c) \subseteq B
  <2>1. n \in Nat /\ {s} \X Ways(c) \subseteq B
    BY OrderIsList
  <2>2. p \in [1 .. n -> {s} \X Ways(c)]
    BY DEF WayOrder
  <2> HIDE DEF B
  <2>3. QED
    BY <2>1, <2>2
<1>3. /\ x \in Seq(B) /\ y \in Seq(B) /\ <<b>> \in Seq(B)
      /\ Len(x) = k - 1 /\ Len(y) = n - k
      /\ p = x \o (<<b>> \o y)
      /\ HeadOrder(c, p, k) = <<b>> \o (x \o y)
      /\ TailOrder(c, p, k) = (x \o y) \o <<b>>
  <2>1. Parts(c, B, n, p, k, Before(p, k), After(p, k, n))
    <3> HIDE DEF B
    <3>1. QED
      BY <1>2, OrderParts
  <2>2. QED
    BY <2>1 DEF Parts
<1>4. /\ \A i \in 1 .. k - 1 : x[i] = p[i] /\ i \in 1 .. n /\ i # k
      /\ \A i \in 1 .. n - k : y[i] = p[i + k] /\ i + k \in 1 .. n /\ i + k # k
  BY <1>2 DEF Before, After
<1>5. /\ \A i \in 1 .. k - 1 : x[i] \in {s} \X Ways(c) /\ x[i] # b
      /\ \A i \in 1 .. n - k : y[i] \in {s} \X Ways(c) /\ y[i] # b
  <2>1. \A i \in 1 .. n : i # k => p[i] \in {s} \X Ways(c) /\ p[i] # p[k]
    BY <1>2 DEF WayOrder
  <2> HIDE DEF x, y
  <2>2. QED
    BY <1>4, <2>1
<1>6. HeldLines(r, x) = u /\ HeldLines(r, y) = w
  <2> HIDE DEF x, y, b
  <2>1. HeldLines(r, x) = u
    <3>1. \A i \in 1 .. Len(x) : /\ r.valid[x[i]] = c.valid[x[i]]
                                 /\ BlkAddr(r, x[i]) = BlkAddr(c, x[i])
      BY <1>1, <1>3, <1>5
    <3>2. QED
      BY <1>1, <1>3, <3>1, HeldSame
  <2>2. HeldLines(r, y) = w
    <3>1. \A i \in 1 .. Len(y) : /\ r.valid[y[i]] = c.valid[y[i]]
                                 /\ BlkAddr(r, y[i]) = BlkAddr(c, y[i])
      BY <1>1, <1>3, <1>5
    <3>2. QED
      BY <1>1, <1>3, <3>1, HeldSame
  <2>3. QED
    BY <2>1, <2>2
<1> HIDE DEF x, y, b
<1>7. ASSUME NEW d, Shape(d), Blks(d) = B,
             HeldLines(d, x) = u, HeldLines(d, y) = w
      PROVE  /\ HeldLines(d, p) = u \o (One(d, b) \o w)
             /\ HeldLines(d, HeadOrder(c, p, k)) = One(d, b) \o (u \o w)
             /\ HeldLines(d, TailOrder(c, p, k)) = (u \o w) \o One(d, b)
  <2>1. HeldLines(d, <<b>>) = One(d, b)
    BY <1>2, <1>7, HeldOne DEF b
  <2> DEFINE T == Seq(Blks(d))
  <2>2. x \in T /\ y \in T /\ <<b>> \in T
    BY <1>3, <1>7
  <2>3. <<b>> \o y \in T /\ x \o y \in T
    BY <2>2, ConcatProperties
  <2>4. \A f, g \in T : HeldLines(d, f \o g) = HeldLines(d, f) \o HeldLines(d, g)
    BY <1>7, HeldConcat
  <2> HIDE DEF T, u, w
  <2>5. /\ HeldLines(d, <<b>> \o y) = One(d, b) \o w
        /\ HeldLines(d, x \o y) = u \o w
    BY <1>7, <2>1, <2>2, <2>4
  <2>6. HeldLines(d, x \o (<<b>> \o y)) = u \o (One(d, b) \o w)
    BY <1>7, <2>2, <2>3, <2>4, <2>5
  <2>7. HeldLines(d, <<b>> \o (x \o y)) = One(d, b) \o (u \o w)
    BY <1>7, <2>1, <2>2, <2>3, <2>4, <2>5
  <2>8. HeldLines(d, (x \o y) \o <<b>>) = (u \o w) \o One(d, b)
    BY <1>7, <2>1, <2>2, <2>3, <2>4, <2>5
  <2>9. QED
    BY <1>3, <2>6, <2>7, <2>8
<1>8. /\ HeldLines(c, p) = u \o (One(c, b) \o w)
      /\ HeldLines(r, p) = u \o (One(r, b) \o w)
      /\ HeldLines(r, HeadOrder(c, p, k)) = One(r, b) \o (u \o w)
      /\ HeldLines(r, TailOrder(c, p, k)) = (u \o w) \o One(r, b)
  BY <1>1, <1>6, <1>7
<1>9. u \in Seq(Int) /\ w \in Seq(Int)
  BY <1>3, HeldTyped
<1>10. k = n => w = <<>>
  <2> SUFFICES ASSUME k = n PROVE w = <<>>
    OBVIOUS
  <2>1. Len(y) = 0
    BY <1>2, <1>3
  <2>2. y = <<>>
    BY <1>3, <2>1, EmptySeq
  <2>3. QED
    BY <2>2, HeldEmpty
<1>11. ASSUME NoDuplicates(c), c.valid[b], NEW i \in 1 .. Len(u),
              u[i] = BlkAddr(c, b)
       PROVE  FALSE
  <2>1. Listed(c, x, BlkAddr(c, b))
    BY <1>3, <1>11, HeldMembers
  <2>2. PICK j \in 1 .. k - 1 : c.valid[x[j]] /\ BlkAddr(c, x[j]) = BlkAddr(c, b)
    BY <1>3, <2>1 DEF Listed
  <2>3. x[j] \in B /\ x[j] # b /\ b \in B
    BY <1>2, <1>5 DEF b
  <2>4. QED
    BY <1>11, <2>2, <2>3 DEF NoDuplicates
<1> HIDE DEF u, w
<1>12. Around(c, r, p, k, u, w)
  BY <1>8, <1>9, <1>10, <1>11 DEF Around, b
<1>13. QED
  BY <1>12

\* c becomes r by an operation on set s, whose order becomes q.
Becomes(c, r, s, q) ==
  /\ CacheOK(c) /\ CacheOK(r) /\ SameSizes(c, r) /\ s \in Sets(c)
  /\ OrderBecomes(c, r, s, q)
  /\ \A b \in Blks(c) :
       b[1] # s => r.valid[b] = c.valid[b] /\ r.tag[b] = c.tag[b]

LEMMA OtherLines ==
  ASSUME NEW c, NEW r, NEW s, NEW q, Becomes(c, r, s, q),
         NEW p, WayOrder(c, s, p)
  PROVE  /\ \A t \in Sets(c) \ {s} : LinesOf(r)[t] = LinesOf(c)[t]
         /\ LinesOf(r)[s] = HeldLines(r, q) /\ LinesOf(c)[s] = HeldLines(c, p)
<1>1. Shape(c) /\ Shape(r) /\ WaysOK(c)
  BY DEF Becomes, CacheOK, CacheBut
<1>2. /\ Sets(r) = Sets(c) /\ Ways(r) = Ways(c) /\ Blks(r) = Blks(c)
      /\ \A t, u : CACHE_MK_BADDR(r, t, u) = CACHE_MK_BADDR(c, t, u)
  BY SameOperators DEF Becomes
<1>3. ASSUME NEW t \in Sets(c) \ {s} PROVE LinesOf(r)[t] = LinesOf(c)[t]
  <2>1. PICK o : WayOrder(c, t, o)
    BY <1>1 DEF WaysOK
  <2>2. WayOrder(r, t, o)
    BY <2>1 DEF Becomes, OrderBecomes
  <2>3. WayList(c, t) = o /\ WayList(r, t) = o
    BY <1>1, <1>2, <2>1, <2>2, OrderIs
  <2>4. o \in Seq(Blks(c)) /\ o \in Seq({t} \X Ways(c))
        /\ {t} \X Ways(c) \subseteq Blks(c)
    BY <1>1, <2>1, OrderIsList
  <2>5. ASSUME NEW i \in 1 .. Len(o)
        PROVE  r.valid[o[i]] = c.valid[o[i]] /\ BlkAddr(r, o[i]) = BlkAddr(c, o[i])
    <3>1. o[i] \in {t} \X Ways(c)
      BY <2>4, ElementOfSeq
    <3>2. o[i] \in Blks(c) /\ o[i][1] # s
      BY <2>4, <3>1
    <3>3. QED
      BY <1>2, <3>2 DEF Becomes, BlkAddr
  <2>6. HeldLines(r, o) = HeldLines(c, o)
    BY <1>1, <1>2, <2>4, <2>5, HeldSame
  <2>7. QED
    BY <1>2, <2>3, <2>6 DEF LinesOf
<1>4. WayList(r, s) = q /\ WayList(c, s) = p
  BY <1>1, <1>2, OrderIs DEF Becomes, OrderBecomes
<1>5. LinesOf(r)[s] = HeldLines(r, q) /\ LinesOf(c)[s] = HeldLines(c, p)
  BY <1>2, <1>4 DEF LinesOf, Becomes
<1>6. QED
  BY <1>3, <1>5

\* The lines of set s are those of its valid blocks.
HasMembers(c, s) ==
  /\ LinesOf(c)[s] \in Seq(Int)
  /\ \A a : a \in ToSet(LinesOf(c)[s]) <=>
       \E b \in {s} \X Ways(c) : c.valid[b] /\ BlkAddr(c, b) = a

LEMMA MembersOfSet ==
  ASSUME NEW c, CacheOK(c), NEW s \in Sets(c)
  PROVE  HasMembers(c, s)
<1>1. PICK p : WayOrder(c, s, p)
  BY DEF CacheOK, CacheBut, WaysOK
<1>2. Shape(c)
  BY DEF CacheOK, CacheBut
<1>3. LinesOf(c)[s] = HeldLines(c, p)
  BY <1>1, <1>2, OrderIs DEF LinesOf
<1>4. QED
  BY <1>1, <1>2, <1>3, MembersOfOrder DEF HasMembers

LEMMA AllLinesIs ==
  ASSUME NEW c, CacheOK(c)
  PROVE  UNION {ToSet(LinesOf(c)[s]) : s \in DOMAIN LinesOf(c)} = AllLines(c)
<1>1. DOMAIN LinesOf(c) = Sets(c)
  BY DEF LinesOf
<1>2. \A s \in Sets(c) : \A a : a \in ToSet(LinesOf(c)[s]) <=>
        \E b \in {s} \X Ways(c) : c.valid[b] /\ BlkAddr(c, b) = a
  <2>1. \A s \in Sets(c) : HasMembers(c, s)
    BY MembersOfSet
  <2>2. QED
    BY <2>1 DEF HasMembers
<1>3. \A a : (\E s \in Sets(c) : a \in ToSet(LinesOf(c)[s])) <=>
        \E b \in Blks(c) : c.valid[b] /\ BlkAddr(c, b) = a
  <2>1. /\ \A b \in Blks(c) : b[1] \in Sets(c) /\ b \in {b[1]} \X Ways(c)
        /\ \A s \in Sets(c) : {s} \X Ways(c) \subseteq Blks(c)
    BY DEF Blks
  <2>2. QED
    BY <1>2, <2>1
<1>4. \A a : a \in AllLines(c) <=> \E b \in Blks(c) : c.valid[b] /\ BlkAddr(c, b) = a
  BY DEF AllLines
<1>5. QED
  BY <1>1, <1>3, <1>4

LEMMA LineIs ==
  ASSUME NEW c, Shape(c), NEW addr \in Nat
  PROVE  /\ CACHE_SET(c, addr) \in Sets(c) /\ CACHE_BADDR(c, addr) \in Nat
         /\ \A b \in Blks(c) :
              BlkAddr(c, b) = CACHE_BADDR(c, addr) <=>
                c.tag[b] = CACHE_TAG(c, addr) /\ b[1] = CACHE_SET(c, addr)
<1>1. /\ CACHE_SET(c, addr) \in Sets(c) /\ CACHE_TAG(c, addr) \in Nat
      /\ CACHE_BADDR(c, addr) \in Nat
      /\ CACHE_MK_BADDR(c, CACHE_TAG(c, addr), CACHE_SET(c, addr)) =
           CACHE_BADDR(c, addr)
  BY AddressParts
<1>2. ASSUME NEW b \in Blks(c), BlkAddr(c, b) = CACHE_BADDR(c, addr)
      PROVE  c.tag[b] = CACHE_TAG(c, addr) /\ b[1] = CACHE_SET(c, addr)
  <2>1. c.tag[b] \in Nat /\ b[1] \in Sets(c)
    BY DEF Shape, Blks
  <2>2. CACHE_MK_BADDR(c, c.tag[b], b[1]) =
          CACHE_MK_BADDR(c, CACHE_TAG(c, addr), CACHE_SET(c, addr))
    BY <1>1, <1>2 DEF BlkAddr
  <2>3. QED
    BY <1>1, <2>1, <2>2, OneAddress
<1>3. ASSUME NEW b \in Blks(c),
             c.tag[b] = CACHE_TAG(c, addr), b[1] = CACHE_SET(c, addr)
      PROVE  BlkAddr(c, b) = CACHE_BADDR(c, addr)
  BY <1>1, <1>3 DEF BlkAddr
<1>4. QED
  BY <1>1, <1>2, <1>3

\* An address is in a line of the cache if a block of its set holds it.
LEMMA LineHeld ==
  ASSUME NEW c, CacheOK(c), NEW addr \in Nat
  PROVE  CACHE_BADDR(c, addr) \in ToSet(LinesOf(c)[CACHE_SET(c, addr)]) <=>
           \E b \in {CACHE_SET(c, addr)} \X Ways(c) : Holds(c, b, addr)
<1> DEFINE s == CACHE_SET(c, addr)
           line == CACHE_BADDR(c, addr)
<1>1. Shape(c)
  BY DEF CacheOK, CacheBut
<1>2. /\ s \in Sets(c)
      /\ \A b \in Blks(c) : BlkAddr(c, b) = line <=>
                              c.tag[b] = CACHE_TAG(c, addr) /\ b[1] = s
  BY <1>1, LineIs
<1>3. line \in ToSet(LinesOf(c)[s]) <=>
        \E b \in {s} \X Ways(c) : c.valid[b] /\ BlkAddr(c, b) = line
  <2>1. HasMembers(c, s)
    BY <1>2, MembersOfSet
  <2>2. QED
    BY <2>1 DEF HasMembers
<1> HIDE DEF s, line
<1>4. \A b \in {s} \X Ways(c) : b \in Blks(c) /\ b[1] = s
  BY <1>2 DEF Blks
<1>5. QED
  BY <1>2, <1>3, <1>4 DEF Holds, s, line

\* Where a lookup leads: to a place in the order of the set, or there is no
\* such line.
LEMMA LookupPlace ==
  ASSUME NEW c, CacheOK(c), NEW addr \in Nat, NEW p,
         WayOrder(c, CACHE_SET(c, addr), p)
  PROVE  /\ Lookup(c, addr) = NULL =>
              CACHE_BADDR(c, addr) \notin ToSet(LinesOf(c)[CACHE_SET(c, addr)])
         /\ Lookup(c, addr) # NULL =>
              /\ CACHE_BADDR(c, addr) \in ToSet(LinesOf(c)[CACHE_SET(c, addr)])
              /\ \E k \in 1 .. c.assoc :
                   Lookup(c, addr) = p[k] /\ Holds(c, p[k], addr)
<1> DEFINE s == CACHE_SET(c, addr)
           blk == Lookup(c, addr)
<1>1. /\ s \in Sets(c)
      /\ \/ blk = NULL /\ \A b \in {s} \X Ways(c) : ~Holds(c, b, addr)
         \/ blk \in {s} \X Ways(c) /\ Holds(c, blk, addr)
  BY LookupIs
<1>2. CACHE_BADDR(c, addr) \in ToSet(LinesOf(c)[s]) <=>
        \E b \in {s} \X Ways(c) : Holds(c, b, addr)
  BY LineHeld
<1>3. blk \in {s} \X Ways(c) => \E k \in 1 .. c.assoc : blk = p[k]
  BY DEF WayOrder
<1>4. NULL \notin {s} \X Ways(c)
  BY <1>1, NullIsNoBlk DEF Blks
<1> HIDE DEF s, blk
<1>5. QED
  BY <1>1, <1>2, <1>3, <1>4 DEF s, blk

\* What was dirty and is still there is dirty, and so is new.
DirtyKept(c, r, new) ==
  DirtyLinesOf(r) = (DirtyLinesOf(c) \cap AllLines(r)) \cup new

LEMMA DirtyIs ==
  ASSUME NEW c, NEW a
  PROVE  /\ a \in DirtyLinesOf(c) <=>
              \E b \in Blks(c) : c.valid[b] /\ c.dirty[b] /\ BlkAddr(c, b) = a
         /\ a \in AllLines(c) <=> \E b \in Blks(c) : c.valid[b] /\ BlkAddr(c, b) = a
BY DEF DirtyLinesOf, AllLines

LEMMA DirtyAfterHit ==
  ASSUME NEW c, NEW r, Shape(c), SameSizes(c, r), NEW cmd, NEW blk \in Blks(c),
         c.valid[blk], r.tag = c.tag, r.valid = c.valid,
         r.dirty = Dirtied(c, cmd, blk)
  PROVE  DirtyKept(c, r, IF cmd = Writes THEN {BlkAddr(c, blk)} ELSE {})
<1>1. Blks(r) = Blks(c) /\ \A b : BlkAddr(r, b) = BlkAddr(c, b)
  BY SameOperators DEF BlkAddr
<1>2. \A b \in Blks(c) : r.dirty[b] <=> c.dirty[b] \/ (cmd = Writes /\ b = blk)
  BY DEF Shape, Dirtied
<1>3. \A a : /\ a \in DirtyLinesOf(c) <=>
                  \E b \in Blks(c) : c.valid[b] /\ c.dirty[b] /\ BlkAddr(c, b) = a
             /\ a \in DirtyLinesOf(r) <=>
                  \E b \in Blks(c) : c.valid[b] /\ r.dirty[b] /\ BlkAddr(c, b) = a
             /\ a \in AllLines(r) <=>
                  \E b \in Blks(c) : c.valid[b] /\ BlkAddr(c, b) = a
  BY <1>1, DirtyIs
<1>4. ASSUME NEW a
      PROVE  a \in DirtyLinesOf(r) <=>
               \/ a \in DirtyLinesOf(c) \cap AllLines(r)
               \/ a \in IF cmd = Writes THEN {BlkAddr(c, blk)} ELSE {}
  BY <1>2, <1>3
<1>5. QED
  BY <1>4 DEF DirtyKept

\* The block repl of c is replaced by that of line, which was not there.
LineFilled(c, r, cmd, repl, line) ==
  /\ BlkAddr(r, repl) = line
  /\ \A b \in Blks(c) : c.valid[b] => BlkAddr(c, b) # line
  /\ \A b \in Blks(c) : b # repl => BlkAddr(r, b) = BlkAddr(c, b)
  /\ DirtyKept(c, r, IF cmd = Writes THEN {line} ELSE {})

LEMMA DirtyAfterMiss ==
  ASSUME NEW c, NEW r, Shape(c), NoDuplicates(c), NEW cmd, NEW addr \in Nat,
         NEW repl \in {CACHE_SET(c, addr)} \X Ways(c),
         IsFilled(c, r, cmd, addr, repl),
         \A b \in {CACHE_SET(c, addr)} \X Ways(c) : ~Holds(c, b, addr)
  PROVE  LineFilled(c, r, cmd, repl, CACHE_BADDR(c, addr))
<1> DEFINE s == CACHE_SET(c, addr)
           line == CACHE_BADDR(c, addr)
<1>1. /\ Blks(r) = Blks(c)
      /\ \A t, u : CACHE_MK_BADDR(r, t, u) = CACHE_MK_BADDR(c, t, u)
  BY SameOperators DEF IsFilled
<1>2. /\ s \in Sets(c)
      /\ CACHE_MK_BADDR(c, CACHE_TAG(c, addr), s) = line
      /\ \A b \in Blks(c) : BlkAddr(c, b) = line <=>
                              c.tag[b] = CACHE_TAG(c, addr) /\ b[1] = s
  BY LineIs, AddressParts
<1>3. repl \in Blks(c) /\ repl[1] = s
      /\ \A b \in Blks(c) : b[1] = s => b \in {s} \X Ways(c)
  BY <1>2 DEF Blks
<1>4. /\ \A b \in Blks(c) : /\ b # repl => r.tag[b] = c.tag[b]
                            /\ b # repl => r.valid[b] = c.valid[b]
                            /\ b # repl => r.dirty[b] = c.dirty[b]
      /\ r.tag[repl] = CACHE_TAG(c, addr) /\ r.valid[repl]
      /\ r.dirty[repl] <=> cmd = Writes
  <2>1. PICK t, v, d : t = c.tag /\ v = c.valid /\ d = c.dirty
    OBVIOUS
  <2>2. DOMAIN t = Blks(c) /\ DOMAIN v = Blks(c) /\ DOMAIN d = Blks(c)
    BY <2>1 DEF Shape
  <2>3. /\ r.tag = [t EXCEPT ![repl] = CACHE_TAG(c, addr)]
        /\ r.valid = [v EXCEPT ![repl] = TRUE]
        /\ r.dirty = [d EXCEPT ![repl] = (cmd = Writes)]
    BY <2>1 DEF IsFilled
  <2>4. QED
    BY <1>3, <2>1, <2>2, <2>3
<1>5. /\ BlkAddr(r, repl) = line
      /\ \A b \in Blks(c) : b # repl => BlkAddr(r, b) = BlkAddr(c, b)
  BY <1>1, <1>2, <1>3, <1>4 DEF BlkAddr
<1>6. \A b \in Blks(c) : c.valid[b] => BlkAddr(c, b) # line
  BY <1>2, <1>3 DEF Holds
<1>7. \A a : /\ a \in DirtyLinesOf(c) <=>
                  \E b \in Blks(c) : c.valid[b] /\ c.dirty[b] /\ BlkAddr(c, b) = a
             /\ a \in DirtyLinesOf(r) <=>
                  \E b \in Blks(c) : r.valid[b] /\ r.dirty[b] /\ BlkAddr(r, b) = a
             /\ a \in AllLines(r) <=>
                  \E b \in Blks(c) : r.valid[b] /\ BlkAddr(r, b) = a
  BY <1>1, DirtyIs
<1> HIDE DEF s, line
<1>8. ASSUME NEW a
      PROVE  a \in DirtyLinesOf(r) <=>
               \/ a \in DirtyLinesOf(c) /\ a \in AllLines(r)
               \/ cmd = Writes /\ a = line
  <2>1. CASE a = line
    <3>1. a \notin DirtyLinesOf(c)
      BY <1>6, <1>7, <2>1
    <3>2. a \in DirtyLinesOf(r) => cmd = Writes
      <4> SUFFICES ASSUME NEW b \in Blks(c), r.valid[b], r.dirty[b],
                          BlkAddr(r, b) = line
                   PROVE  cmd = Writes
        BY <1>7, <2>1
      <4>1. b = repl
        BY <1>4, <1>5, <1>6
      <4>2. QED
        BY <1>4, <4>1
    <3>3. cmd = Writes => a \in DirtyLinesOf(r)
      BY <1>3, <1>4, <1>5, <1>7, <2>1
    <3>4. QED
      BY <2>1, <3>1, <3>2, <3>3
  <2>2. CASE a # line
    <3>1. a \in DirtyLinesOf(r) => a \in DirtyLinesOf(c) /\ a \in AllLines(r)
      <4> SUFFICES ASSUME NEW b \in Blks(c), r.valid[b], r.dirty[b],
                          BlkAddr(r, b) = a
                   PROVE  a \in DirtyLinesOf(c) /\ a \in AllLines(r)
        BY <1>7
      <4>1. b # repl
        BY <1>5, <2>2
      <4>2. QED
        BY <1>4, <1>5, <1>7, <4>1
    <3>2. a \in DirtyLinesOf(c) /\ a \in AllLines(r) => a \in DirtyLinesOf(r)
      <4> SUFFICES ASSUME NEW b \in Blks(c), c.valid[b], c.dirty[b],
                          BlkAddr(c, b) = a,
                          NEW d \in Blks(c), r.valid[d], BlkAddr(r, d) = a
                   PROVE  a \in DirtyLinesOf(r)
        BY <1>7
      <4>1. d # repl
        BY <1>5, <2>2
      <4>2. c.valid[d] /\ BlkAddr(c, d) = a
        BY <1>4, <1>5, <4>1
      <4>3. b = d
        BY <4>2 DEF NoDuplicates
      <4>4. QED
        BY <1>4, <1>5, <1>7, <4>1, <4>3
    <3>3. QED
      BY <2>2, <3>1, <3>2
  <2>3. QED
    BY <2>1, <2>2
<1>9. DirtyKept(c, r, IF cmd = Writes THEN {line} ELSE {})
  BY <1>8 DEF DirtyKept
<1>10. QED
  BY <1>5, <1>6, <1>9 DEF LineFilled, line

LEMMA DirtyAfterFlush ==
  ASSUME NEW c, NEW r, Shape(c), SameSizes(c, r), NoDuplicates(c),
         NEW blk \in Blks(c), r.tag = c.tag, r.dirty = c.dirty,
         r.valid = [c.valid EXCEPT ![blk] = FALSE]
  PROVE  DirtyKept(c, r, {})
<1>1. Blks(r) = Blks(c) /\ \A b : BlkAddr(r, b) = BlkAddr(c, b)
  BY SameOperators DEF BlkAddr
<1>2. \A b \in Blks(c) : r.valid[b] <=> c.valid[b] /\ b # blk
  BY DEF Shape
<1>3. \A a : /\ a \in DirtyLinesOf(c) <=>
                  \E b \in Blks(c) : c.valid[b] /\ c.dirty[b] /\ BlkAddr(c, b) = a
             /\ a \in DirtyLinesOf(r) <=>
                  \E b \in Blks(c) : r.valid[b] /\ c.dirty[b] /\ BlkAddr(c, b) = a
             /\ a \in AllLines(r) <=>
                  \E b \in Blks(c) : r.valid[b] /\ BlkAddr(c, b) = a
  <2> SUFFICES ASSUME NEW a
               PROVE  /\ a \in DirtyLinesOf(c) <=>
                           \E b \in Blks(c) :
                             c.valid[b] /\ c.dirty[b] /\ BlkAddr(c, b) = a
                      /\ a \in DirtyLinesOf(r) <=>
                           \E b \in Blks(c) :
                             r.valid[b] /\ c.dirty[b] /\ BlkAddr(c, b) = a
                      /\ a \in AllLines(r) <=>
                           \E b \in Blks(c) : r.valid[b] /\ BlkAddr(c, b) = a
    OBVIOUS
  <2>1. a \in DirtyLinesOf(c) <=>
          \E b \in Blks(c) : c.valid[b] /\ c.dirty[b] /\ BlkAddr(c, b) = a
    BY DirtyIs
  <2>2. /\ a \in DirtyLinesOf(r) <=>
             \E b \in Blks(r) : r.valid[b] /\ r.dirty[b] /\ BlkAddr(r, b) = a
        /\ a \in AllLines(r) <=>
             \E b \in Blks(r) : r.valid[b] /\ BlkAddr(r, b) = a
    BY DirtyIs
  <2>3. QED
    BY <1>1, <2>1, <2>2
<1>4. ASSUME NEW a
      PROVE  a \in DirtyLinesOf(r) <=> a \in DirtyLinesOf(c) /\ a \in AllLines(r)
  <2>1. a \in DirtyLinesOf(r) => a \in DirtyLinesOf(c) /\ a \in AllLines(r)
    BY <1>2, <1>3
  <2>2. a \in DirtyLinesOf(c) /\ a \in AllLines(r) => a \in DirtyLinesOf(r)
    <3> SUFFICES ASSUME NEW b \in Blks(c), c.valid[b], c.dirty[b],
                        BlkAddr(c, b) = a,
                        NEW d \in Blks(c), r.valid[d], BlkAddr(c, d) = a
                 PROVE  a \in DirtyLinesOf(r)
      BY <1>3
    <3>1. b = d
      BY <1>2 DEF NoDuplicates
    <3>2. QED
      BY <1>3, <3>1
  <2>3. QED
    BY <2>1, <2>2
<1>5. QED
  BY <1>4 DEF DirtyKept

-----------------------------------------------------------------------------
(* What becomes of the lines of the set that is accessed *)

LEMMA SeqUnits ==
  ASSUME NEW u \in Seq(Int), NEW a \in Int
  PROVE  /\ u \o <<>> = u /\ <<>> \o u = u /\ <<a>> \in Seq(Int)
         /\ <<a>> \o <<>> = <<a>> /\ Front(u \o <<a>>) = u
<1>1. u \o <<>> = u
  OBVIOUS
<1>2. <<>> \o u = u
  OBVIOUS
<1>3. <<a>> \in Seq(Int) /\ <<a>> \o <<>> = <<a>>
  OBVIOUS
<1>4. SubSeq(u \o <<a>>, 1, Len(u \o <<a>>) - 1) = u
  OBVIOUS
<1>5. QED
  BY <1>1, <1>2, <1>3, <1>4 DEF Front

LEMMA OnceIfOK ==
  ASSUME NEW c, CacheOK(c)
  PROVE  NoDuplicates(c) /\ Shape(c) /\ WaysOK(c)
BY OnceIfSound DEF CacheOK, CacheBut

LEMMA OneOrder ==
  ASSUME NEW c, Shape(c), NEW s \in Sets(c), NEW p, NEW q,
         WayOrder(c, s, p), WayOrder(c, s, q)
  PROVE  p = q
BY OrderIs

\* The block in place k of an order.
InPlace(c, s, p, k) ==
  /\ p \in Seq(Blks(c)) /\ Len(p) = c.assoc
  /\ p[k] \in {s} \X Ways(c) /\ p[k] \in Blks(c) /\ p[k][1] = s
  /\ BlkAddr(c, p[k]) \in Int /\ c.valid[p[k]] \in BOOLEAN

LEMMA PlaceIs ==
  ASSUME NEW c, Shape(c), NEW s \in Sets(c), NEW p, WayOrder(c, s, p),
         NEW k \in 1 .. c.assoc
  PROVE  InPlace(c, s, p, k)
<1>1. p \in Seq(Blks(c)) /\ Len(p) = c.assoc
  BY OrderIsList
<1>2. p[k] \in {s} \X Ways(c)
  BY DEF WayOrder
<1>3. p[k] \in Blks(c) /\ p[k][1] = s
  BY <1>2 DEF Blks
<1>4. QED
  BY <1>1, <1>2, <1>3, AddressIsInt DEF InPlace

\* Among the ways of a set only the one in place k is not what it was.
OthersSame(c, r, s, p, k) ==
  \A b \in {s} \X Ways(c) :
    b # p[k] => r.valid[b] = c.valid[b] /\ r.tag[b] = c.tag[b]

LEMMA HasAround ==
  ASSUME NEW c, NEW r, NEW s, NEW q, Becomes(c, r, s, q),
         NEW p, WayOrder(c, s, p), NEW k \in 1 .. c.assoc,
         OthersSame(c, r, s, p, k)
  PROVE  \E u, w : Around(c, r, p, k, u, w)
<1>1. Shape(c) /\ Shape(r) /\ SameSizes(c, r) /\ s \in Sets(c)
  BY OnceIfOK DEF Becomes
<1>2. QED
  BY <1>1, LinesAround DEF OthersSame

LEMMA HeadOfFirst ==
  ASSUME NEW c, Shape(c), NEW s, NEW p, WayOrder(c, s, p)
  PROVE  HeadOrder(c, p, 1) = p
BY DEF HeadOrder, WayOrder, Shape

\* A hit moves a line to the front, or none.
HitLines(c, r, s, line) ==
  LinesOf(r)[s] =
    IF c.policy = "LRU" THEN <<line>> \o RemoveFirst(LinesOf(c)[s], line)
    ELSE LinesOf(c)[s]

LEMMA LinesAfterHit ==
  ASSUME NEW c, NEW r, NEW s, NEW p, WayOrder(c, s, p), NEW k \in 1 .. c.assoc,
         Becomes(c, r, s, IF c.policy = "LRU" THEN HeadOrder(c, p, k) ELSE p),
         r.tag = c.tag, r.valid = c.valid, c.valid[p[k]]
  PROVE  HitLines(c, r, s, BlkAddr(c, p[k]))
<1> DEFINE q == IF c.policy = "LRU" THEN HeadOrder(c, p, k) ELSE p
           line == BlkAddr(c, p[k])
<1>1. Becomes(c, r, s, q)
  OBVIOUS
<1>2. /\ CacheOK(c) /\ Shape(c) /\ Shape(r) /\ SameSizes(c, r) /\ s \in Sets(c)
      /\ NoDuplicates(c)
  BY <1>1, OnceIfOK DEF Becomes
<1>3. LinesOf(r)[s] = HeldLines(r, q) /\ LinesOf(c)[s] = HeldLines(c, p)
  BY <1>1, OtherLines
<1>4. OthersSame(c, r, s, p, k)
  BY DEF OthersSame
<1>5. PICK u, w : Around(c, r, p, k, u, w)
  BY <1>1, <1>4, HasAround
<1>6. p[k] \in Blks(c) /\ line \in Int
  BY <1>2, PlaceIs DEF InPlace
<1>7. One(c, p[k]) = <<line>> /\ One(r, p[k]) = <<line>>
  BY <1>2, SameOperators DEF One, BlkAddr
<1>8. /\ u \in Seq(Int) /\ w \in Seq(Int)
      /\ HeldLines(c, p) = u \o (<<line>> \o w)
      /\ HeldLines(r, p) = u \o (<<line>> \o w)
      /\ HeldLines(r, HeadOrder(c, p, k)) = <<line>> \o (u \o w)
      /\ \A i \in 1 .. Len(u) : u[i] # line
  BY <1>2, <1>5, <1>7 DEF Around
<1> HIDE DEF line
<1>9. RemoveFirst(u \o (<<line>> \o w), line) = u \o w
  BY <1>6, <1>8, RemoveFirstIs
<1>10. HitLines(c, r, s, line)
  BY <1>3, <1>8, <1>9 DEF HitLines
<1>11. QED
  BY <1>10 DEF line

\* The invalid blocks of an order come last.
ValidsFirst(c, p) ==
  \A i, j \in 1 .. c.assoc : i <= j /\ c.valid[p[j]] => c.valid[p[i]]

\* A miss takes the last line's place, if there is no free one.
MissLines(c, r, s, line) ==
  LET before == LinesOf(c)[s]
  IN LinesOf(r)[s] =
       <<line>> \o (IF Len(before) = c.assoc THEN Front(before) ELSE before)

LEMMA LinesAfterMiss ==
  ASSUME NEW c, NEW r, NEW s, NEW p, WayOrder(c, s, p),
         Becomes(c, r, s, HeadOrder(c, p, c.assoc)), ValidsFirst(c, p),
         OthersSame(c, r, s, p, c.assoc), r.valid[p[c.assoc]]
  PROVE  MissLines(c, r, s, BlkAddr(r, p[c.assoc]))
<1> DEFINE k == c.assoc
           line == BlkAddr(r, p[k])
<1>1. /\ CacheOK(c) /\ Shape(c) /\ Shape(r) /\ SameSizes(c, r) /\ s \in Sets(c)
  BY OnceIfOK DEF Becomes
<1>2. /\ LinesOf(r)[s] = HeldLines(r, HeadOrder(c, p, k))
      /\ LinesOf(c)[s] = HeldLines(c, p)
  BY OtherLines
<1>3. k \in 1 .. c.assoc /\ k \in Nat \ {0}
  <2>1. c.assoc \in Nat \ {0}
    BY <1>1, Zenon DEF Shape
  <2>2. QED
    BY <2>1
<1>4. PICK u, w : Around(c, r, p, k, u, w)
  BY <1>3, HasAround
<1>5. /\ p \in Seq(Blks(c)) /\ Len(p) = k
      /\ p[k] \in Blks(c) /\ p[k] \in Blks(r)
  <2>1. p \in Seq(Blks(c)) /\ Len(p) = k
    BY <1>1, OrderIsList
  <2>2. p[k] \in Blks(c)
    BY <1>3, <2>1
  <2>3. QED
    BY <1>1, <2>1, <2>2, SameOperators
<1>6. /\ line \in Int /\ c.valid[p[k]] \in BOOLEAN
      /\ BlkAddr(c, p[k]) \in Int
  BY <1>1, <1>5, AddressIsInt
<1>7. One(r, p[k]) = <<line>>
  BY DEF One
<1>8. /\ u \in Seq(Int) /\ w = <<>>
      /\ HeldLines(c, p) = u \o (One(c, p[k]) \o <<>>)
      /\ HeldLines(r, HeadOrder(c, p, k)) = <<line>> \o (u \o <<>>)
  BY <1>4, <1>7 DEF Around
<1>9. LinesOf(r)[s] = <<line>> \o u
  BY <1>2, <1>6, <1>8, SeqUnits
<1>10. Len(HeldLines(c, p)) = k <=> \A i \in 1 .. k : c.valid[p[i]]
  BY <1>1, <1>5, HeldLength
<1>11. CASE c.valid[p[k]]
  <2>1. One(c, p[k]) = <<BlkAddr(c, p[k])>>
    BY <1>11 DEF One
  <2>2. HeldLines(c, p) = u \o <<BlkAddr(c, p[k])>>
    BY <1>6, <1>8, <2>1, SeqUnits
  <2>3. \A i \in 1 .. k : c.valid[p[i]]
    BY <1>3, <1>11 DEF ValidsFirst
  <2>4. Len(LinesOf(c)[s]) = c.assoc
    BY <1>2, <1>10, <2>3
  <2>5. Front(LinesOf(c)[s]) = u
    <3>1. Front(u \o <<BlkAddr(c, p[k])>>) = u
      BY <1>6, <1>8, SeqUnits
    <3>2. QED
      BY <1>2, <2>2, <3>1
  <2>6. QED
    BY <1>9, <2>4, <2>5 DEF MissLines
<1>12. CASE ~c.valid[p[k]]
  <2>1. One(c, p[k]) = <<>>
    BY <1>12 DEF One
  <2>2. HeldLines(c, p) = u
    BY <1>8, <2>1, <1>6, SeqUnits
  <2>3. Len(LinesOf(c)[s]) # c.assoc
    BY <1>2, <1>3, <1>10, <1>12
  <2>4. QED
    BY <1>2, <1>9, <2>2, <2>3 DEF MissLines
<1>13. QED
  BY <1>11, <1>12

\* A random miss takes any line's place, or a free one.
AnyLines(c, r, s, line) ==
  LET before == LinesOf(c)[s]
      after == LinesOf(r)[s]
      victims == ToSet(before) \ ToSet(after)
  IN /\ IsInjective(after)
     /\ ToSet(after) = {line} \cup (ToSet(before) \ victims)
     /\ Cardinality(victims) <= 1
     /\ Len(before) = c.assoc => victims # {}

LEMMA OneVictim ==
  ASSUME NEW victims, NEW a, victims \subseteq {a}
  PROVE  Cardinality(victims) <= 1
<1>1. victims = {} \/ victims = {a}
  OBVIOUS
<1>2. Cardinality({}) = 0 /\ Cardinality({a}) = 1
  BY FS_EmptySet, FS_Singleton
<1>3. QED
  BY <1>1, <1>2

LEMMA LinesAfterRandom ==
  ASSUME NEW c, NEW r, NEW s, NEW p, WayOrder(c, s, p), Becomes(c, r, s, p),
         NEW k \in 1 .. c.assoc, OthersSame(c, r, s, p, k), r.valid[p[k]],
         \A b \in Blks(c) : c.valid[b] => BlkAddr(c, b) # BlkAddr(r, p[k])
  PROVE  AnyLines(c, r, s, BlkAddr(r, p[k]))
<1> DEFINE line == BlkAddr(r, p[k])
           old == BlkAddr(c, p[k])
           before == LinesOf(c)[s]
           after == LinesOf(r)[s]
           victims == ToSet(before) \ ToSet(after)
<1>1. /\ CacheOK(c) /\ Shape(c) /\ NoDuplicates(c) /\ s \in Sets(c)
      /\ CacheOK(r) /\ Shape(r) /\ NoDuplicates(r) /\ SameSizes(c, r)
      /\ WayOrder(r, s, p)
  BY OnceIfOK DEF Becomes, OrderBecomes
<1>2. s \in Sets(r) /\ Ways(r) = Ways(c) /\ Blks(r) = Blks(c)
  BY <1>1, SameOperators
<1>3. after = HeldLines(r, p) /\ before = HeldLines(c, p)
  BY OtherLines
<1>4. /\ p \in Seq(Blks(c)) /\ Len(p) = c.assoc /\ Distinct(p)
      /\ {s} \X Ways(c) \subseteq Blks(c) /\ p[k] \in {s} \X Ways(c)
  <2>1. p \in Seq(Blks(c)) /\ Len(p) = c.assoc /\ p[k] \in {s} \X Ways(c)
    BY <1>1, PlaceIs DEF InPlace
  <2>2. Distinct(p) /\ {s} \X Ways(c) \subseteq Blks(c)
    BY <1>1, OrderIsList
  <2>3. QED
    BY <2>1, <2>2
<1>5. \A a : /\ a \in ToSet(before) <=>
                  \E b \in {s} \X Ways(c) : c.valid[b] /\ BlkAddr(c, b) = a
             /\ a \in ToSet(after) <=>
                  \E b \in {s} \X Ways(c) : r.valid[b] /\ BlkAddr(r, b) = a
  <2>1. HasMembers(c, s) /\ HasMembers(r, s)
    BY <1>1, <1>2, MembersOfSet
  <2>2. QED
    BY <1>2, <2>1 DEF HasMembers
<1>6. \A b \in {s} \X Ways(c) :
        b # p[k] => r.valid[b] = c.valid[b] /\ BlkAddr(r, b) = BlkAddr(c, b)
  BY <1>1, SameOperators DEF OthersSame, BlkAddr
<1>7. \A b \in {s} \X Ways(c) : c.valid[b] => BlkAddr(c, b) # line
  BY <1>4
<1>8. \A b \in {s} \X Ways(c) :
        c.valid[b] /\ c.valid[p[k]] /\ BlkAddr(c, b) = old => b = p[k]
  BY <1>1, <1>4 DEF NoDuplicates
<1>9. Len(before) = c.assoc => c.valid[p[k]]
  BY <1>1, <1>3, <1>4, HeldLength
<1>10. IsInjective(after)
  BY <1>1, <1>2, <1>3, <1>4, HeldOnce
<1>11. r.valid[p[k]]
  OBVIOUS
<1> HIDE DEF line, old, before, after
<1>12. ToSet(after) = {line} \cup (ToSet(before) \ victims)
  <2>1. line \in ToSet(after)
    BY <1>4, <1>5, <1>11 DEF line
  <2>2. ASSUME NEW a \in ToSet(after), a # line
        PROVE  a \in ToSet(before)
    BY <1>5, <1>6, <2>2 DEF line
  <2>3. QED
    BY <2>1, <2>2
<1>13. victims \subseteq {old}
  <2> SUFFICES ASSUME NEW a \in ToSet(before), a \notin ToSet(after)
               PROVE  a = old
    OBVIOUS
  <2>1. PICK b \in {s} \X Ways(c) : c.valid[b] /\ BlkAddr(c, b) = a
    BY <1>5
  <2>2. b = p[k]
    BY <1>5, <1>6, <2>1
  <2>3. QED
    BY <2>1, <2>2 DEF old
<1>14. Len(before) = c.assoc => victims # {}
  <2> SUFFICES ASSUME Len(before) = c.assoc
               PROVE  old \in ToSet(before) /\ old \notin ToSet(after)
    OBVIOUS
  <2>1. c.valid[p[k]]
    BY <1>9
  <2>2. old \in ToSet(before)
    BY <1>4, <1>5, <2>1 DEF old
  <2>3. ASSUME NEW b \in {s} \X Ways(c), r.valid[b], BlkAddr(r, b) = old
        PROVE  FALSE
    <3>1. CASE b = p[k]
      BY <1>4, <1>7, <2>1, <2>3, <3>1 DEF line, old
    <3>2. CASE b # p[k]
      BY <1>6, <1>8, <2>1, <2>3, <3>2
    <3>3. QED
      BY <3>1, <3>2
  <2>4. QED
    BY <1>5, <2>2, <2>3
<1>15. Cardinality(victims) <= 1
  BY <1>13, OneVictim
<1>16. QED
  BY <1>10, <1>12, <1>14, <1>15 DEF AnyLines, line, before, after

\* A flush takes the line out.
LineGone(c, r, s, line) == LinesOf(r)[s] = RemoveFirst(LinesOf(c)[s], line)

LEMMA LinesAfterInvalid ==
  ASSUME NEW c, NEW r, NEW s, NEW p, WayOrder(c, s, p), NEW k \in 1 .. c.assoc,
         Becomes(c, r, s, TailOrder(c, p, k)), OthersSame(c, r, s, p, k),
         c.valid[p[k]], ~r.valid[p[k]]
  PROVE  LineGone(c, r, s, BlkAddr(c, p[k]))
<1> DEFINE line == BlkAddr(c, p[k])
<1>1. /\ CacheOK(c) /\ Shape(c) /\ NoDuplicates(c) /\ s \in Sets(c)
  BY OnceIfOK DEF Becomes
<1>2. LinesOf(r)[s] = HeldLines(r, TailOrder(c, p, k))
      /\ LinesOf(c)[s] = HeldLines(c, p)
  BY OtherLines
<1>3. PICK u, w : Around(c, r, p, k, u, w)
  BY HasAround
<1>4. p[k] \in Blks(c) /\ line \in Int
  BY <1>1, PlaceIs DEF InPlace
<1>5. One(c, p[k]) = <<line>> /\ One(r, p[k]) = <<>>
  BY DEF One
<1>6. /\ u \in Seq(Int) /\ w \in Seq(Int)
      /\ HeldLines(c, p) = u \o (<<line>> \o w)
      /\ HeldLines(r, TailOrder(c, p, k)) = (u \o w) \o <<>>
      /\ \A i \in 1 .. Len(u) : u[i] # line
  BY <1>1, <1>3, <1>5 DEF Around
<1> HIDE DEF line
<1>7. RemoveFirst(u \o (<<line>> \o w), line) = u \o w
  BY <1>4, <1>6, RemoveFirstIs
<1>8. (u \o w) \o <<>> = u \o w
  BY <1>6, ConcatCalls, SeqUnits
<1>9. LinesOf(r)[s] = RemoveFirst(LinesOf(c)[s], line)
  BY <1>2, <1>6, <1>7, <1>8
<1>10. QED
  BY <1>9 DEF LineGone, line

-----------------------------------------------------------------------------
(* The order that replacement relies on *)

\* The invalid blocks of a set come last, so that a free way is taken first,
\* unless the policy is Random.
FreeLast(c) ==
  c.policy # "Random" =>
    \A s \in Sets(c) : \A p : WayOrder(c, s, p) => ValidsFirst(c, p)

\* The last block is the most recently used of its set: a fast hit, which
\* moves nothing, leaves the order of a true LRU.
LastFirst(c) ==
  c.policy = "LRU" /\ c.last_blk # NULL =>
    c.way_head[c.last_blk[1]] = c.last_blk

Ordered(c) == FreeLast(c) /\ LastFirst(c)

LEMMA FreeLastKept ==
  ASSUME NEW c, NEW r, NEW s, NEW q, Becomes(c, r, s, q), FreeLast(c),
         c.policy # "Random" => ValidsFirst(r, q)
  PROVE  FreeLast(r)
<1>1. /\ CacheOK(c) /\ Shape(c) /\ WaysOK(c) /\ Shape(r) /\ SameSizes(c, r)
      /\ s \in Sets(c)
  BY OnceIfOK DEF Becomes
<1>2. /\ Sets(r) = Sets(c) /\ Ways(r) = Ways(c)
      /\ r.assoc = c.assoc /\ r.policy = c.policy
  BY <1>1, SameOperators DEF SameSizes, Sizes
<1> SUFFICES ASSUME c.policy # "Random", NEW t \in Sets(c), NEW p,
                    WayOrder(r, t, p)
             PROVE  ValidsFirst(r, p)
  BY <1>2 DEF FreeLast
<1>3. CASE t = s
  <2>1. WayOrder(r, s, q) /\ WayOrder(r, s, p)
    BY <1>3 DEF Becomes, OrderBecomes
  <2>2. s \in Sets(r)
    BY <1>1, <1>2
  <2>3. p = q
    BY <1>1, <2>1, <2>2, OneOrder
  <2>4. QED
    BY <2>3
<1>4. CASE t # s
  <2>1. PICK o : WayOrder(c, t, o)
    BY <1>1 DEF WaysOK
  <2>2. WayOrder(r, t, o)
    BY <1>4, <2>1 DEF Becomes, OrderBecomes
  <2>3. p = o
    BY <1>1, <1>2, <2>2, OneOrder
  <2>4. ValidsFirst(c, p)
    BY <2>1, <2>3 DEF FreeLast
  <2>5. \A i \in 1 .. c.assoc : p[i] \in {t} \X Ways(c)
    BY <2>1, <2>3 DEF WayOrder
  <2>6. \A i \in 1 .. c.assoc : p[i] \in Blks(c) /\ p[i][1] # s
    BY <1>4, <2>5 DEF Blks
  <2>7. \A i \in 1 .. c.assoc : r.valid[p[i]] = c.valid[p[i]]
    BY <2>6 DEF Becomes
  <2>8. QED
    BY <1>2, <2>4, <2>7 DEF ValidsFirst
<1>5. QED
  BY <1>3, <1>4

LEMMA LastFirstNull ==
  ASSUME NEW c, c.last_blk = NULL
  PROVE  LastFirst(c)
BY DEF LastFirst

\* The indices of HeadOrder and TailOrder are those of p, in its order.
LEMMA HeadOrderIs ==
  ASSUME NEW c, Shape(c), NEW p, NEW k \in 1 .. c.assoc
  PROVE  LET q == HeadOrder(c, p, k)
         IN /\ q[1] = p[k]
            /\ \A i \in 2 .. k : q[i] = p[i - 1]
            /\ \A i \in k + 1 .. c.assoc : q[i] = p[i]
BY DEF HeadOrder, Shape

LEMMA TailOrderIs ==
  ASSUME NEW c, Shape(c), NEW p, NEW k \in 1 .. c.assoc
  PROVE  LET q == TailOrder(c, p, k)
         IN /\ q[c.assoc] = p[k]
            /\ \A i \in 1 .. k - 1 : q[i] = p[i]
            /\ \A i \in k .. c.assoc - 1 : q[i] = p[i + 1]
BY DEF TailOrder, Shape

LEMMA OrderAfterHit ==
  ASSUME NEW c, NEW r, Shape(c), SameSizes(c, r), r.valid = c.valid,
         NEW p, ValidsFirst(c, p), NEW k \in 1 .. c.assoc, c.valid[p[k]]
  PROVE  ValidsFirst(r, p) /\ ValidsFirst(r, HeadOrder(c, p, k))
<1> DEFINE q == HeadOrder(c, p, k)
           n == c.assoc
<1>1. n \in Nat /\ k \in 1 .. n /\ r.assoc = n
  BY DEF Shape, SameSizes, Sizes
<1>2. \A i, j \in 1 .. n : i <= j /\ c.valid[p[j]] => c.valid[p[i]]
  BY DEF ValidsFirst
<1>3. /\ q[1] = p[k]
      /\ \A i \in 2 .. k : q[i] = p[i - 1]
      /\ \A i \in k + 1 .. n : q[i] = p[i]
  BY HeadOrderIs
<1> HIDE DEF q, n
<1>4. \A i \in 1 .. k : c.valid[q[i]]
  <2> SUFFICES ASSUME NEW i \in 1 .. k
               PROVE  c.valid[q[i]]
    OBVIOUS
  <2>1. CASE i = 1
    BY <1>3, <2>1
  <2>2. CASE i # 1
    <3>1. i \in 2 .. k /\ i - 1 \in 1 .. n /\ i - 1 <= k
      BY <1>1, <2>2
    <3>2. QED
      BY <1>1, <1>2, <1>3, <3>1
  <2>3. QED
    BY <2>1, <2>2
<1>5. \A i, j \in 1 .. n : i <= j /\ c.valid[q[j]] => c.valid[q[i]]
  <2> SUFFICES ASSUME NEW i \in 1 .. n, NEW j \in 1 .. n, i <= j,
                      c.valid[q[j]], i > k
               PROVE  c.valid[q[i]]
    BY <1>1, <1>4
  <2>1. i \in k + 1 .. n /\ j \in k + 1 .. n
    BY <1>1
  <2>2. QED
    BY <1>2, <1>3, <2>1
<1>6. QED
  BY <1>1, <1>2, <1>5 DEF ValidsFirst, q, n

LEMMA OrderAfterMiss ==
  ASSUME NEW c, NEW r, Shape(c), SameSizes(c, r), NEW s, NEW p,
         WayOrder(c, s, p), ValidsFirst(c, p),
         OthersSame(c, r, s, p, c.assoc), r.valid[p[c.assoc]]
  PROVE  ValidsFirst(r, HeadOrder(c, p, c.assoc))
<1> DEFINE q == HeadOrder(c, p, c.assoc)
           n == c.assoc
<1>1. n \in Nat \ {0} /\ r.assoc = n /\ n \in 1 .. n
  BY DEF Shape, SameSizes, Sizes
<1>2. \A i, j \in 1 .. n : i <= j /\ c.valid[p[j]] => c.valid[p[i]]
  BY DEF ValidsFirst
<1>3. q[1] = p[n] /\ \A i \in 2 .. n : q[i] = p[i - 1]
  BY <1>1, HeadOrderIs
<1>4. \A i \in 1 .. n - 1 : r.valid[p[i]] = c.valid[p[i]]
  <2> SUFFICES ASSUME NEW i \in 1 .. n - 1
               PROVE  r.valid[p[i]] = c.valid[p[i]]
    OBVIOUS
  <2>1. i \in 1 .. n /\ i # n
    BY <1>1
  <2>2. p[i] \in {s} \X Ways(c) /\ p[i] # p[n]
    BY <1>1, <2>1 DEF WayOrder
  <2>3. QED
    BY <2>2 DEF OthersSame
<1>5. r.valid[p[n]]
  OBVIOUS
<1> HIDE DEF q, n
<1>6. \A i, j \in 1 .. n : i <= j /\ r.valid[q[j]] => r.valid[q[i]]
  <2> SUFFICES ASSUME NEW i \in 1 .. n, NEW j \in 1 .. n, i <= j,
                      r.valid[q[j]], i # 1
               PROVE  r.valid[q[i]]
    BY <1>3, <1>5
  <2>1. /\ i \in 2 .. n /\ j \in 2 .. n
        /\ i - 1 \in 1 .. n - 1 /\ j - 1 \in 1 .. n - 1
        /\ i - 1 \in 1 .. n /\ j - 1 \in 1 .. n /\ i - 1 <= j - 1
    BY <1>1
  <2>2. q[i] = p[i - 1] /\ q[j] = p[j - 1]
    BY <1>3, <2>1
  <2>3. c.valid[p[j - 1]]
    BY <1>4, <2>1, <2>2
  <2>4. c.valid[p[i - 1]]
    BY <1>2, <2>1, <2>3
  <2>5. QED
    BY <1>4, <2>1, <2>2, <2>4
<1>7. QED
  BY <1>1, <1>6 DEF ValidsFirst, q, n

LEMMA OrderAfterInvalid ==
  ASSUME NEW c, NEW r, Shape(c), SameSizes(c, r), NEW s, NEW p,
         WayOrder(c, s, p), ValidsFirst(c, p), NEW k \in 1 .. c.assoc,
         OthersSame(c, r, s, p, k), ~r.valid[p[k]]
  PROVE  ValidsFirst(r, TailOrder(c, p, k))
<1> DEFINE q == TailOrder(c, p, k)
           n == c.assoc
<1>1. n \in Nat \ {0} /\ r.assoc = n /\ k \in 1 .. n
  BY DEF Shape, SameSizes, Sizes
<1>2. \A i, j \in 1 .. n : i <= j /\ c.valid[p[j]] => c.valid[p[i]]
  BY DEF ValidsFirst
<1>3. /\ q[n] = p[k]
      /\ \A i \in 1 .. k - 1 : q[i] = p[i]
      /\ \A i \in k .. n - 1 : q[i] = p[i + 1]
  BY TailOrderIs
<1>4. \A i \in 1 .. n : i # k => r.valid[p[i]] = c.valid[p[i]]
  <2> SUFFICES ASSUME NEW i \in 1 .. n, i # k
               PROVE  r.valid[p[i]] = c.valid[p[i]]
    OBVIOUS
  <2>1. p[i] \in {s} \X Ways(c) /\ p[i] # p[k]
    BY DEF WayOrder
  <2>2. QED
    BY <2>1 DEF OthersSame
<1>5. ~r.valid[p[k]]
  OBVIOUS
<1> DEFINE at(i) == IF i < k THEN i ELSE i + 1
<1> HIDE DEF q, n
<1>6. \A i \in 1 .. n - 1 : /\ at(i) \in 1 .. n /\ at(i) # k
                            /\ q[i] = p[at(i)]
  BY <1>1, <1>3
<1>7. \A i, j \in 1 .. n - 1 : i <= j => at(i) <= at(j)
  BY <1>1
<1> HIDE DEF at
<1>8. \A i, j \in 1 .. n : i <= j /\ r.valid[q[j]] => r.valid[q[i]]
  <2> SUFFICES ASSUME NEW i \in 1 .. n, NEW j \in 1 .. n, i <= j,
                      r.valid[q[j]]
               PROVE  r.valid[q[i]]
    OBVIOUS
  <2>1. j # n
    BY <1>3, <1>5
  <2>2. i \in 1 .. n - 1 /\ j \in 1 .. n - 1
    BY <1>1, <2>1
  <2>3. c.valid[p[at(j)]]
    BY <1>4, <1>6, <2>2
  <2>4. c.valid[p[at(i)]]
    BY <1>2, <1>6, <1>7, <2>2, <2>3
  <2>5. QED
    BY <1>4, <1>6, <2>2, <2>4
<1>9. QED
  BY <1>1, <1>8 DEF ValidsFirst, q, n

-----------------------------------------------------------------------------
(* The operations on one cache are those of CacheLines *)

Accessed(c, r, s, line) ==
  IF line \in ToSet(LinesOf(c)[s]) THEN HitLines(c, r, s, line)
  ELSE IF c.policy = "Random" THEN AnyLines(c, r, s, line)
  ELSE MissLines(c, r, s, line)

Invalidated(c, r, s, line) ==
  LinesOf(r)[s] = RemoveFirst(LinesOf(c)[s], line) /\ DirtyKept(c, r, {})

\* c becomes r by an access or a flush of the line of addr.
StepAt(c, r, s, line) ==
  /\ \A t \in Sets(c) \ {s} : LinesOf(r)[t] = LinesOf(c)[t]
  /\ \/ Accessed(c, r, s, line) /\ (DirtyKept(c, r, {}) \/ DirtyKept(c, r, {line}))
     \/ Invalidated(c, r, s, line)

IsStep(c, r, addr) ==
  /\ CacheOK(r) /\ SameSizes(c, r) /\ Ordered(r)
  /\ StepAt(c, r, CACHE_SET(c, addr), CACHE_BADDR(c, addr))

LEMMA SetOrder ==
  ASSUME NEW c, CacheOK(c), NEW addr \in Nat
  PROVE  /\ CACHE_SET(c, addr) \in Sets(c)
         /\ \E p : WayOrder(c, CACHE_SET(c, addr), p)
BY AddressParts, OnceIfOK DEF WaysOK

\* A line that is held is one of its set's.
LEMMA HeldLine ==
  ASSUME NEW c, CacheOK(c), NEW addr \in Nat, NEW b \in Blks(c),
         Holds(c, b, addr), b[1] = CACHE_SET(c, addr)
  PROVE  /\ BlkAddr(c, b) = CACHE_BADDR(c, addr) /\ c.valid[b]
         /\ CACHE_BADDR(c, addr) \in ToSet(LinesOf(c)[CACHE_SET(c, addr)])
<1>1. Shape(c)
  BY OnceIfOK
<1>2. BlkAddr(c, b) = CACHE_BADDR(c, addr) /\ c.valid[b]
  BY <1>1, LineIs DEF Holds
<1>3. b \in {CACHE_SET(c, addr)} \X Ways(c)
  BY DEF Blks
<1>4. QED
  BY <1>2, <1>3, LineHeld

\* Either kind of hit, when the block that hits is in place k and the order
\* becomes that of a hit.
LEMMA HitIsStep ==
  ASSUME NEW c, NEW r, NEW addr \in Nat, NEW cmd, NEW p,
         WayOrder(c, CACHE_SET(c, addr), p), NEW k \in 1 .. c.assoc,
         CacheOK(c), CacheOK(r), SameSizes(c, r), FreeLast(c), LastFirst(r),
         OrderBecomes(c, r, CACHE_SET(c, addr),
                      IF c.policy = "LRU" THEN HeadOrder(c, p, k) ELSE p),
         Holds(c, p[k], addr), r.tag = c.tag, r.valid = c.valid,
         r.dirty = Dirtied(c, cmd, p[k])
  PROVE  IsStep(c, r, addr)
<1> DEFINE s == CACHE_SET(c, addr)
           line == CACHE_BADDR(c, addr)
           q == IF c.policy = "LRU" THEN HeadOrder(c, p, k) ELSE p
<1>1. Shape(c) /\ s \in Sets(c) /\ WayOrder(c, s, p)
  BY OnceIfOK, SetOrder
<1>2. p[k] \in {s} \X Ways(c)
  BY <1>1 DEF WayOrder
<1>3. p[k] \in Blks(c) /\ p[k][1] = s
  BY <1>1, <1>2 DEF Blks
<1>4. BlkAddr(c, p[k]) = line /\ c.valid[p[k]] /\ line \in ToSet(LinesOf(c)[s])
  BY <1>3, HeldLine
<1>5. OrderBecomes(c, r, s, q)
  OBVIOUS
<1> HIDE DEF s, line
<1>6. Becomes(c, r, s, q)
  BY <1>1, <1>5 DEF Becomes
<1>7. HitLines(c, r, s, line)
  BY <1>1, <1>4, <1>6, LinesAfterHit
<1>8. \A t \in Sets(c) \ {s} : LinesOf(r)[t] = LinesOf(c)[t]
  BY <1>1, <1>6, OtherLines
<1>9. DirtyKept(c, r, {}) \/ DirtyKept(c, r, {line})
  <2>1. DirtyKept(c, r, IF cmd = Writes THEN {line} ELSE {})
    BY <1>1, <1>3, <1>4, DirtyAfterHit
  <2>2. QED
    BY <2>1
<1>10. FreeLast(r)
  <2>1. ASSUME c.policy # "Random"
        PROVE  ValidsFirst(r, q)
    <3>1. ValidsFirst(c, p)
      BY <1>1, <2>1 DEF FreeLast
    <3>2. ValidsFirst(r, p) /\ ValidsFirst(r, HeadOrder(c, p, k))
      BY <1>1, <1>4, <3>1, OrderAfterHit
    <3>3. QED
      BY <3>2
  <2>2. QED
    BY <1>6, <2>1, FreeLastKept
<1>11. StepAt(c, r, s, line)
  BY <1>4, <1>7, <1>8, <1>9 DEF StepAt, Accessed
<1>12. QED
  BY <1>10, <1>11 DEF IsStep, Ordered, s, line

LEMMA QuickHitIsStep ==
  ASSUME NEW c, CacheOK(c), Ordered(c), NEW addr \in Nat, NEW cmd,
         FastHit(c, addr), c.last_blk # NULL
  PROVE  IsStep(c, QuickHit(c, cmd, addr), addr)
<1> DEFINE s == CACHE_SET(c, addr)
           r == QuickHit(c, cmd, addr)
<1>1. Shape(c) /\ s \in Sets(c)
  BY OnceIfOK, SetOrder
<1>2. /\ CacheOK(r) /\ SameSizes(c, r)
      /\ c.last_blk \in Blks(c) /\ Holds(c, c.last_blk, addr)
      /\ c.last_blk[1] = s
      /\ r.tag = c.tag /\ r.valid = c.valid
      /\ r.dirty = Dirtied(c, cmd, c.last_blk)
  BY QuickHitKeeps
<1>3. OrdersKept(c, r) /\ r.last_blk = c.last_blk
  BY QuickHitOrder
<1>4. PICK p : WayOrder(c, s, p)
  BY SetOrder
<1>5. OrderBecomes(c, r, s, p)
  BY <1>3, <1>4, KeptIsBecome
<1>6. c.way_head[s] = p[1] /\ r.way_head[s] = p[1]
  <2>1. WayOrder(r, s, p)
    BY <1>3, <1>4 DEF OrdersKept
  <2> HIDE DEF r, s
  <2>2. QED
    BY <1>4, <2>1 DEF WayOrder
<1>7. LastFirst(r)
  BY <1>2, <1>3, <1>6 DEF LastFirst, Ordered, SameSizes, Sizes
<1>8. PICK k \in 1 .. c.assoc :
        /\ p[k] = c.last_blk
        /\ p = IF c.policy = "LRU" THEN HeadOrder(c, p, k) ELSE p
  <2>1. CASE c.policy = "LRU"
    <3>1. p[1] = c.last_blk
      BY <1>2, <1>6, <2>1 DEF LastFirst, Ordered
    <3>2. HeadOrder(c, p, 1) = p
      BY <1>1, <1>4, HeadOfFirst
    <3>3. 1 \in 1 .. c.assoc
      BY <1>1 DEF Shape
    <3>4. QED
      BY <2>1, <3>1, <3>2, <3>3
  <2>2. CASE c.policy # "LRU"
    <3>1. c.last_blk \in {s} \X Ways(c)
      BY <1>2 DEF Blks
    <3>2. \E k \in 1 .. c.assoc : p[k] = c.last_blk
      BY <1>4, <3>1 DEF WayOrder
    <3>3. QED
      BY <2>2, <3>2
  <2>3. QED
    BY <2>1, <2>2
<1> HIDE DEF r
<1>9. OrderBecomes(c, r, s, IF c.policy = "LRU" THEN HeadOrder(c, p, k) ELSE p)
  BY <1>5, <1>8
<1>10. Holds(c, p[k], addr) /\ r.dirty = Dirtied(c, cmd, p[k])
  BY <1>2, <1>8
<1>11. FreeLast(c) /\ k \in 1 .. c.assoc
  BY <1>8 DEF Ordered
<1>12. IsStep(c, r, addr)
  BY <1>2, <1>4, <1>7, <1>9, <1>10, <1>11, HitIsStep
<1>13. QED
  BY <1>12 DEF r

LEMMA SlowHitIsStep ==
  ASSUME NEW c, CacheOK(c), Ordered(c), NEW addr \in Nat, NEW cmd,
         NEW blk \in Blks(c), Holds(c, blk, addr), blk[1] = CACHE_SET(c, addr)
  PROVE  IsStep(c, SlowHit(c, cmd, addr, blk), addr)
<1> DEFINE s == CACHE_SET(c, addr)
           r == SlowHit(c, cmd, addr, blk)
<1>1. Shape(c) /\ s \in Sets(c)
  BY OnceIfOK, SetOrder
<1>2. /\ CacheOK(r) /\ SameSizes(c, r)
      /\ r.tag = c.tag /\ r.valid = c.valid
      /\ r.dirty = Dirtied(c, cmd, blk)
  BY SlowHitKeeps
<1>3. PICK p : WayOrder(c, s, p)
  BY SetOrder
<1>4. blk \in {s} \X Ways(c)
  BY DEF Blks
<1>5. PICK k \in 1 .. c.assoc : p[k] = blk
  BY <1>3, <1>4 DEF WayOrder
<1> DEFINE q == IF c.policy = "LRU" THEN HeadOrder(c, p, k) ELSE p
<1>6. OrderBecomes(c, r, s, q) /\ r.last_blk = blk
  <2>1. Holds(c, p[k], addr)
    BY <1>5
  <2>2. HitOrder(c, SlowHit(c, cmd, addr, p[k]), s, p, k)
    BY <1>3, <1>5, <2>1, SlowHitOrder
  <2>3. QED
    BY <1>5, <2>2 DEF HitOrder
<1>7. LastFirst(r)
  <2> SUFFICES ASSUME r.policy = "LRU"
               PROVE  r.way_head[s] = blk
    BY <1>6 DEF LastFirst
  <2>1. c.policy = "LRU"
    BY <1>2 DEF SameSizes, Sizes
  <2>2. WayOrder(r, s, HeadOrder(c, p, k))
    BY <1>6, <2>1 DEF OrderBecomes
  <2>3. r.way_head[s] = HeadOrder(c, p, k)[1]
    BY <2>2 DEF WayOrder
  <2>4. HeadOrder(c, p, k)[1] = p[k]
    BY <1>1, <1>5, HeadOrderIs
  <2>5. QED
    BY <1>5, <2>3, <2>4
<1> HIDE DEF r
<1>8. Holds(c, p[k], addr) /\ r.dirty = Dirtied(c, cmd, p[k]) /\ FreeLast(c)
  BY <1>2, <1>5 DEF Ordered
<1>9. OrderBecomes(c, r, s, IF c.policy = "LRU" THEN HeadOrder(c, p, k) ELSE p)
  BY <1>6
<1>10. IsStep(c, r, addr)
  BY <1>2, <1>3, <1>5, <1>7, <1>8, <1>9, HitIsStep
<1>11. QED
  BY <1>10 DEF r

LEMMA MissIsStep ==
  ASSUME NEW c, CacheOK(c), Ordered(c), NEW addr \in 0 .. ADDR_SPACE - 1,
         NEW cmd, Lookup(c, addr) = NULL,
         NEW repl \in Replaceable(c, CACHE_SET(c, addr))
  PROVE  IsStep(c, Miss(c, cmd, addr, repl), addr)
<1> DEFINE s == CACHE_SET(c, addr)
           line == CACHE_BADDR(c, addr)
           r == Miss(c, cmd, addr, repl)
<1>1. addr \in Nat
  BY PrefetchAssumption
<1>2. Shape(c) /\ s \in Sets(c) /\ NoDuplicates(c)
  BY <1>1, OnceIfOK, SetOrder
<1>3. PICK p : WayOrder(c, s, p)
  BY <1>1, SetOrder
<1>4. repl \in {s} \X Ways(c)
  BY <1>2, ReplaceableIs
<1>5. PICK k \in 1 .. c.assoc : p[k] = repl /\ (c.policy # "Random" => k = c.assoc)
  <2>1. CASE c.policy = "Random"
    BY <1>3, <1>4, <2>1 DEF WayOrder
  <2>2. CASE c.policy # "Random"
    <3>1. repl = p[c.assoc]
      BY <1>3, <2>2 DEF Replaceable, WayOrder
    <3>2. c.assoc \in 1 .. c.assoc
      BY <1>2 DEF Shape
    <3>3. QED
      BY <3>1, <3>2
  <2>3. QED
    BY <2>1, <2>2
<1> DEFINE q == IF c.policy = "Random" THEN p ELSE HeadOrder(c, p, k)
<1>6. OrderBecomes(c, r, s, q) /\ r.last_blk = NULL
  BY <1>3, <1>5, MissOrder
<1>7. CacheOK(r) /\ IsFilled(c, r, cmd, addr, repl)
  BY <1>4, MissKeeps
<1>8. /\ line \notin ToSet(LinesOf(c)[s])
      /\ \A b \in {s} \X Ways(c) : ~Holds(c, b, addr)
  <2>1. line \notin ToSet(LinesOf(c)[s])
    BY <1>1, <1>3, LookupPlace
  <2>2. QED
    BY <1>1, <2>1, LineHeld
<1> HIDE DEF r
<1>9. /\ BlkAddr(r, repl) = line
      /\ \A b \in Blks(c) : c.valid[b] => BlkAddr(c, b) # line
      /\ DirtyKept(c, r, IF cmd = Writes THEN {line} ELSE {})
  <2>1. LineFilled(c, r, cmd, repl, line)
    BY <1>1, <1>2, <1>4, <1>7, <1>8, DirtyAfterMiss
  <2>2. QED
    BY <2>1 DEF LineFilled
<1>10. /\ SameSizes(c, r)
       /\ \A b \in Blks(c) : /\ b # repl => r.valid[b] = c.valid[b]
                             /\ b # repl => r.tag[b] = c.tag[b]
       /\ r.valid[repl]
  <2>1. /\ SameSizes(c, r)
        /\ r.tag = [c.tag EXCEPT ![repl] = CACHE_TAG(c, addr)]
        /\ r.valid = [c.valid EXCEPT ![repl] = TRUE]
    BY <1>7 DEF IsFilled
  <2>2. DOMAIN c.tag = Blks(c) /\ DOMAIN c.valid = Blks(c) /\ repl \in Blks(c)
    BY <1>2, <1>4 DEF Shape, Blks
  <2>3. QED
    BY <2>1, <2>2
<1> HIDE DEF line
<1>11. Becomes(c, r, s, q)
  <2>1. \A b \in Blks(c) :
          b[1] # s => r.valid[b] = c.valid[b] /\ r.tag[b] = c.tag[b]
    BY <1>4, <1>10
  <2>2. QED
    BY <1>2, <1>6, <1>7, <1>10, <2>1 DEF Becomes
<1>12. OthersSame(c, r, s, p, k)
  BY <1>2, <1>5, <1>10 DEF OthersSame, Blks
<1>13. r.valid[p[k]] /\ BlkAddr(r, p[k]) = line
  BY <1>5, <1>9, <1>10
<1> HIDE DEF s
<1>14. /\ c.policy = "Random" => AnyLines(c, r, s, line)
       /\ c.policy # "Random" => /\ MissLines(c, r, s, line)
                                 /\ ValidsFirst(r, q)
  <2>1. CASE c.policy = "Random"
    <3>1. Becomes(c, r, s, p)
      BY <1>11, <2>1
    <3>2. \A b \in Blks(c) : c.valid[b] => BlkAddr(c, b) # BlkAddr(r, p[k])
      BY <1>9, <1>13
    <3>3. AnyLines(c, r, s, BlkAddr(r, p[k]))
      BY <1>3, <1>5, <1>12, <1>13, <3>1, <3>2, LinesAfterRandom
    <3>4. QED
      BY <1>13, <2>1, <3>3
  <2>2. CASE c.policy # "Random"
    <3>1. k = c.assoc /\ q = HeadOrder(c, p, c.assoc)
      BY <1>5, <2>2
    <3>2. ValidsFirst(c, p)
      BY <1>2, <1>3, <2>2 DEF Ordered, FreeLast
    <3>3. /\ Becomes(c, r, s, HeadOrder(c, p, c.assoc))
          /\ OthersSame(c, r, s, p, c.assoc) /\ r.valid[p[c.assoc]]
          /\ BlkAddr(r, p[c.assoc]) = line
      BY <1>11, <1>12, <1>13, <3>1
    <3>4. MissLines(c, r, s, line)
      BY <1>3, <3>2, <3>3, LinesAfterMiss
    <3>5. ValidsFirst(r, HeadOrder(c, p, c.assoc))
      BY <1>2, <1>3, <1>10, <3>2, <3>3, OrderAfterMiss
    <3>6. QED
      BY <2>2, <3>1, <3>4, <3>5
  <2>3. QED
    BY <2>1, <2>2
<1>15. Accessed(c, r, s, line)
  BY <1>8, <1>14 DEF Accessed, s, line
<1>16. \A t \in Sets(c) \ {s} : LinesOf(r)[t] = LinesOf(c)[t]
  BY <1>3, <1>11, OtherLines
<1>17. DirtyKept(c, r, {}) \/ DirtyKept(c, r, {line})
  BY <1>9
<1>18. Ordered(r)
  <2>1. FreeLast(r)
    BY <1>11, <1>14, FreeLastKept DEF Ordered
  <2>2. LastFirst(r)
    BY <1>6, LastFirstNull
  <2>3. QED
    BY <2>1, <2>2 DEF Ordered
<1>19. IsStep(c, r, addr)
  BY <1>7, <1>10, <1>15, <1>16, <1>17, <1>18 DEF IsStep, StepAt, s, line
<1>20. QED
  BY <1>19 DEF r

\* A flush of an address that is not there changes nothing.
LEMMA FlushAddrIsStep ==
  ASSUME NEW c, CacheOK(c), Ordered(c), NEW addr \in Nat
  PROVE  \/ cache_flush_addr(c, addr) = c
         \/ IsStep(c, cache_flush_addr(c, addr), addr)
<1> DEFINE s == CACHE_SET(c, addr)
           line == CACHE_BADDR(c, addr)
           r == cache_flush_addr(c, addr)
<1>1. CASE Lookup(c, addr) = NULL
  BY <1>1 DEF cache_flush_addr
<1>2. CASE Lookup(c, addr) # NULL
  <2>1. Shape(c) /\ s \in Sets(c) /\ NoDuplicates(c)
    BY OnceIfOK, SetOrder
  <2>2. PICK p : WayOrder(c, s, p)
    BY SetOrder
  <2>3. PICK k \in 1 .. c.assoc :
          Lookup(c, addr) = p[k] /\ Holds(c, p[k], addr)
    BY <1>2, <2>2, LookupPlace
  <2>4. /\ CacheOK(r) /\ SameSizes(c, r)
        /\ r.tag = c.tag /\ r.dirty = c.dirty
        /\ r.valid = [c.valid EXCEPT ![p[k]] = FALSE]
    BY <1>2, <2>3, FlushAddrKeeps
  <2>5. OrderBecomes(c, r, s, TailOrder(c, p, k)) /\ r.last_blk = NULL
    BY <2>2, <2>3, FlushAddrOrder
  <2>6. p[k] \in {s} \X Ways(c) /\ p[k] \in Blks(c) /\ p[k][1] = s
    BY <2>1, <2>2 DEF WayOrder, Blks
  <2>7. BlkAddr(c, p[k]) = line /\ c.valid[p[k]] /\ line \in ToSet(LinesOf(c)[s])
    BY <2>3, <2>6, HeldLine
  <2>8. DirtyKept(c, r, {})
    BY <2>1, <2>4, <2>6, DirtyAfterFlush
  <2> HIDE DEF r, line, s
  <2>9. /\ \A b \in Blks(c) : b # p[k] => r.valid[b] = c.valid[b]
        /\ ~r.valid[p[k]]
    <3>1. DOMAIN c.valid = Blks(c)
      BY <2>1 DEF Shape
    <3>2. QED
      BY <2>4, <2>6, <3>1
  <2>10. Becomes(c, r, s, TailOrder(c, p, k))
    BY <2>1, <2>4, <2>5, <2>6, <2>9 DEF Becomes
  <2>11. OthersSame(c, r, s, p, k)
    BY <2>1, <2>4, <2>9 DEF OthersSame, Blks
  <2>12. LinesOf(r)[s] = RemoveFirst(LinesOf(c)[s], line)
    <3>1. LineGone(c, r, s, BlkAddr(c, p[k]))
      BY <2>2, <2>3, <2>7, <2>9, <2>10, <2>11, LinesAfterInvalid
    <3>2. QED
      BY <2>7, <3>1 DEF LineGone
  <2>13. \A t \in Sets(c) \ {s} : LinesOf(r)[t] = LinesOf(c)[t]
    BY <2>2, <2>10, OtherLines
  <2>14. Ordered(r)
    <3>1. ASSUME c.policy # "Random"
          PROVE  ValidsFirst(r, TailOrder(c, p, k))
      <4>1. ValidsFirst(c, p)
        BY <2>1, <2>2, <3>1 DEF Ordered, FreeLast
      <4>2. QED
        BY <2>1, <2>2, <2>3, <2>4, <2>9, <2>11, <4>1, OrderAfterInvalid
    <3>2. FreeLast(r)
      BY <2>10, <3>1, FreeLastKept DEF Ordered
    <3>3. LastFirst(r)
      BY <2>5, LastFirstNull
    <3>4. QED
      BY <3>2, <3>3 DEF Ordered
  <2>15. IsStep(c, r, addr)
    BY <2>4, <2>8, <2>12, <2>13, <2>14 DEF IsStep, StepAt, Invalidated, s, line
  <2>16. QED
    BY <2>15 DEF r
<1>3. QED
  BY <1>1, <1>2

\* A flush leaves no line.
IsEmpty(c) ==
  /\ Ordered(c)
  /\ DOMAIN LinesOf(c) = Sets(c) /\ \A s \in Sets(c) : LinesOf(c)[s] = <<>>
  /\ DirtyLinesOf(c) = {}

LEMMA InvalidIsEmpty ==
  ASSUME NEW c, CacheOK(c), c.last_blk = NULL, \A b \in Blks(c) : ~c.valid[b]
  PROVE  IsEmpty(c)
<1>1. Shape(c)
  BY OnceIfOK
<1>2. \A s \in Sets(c) : LinesOf(c)[s] = <<>>
  <2> SUFFICES ASSUME NEW s \in Sets(c)
               PROVE  LinesOf(c)[s] = <<>>
    OBVIOUS
  <2>1. HasMembers(c, s) /\ {s} \X Ways(c) \subseteq Blks(c)
    BY MembersOfSet DEF Blks
  <2>2. LinesOf(c)[s] \in Seq(Int) /\ \A a : a \notin ToSet(LinesOf(c)[s])
    BY <2>1 DEF HasMembers
  <2>3. \A i \in 1 .. Len(LinesOf(c)[s]) : FALSE
    <3> DEFINE held == LinesOf(c)[s]
    <3> SUFFICES ASSUME NEW i \in 1 .. Len(held)
                 PROVE  held[i] \in ToSet(held)
      BY <2>2
    <3>1. held \in Seq(Int)
      BY <2>2
    <3> HIDE DEF held
    <3>2. QED
      BY <3>1 DEF ToSet
  <2>4. QED
    <3> DEFINE held == LinesOf(c)[s]
    <3>1. held \in Seq(Int) /\ \A i \in 1 .. Len(held) : FALSE
      BY <2>2, <2>3
    <3> HIDE DEF held
    <3>2. held = <<>>
      BY <3>1
    <3>3. QED
      BY <3>2 DEF held
<1>3. DirtyLinesOf(c) = {}
  BY DEF DirtyLinesOf
<1>4. FreeLast(c)
  <2> SUFFICES ASSUME NEW s \in Sets(c), NEW p, WayOrder(c, s, p)
               PROVE  ValidsFirst(c, p)
    BY DEF FreeLast
  <2>1. \A i \in 1 .. c.assoc : p[i] \in Blks(c)
    BY <1>1, PlaceIs DEF InPlace
  <2>2. QED
    BY <2>1 DEF ValidsFirst
<1>5. QED
  BY <1>2, <1>3, <1>4, LastFirstNull DEF IsEmpty, Ordered, LinesOf

LEMMA FlushIsEmpty ==
  ASSUME NEW c, CacheOK(c)
  PROVE  LET r == cache_flush(c)
         IN CacheOK(r) /\ SameSizes(c, r) /\ IsEmpty(r)
<1> DEFINE r == cache_flush(c)
<1>1. /\ CacheOK(r) /\ OnlyChanged(c, r, Data)
      /\ r.valid = [b \in Blks(c) |-> FALSE]
  BY FlushKeeps
<1>2. r.last_blk = NULL
  BY FlushOrder
<1>3. SameSizes(c, r)
  <2>1. Data \cap Sizes = {}
    BY DEF Data, Sizes
  <2>2. QED
    BY <1>1, <2>1, OnceIfOK, ChangeKeepsSizes
<1>4. \A b \in Blks(r) : ~r.valid[b]
  BY <1>1, <1>3, SameOperators
<1> HIDE DEF r
<1>5. CacheOK(r) /\ SameSizes(c, r) /\ IsEmpty(r)
  BY <1>1, <1>2, <1>3, <1>4, InvalidIsEmpty
<1>6. QED
  BY <1>5 DEF r

LEMMA CreatedIsEmpty ==
  ASSUME NEW c, Created(c)
  PROVE  CacheOK(c) /\ IsEmpty(c)
<1>1. CacheOK(c)
  BY CreatedIsSound
<1>2. c.last_blk = NULL /\ c.valid = [b \in Blks(c) |-> FALSE]
  BY DEF Created, cache_create, Blks, Sets, Ways
<1>3. \A b \in Blks(c) : ~c.valid[b]
  BY <1>2
<1>4. QED
  BY <1>1, <1>2, <1>3, InvalidIsEmpty

-----------------------------------------------------------------------------
(* Every cache is in order, and dl1 is a cache of CacheLines *)

\* CacheLines has the operators on sequences under names of its own.
LEMMA LinesLibrary ==
  /\ \A s : /\ Lines!ToSet(s) = ToSet(s) /\ Lines!Front(s) = Front(s)
            /\ Lines!IsInjective(s) = IsInjective(s)
            /\ Lines!Cardinality(s) = Cardinality(s)
  /\ \A s, a : Lines!RemoveFirst(s, a) = RemoveFirst(s, a)
<1>1. \A s : Lines!ToSet(s) = ToSet(s)
  BY DEF ToSet, Lines!ToSet
<1>2. \A s : Lines!Front(s) = Front(s)
  BY DEF Front, Lines!Front
<1>3. \A s : Lines!IsInjective(s) = IsInjective(s)
  BY DEF IsInjective, Lines!IsInjective
<1>4. \A s : Lines!Cardinality(s) = Cardinality(s)
  BY DEF Cardinality, Lines!Cardinality
<1>5. \A s, a : Lines!RemoveFirst(s, a) = RemoveFirst(s, a)
  BY DEF RemoveFirst, RemoveAt, SelectInSeq, Min, Lines!RemoveFirst,
         Lines!RemoveAt, Lines!SelectInSeq, Lines!Min
<1>6. QED
  BY <1>1, <1>2, <1>3, <1>4, <1>5

LEMMA LinesNames ==
  ASSUME CachesOK, NEW a
  PROVE  /\ Lines!SetOf(a) = CACHE_SET(cp["dl1"], a)
         /\ Lines!Line(a) = CACHE_BADDR(cp["dl1"], a)
         /\ \A sets : Lines!LinesIn(sets) =
                        UNION {ToSet(sets[s]) : s \in DOMAIN sets}
BY LinesLibrary
   DEF Lines!SetOf, Lines!Line, Lines!LinesIn, CACHE_SET, CACHE_BADDR

LEMMA LinesAccess ==
  ASSUME CachesOK, NEW r, NEW s, NEW a,
         s = CACHE_SET(cp["dl1"], a),
         Accessed(cp["dl1"], r, s, CACHE_BADDR(cp["dl1"], a))
  PROVE  Lines!Access(LinesOf(cp["dl1"]), LinesOf(r), a)
<1> DEFINE line == CACHE_BADDR(cp["dl1"], a)
           before == LinesOf(cp["dl1"])
           after == LinesOf(r)
<1>1. Lines!SetOf(a) = s /\ Lines!Line(a) = line
  BY LinesNames
<1>2. CASE line \in ToSet(before[s])
  <2>1. HitLines(cp["dl1"], r, s, line)
    BY <1>2 DEF Accessed
  <2>2. Lines!Hit(before[s], after[s], a)
    BY <1>1, <2>1, LinesLibrary DEF HitLines, Lines!Hit, Lines!TouchLRU
  <2>3. QED
    BY <1>1, <1>2, <2>2, LinesLibrary DEF Lines!Access
<1>3. CASE line \notin ToSet(before[s])
  <2>1. CASE cp["dl1"].policy = "Random"
    <3>1. AnyLines(cp["dl1"], r, s, line)
      BY <1>3, <2>1 DEF Accessed
    <3>2. Lines!ReplaceAny(before[s], after[s], a)
      BY <1>1, <3>1, LinesLibrary DEF AnyLines, Lines!ReplaceAny
    <3>3. QED
      BY <1>1, <1>3, <2>1, <3>2, LinesLibrary DEF Lines!Access, Lines!Miss
  <2>2. CASE cp["dl1"].policy # "Random"
    <3>1. MissLines(cp["dl1"], r, s, line)
      BY <1>3, <2>2 DEF Accessed
    <3>2. Lines!ReplaceLast(before[s], after[s], a)
      BY <1>1, <3>1, LinesLibrary DEF MissLines, Lines!ReplaceLast
    <3>3. QED
      BY <1>1, <1>3, <2>2, <3>2, LinesLibrary DEF Lines!Access, Lines!Miss
  <2>3. QED
    BY <2>1, <2>2
<1>4. QED
  BY <1>2, <1>3

LEMMA ConfigKept ==
  ASSUME SameSizes(cp["dl1"], cp'["dl1"])
  PROVE  UNCHANGED Lines!config
BY DEF SameSizes, Sizes, Lines!config

LEMMA StepIsNext ==
  ASSUME CachesOK, NEW addr \in Addresses, IsStep(cp["dl1"], cp'["dl1"], addr)
  PROVE  Lines!Next
<1> DEFINE c == cp["dl1"]
           r == cp'["dl1"]
           s == CACHE_SET(c, addr)
           line == CACHE_BADDR(c, addr)
           before == LinesOf(c)
           after == LinesOf(r)
<1>1. CacheOK(r) /\ SameSizes(c, r) /\ StepAt(c, r, s, line)
  BY DEF IsStep
<1>2. Lines!SetOf(addr) = s /\ Lines!Line(addr) = line
  BY LinesNames
<1>3. Lines!LinesIn(after) = AllLines(r) /\ DOMAIN before = Sets(c)
  BY <1>1, AllLinesIs, LinesNames DEF LinesOf
<1>4. /\ \A t \in DOMAIN before \ {Lines!SetOf(addr)} : after[t] = before[t]
      /\ \/ /\ Lines!Access(before, after, addr)
            /\ DirtyLinesOf(r) \in
                 {DirtyLinesOf(c) \cap Lines!LinesIn(after),
                  (DirtyLinesOf(c) \cap Lines!LinesIn(after))
                    \cup {Lines!Line(addr)}}
         \/ /\ Lines!Invalidate(before, after, addr)
            /\ DirtyLinesOf(r) = DirtyLinesOf(c) \cap Lines!LinesIn(after)
  <2>1. \A t \in DOMAIN before \ {Lines!SetOf(addr)} : after[t] = before[t]
    BY <1>1, <1>2, <1>3 DEF StepAt
  <2>2. CASE Accessed(c, r, s, line)
             /\ (DirtyKept(c, r, {}) \/ DirtyKept(c, r, {line}))
    <3>1. Lines!Access(before, after, addr)
      BY <2>2, LinesAccess
    <3>2. DirtyLinesOf(r) \in
            {DirtyLinesOf(c) \cap Lines!LinesIn(after),
             (DirtyLinesOf(c) \cap Lines!LinesIn(after)) \cup {Lines!Line(addr)}}
      BY <1>2, <1>3, <2>2 DEF DirtyKept
    <3>3. QED
      BY <2>1, <3>1, <3>2
  <2>3. CASE Invalidated(c, r, s, line)
    <3>1. Lines!Invalidate(before, after, addr)
      BY <1>2, <2>3, LinesLibrary DEF Invalidated, Lines!Invalidate
    <3>2. DirtyLinesOf(r) = DirtyLinesOf(c) \cap Lines!LinesIn(after)
      BY <1>3, <2>3 DEF Invalidated, DirtyKept
    <3>3. QED
      BY <2>1, <3>1, <3>2
  <2>4. QED
    BY <1>1, <2>2, <2>3 DEF StepAt
<1>5. Lines!OneSet(before, after)
  BY <1>4 DEF Lines!OneSet, Addresses
<1>6. UNCHANGED Lines!config
  BY <1>1, ConfigKept
<1>7. QED
  BY <1>5, <1>6 DEF Lines!Next

LEMMA FlushIsNext ==
  ASSUME CachesOK, CacheOK(cp'["dl1"]), SameSizes(cp["dl1"], cp'["dl1"]),
         IsEmpty(cp'["dl1"])
  PROVE  Lines!Next
<1> DEFINE r == cp'["dl1"]
<1>1. DirtyLinesOf(r) = {} /\ \A s \in DOMAIN LinesOf(r) : LinesOf(r)[s] = <<>>
  BY DEF IsEmpty
<1>2. ToSet(<<>>) = {}
  BY DEF ToSet
<1>3. Lines!LinesIn(LinesOf(r)) = {}
  BY <1>1, <1>2, LinesNames
<1>4. Lines!InvalidateAll(LinesOf(r))
  BY <1>1, <1>3 DEF Lines!InvalidateAll
<1>5. UNCHANGED Lines!config
  BY ConfigKept
<1>6. QED
  BY <1>4, <1>5 DEF Lines!Next

\* What a step does to a cache: nothing, or one operation of CacheLines.
Operates(c, r) ==
  \/ r = c
  \/ \E addr \in Addresses : IsStep(c, r, addr)
  \/ CacheOK(r) /\ SameSizes(c, r) /\ IsEmpty(r)

CachesOrdered == \A n \in Caches : Ordered(cp[n])

\* Every cache but n, the one called, is unchanged.
OperatesOn(n) ==
  /\ SizesKept /\ n \in Caches
  /\ Operates(cp[n], cp'[n])
  /\ \A m \in Caches : m # n => cp'[m] = cp[m]

LEMMA AccessOperates ==
  ASSUME HierarchyInv, CachesOrdered, AccessFastHit \/ AccessHit \/ AccessMiss
  PROVE  OperatesOn(Call.cache)
<1>1. Accessing
  BY DEF AccessFastHit, AccessHit, AccessMiss
<1>2. /\ Call.cache \in Caches /\ CacheOK(Cache) /\ Ordered(Cache)
      /\ Call.addr \in Addresses /\ Call.addr \in Nat
      /\ Cache = cp[Call.cache]
  BY <1>1, AccessIs DEF CachesOrdered, Cache
<1> SUFFICES /\ SizesKept /\ IsStep(Cache, cp'[Call.cache], Call.addr)
             /\ \A m \in Caches : m # Call.cache => cp'[m] = cp[m]
  BY <1>2 DEF OperatesOn, Operates
<1>3. CASE AccessFastHit
  <2>1. FastHit(Cache, Call.addr) /\ Cache.last_blk # NULL
    BY <1>3 DEF AccessFastHit
  <2>2. IsStep(Cache, QuickHit(Cache, Call.cmd, Call.addr), Call.addr)
    BY <1>2, <2>1, QuickHitIsStep
  <2>3. QED
    BY <1>3, <2>2, FastHitCalls
<1>4. CASE AccessHit
  <2> DEFINE blk == Lookup(Cache, Call.addr)
  <2>1. /\ SizesKept
        /\ cp'[Call.cache] = SlowHit(Cache, Call.cmd, Call.addr, blk)
        /\ \A m \in Caches : m # Call.cache => cp'[m] = cp[m]
        /\ blk \in Blks(Cache) /\ Holds(Cache, blk, Call.addr)
        /\ blk[1] = CACHE_SET(Cache, Call.addr)
    BY <1>4, HitCalls
  <2> HIDE DEF blk
  <2>2. IsStep(Cache, SlowHit(Cache, Call.cmd, Call.addr, blk), Call.addr)
    BY <1>2, <2>1, SlowHitIsStep
  <2>3. QED
    BY <2>1, <2>2
<1>5. CASE AccessMiss
  <2>1. PICK repl : MissReplaces(repl)
    BY <1>5 DEF AccessMiss, MissReplaces
  <2>2. SizesKept /\ \A m \in Caches : m # Call.cache => cp'[m] = cp[m]
    BY <1>5, <2>1, MissCalls
  <2>3. /\ repl \in Replaceable(Cache, CACHE_SET(Cache, Call.addr))
        /\ cp' = [cp EXCEPT ![Call.cache] =
                    Miss(Cache, Call.cmd, Call.addr, repl)]
        /\ Lookup(Cache, Call.addr) = NULL
        /\ Call.addr \in 0 .. ADDR_SPACE - 1
    BY <1>2, <1>5, <2>1 DEF MissReplaces, AccessMiss, Cache, Addresses
  <2>4. IsStep(Cache, Miss(Cache, Call.cmd, Call.addr, repl), Call.addr)
    BY <1>2, <2>3, MissIsStep
  <2>5. cp'[Call.cache] = Miss(Cache, Call.cmd, Call.addr, repl)
    BY <1>2, <2>3 DEF Caches
  <2>6. QED
    BY <2>2, <2>4, <2>5
<1>6. QED
  BY <1>3, <1>4, <1>5

LEMMA CacheStep ==
  ASSUME HierarchyInv, CachesOrdered, [Next]_vars
  PROVE  SizesKept /\ \A n \in Caches : Operates(cp[n], cp'[n])
<1>1. CachesOK
  BY DEF HierarchyInv
<1>2. ASSUME cp' = cp
      PROVE  SizesKept /\ \A n \in Caches : Operates(cp[n], cp'[n])
  BY <1>1, <1>2, CachesUnchanged DEF Operates
<1>3. ASSUME NEW n, OperatesOn(n)
      PROVE  SizesKept /\ \A m \in Caches : Operates(cp[m], cp'[m])
  BY <1>3 DEF OperatesOn, Operates
<1>4. CASE AccessFastHit \/ AccessHit \/ AccessMiss
  BY <1>3, <1>4, AccessOperates
<1>5. CASE Flush
  <2>1. /\ SizesKept /\ cp'[Call.cache] = cache_flush(Cache)
        /\ \A m \in Caches : m # Call.cache => cp'[m] = cp[m]
    BY <1>5, FlushMakes
  <2>2. Calling("flush")
    BY <1>5 DEF Flush
  <2>3. Call.cache \in Caches /\ CacheOK(Cache) /\ Cache = cp[Call.cache]
    BY <2>2, OtherIs DEF Cache
  <2>4. Operates(cp[Call.cache], cp'[Call.cache])
    BY <2>1, <2>3, FlushIsEmpty DEF Operates
  <2>5. QED
    BY <1>3, <2>1, <2>3, <2>4 DEF OperatesOn
<1>6. ASSUME NEW a \in FlushAddrs, FlushAddr(a)
      PROVE  SizesKept /\ \A n \in Caches : Operates(cp[n], cp'[n])
  <2>1. /\ SizesKept /\ cp'["dl1"] = cache_flush_addr(cp["dl1"], a)
        /\ \A m \in Caches : m # "dl1" => cp'[m] = cp[m]
    BY <1>6, FlushAddrCalls
  <2>2. "dl1" \in Caches /\ CacheOK(cp["dl1"]) /\ Ordered(cp["dl1"])
    BY <1>1 DEF CachesOK, CachesOrdered
  <2>3. a \in Addresses /\ a \in Nat
    BY AddressIsNat
  <2>4. Operates(cp["dl1"], cp'["dl1"])
    BY <2>1, <2>2, <2>3, FlushAddrIsStep DEF Operates
  <2>5. QED
    BY <1>3, <2>1, <2>2, <2>4 DEF OperatesOn
<1>7. CASE UNCHANGED vars
  BY <1>2, <1>7 DEF vars
<1>8. ASSUME NEW pc \in Pcs, Execute(pc) \/ SystemCall(pc)
      PROVE  cp' = cp
  BY <1>8 DEF Execute, SystemCall
<1>9. CASE \/ AccessMemory
           \/ GenerateNone \/ GenerateNextLine \/ GenerateOpenEnded \/ GenerateStride
           \/ Prefetch \/ ReturnHit \/ SyscallCached \/ SyscallUncached
  <2>1. cp' = cp
    BY <1>9 DEF AccessMemory, GenerateNone, GenerateNextLine, GenerateOpenEnded,
                GenerateStride, Prefetch, ReturnHit, SyscallCached, SyscallUncached
  <2>2. QED
    BY <1>2, <2>1
<1>10. QED
  BY <1>2, <1>4, <1>5, <1>6, <1>7, <1>8, <1>9 DEF Next, Simulator

LEMMA OrderedStep ==
  ASSUME HierarchyInv, CachesOrdered, [Next]_vars
  PROVE  CachesOrdered'
<1>1. SizesKept /\ \A n \in Caches : Operates(cp[n], cp'[n])
  BY CacheStep
<1>2. \A n \in Caches : Ordered(cp'[n])
  BY <1>1 DEF CachesOrdered, Operates, IsStep, IsEmpty
<1>3. QED
  BY <1>1, <1>2 DEF CachesOrdered, SizesKept

LEMMA InitIsEmpty ==
  ASSUME Init
  PROVE  \A n \in Caches : CacheOK(cp[n]) /\ IsEmpty(cp[n])
<1>1. \A n \in Caches : Created(cp[n])
  BY ProgramAssumption DEF Init, Caches
<1>2. QED
  BY <1>1, CreatedIsEmpty

\* In every cache a free way is replaced before a line is, unless the policy
\* is Random, and under LRU the last block is at the head of its set: a fast
\* hit has nothing to move (cache_access, update_way_list).
THEOREM AlwaysOrdered == Spec => []CachesOrdered
<1>1. Init => CachesOrdered
  BY InitIsEmpty DEF CachesOrdered, IsEmpty
<1>2. HierarchyInv /\ CachesOrdered /\ [Next]_vars => CachesOrdered'
  BY OrderedStep
<1>3. QED
  BY <1>1, <1>2, HierarchySound, PTL DEF Spec

LEMMA LinesInit ==
  ASSUME Init
  PROVE  Lines!Init
<1> DEFINE c == cp["dl1"]
<1>1. CacheOK(c) /\ IsEmpty(c)
  <2>1. "dl1" \in Caches
    BY HierarchyInit DEF HierarchyInv, CachesOK
  <2>2. QED
    BY <2>1, InitIsEmpty
<1>2. Shape(c)
  BY <1>1, OnceIfOK
<1>3. c.policy \in {"LRU", "FIFO", "Random"} /\ {c.nsets, c.assoc, c.bsize} \subseteq Nat \ {0}
  BY <1>2 DEF Shape
<1>4. LinesOf(c) = [s \in 0 .. c.nsets - 1 |-> <<>>] /\ DirtyLinesOf(c) = {}
  <2>1. LinesOf(c) = [s \in Sets(c) |-> LinesOf(c)[s]]
    BY DEF LinesOf
  <2>2. QED
    BY <1>1, <2>1 DEF IsEmpty, Sets
<1>5. QED
  BY <1>3, <1>4 DEF Lines!Init

LEMMA LinesStep ==
  ASSUME HierarchyInv, CachesOrdered, [Next]_vars
  PROVE  [Lines!Next]_(Lines!vars)
<1>1. CachesOK /\ "dl1" \in Caches
  BY DEF HierarchyInv, CachesOK
<1>2. Operates(cp["dl1"], cp'["dl1"])
  BY <1>1, CacheStep
<1>3. CASE cp'["dl1"] = cp["dl1"]
  BY <1>3 DEF Lines!vars
<1>4. ASSUME NEW addr \in Addresses, IsStep(cp["dl1"], cp'["dl1"], addr)
      PROVE  Lines!Next
  BY <1>1, <1>4, StepIsNext
<1>5. CASE /\ CacheOK(cp'["dl1"]) /\ SameSizes(cp["dl1"], cp'["dl1"])
           /\ IsEmpty(cp'["dl1"])
  BY <1>1, <1>5, FlushIsNext
<1>6. QED
  BY <1>2, <1>3, <1>4, <1>5 DEF Operates

\* The first-level data cache, with its linked lists, hash chains and last
\* block, is the cache of CacheLines, whatever its size and policy, with or
\* without a second level, prefetches and flushes: what hits, what is replaced
\* and what is dirty are those of true LRU, FIFO or random replacement
\* (cache_access, cache_flush, cache_flush_addr).
THEOREM CacheImplementsLines == Spec => ImplementsCacheLines
<1>1. Init => Lines!Init
  BY LinesInit
<1>2. HierarchyInv /\ CachesOrdered /\ [Next]_vars => [Lines!Next]_(Lines!vars)
  BY LinesStep
<1>3. QED
  BY <1>1, <1>2, HierarchySound, AlwaysOrdered, PTL
     DEF Spec, ImplementsCacheLines, Lines!Spec
=============================================================================
