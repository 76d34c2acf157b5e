----------------------------- MODULE CacheLines -----------------------------
(***************************************************************************)
(* What a cache of lab4/cache.c promises: each set keeps its lines in an   *)
(* order, and replaces the least recently used (perfect LRU), the oldest   *)
(* (FIFO) or any (Random) of them, but none while a way is free unless it  *)
(* is Random.  No pointers, no hash chains, no shortcut for the last block.*)
(***************************************************************************)
EXTENDS Integers, SequencesExt

CONSTANT Addrs    \* the addresses of blocks that may be accessed

VARIABLES
  policy, nsets, assoc, bsize,
  lines,          \* per set the addresses of its lines, next victim last;
                  \* the order is nothing to Random
  dirtyLines

vars == <<policy, nsets, assoc, bsize, lines, dirtyLines>>
config == <<policy, nsets, assoc, bsize>>

SetOf(a) == (a \div bsize) % nsets
Line(a) == (a \div bsize) * bsize
LinesIn(sets) == UNION {ToSet(sets[s]) : s \in DOMAIN sets}

Init ==
  /\ policy \in {"LRU", "FIFO", "Random"}
  /\ {nsets, assoc, bsize} \subseteq Nat \ {0}
  /\ lines = [s \in 0 .. nsets - 1 |-> <<>>]
  /\ dirtyLines = {}

\* An access to a takes a set from before to after.
TouchLRU(before, after, a) == after = <<Line(a)>> \o RemoveFirst(before, Line(a))

ReplaceLast(before, after, a) ==
  after = <<Line(a)>> \o (IF Len(before) = assoc THEN Front(before) ELSE before)

ReplaceAny(before, after, a) ==
  LET victims == ToSet(before) \ ToSet(after)
  IN /\ IsInjective(after)
     /\ ToSet(after) = {Line(a)} \cup (ToSet(before) \ victims)
     /\ Cardinality(victims) <= 1
     /\ Len(before) = assoc => victims # {}

Hit(before, after, a) ==
  IF policy = "LRU" THEN TouchLRU(before, after, a) ELSE after = before

Miss(before, after, a) ==
  IF policy = "Random" THEN ReplaceAny(before, after, a)
                       ELSE ReplaceLast(before, after, a)

\* A step takes the sets from before to after, of which only the one accessed
\* differs.  What leaves is written back and no longer dirty here.
Access(before, after, a) ==
  IF Line(a) \in ToSet(before[SetOf(a)])
    THEN Hit(before[SetOf(a)], after[SetOf(a)], a)
    ELSE Miss(before[SetOf(a)], after[SetOf(a)], a)

Invalidate(before, after, a) ==
  after[SetOf(a)] = RemoveFirst(before[SetOf(a)], Line(a))

OneSet(before, after) ==
  \E a \in Addrs :
    /\ \A s \in DOMAIN before \ {SetOf(a)} : after[s] = before[s]
    /\ \/ /\ Access(before, after, a)
          /\ dirtyLines' \in {dirtyLines \cap LinesIn(after),
                              (dirtyLines \cap LinesIn(after)) \cup {Line(a)}}
       \/ /\ Invalidate(before, after, a)
          /\ dirtyLines' = dirtyLines \cap LinesIn(after)

InvalidateAll(after) ==
  /\ LinesIn(after) = {}
  /\ dirtyLines' = {}

Next ==
  /\ LET before == lines
         after == lines'
     IN OneSet(before, after) \/ InvalidateAll(after)
  /\ UNCHANGED config

Spec == Init /\ [][Next]_vars
=============================================================================
