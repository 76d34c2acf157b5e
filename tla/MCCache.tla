------------------------------ MODULE MCCache ------------------------------
(* Cache configurations for TLC. *)
EXTENDS CacheRefinement

\* One level: two sets of two ways with a next line prefetcher, with and
\* without hash chains, and four ways in one set with hash chains (which the
\* code has from eight ways on, here scaled to four ways in two buckets).
OneLevel ==
  {[dl1 |-> cache_create(2, 1, 2, 2, "LRU", 1)],
   [dl1 |-> cache_create(2, 1, 2, 0, "FIFO", 1)],
   [dl1 |-> cache_create(2, 1, 2, 2, "Random", 1)],
   [dl1 |-> cache_create(1, 1, 4, 2, "LRU", 0)]}

\* Two levels, a block of the second is two of the first: each prefetcher in
\* the first over the next line prefetcher in the second.
Levels ==
  {[dl1 |-> cache_create(1, 1, 2, 0, "LRU", 1),
    il1 |-> cache_create(1, 1, 1, 0, "LRU", 0),
    dl2 |-> cache_create(1, 2, 2, 0, "LRU", 1)]}
  \cup {[dl1 |-> cache_create(1, 1, 1, 0, "LRU", prefetch),
         dl2 |-> cache_create(1, 2, 1, 0, "LRU", 1)] : prefetch \in {2, 3}}
=============================================================================
