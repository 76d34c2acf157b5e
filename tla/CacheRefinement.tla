-------------------------- MODULE CacheRefinement --------------------------
(***************************************************************************)
(* How the first-level data cache of CacheHierarchy is one of CacheLines:  *)
(* the lines of a set are the valid blocks of its way list, in that order. *)
(***************************************************************************)
EXTENDS CacheHierarchy

\* The addresses of the valid blocks of a list, in its order.
HeldLines(c, list) ==
  LET held[i \in 0 .. Len(list)] ==
        IF i = 0 THEN <<>>
        ELSE IF c.valid[list[i]] THEN Append(held[i - 1], BlkAddr(c, list[i]))
        ELSE held[i - 1]
  IN held[Len(list)]

LinesOf(c) == [s \in Sets(c) |-> HeldLines(c, WayList(c, s))]

DirtyLinesOf(c) ==
  {BlkAddr(c, b) : b \in {b \in Blks(c) : c.valid[b] /\ c.dirty[b]}}

Lines == INSTANCE CacheLines WITH
  Addrs <- 0 .. ADDR_SPACE - 1,
  policy <- cp["dl1"].policy, nsets <- cp["dl1"].nsets,
  assoc <- cp["dl1"].assoc, bsize <- cp["dl1"].bsize,
  lines <- LinesOf(cp["dl1"]), dirtyLines <- DirtyLinesOf(cp["dl1"])

\* dl1, with its linked lists, hash chains and last block, is the cache of
\* CacheLines: perfect LRU, FIFO or random replacement, and no line leaves
\* while there is a free way.
ImplementsCacheLines == Lines!Spec
=============================================================================
