------------------------------ MODULE SimCache ------------------------------
(***************************************************************************)
(* One cache of lab4/cache.c: the fields of struct cache_t that decide     *)
(* what hits, what is replaced and what is written back, and the           *)
(* operations on them.  cp is the record; an operation is a function from  *)
(* one record to the next.                                                 *)
(*                                                                         *)
(* A block is <<set, way>>, the way being its place in the set's array     *)
(* blks; a NULL pointer is the empty tuple.  An address is a number of     *)
(* units, bsize of them to a block.  No cache of the simulators allocates  *)
(* data (balloc is FALSE), and time is left out: the latency of an access  *)
(* is told by the block whose ready time it reads.                         *)
(***************************************************************************)
EXTENDS Integers, SequencesExt

NULL == <<>>
Ways(cp) == 1 .. cp.assoc
Sets(cp) == 0 .. cp.nsets - 1
Blks(cp) == Sets(cp) \X Ways(cp)

CACHE_BADDR(cp, addr) == (addr \div cp.bsize) * cp.bsize
CACHE_TAGSET(cp, addr) == CACHE_BADDR(cp, addr)
CACHE_SET(cp, addr) == (addr \div cp.bsize) % cp.nsets
CACHE_TAG(cp, addr) == (addr \div cp.bsize) \div cp.nsets
CACHE_MK_BADDR(cp, tag, set) == (tag * cp.nsets + set) * cp.bsize

\* The hash folds the bytes of a tag; tags here have only the lowest.
CACHE_HASH(cp, tag) == tag % cp.hsize

BlkAddr(cp, blk) == CACHE_MK_BADDR(cp, cp.tag[blk], blk[1])

\* The block reached from head in each number of steps.
Reached(cp, head, Step) ==
  LET at[n \in 0 .. cp.assoc] == IF n = 0 THEN head ELSE Step[at[n - 1]]
  IN at

\* The blocks from head on along next; one more than there are ways if the
\* list is cyclic.
Chain(cp, head, next) ==
  LET at == Reached(cp, head, [b \in Blks(cp) \cup {NULL} |->
                                 IF b = NULL THEN NULL ELSE next[b]])
  IN [n \in {n \in 1 .. cp.assoc + 1 : at[n - 1] # NULL} |-> at[n - 1]]

WayList(cp, set) == Chain(cp, cp.way_head[set], cp.way_next)
Bucket(cp, set, index) == Chain(cp, cp.hash[set][index], cp.hash_next)

-----------------------------------------------------------------------------
(* The hash chains *)

link_htab_ent(cp, set, blk) ==
  LET index == CACHE_HASH(cp, cp.tag[blk])
  IN [cp EXCEPT !.hash_next[blk] = cp.hash[set][index],
                !.hash[set][index] = blk]

\* The assertion of unlink_htab_ent: blk is in the bucket of its tag.
InBucket(cp, set, blk) ==
  blk \in ToSet(Bucket(cp, set, CACHE_HASH(cp, cp.tag[blk])))

unlink_htab_ent(cp, set, blk) ==
  LET index == CACHE_HASH(cp, cp.tag[blk])
      prev == {p \in ToSet(Bucket(cp, set, index)) : cp.hash_next[p] = blk}
  IN IF prev = {}
       THEN [cp EXCEPT !.hash[set][index] = cp.hash_next[blk],
                       !.hash_next[blk] = NULL]
       ELSE [cp EXCEPT !.hash_next = [b \in Blks(cp) |->
               IF b = blk THEN NULL
               ELSE IF b \in prev THEN cp.hash_next[blk] ELSE @[b]]]

-----------------------------------------------------------------------------
(* The way list: doubly linked, most recently used or newest block first *)

UnlinkWay(cp, set, blk) ==
  LET prev == cp.way_prev[blk]
      next == cp.way_next[blk]
  IN IF prev = NULL
       THEN [cp EXCEPT !.way_head[set] = next, !.way_prev[next] = NULL]
     ELSE IF next = NULL
       THEN [cp EXCEPT !.way_tail[set] = prev, !.way_next[prev] = NULL]
     ELSE [cp EXCEPT !.way_next[prev] = next, !.way_prev[next] = prev]

LinkHead(cp, set, blk) ==
  [cp EXCEPT !.way_next[blk] = cp.way_head[set], !.way_prev[blk] = NULL,
             !.way_prev[cp.way_head[set]] = blk, !.way_head[set] = blk]

\* Mutant: the old tail is not linked to the new one.
LinkTail_Unlinked(cp, set, blk) ==
  [cp EXCEPT !.way_prev[blk] = cp.way_tail[set], !.way_next[blk] = NULL,
             !.way_tail[set] = blk]

LinkTail(cp, set, blk) ==
  [cp EXCEPT !.way_prev[blk] = cp.way_tail[set], !.way_next[blk] = NULL,
             !.way_next[cp.way_tail[set]] = blk, !.way_tail[set] = blk]

\* A block alone in its list, or already where it should be, stays there.
update_way_list(cp, set, blk, where) ==
  LET first == cp.way_prev[blk] = NULL
      last == cp.way_next[blk] = NULL
  IN IF (first /\ last) \/ (first /\ where = "Head") \/ (last /\ where = "Tail")
       THEN cp
     ELSE IF where = "Head" THEN LinkHead(UnlinkWay(cp, set, blk), set, blk)
     ELSE LinkTail(UnlinkWay(cp, set, blk), set, blk)

-----------------------------------------------------------------------------
(* cache_create: the blocks are pushed on the lists one by one, all of them
   invalid and with tag 0 *)

cache_create(nsets, bsize, assoc, hsize, policy, prefetch_type) ==
  LET sets == 0 .. nsets - 1
      blks == sets \X (1 .. assoc)
      older(b) == IF b[2] = 1 THEN NULL ELSE <<b[1], b[2] - 1>>
      newer(b) == IF b[2] = assoc THEN NULL ELSE <<b[1], b[2] + 1>>
  IN [nsets |-> nsets, bsize |-> bsize, assoc |-> assoc, hsize |-> hsize,
      policy |-> policy, prefetch_type |-> prefetch_type,
      way_head |-> [s \in sets |-> <<s, assoc>>],
      way_tail |-> [s \in sets |-> <<s, 1>>],
      way_next |-> [b \in blks |-> older(b)],
      way_prev |-> [b \in blks |-> newer(b)],
      hash |-> [s \in sets |-> [i \in 0 .. hsize - 1 |->
                                  IF i = 0 THEN <<s, assoc>> ELSE NULL]],
      hash_next |-> [b \in blks |-> IF hsize = 0 THEN NULL ELSE older(b)],
      tag |-> [b \in blks |-> 0],
      valid |-> [b \in blks |-> FALSE], dirty |-> [b \in blks |-> FALSE],
      last_tagset |-> 0, last_blk |-> NULL]

\* What cache_create is called for: the sizes, whichever they are.
Created(cp) ==
  /\ {cp.nsets, cp.bsize, cp.assoc} \subseteq Nat \ {0}
  /\ {cp.hsize, cp.prefetch_type} \subseteq Nat
  /\ cp.policy \in {"LRU", "FIFO", "Random"}
  /\ cp = cache_create(cp.nsets, cp.bsize, cp.assoc, cp.hsize, cp.policy,
                       cp.prefetch_type)

-----------------------------------------------------------------------------
(* Lookup: by hash chain in a highly associative cache, else by way list *)

Holds(cp, blk, addr) ==
  /\ cp.valid[blk]
  /\ cp.tag[blk] = CACHE_TAG(cp, addr)

\* The first block from head on along next that holds addr.
Search(cp, head, next, addr) ==
  LET at == Reached(cp, head, [b \in Blks(cp) \cup {NULL} |->
                                 IF b = NULL \/ Holds(cp, b, addr) THEN b
                                 ELSE next[b]])
  IN at[cp.assoc]

Lookup(cp, addr) ==
  LET set == CACHE_SET(cp, addr)
  IN IF cp.hsize # 0
       THEN Search(cp, cp.hash[set][CACHE_HASH(cp, CACHE_TAG(cp, addr))],
                   cp.hash_next, addr)
       ELSE Search(cp, cp.way_head[set], cp.way_next, addr)

cache_probe(cp, addr) == Lookup(cp, addr) # NULL

FastHit(cp, addr) == CACHE_TAGSET(cp, addr) = cp.last_tagset

-----------------------------------------------------------------------------
(* cache_access, by the three ways it can go *)

Reads == "Read"
Writes == "Write"

\* The last block is forgotten, set aside as none (0, NULL).
\* Mutant: it is kept.
ForgetLast_Kept(cp) == cp

ForgetLast(cp) == [cp EXCEPT !.last_tagset = 0, !.last_blk = NULL]

RememberLast(cp, addr, blk) ==
  [cp EXCEPT !.last_tagset = CACHE_TAGSET(cp, addr), !.last_blk = blk]

SetDirty(cp, cmd, blk) ==
  IF cmd = Writes THEN [cp EXCEPT !.dirty[blk] = TRUE] ELSE cp

\* The blocks that may be replaced; Random takes any, free ones or not.
Replaceable(cp, set) ==
  IF cp.policy = "Random" THEN {set} \X Ways(cp) ELSE {cp.way_tail[set]}

Fill(cp, cmd, addr, repl) ==
  SetDirty([cp EXCEPT !.tag[repl] = CACHE_TAG(cp, addr),
                      !.valid[repl] = TRUE, !.dirty[repl] = FALSE], cmd, repl)

\* The miss path: repl is moved to the head, taken out of its bucket, filled,
\* and put in the bucket of its new tag.
Miss(cp, cmd, addr, repl) ==
  LET set == CACHE_SET(cp, addr)
      moved == IF cp.policy = "Random" THEN cp
                                  ELSE update_way_list(cp, set, repl, "Head")
      unlinked == IF cp.hsize = 0 THEN moved
                                  ELSE unlink_htab_ent(moved, set, repl)
      filled == Fill(ForgetLast(unlinked), cmd, addr, repl)
  IN IF cp.hsize = 0 THEN filled ELSE link_htab_ent(filled, set, repl)

SlowHit(cp, cmd, addr, blk) ==
  LET used == SetDirty(cp, cmd, blk)
      moved == IF cp.policy = "LRU"
                 THEN update_way_list(used, blk[1], blk, "Head") ELSE used
  IN RememberLast(moved, addr, blk)

QuickHit(cp, cmd, addr) ==
  RememberLast(SetDirty(cp, cmd, cp.last_blk), addr, cp.last_blk)

-----------------------------------------------------------------------------
(* cache_flush and cache_flush_addr *)

\* The blocks to be written back by a flush, set by set along the way lists.
DirtyBlks(cp) ==
  LET dirty[n \in 0 .. cp.nsets * cp.assoc] ==
        IF n = 0 THEN <<>>
        ELSE LET b == WayList(cp, (n - 1) \div cp.assoc)
                        [((n - 1) % cp.assoc) + 1]
             IN IF cp.valid[b] /\ cp.dirty[b] THEN Append(dirty[n - 1], b)
                                              ELSE dirty[n - 1]
  IN dirty[cp.nsets * cp.assoc]

cache_flush(cp) ==
  [ForgetLast(cp) EXCEPT !.valid = [b \in Blks(cp) |-> FALSE]]

\* Mutant: the invalid block stays where it is in the way list.
cache_flush_addr_InPlace(cp, addr) ==
  LET blk == Lookup(cp, addr)
  IN IF blk = NULL THEN cp ELSE ForgetLast([cp EXCEPT !.valid[blk] = FALSE])

cache_flush_addr(cp, addr) ==
  LET blk == Lookup(cp, addr)
  IN IF blk = NULL THEN cp
     ELSE update_way_list(ForgetLast([cp EXCEPT !.valid[blk] = FALSE]),
                          blk[1], blk, "Tail")

-----------------------------------------------------------------------------
(* What the structures must be *)

WayListSound(cp) ==
  \A s \in Sets(cp) :
    LET ways == WayList(cp, s)
    IN /\ Len(ways) = cp.assoc
       /\ ToSet(ways) = {s} \X Ways(cp)
       /\ cp.way_tail[s] = ways[cp.assoc]
       /\ \A i \in 1 .. cp.assoc :
            cp.way_prev[ways[i]] = IF i = 1 THEN NULL ELSE ways[i - 1]

HashChainsSound(cp) ==
  cp.hsize # 0 =>
    /\ \A b \in Blks(cp) : InBucket(cp, b[1], b)
    /\ \A s \in Sets(cp), i \in 0 .. cp.hsize - 1 :
         /\ IsInjective(Bucket(cp, s, i))
         /\ \A b \in ToSet(Bucket(cp, s, i)) :
              b[1] = s /\ CACHE_HASH(cp, cp.tag[b]) = i

NoDuplicates(cp) ==
  \A a, b \in Blks(cp) :
    cp.valid[a] /\ cp.valid[b] /\ BlkAddr(cp, a) = BlkAddr(cp, b) => a = b

LastBlkSound(cp) ==
  cp.last_blk # NULL => /\ Holds(cp, cp.last_blk, cp.last_tagset)
                        /\ cp.last_blk[1] = CACHE_SET(cp, cp.last_tagset)
=============================================================================
