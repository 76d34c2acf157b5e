--------------------------- MODULE CacheHierarchy ---------------------------
(***************************************************************************)
(* The caches of lab4/sim-cache.c at work: an instruction is fetched       *)
(* through il1 and reads or writes data through dl1; both miss into dl2    *)
(* (il2 is pointed at it), and dl2 into memory.                            *)
(*                                                                         *)
(* cache_access calls the lower level, and then the prefetcher, which      *)
(* calls cache_access again.  todo is what is left to do of the calls in   *)
(* progress, innermost first, and every call is one action; between the    *)
(* program's instructions it is empty.                                     *)
(***************************************************************************)
EXTENDS Prefetcher

CONSTANTS
  Hierarchies,   \* the caches of the configurations: names to cache records
  Pcs,           \* addresses of the program's instructions
  DataAddrs,     \* addresses of its data
  Commands,      \* Read, or Read and Write
  flush_on_syscalls,
  FlushAddrs     \* addresses given to cache_flush_addr

ASSUME ProgramAssumption ==
  /\ Commands \subseteq {Reads, Writes}
  /\ flush_on_syscalls \in BOOLEAN
  /\ \A h \in Hierarchies :
       /\ "dl1" \in DOMAIN h /\ DOMAIN h \subseteq {"il1", "dl1", "dl2"}
       /\ \A n \in DOMAIN h : Created(h[n])
       \* an access to the second level may not span two of its blocks
       /\ "dl2" \in DOMAIN h =>
            \A n \in DOMAIN h : h["dl2"].bsize % h[n].bsize = 0
  /\ Pcs \cup DataAddrs \cup FlushAddrs \subseteq 0 .. ADDR_SPACE - 1

VARIABLES
  cp,            \* the caches
  RPT, PLT,      \* the prefetchers' tables, one of each for all caches
  PC,            \* the instruction in execution (get_PC)
  todo,
  lastStore      \* history: where the last store to an address is to be
                 \* found, a cache or "memory"

vars == <<cp, RPT, PLT, PC, todo, lastStore>>
tableVars == <<RPT, PLT>>

Caches == DOMAIN cp

Access(n, cmd, addr, prefetch) ==
  [op |-> "access", cache |-> n, cmd |-> cmd, addr |-> addr,
   prefetch |-> prefetch]
Then(op, n, addr) == [op |-> op, cache |-> n, addr |-> addr]
Return(n, addr, blk) ==
  [op |-> "return", cache |-> n, addr |-> addr, blk |-> blk]

Lower(n) == IF n # "dl2" /\ "dl2" \in Caches THEN "dl2" ELSE "memory"

\* The addresses of the block of cache n that is at addr.
BlockOf(n, addr) == addr .. addr + cp[n].bsize - 1

Init ==
  /\ cp \in Hierarchies
  /\ RPT = <<>> /\ PLT = NewPLT
  /\ PC = 0
  /\ todo = <<>>
  /\ lastStore = [a \in DataAddrs |-> "memory"]

-----------------------------------------------------------------------------
(* The program *)

FetchCalls(pc) ==
  IF "il1" \in Caches THEN <<Access("il1", Reads, pc, FALSE)>> ELSE <<>>

DataCalls == {<<>>} \cup
  {<<Access("dl1", cmd, a, FALSE)>> : cmd \in Commands, a \in DataAddrs}

Execute(pc) ==
  /\ todo = <<>>
  /\ \E data \in DataCalls : todo' = FetchCalls(pc) \o data
  /\ PC' = pc
  /\ UNCHANGED <<cp, tableVars, lastStore>>

FlushCall(n) == Then("flush", n, 0)

\* Mutant: the second level is flushed first.
FlushCalls_LowerFirst ==
  IF ~flush_on_syscalls THEN <<>>
  ELSE IF "dl2" \in Caches THEN <<FlushCall("dl2"), FlushCall("dl1")>>
                      ELSE <<FlushCall("dl1")>>

\* The data caches are flushed from the first level on.
FlushCalls ==
  IF ~flush_on_syscalls THEN <<>>
  ELSE IF "dl2" \in Caches THEN <<FlushCall("dl1"), FlushCall("dl2")>>
                      ELSE <<FlushCall("dl1")>>

\* A system call may flush the caches first.
SystemCall(pc) ==
  /\ todo = <<>>
  /\ todo' = FetchCalls(pc) \o FlushCalls \o <<Then("syscall", "dl1", 0)>>
  /\ PC' = pc
  /\ UNCHANGED <<cp, tableVars, lastStore>>

FlushAddr(addr) ==
  LET blk == Lookup(cp["dl1"], addr)
  IN /\ todo = <<>>
     /\ cp' = [cp EXCEPT !["dl1"] = cache_flush_addr(@, addr)]
     /\ todo' = IF blk # NULL /\ cp["dl1"].dirty[blk]
                  THEN <<Access(Lower("dl1"), Writes,
                                BlkAddr(cp["dl1"], blk), FALSE)>>
                  ELSE <<>>
     /\ UNCHANGED <<tableVars, PC, lastStore>>

-----------------------------------------------------------------------------
(* The calls *)

Call == Head(todo)
Calling(op) == todo # <<>> /\ Call.op = op
Cache == cp[Call.cache]

\* A store of the program is now in dl1; a write-back moves the last stores
\* to its block that the upper level had one level down.
MoveStores ==
  lastStore' =
    [a \in DataAddrs |->
       IF /\ Call.cmd = Writes
          /\ \/ Call.cache = "dl1" /\ a = Call.addr
             \/ /\ Call.cache # "dl1"
                /\ lastStore[a] \in Caches /\ Lower(lastStore[a]) = Call.cache
                /\ a \in BlockOf(lastStore[a], Call.addr)
         THEN Call.cache ELSE lastStore[a]]

\* Mutant: a prefetch generates prefetches too.
AfterAccess_Always == <<Then("generate", Call.cache, Call.addr)>>

\* Only a regular access generates a prefetch.
AfterAccess == IF Call.prefetch THEN <<>>
                                ELSE <<Then("generate", Call.cache, Call.addr)>>

Accessing == Calling("access") /\ Call.cache \in Caches

\* A fast hit without a last block dereferences NULL: there is no next state.
AccessFastHit ==
  /\ Accessing
  /\ FastHit(Cache, Call.addr)
  /\ Cache.last_blk # NULL
  /\ cp' = [cp EXCEPT ![Call.cache] = QuickHit(@, Call.cmd, Call.addr)]
  /\ todo' = AfterAccess \o <<Return(Call.cache, Call.addr, Cache.last_blk)>>
               \o Tail(todo)
  /\ MoveStores
  /\ UNCHANGED <<tableVars, PC>>

AccessHit ==
  LET blk == Lookup(Cache, Call.addr)
  IN /\ Accessing
     /\ ~FastHit(Cache, Call.addr)
     /\ blk # NULL
     /\ cp' = [cp EXCEPT ![Call.cache] = SlowHit(@, Call.cmd, Call.addr, blk)]
     /\ todo' = AfterAccess \o <<Return(Call.cache, Call.addr, blk)>>
                  \o Tail(todo)
     /\ MoveStores
     /\ UNCHANGED <<tableVars, PC>>

\* Mutant: a victim is dropped without being written back.
WriteBack_Dropped(repl) == <<>>

WriteBack(repl) ==
  IF Cache.valid[repl] /\ Cache.dirty[repl]
    THEN <<Access(Lower(Call.cache), Writes, BlkAddr(Cache, repl), FALSE)>>
    ELSE <<>>

\* The victim is written back, the block is read from the lower level, and
\* then the prefetcher is called.
AccessMiss ==
  /\ Accessing
  /\ ~FastHit(Cache, Call.addr)
  /\ Lookup(Cache, Call.addr) = NULL
  /\ \E repl \in Replaceable(Cache, CACHE_SET(Cache, Call.addr)) :
       /\ cp' = [cp EXCEPT ![Call.cache] =
                   Miss(@, Call.cmd, Call.addr, repl)]
       /\ todo' = WriteBack(repl)
                    \o <<Access(Lower(Call.cache), Reads,
                                CACHE_BADDR(Cache, Call.addr), Call.prefetch)>>
                    \o AfterAccess \o Tail(todo)
  /\ MoveStores
  /\ UNCHANGED <<tableVars, PC>>

AccessMemory ==
  /\ Calling("access") /\ Call.cache = "memory"
  /\ todo' = Tail(todo)
  /\ MoveStores
  /\ UNCHANGED <<cp, tableVars, PC>>

PrefetchCalls(targets) ==
  [i \in 1 .. Len(targets) |-> Then("prefetch", Call.cache, targets[i])]

GenerateNone ==
  /\ Calling("generate") /\ Cache.prefetch_type = 0
  /\ todo' = Tail(todo)
  /\ UNCHANGED <<cp, tableVars, PC, lastStore>>

GenerateNextLine ==
  /\ Calling("generate") /\ Cache.prefetch_type = 1
  /\ todo' = PrefetchCalls(next_line(Cache, Call.addr)) \o Tail(todo)
  /\ UNCHANGED <<cp, tableVars, PC, lastStore>>

GenerateOpenEnded ==
  LET i == PLTIndex(PC)
  IN /\ Calling("generate") /\ Cache.prefetch_type = 2
     /\ PLT' = [PLT EXCEPT ![i] = open_ended_train(@, PC, Call.addr)]
     /\ todo' = PrefetchCalls(open_ended_targets(Cache, PLT[i], PC, Call.addr))
                  \o Tail(todo)
     /\ UNCHANGED <<cp, RPT, PC, lastStore>>

\* The first cache to use the stride prefetcher sizes the table.
GenerateStride ==
  LET table == IF RPT = <<>> THEN NewRPT(Cache.prefetch_type) ELSE RPT
      i == RPTIndex(table, PC)
  IN /\ Calling("generate") /\ Cache.prefetch_type >= 3
     /\ RPT' = [table EXCEPT ![i] = stride_train(@, PC, Call.addr)]
     /\ todo' = PrefetchCalls(stride_targets(Cache, table[i], PC, Call.addr))
                  \o Tail(todo)
     /\ UNCHANGED <<cp, PLT, PC, lastStore>>

Wanted(addr) == ~cache_probe(Cache, addr)

Prefetch ==
  /\ Calling("prefetch")
  /\ todo' = (IF Wanted(Call.addr)
                THEN <<Access(Call.cache, Reads, Call.addr, TRUE)>> ELSE <<>>)
               \o Tail(todo)
  /\ UNCHANGED <<cp, tableVars, PC, lastStore>>

\* A hit returns when the data of its block are ready.
ReturnHit ==
  /\ Calling("return")
  /\ todo' = Tail(todo)
  /\ UNCHANGED <<cp, tableVars, PC, lastStore>>

Flush ==
  LET written == DirtyBlks(Cache)
  IN /\ Calling("flush")
     /\ cp' = [cp EXCEPT ![Call.cache] = cache_flush(@)]
     /\ todo' = [i \in 1 .. Len(written) |->
                   Access(Lower(Call.cache), Writes,
                          BlkAddr(Cache, written[i]), FALSE)] \o Tail(todo)
     /\ UNCHANGED <<tableVars, PC, lastStore>>

\* A system call accesses data through dl1 or, when the caches have been
\* flushed for it, in memory.
SyscallCached ==
  /\ Calling("syscall") /\ ~flush_on_syscalls
  /\ \E data \in DataCalls : todo' = data \o Tail(todo)
  /\ UNCHANGED <<cp, tableVars, PC, lastStore>>

SyscallUncached ==
  /\ Calling("syscall") /\ flush_on_syscalls
  /\ \E a \in DataAddrs, cmd \in Commands :
       lastStore' = IF cmd = Writes THEN [lastStore EXCEPT ![a] = "memory"]
                                    ELSE lastStore
  /\ todo' = Tail(todo)
  /\ UNCHANGED <<cp, tableVars, PC>>

Simulator ==
  \/ AccessFastHit \/ AccessHit \/ AccessMiss \/ AccessMemory
  \/ GenerateNone \/ GenerateNextLine \/ GenerateOpenEnded \/ GenerateStride
  \/ Prefetch \/ ReturnHit \/ Flush
  \/ SyscallCached \/ SyscallUncached

Next ==
  \/ \E pc \in Pcs : Execute(pc) \/ SystemCall(pc)
  \/ \E a \in FlushAddrs : FlushAddr(a)
  \/ Simulator

\* The simulator is a sequential program that runs on by itself; what the
\* simulated program does next is not its concern.
Spec == Init /\ [][Next]_vars /\ WF_vars(Simulator)

-----------------------------------------------------------------------------
(* Properties *)

Calls == [op : {"access"}, cache : {"memory"} \cup Caches,
          cmd : {Reads, Writes}, addr : 0 .. ADDR_SPACE - 1,
          prefetch : BOOLEAN]
  \cup [op : {"generate", "prefetch", "flush", "syscall"}, cache : Caches,
        addr : 0 .. ADDR_SPACE - 1]
  \cup [op : {"return"}, cache : Caches, addr : 0 .. ADDR_SPACE - 1,
        blk : UNION {Blks(cp[n]) : n \in Caches}]

\* Every call names an address of the machine and a cache that there is.
TypeOK ==
  /\ ToSet(todo) \subseteq Calls
  /\ \A n \in Caches : \A b \in Blks(cp[n]) :
       cp[n].tag[b] \in 0 .. ADDR_SPACE - 1
  /\ lastStore \in [DataAddrs -> {"memory"} \cup Caches]
  /\ PC \in Pcs \cup {0}

\* Whatever blocks have been moved to either end, every way list holds every
\* block of its set once, in the same order in both directions, and ends at
\* way_tail (update_way_list, and its assertions).
WayListsSound == \A n \in Caches : WayListSound(cp[n])

\* Every block, valid or not, is in the bucket of its tag and in no other: the
\* assertion of unlink_htab_ent holds for whatever is replaced next.
HashChainsAreSound == \A n \in Caches : HashChainsSound(cp[n])

\* The hand-linked lists are sound.
ListsSound == WayListsSound /\ HashChainsAreSound

\* No cache holds a line twice, though an invalid block keeps its tag and is
\* found on the same lists (cache_access, cache_flush).
LinesOnce == \A n \in Caches : NoDuplicates(cp[n])

\* The last block is still the block it was when it hit: replaced, invalidated
\* and flushed blocks are forgotten, whoever's access replaced them.
LastBlkCurrent == \A n \in Caches : LastBlkSound(cp[n])

\* What an access finds is the line it asks for: there is one block that may
\* hold it, and the shortcut past the search leads to that block.
FoundOnce == LinesOnce /\ LastBlkCurrent

\* The last store to every address is in memory, or in a dirty block, or in a
\* write-back on its way from that block to the next level: no eviction, flush
\* or prefetch between two levels loses it.
LastStoreHeld ==
  \A a \in DataAddrs :
    LET at == lastStore[a]
    IN \/ at = "memory"
       \/ LET blk == Lookup(cp[at], a)
          IN blk # NULL /\ cp[at].dirty[blk]
       \/ \E i \in 1 .. Len(todo) :
            /\ todo[i].op = "access" /\ todo[i].cmd = Writes
            /\ todo[i].cache = Lower(at)
            /\ a \in BlockOf(at, todo[i].addr)

\* A system call starts with every store in memory (-flush, "flush caches on
\* system calls"): a level is flushed after the levels above it.
SyscallSeesMemory ==
  Calling("syscall") => \A a \in DataAddrs : lastStore[a] = "memory"

\* Every access returns, through two levels, write-backs and prefetches that
\* access the cache again.
AccessReturns == todo # <<>> ~> todo = <<>>
=============================================================================
