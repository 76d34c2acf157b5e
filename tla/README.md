# A verification development for the 552 simulators

The repository holds the laboratory work of a computer architecture course:
simulators of branch predictors (`lab2`), of an out-of-order pipeline with
Tomasulo's algorithm (`lab3`), of caches with prefetchers (`lab4`), and of an
MSI directory coherence protocol (`lab5`). `lab3` and `lab4` each carry a copy
of the SimpleScalar tool set, into which the labs' own code is written; `lab5`
is two state machines in SLICC, run by the Ruby memory system of gem5, which is
not in the repository.

This directory holds TLA+ modules that model the parts with state machines of
their own, TLC configurations that check them on small instances, and theorems
about them that TLAPS has checked for every value of the constants. Paths below
are relative to `src/`. `PROJECT.json` is the machine-readable index: which
definition models which lines, which run checks which property, which mutant of
the code each property catches, and the hazards the properties are for.

    tlc -config MSI3.cfg MCMSI            # model-check
    tlapm CoherenceProofs.tla             # check the proofs of a module

Sections: 1 inventory; 2 the MSI protocol; 3 the Tomasulo pipeline; 4 caches and
prefetchers; 5 branch predictors; 6 the event queue; 7 the out-of-order core;
8 proofs; 9 what is not modelled; 10 observations; 11 plan.

## 1. Inventory

| Component | Code | State it keeps | Operations | Status |
|---|---|---|---|---|
| L1 cache controller | `lab5/MSI-cache.sm` | per block: state, entry with its data, TBE with its data and pendingAcks | core load and store, replacement; forwarded GETS, GETM, INV, WB_ACK; data and acknowledgements | modelled: `L1Cache` |
| Directory controller | `lab5/MSI-dir.sm` | per block: state, data in memory, Sharers, Owner | GETS, GETM, PUTS, PUTM; data from an owner; memory's answers | modelled: `MSIDirectory` |
| Network, sequencers, memory controller | gem5, not in the repository | messages in flight, outstanding requests | send, receive; request, callbacks | as the controllers use it: `MSINetwork`, `Sequencer`, `memQueue` of `MSIDirectory` |
| Tomasulo pipeline | `lab3/tomasulo.c` | ring queue, reservation stations, functional units, common data bus, map table, cycle numbers of every instruction | four stages, fetch, the test for the end | modelled: `Tomasulo` |
| Instruction trace | `lab3/instr.c`, `lab3/sim-safe.c` | chunked list of instruction records | put, get; functional execution fills it | its meaning (index to instruction): `InstructionTrace` |
| Cache simulator | `lab4/cache.c`, `lab4/sim-cache.c` | sets, way lists, hash chains, last-block shortcut; levels of caches | create, access, probe, flush; system calls | mostly: `SimCache`, `CacheHierarchy` |
| Prefetchers | `lab4/cache.c:512-805` | reference prediction table, address histories and confidence | next line, stride, open-ended | modelled: `Prefetcher`, `PrefetchTraining` |
| Branch predictors | `lab2/predictor.cc` | packed 2-bit counters, local histories, perceptron weights, globals from prediction to update | predict, update | modelled: `TwoBitPredictor`, `TwoLevelPredictor`, `Perceptron` |
| Event queue | `lab3/eventq.c`, `lab4/eventq.c` | sorted list and free list of events | queue, service, remove, execute; callbacks | modelled: `EventQueue` |
| Out-of-order core | `lab4/sim-outorder.c` | register update unit, load/store queue, ready queue, event queue, create vectors, functional units, fetch queue, speculation mode | six pipeline stages, recovery, the program's end | its timing and speculation: `OutOfOrder`, `Stations` |
| Functional simulators | `lab3/sim-*.c`, `lab4/sim-*.c` | registers, memory | execute one instruction | no: a sequential interpreter |
| Branch predictors of SimpleScalar | `bpred.c` | tables, return stack | lookup, update | no: every answer it can give is an input of `OutOfOrder` |
| Instruction sets, loader, system calls | `lab3/target-*`, `machine.c`, `loader.c`, `syscall.c` | memory image | one opcode, one call each | no: data path, no protocol |
| Options, statistics, debugger, traces | `options.c`, `stats.c`, `dlite.c`, `eio.c`, `libexo` | tables, files | parse, print | no: formatting and I/O |
| Microbenchmarks, configurations | `mb*.c`, `*.cfg` | none | | no: inputs |

### How they interact

* *lab5.* A core's sequencer puts a request in the mandatoryQueue of its L1
  controller and is called back. Controllers exchange messages on three virtual
  networks: requests (2) from cache to directory, forwards (3) from directory to
  cache, responses (4) between all. The directory reads and writes memory
  through a memory controller, which answers later. Nothing else is shared.
* *lab3.* `sim-safe.c` executes the program, appends an instruction record for
  every instruction (`put_instr`), and then calls `runTomasulo`, which reads the
  records by index and writes the four cycle numbers of each.
* *lab4.* `sim-cache.c` or `sim-outorder.c` calls `cache_access`, which calls the
  next level for the block it misses and the block it replaces, and then the
  prefetcher, which calls `cache_access` of the same cache again. All caches share
  the tables of the prefetchers.
* *lab2.* The driver (not in the repository) calls `GetPrediction_x` and then
  `UpdatePredictor_x` for every branch.

### What is hard here

* *lab5 is concurrent.* Each controller handles one message at a time, but the
  controllers, networks, memory and cores interleave freely. Acknowledgements
  overtake the data that say how many to expect; a write-back crosses a
  forwarded request; an upgrade loses to another core's store; stalled messages
  block the ones behind them. A random tester reaches these states seldom.
* *lab3 and the out-of-order core are sequential, and their difficulty is order*:
  the stages run from last to first so that a cycle's effects are visible to the
  right stages only, results compete for one bus, registers are renamed by
  pointers, and an instruction is in several structures at once. The core of
  `lab4` also squashes a wrong path whose stations are in queues it cannot
  search, and reuses them; a tag tells old links from new ones.
* *lab4's caches* have a shortcut and hand-made linked lists that must follow every
  replacement, and a recursion through prefetchers and levels.
* *lab2* has narrow saturating arithmetic, bits packed in bytes, and globals that
  carry a prediction to its update.
* *The event queue* is changed by the callbacks of the events it is serving.

There are no threads, crashes, persistence, timeouts or lossy channels in this
code, so no fault model of those kinds applies; the faults that do occur are
reordered messages (lab5) and mispredictions (lab2, lab4).

## 2. The MSI protocol (lab5)

| Module | Models |
|---|---|
| `MSINetwork` | messages and virtual networks |
| `Sequencer` | cores, as the controller's callbacks see them, and three history variables |
| `L1Cache` | `MSI-cache.sm`: one operator per transition, or per group of transitions with the same actions |
| `MSIDirectory` | `MSI-dir.sm`, and the memory controller behind it |
| `MSIProtocol` | any number of caches, the directory and the network; fairness; the properties |
| `AtomicMemory` | the abstract specification: a block of memory without caches |
| `HeadOfLine` | two such blocks with a directory each, which share the forward networks |
| `MCMSI` | the symmetry of the runs |
| `MSICoherence` | the inductive invariant `CoherenceInv`: which messages and states may occur together, and who has the right to the block |
| `CoherenceProofs` | the theorems: what each controller keeps of its own; the steps of the caches and of the directory; what follows |

**State.** One cache block is modelled; a controller keeps separate state for
each, and blocks meet only in the queues (`HeadOfLine`). `CacheState`,
`DataBlk` and `entries` are the cache entry, `TBEs`, `tbeDataBlk` and
`pendingAcks` the transaction buffer; `getState` reads the state as the code
does. `DirectoryState`, `dirDataBlk`, `Sharers` and `Owner` are the directory
entry. `requestNet[c]`, `forwardNet[c]` and `mandatoryQueue` are the incoming
buffers of vnets 2 and 3 and of the cores. Responses (vnet 4) are a set, hence
arrive in every order: the model allows more than the network, and
`MessagesBounded` shows that a set loses nothing.

**Actions.** A SLICC transition runs all its actions at once or, when an action
is `zz_stall` or a wake-up has not come, not at all. Each transition is one
TLA+ action: the guard is the state and the event (computed as the in_port
does, e.g. `DataEvent`, `PUTMEvent`), the effects are all actions of its body.
Stalling is the absence of an enabled action; requests and forwards stay at the
head of their channel. That a message meets no state *without* a
transition, where the generated code aborts, is a property and not an
assumption (`EventsHandled`), as are the code's assertions (`DirAsserts` in
`EventsHandled`, `StructuresMatch` in `CoherenceInv`). A replacement may happen whenever the entry
is in S or M: which block is evicted depends on other blocks.

**Environment.** A core has at most one request outstanding for the block.
Latencies are left out: any message may take any time. Stores write an arbitrary
value, and `latest`, `loaded` and `exposed` only record; no guard reads them.

**Properties** (`MSI3.cfg`: 3 caches, 2 values, about 157,000 states)

* `SWMR` and `DataCurrent`: a cache that may be stored to excludes all other
  readers; every copy that can be read is what the last store wrote, and so is
  memory when no cache has the block.
* `ImplementsAtomicMemory`: with the map from `latest`, `outstanding`, `loaded` to
  a block of memory, every step is a load, a store, a request or a stutter:
  loads return the last store's value, although an acknowledged invalidation, a
  late forward and a write-back may all be in flight.
* `AckAccounting`: the number a cache waits for is the number of INVs
  and ACKs in flight for it, in each order of data and ACKs.
* `EventsHandled`: no message meets a state without a transition, and no assertion
  of `setState` fails; either would abort the simulation.
* `MessagesBounded`: a request and two forwarded messages per cache are the most,
  although the code's buffers have no bound, and no two equal responses are in
  flight.
* `CoherenceInv`: the inductive invariant of the proofs (section 8), with
  `StructuresMatch` (entries and TBEs are allocated exactly where needed) and
  `EvictionTold`.

**Liveness** (`MSILive.cfg`: 2 caches, 1 value): `RequestsComplete` and
`TransactionsEnd` (every TBE is freed, the directory leaves every transient
state). Fairness is stated per source of progress. Every message
that can be handled is handled in the end (weak fairness of the forward,
response and memory ports and of the mandatory queue: the controllers wake up
as long as a buffer is not empty). Requests get strong fairness per requestor:
the directory's incoming buffer is in order of arrival, a request that stalls
stays in front of those that arrive later, and the model's separate
channels would let the others overtake it for ever. Cores and replacements are
not fair: no core has to issue a request, no block has to be replaced.

**Disagreements found.** `MSIEviction.cfg` checks what a comment says, and TLC
refutes it: "let the sequencer know that the cache replaced a block"
(`MSI-cache.sm:582-583`). When a block is lost in `MI_A`, `SI_A` or `SM_AD` the
transition does not call `forward_eviction_to_cpu`; the other core's store
completes while this core has not been told. In TLC's counterexample the core has
stored to the block, its cache starts a replacement (`MI_A`), and another core's GETM
comes first; a copy that was only loaded is lost in the same way, in `SI_A` or, during
an upgrade, in `SM_AD`.

`TwoDirectories.cfg` runs `HeadOfLine`: two blocks whose home directories differ, as
`MSI-cache.sm:363-364` assumes ("more than one directory controllers"). Each block has
the variables and steps of `MSIProtocol`; a cache takes forwarded messages in
the order of their arrival (`forwardToCache`), and those of different directories
arrive in any order. TLC refutes `NoCircularWait`: with two caches that each wait for
data from the other, one stalls a request for block A in front of the request for B
that the other waits for, and the other the reverse. Three caches that store are
enough (`Asked = {"ST"}`; replacements happen too). The circle needs each of two
requests to have been sent before the other when one directory sends them all, so
it takes two directories; that argument is not checked.

**Bounds.** Two caches can race for a block; the third is the bystander that
makes sharers other than requestor and owner, acknowledgement counts of two, and
requests from a cache that is neither the old nor the new owner. Every message
names at most two caches. Two values tell the last store's data from all
other. Caches and values are symmetric (no operator depends on one, the initial
memory is arbitrary); the refinement checked with symmetry is a safety property,
invariant under the permutations. The liveness run uses no symmetry.

## 3. The Tomasulo pipeline (lab3)

| Module | Models |
|---|---|
| `InstructionTrace` | what the pipeline reads of an instruction; `LastWriter` and `Producers`, the data flow of program order |
| `Tomasulo` | `tomasulo.c` |
| `Dataflow` | the abstract specification: instructions become fetched, issued, executing, done |
| `MCTomasulo` | the instructions of the runs |
| `TomasuloProofs` | the theorems |

**State.** A pointer to an instruction is its index; the queue is the ring of the
code with head, tail and size; the stations and units are sets, as nothing
tells one slot from another; `Q[i]` is the set of the up to three
pointers. The cycle numbers are those of the instruction record.

**Actions.** `runTomasulo` calls the stages in one order in every cycle, and
`stage` is its program counter. `CDB_To_retire`, `execute_To_CDB`,
`issue_To_execute`, `dispatch_To_issue`, `fetch_To_dispatch` are one action each,
with the helpers they call as operators of the same names; `EndOfCycle` counts
the cycle and makes the test of `is_simulation_done`. A loop that picks the
oldest ready instruction until the units are full is the set of the `n` oldest
(`Oldest`, `Starting`). The trace is arbitrary and fixed in `Init`: the runs
check *every* trace.

**Properties** (`Tomasulo5.cfg`: all 7776 traces of 5 instructions of 6 kinds)

* `RAWRespected`: no instruction executes before the cycle after that in which
  each producer *by program order* broadcasts. `PipelineInv`, its inductive
  strengthening, relates `Q` to the producers, the queue to program order and the
  bus to the cycle; `MapTableCurrent` relates the map table to the writers in
  flight.
* `StationsMatch`: stations and units are held for as long as the recorded cycles
  say. `TimingInv` is what of all this is inductive.
* `StagesInOrder`: one cycle at least in every stage, issue in program order, one
  broadcast per cycle, and the priorities ("We prioritize old instructions") that
  the comments of `tomasulo.c` state.
* `AllSimulated`: when the loop ends, the last instruction has gone
  through every stage, although `is_simulation_done` allows `fetch_index` to be
  one short.
* `ImplementsDataflow`: the pipeline refines the data flow of the program.
* `Termination`: no trace makes the pipeline wait for ever. The code is a
  sequential program, so weak fairness of the whole loop is all that is assumed.
  `CHECK_DEADLOCK FALSE` because a simulation cut off at `MaxCycle` stops, which
  `Termination` itself would report.

**Bounds.** A hazard relates a reader, its writer and a second writer (WAW) of
one register, a competitor for the unit or bus and an instruction that fills the
queue: five. Two registers give an instruction with two producers. Sizes are
made small instead of traces long: a queue of 2 wraps around twice, 3 integer
stations with 2 units let results collide on the bus, 2 stations with 1 unit
let ready instructions collide on the unit. Latencies of 2 and 3 complete in
both orders. `MaxCycle` (40) cuts the simulation off; no trace comes near it. The
registers of an instruction are sets: one read twice waits for the same producer
twice, which is to wait for it once.

## 4. Caches and prefetchers (lab4)

| Module | Models |
|---|---|
| `SimCache` | one cache of `cache.c`: operators from one record of its fields to the next |
| `Prefetcher` | what an access teaches the tables and which addresses they ask for |
| `CacheHierarchy` | `cache_access` with the calls it makes, and the levels of `sim-cache.c` |
| `CacheLines` | the abstract specification: sets of lines with an order of replacement |
| `CacheRefinement` | how the pointers of a cache stand for such lines |
| `PrefetchTraining` | the two prefetchers' tables alone, under any accesses |
| `MCCache` | the caches of the runs |
| `CacheProofs` | the theorems about one cache and the levels, and the refinement of `CacheLines` (those about the prefetchers' tables are in `PredictorProofs`) |

**State.** A block is a set and a way, as the code's array `blks`; `way_head`,
`way_tail`, `way_next`, `way_prev`, `hash` and `hash_next` are the code's pointers,
not an abstraction of them: a list is what `Reached` finds by following them from
its head, and `Search` is the loop that looks for a tag. `last_tagset` and `last_blk` are the shortcut past the
search. An invalidated block keeps its tag and stays in its chain, as in
the code. Time, statistics and the data (which no simulator lets the cache
allocate) are left out; a latency is told by the block that is read last.

**Actions.** `cache_access` calls the lower level before it goes on, and the
prefetcher at its end. `todo` is the rest of the calls in progress, innermost
first, and each call is one action: `AccessFastHit`, `AccessHit`, `AccessMiss`,
`AccessMemory`, one `Generate…` per prefetcher, `Prefetch`, `ReturnHit`, `Flush`. The
program, `Execute` and `SystemCall`, moves only when nothing is to do. Random
replacement is any way.

**Properties.** `CacheLines.cfg` runs one cache (two sets of two ways, with and
without hash chains, LRU, FIFO and random, next line prefetching; four ways in
one set) under any reads, writes and flushes of one address:

* `ListsSound`: way lists and hash chains are permutations in both directions,
  whatever mix of hits, replacements and flushes relinked them;
* `FoundOnce`: no line is there twice, and the shortcut is the block it was;
* `ImplementsCacheLines`: the pointers together are an LRU, FIFO or random cache.

`CacheLevels.cfg` runs dl1 with each of the three prefetchers, and once il1 beside it, over
a dl2 with longer blocks and the next line prefetcher. The write-back of a victim that a
prefetch in dl1 evicts is thus an access to dl2 that prefetches in its turn. Five
addresses are a stream long enough for the confidence of the open-ended prefetcher to
reach every degree, so that one access leads to up to four prefetches, which may
miss in both levels:

* `LastStoreHeld`: the last store to an address is in a dirty block, in memory or
  in a write-back between them, at every step of every access;
* `SyscallSeesMemory`: with `-flush`, a system call finds all stores in memory;
* `AccessReturns`: the recursion through levels, write-backs and prefetches ends.

`Predictors.cfg` (section 5) also runs the prefetchers' tables:

* `StrideLearned`: the four states of an entry learn a stride seen twice in a row
  and are not misled by one exception;
* `StreamIsPrefetched`: four equal strides in a row bring the open-ended prefetcher
  to prefetch along them, from the right places of its ring;
* `DegreeKept`: a stream that goes on keeps its degree, although a confidence of 7
  falls back to 6.

**Fairness.** Weak fairness of the simulator's own steps: a sequential program
goes on by itself. The simulated program is not fair.

**Bounds.** Two sets tell the set of an address from its tag; two ways have a
head and a tail, four a middle; three addresses of data, with the lines
that are prefetched after them, are more than a set holds. In `CacheLevels.cfg` five
addresses go through caches of one or two blocks, so that most accesses miss and
replace; below the stride and the open-ended prefetcher both levels are a single block. Hash chains are used
in the code from eight ways on; `hsize` 2 puts them under two and four ways.
A block of dl2 is two of dl1, so that one replacement below concerns two blocks
above. Block 0 is not accessed, nor do prefetches lead there (section 10); its address
would stop the simulator with a NULL dereference, which has no successor, and both
runs check deadlock. Addresses wrap at `ADDR_SPACE` as the code's unsigned ones do; at 64 (8 in
`CacheLines.cfg`) it is beyond the addresses of these runs, as wrapping leads to block 0.

## 5. Branch predictors (lab2)

| Module | Models |
|---|---|
| `Branches` | what the three have in common, and the driver's order of calls |
| `TwoBitPredictor` | 2-bit counters, four to a byte |
| `TwoLevelPredictor` | local histories that choose counters (PAp) |
| `Perceptron` | saturating weights, a global history, and the globals `idx`, `result` |
| `SaturatingCounters` | the abstract specification of the first two |
| `Predictors` | one of them, or the prefetchers' tables, at work: `which` says what |
| `PredictorProofs` | the theorems, and those of `PrefetchTraining` |

A prediction is asked for a branch, and then the branch is resolved. The byte
arithmetic is that of the code: `Packed` clears and sets a field by its unit
(shift and mask), a history is shifted and cut, weights saturate at
`WEIGHT_MAX`. History variables record what was told last.

* `ImplementsCounters_2bitsat`, `ImplementsCounters_2level`: each table behaves as
  separate saturating counters: no mask or shift touches a neighbour, and a
  counter that is updated is the one that predicted, although `BHT` changes in
  the same update.
* `LearnsInTwo`: two equal outcomes in a row decide the next prediction.
* `HistoriesKept`: local histories are the branches' last outcomes, and `idx` and
  `result` at an update are those of the branch resolved, which
  `UpdatePredictor_openend` takes for granted.
* `TrainingHelps`: an update moves the perceptron's output towards the outcome by
  one for each weight not saturated, and not at all beyond `THETA`.

**Bounds.** Three branches, two of which share an entry, two entries; weights
saturate at 2, so that every combination of saturated and free occurs, and
`PERCEPTRON_THETA` 3 is on either side of the outputs. The sizes of the code are
in the comments of the constants.

## 6. The event queue

`EventQueue` models `eventq.c` (the same in `lab3` and `lab4`) with its two hand-made
lists; `EventQueueProofs` has the theorems. Nothing in the repository calls it, so the program is any sequence of
calls, and a callback may queue, remove or execute others while it is served; a call
in progress is an element of `calls`.

* `NothingLost`: the lists stay sound and sorted, and hold exactly what was
  queued and neither started nor removed.
* `ServedInOrder`: "service all events in order of occurrance until and at NOW"
  (`eventq.h:130`).
* `ServiceReturns`: the loop ends, if callbacks queue later events (`DELAY` 1).

**Disagreement found** (`EventSameTime.cfg`, `DELAY` 0): a callback queues an event
for the time being served; it is inserted *before* the served event, at the
head, and `eventq_pending = ev->next` (265) drops it. So `NothingLost` and
`ServedInOrder` hold of callbacks that queue later events only. That is an assumption
about the clients, and `eventq_execute` makes it easy to break: it passes 0 as `now`
("now is munged", 207), so a callback that computes its new time from that argument
may queue an event for a time that is already past.

**Bounds.** Three descriptors give a list a head, a middle and a tail, and reuse;
`MAX_ID` 5 bounds how many events are queued. Fairness: a call in progress goes on.

## 7. The out-of-order core (lab4)

| Module | Models |
|---|---|
| `Stations` | stations, links, the ready queue and the event queue, as operators on a record of them |
| `OutOfOrder` | the main loop of `sim-outorder.c` |
| `Architecture` | the abstract specification: in-order execution and retirement, traps drain |
| `MCOutOfOrder` | programs, switches and functional units of the run |
| `StationProofs`, `OutOfOrderProofs` | the theorems: what the operations on stations and lists keep; what the stages keep, and what follows |

**State.** A station is an element of the arrays `RUU` or `LSQ`, named by queue and
index, and is reused; a link (`RSLINK`) holds the station and its tag, and is valid
while the tags agree. `create_vector`, `spec_create_vector` and `use_spec_cv` are
the vectors and the copy-on-write bits. `il1` is the last block brought into the
instruction cache. `executed` and `retired` are history. `panicked` records that
one of the code's panics was reached. Times of events are relative to the cycle, so
that the state space is finite.

**Actions.** The stages of a cycle run from last to first, and `stage`, `n` and
`issuing` say where the simulator is in its loop and in the stage's own loop:
`Commit`, `ruu_release_fu`, `Writeback` (one event per step, with the recovery of a
mispredicted branch and the walk over its consumers), `lsq_refresh`, `Issue…` (one
ready node per step), `Dispatch…` (one instruction per step, with its effect, as
instructions take effect at dispatch), `Fetch…`. With `-bugcompat` dispatch
runs before the refresh, as in the code. Any prediction that `bpred_lookup`
may give, any latency of a load and any address of a wrong-path access is
possible.

**Properties** (`OutOfOrder.cfg`: 14 programs, 6 sets of switches, about 104,000
states, deadlock checked)

* `ImplementsArchitecture`: off the wrong path the program is executed, and
  retired, in order and nothing else is; recovery resumes where it should.
* `DependenciesKept`: an operand is ready exactly when its nearest older writer in
  flight is complete, and both create vectors name the writers they should, before
  and after a squash.
* `MemoryOrder`: no load is issued to memory while an older store has an unknown
  address, or the nearest store to its own address no data.
* `QueuesSound`: no panic is reached; every operation in flight waits in exactly one
  list; no squashed station is waited for; every link is in one list or free.
* `ProgramEnds`: no lost wake-up, busy unit or stalled dispatch stops a program.

**Disagreement found** (`ReadyOrder.cfg`): the comment at 1977-1981 says memory
operations, long latencies and branches come first, then all others, oldest
first. `readyq_enqueue` inserts an ordinary operation before the first node that is
not older (2011), which may be one of the first kind.

**Fairness.** The simulator is one sequential loop: weak fairness of `Next`.

**Bounds.** Four stations and three load/store stations fill up and wrap around
in every program; one multiplier and one memory port make operations wait for
units; latencies of 3 and 1 complete in both orders; a block of the instruction
cache ends within a program. The programs are the shapes that the hazards
name: a branch on a slow value before a wrong path that multiplies, loads, stores
or redefines a register; late store data and late store addresses before loads of
the same and of another address; traps, an indirect jump, a nop; more operations
than units. They are chosen, not exhaustive: all programs of this length are
out of reach.

**Left out.** Values of registers and memory, and their copy-on-write in the wrong
path (an indirect branch there is offered two next PCs, where the code's may be any: no
step uses it, see `NPCs`); TLBs; `fetch_speed` (1, its default); the limit
`max_insts` on instructions; the fatal error of `lsq_refresh` for more than 64 unknown
store addresses (`MAX_STD_UNKNOWNS`, 2559), which takes more load/store stations than that; second outputs of an instruction (`MAX_ODEPS` 1); pipetrace, statistics,
debugger and fast forwarding. `sim-outorder.c` calls `cache_access` with eight
arguments where `lab4/cache.c` takes nine, so the two do not compile together
although the `Makefile` lists both; the caches are therefore any latency here, and
not those of section 4.

## 8. Proofs

Every invariant and every action property that a passing run checks is also a
theorem, for every value of the constants, and so is every refinement. The assumptions are the `ASSUME`s of the modules, which TLC evaluates in
each run; where a theorem has another, it is named here.

`InductionLemmas` states induction and recursion on the natural numbers, of sets and
functions instead of predicates and operators, from the fact that `<` is well founded
on them. The other modules use it for whatever the code computes in a loop and the
model as a recursive function: walks along lists, sums, filters of sequences.

### The MSI protocol: any finite set of caches, any set of values

*Each controller alone* (`CoherenceProofs`, first half). `LocalInvariance` says that
`LocalInv` is an invariant; `TypeCorrect`, `StructuresAlwaysMatch`,
`EvictionAlwaysTold` and `DirAssertsHold` are parts of it. `TypeOK` says among other
things that no message carries `NoData`. It is not inductive alone: a cache in S or M
sends its `DataBlk` and a cache in MI_A its `tbeDataBlk`, so these must hold values
(`HeldDataWritten`); that a transition finds the entry and TBE it needs is
`StructuresMatch`; `EvictionTold` depends on both. The assertions of the directory's
`setState` are about M and I only; a transition into M comes from IM_D or S, so
`DirBookkeeping` says what Owner and Sharers are in every state.

*All of them together.* `Coherence` says that `CoherenceInv` is an invariant. It adds
three things to `LocalInv`:

* `Expected`: for every kind of message, the states of its receiver and of the
  directory it can coexist with, and that the data a cache waits for come from one
  place. Its centre is `OneHolder`: the right to write the block is in one place.
  `Exclusive(c)` is wider than the state M, as the right is in a message
  between two owners and stays with a cache in MI_A until its PUTM or the forwarded
  request is handled; otherwise no step that hands it on could be followed.
* `DataLatest`: every copy that will be used again is the last one stored. A store
  keeps it because there is no such copy but the writer's (`OnlyCopy`), which
  follows from `Expected`: readers are invalidated, and acknowledged, before.
* `CoreWaits`: what the core waits for is what its controller is doing.

There is one lemma for each kind of step and, in it, one step for each part of the
invariant. Steps that differ in little share a lemma: the acknowledgements, for
instance, are counted once (`OwesAck` is a set, and a step moves an element of it from
a forward channel to the responses, or removes it), in whatever order data and ACKs
arrive. From the invariant follow `SingleWriter`, `DataAlwaysCurrent`, `AcksAccounted`,
`EventsAlwaysHandled` (each transition the code lacks is excluded by a line of
`Expected`), `MessagesAlwaysBounded`, and `CachesImplementMemory`, the refinement of
`AtomicMemory`, with one case per port.

### The pipeline: every trace of every length, all sizes and latencies

* `PipelineInvariance`: `PipelineInv` is inductive. What is wanted of it is
  `RAWRespected` (`RAWAlwaysRespected`). An instruction starts when those in its `Q`
  have broadcast, so `Q` must hold its producers by program order, or those must
  have broadcast before it was issued: `DependenciesKept`. `Q` comes from the map
  table, hence `MapTableCurrent`; that the last writer *issued* is the last
  *before the instruction* needs issue in program order, `IssuedInOrder`, hence the
  queue, `QueueInOrder`. A retired writer is no longer in the map table, and must
  have broadcast in an *earlier* cycle, which is what the order of the stages is
  for: `BusThisCycle`. That a broadcast is for good is `BroadcastOnce`.
* `MapTableAlwaysCurrent`, `QueueAlwaysInOrder` are parts of it of interest alone;
  the second rests on the lemmas on indices modulo the ring's size.
* `TimingInvariance`: `TimingInv` is inductive, and with it `StationsAlwaysMatch`,
  `StagesAlwaysInOrder` and `NoneLeftOut`. The priorities compare an instruction that
  is served with one that *could* be, so the invariant must say which those are:
  `StationsByKind` (what is in a station has not finished, and is of its kind) and
  `CyclesPassed` (no recorded cycle lies ahead, and in which stage of the present
  cycle one may be). `Oldest` takes the `n` first of a set; that an older one left out
  means that all units are taken is a matter of counting.
* `PipelineImplementsDataflow`: every step of the pipeline is a step of
  `Dataflow` under the map `StatusOf`, or a stutter, with one lemma per stage; they
  use both states of the step, and `FlowInv` (`FlowInvariance`), which says what has
  been dispatched.

The bound `MaxCycle` is any number: the theorems hold for simulations of any length.
`Tomasulo5.cfg` checks both inductive invariants with TLC.

### The caches: any sizes, associativities and policies, any levels

The first part of `CacheProofs` is about one cache. `CacheOK` collects what every
operation keeps:

* `WaysOK`: for every set there is an order of its ways that `way_head`, `way_next`,
  `way_prev` and `way_tail` all agree with. A list is defined by following pointers,
  and what that reaches cannot be computed for a list of unknown length; so each
  relinking is given the order it leads to (`HeadOrder`, `TailOrder`), and the
  pointers are shown to agree with that. `ReachedIs`, by induction on the number of
  steps, brings the order back to what the search finds.
* `BucketsOK`: the same for hash chains, which hold all blocks of the set with a tag
  of that hash, the invalid ones too: a chain that left those out could not be
  unlinked from when the block is replaced (`InBucket`, the assertion of
  `unlink_htab_ent`).
* `NoDup`, `LastBlkSound`, `InRange`: what is found, is found once. A fill keeps `NoDup`
  because it follows a search that failed, and the search failed because the lists
  are sound.

There is one lemma per operation (`Miss`, `SlowHit`, `QuickHit`, the flushes).

The second part puts them together, and the third maps them to `CacheLines`.
`HierarchySound` says that `HierarchyInv` is inductive: every cache is `CacheOK`, and
the calls left to do are of the kinds that the code makes. From it follow `TypeCorrect`, `ListsAlwaysSound` and `AlwaysFoundOnce`.

* `StoresAlwaysHeld` needs `StoresInv`: the last store to an address is in a dirty
  block *of the cache `lastStore` names*, or in a write-back on its way from there.
  A write-back that is served moves all stores to its block at once, which is
  right only if a block of the second level contains the whole of it (`Nested`) and no
  store is ever in `il1` (`FetchedIsClean`). `Nested` is the assumption
  on block sizes in `ProgramAssumption`: sizes are powers of two
  (`cache.c:288`), and if blocks of `dl2` were shorter the first miss would end
  the simulation with "access spans block" (833-836).
* `SyscallAlwaysSeesMemory` has the hypothesis `flush_on_syscalls`; without the option
  the call goes through `dl1`, and memory need not be current. Its invariant
  follows the flush: a level that is flushed stays empty, because nothing that is left
  to do reaches it (`Emptied`), though the flush of one level writes to the next.
* `CacheImplementsLines` is the refinement of `CacheLines`, by the map of `CacheRefinement`.
  It needs `Ordered` (theorem `AlwaysOrdered`) beside `HierarchyInv`. `FreeLast`: but for
  random replacement the invalid blocks of a set are the last of its list, so the
  block at the tail is valid only if the set is full; a fill, which moves its block to
  the head, and `cache_flush_addr`, which moves its own to the tail, both keep that.
  `LastFirst`: under LRU the last block is at the head of its list, so the fast
  hit (`cache.c:841`), which moves nothing, is still a true LRU. The lines
  of a set are a recursive function along its order. `LinesAround`, by induction on
  sequences, says what they become when one block changes and moves to either end:
  the lines before it and those after it stay. With that each operation is shown to
  be one step of `CacheLines` (`IsStep`), from the state that its own lemma describes.

### The prefetchers' tables: any sizes, jitter, instructions and addresses

In `PredictorProofs`: an entry remembers two addresses and a counter; what it promises
concerns the last five accesses. `TrainingInv` says, for each of the states of an
entry, what is true of the latest strides of the instruction that has it; for the
ring, that the two latest addresses are where `detect_stride` looks, at
both ends of the wrap-around of `history_idx`. `StrideAlwaysLearned`,
`StreamAlwaysPrefetched` and `DegreeAlwaysKept` follow. `TrainingAssumption` says
that addresses are natural numbers and that no instruction has the address 0, which
the code takes for an empty entry; no program has code there.

### The branch predictors: any number of bytes, tables, entries and history lengths

`PredictorProofs`:

* `PackedCountersImplement`: the packed table refines `SaturatingCounters`. The
  lemmas on `Field` and `Packed` say that what is written is what is read, that the
  byte stays a byte and that the other three fields keep their value; they are
  four cases of integer division, one per position. `TableTypeCorrect` is the
  invariant they need.
* `TwoOutcomesDecide`: `LearnsInTwo` follows from an invariant on the abstract
  counters: one told twice the same is at the end or next to it on that side.
* `TwoLevelImplements`: the two-level predictor refines the same specification, with
  pairs of table and history for counters. What it needs beside types is that
  the history that chose a counter has not changed between prediction and update.
* `HistoriesAlwaysKept`: a history is the number whose bits are the outcomes told last
  of its entry (`Value`), whatever its length: shifting and cutting a number is
  shifting and cutting its bits, which the lemmas on `Power` and `Value` say by
  induction on their number. The same lemmas show that the perceptron's hash, a
  bitwise exclusive or, is an index into its table.
* `PerceptronInvariance`, `TrainingAlwaysHelps`: the output is a sum, as the code
  computes it; a step changes each of its terms by one towards the outcome or, where
  the weight is saturated, not at all, so by induction (`OutputMoves`) it changes the sum
  by the number of weights not saturated. That the weights and inputs are those of
  the prediction is the invariant on the globals.

### The event queue: any descriptors and times, callbacks nested to any depth

`EventQueueProofs`: the pending and the free list are sequences that the links lead
through (`ListFrom`), and each operation inserts a descriptor into one or takes one
out. The inductive invariant has three parts besides: `CallsOK`, what a call in
progress and its caller hold in their hands (a served event is still at the head
of the pending list when its action runs, and no callback of an earlier call changes
that); `EventsOK`, that identifiers are unique and below `next_ID`; and `AgendaOK`, that
the pending events are those of the agenda. `EventsKept` and `InOrderOfTime` follow.
They have two hypotheses. `DELAY > 0`: callbacks queue later events only; with 0 they
are false, which `EventSameTime.cfg` shows. `MAX_ID < ID_SPACE`: identifiers have not
wrapped around. After 2^32 events they have, the code then gives out 0, which its
caller takes for none, and later identifiers that are still in use, so that
`eventq_remove` may take out the wrong event.

### The out-of-order core: every program, prediction, size, width and latency

The invariant `IInv` (`InvariantKept`) has four parts.

* `MachineOK`: both queues are rings in the order of dispatch; the operations in them
  are what their instructions say (`OperationsOK`); and `Body`, about the operations
  in flight and all that refers to them. `OrderOK` numbers them so that the wrong path
  comes last; `StatusOK` says what each has been through; `ListsOK` that the ready list,
  the one being issued from and the event queue have exactly one valid link to each
  operation whose state asks for it, and no valid link to any other; `DependsOK` that the
  consumers an operation lists are exactly the operands that await it, and that an
  operand is ready when it awaits none; `VectorsOK` that each create vector names the
  last writer at work, the copied one of both paths, the other of the right path only;
  `LoadsOK` that a load in the ready list or beyond was allowed to go. A link is valid as
  long as the tags agree, so a squash, which only counts up tags and drops lists, must
  be shown to leave no valid link to a station that is reused (`Sound`, `Retagging`).
* The number of links in all lists together with the free ones stays the same (`Total`).
* `PipelineOK`: what has been executed and not retired is, in order, what is in the RUU off
  the wrong path (`Line`), and the branch that waits to recover is its last.
* `FetchedOK`: fetch is where the program goes on, or, in speculation mode,
  `recover_PC` is. `LoopOK` relates the stage to what it uses.

`StationProofs` shows of each operation on stations (`Link`, `Broadcast`, `Squash`, `Refreshed`
and those of issue) what it returns and that it keeps `Body`; what the code does in
a walk over a list is an induction on the links walked. `OutOfOrderProofs` has one lemma
for each action. From `IInv` follow `DependenciesAlwaysKept`, `MemoryAlwaysInOrder` and, with
one case per action, `ArchitectureImplemented`, the refinement of `Architecture`.
The consistency checks of the code are its panics. `PanicsOnlyForLinks` says that no step
panics if there are as many free links as one step can take (`LinksSuffice`: one
for each load that `lsq_refresh` queues, or eight for a dispatched access), so every panic
but that for want of links is excluded. `QueuesAlwaysSound` has `[]LinksSuffice` for
hypothesis: how many links are in use depends on how often a station is squashed and
reused while a slow operation still lists it, so no size of the pool is enough for every
program; the code has 4096, and stops with a panic when they are used up. In the
run `OutOfOrder.cfg` the hypothesis holds throughout.

### Only model-checked

* *Liveness*: `RequestsComplete`, `TransactionsEnd`, `Termination`, `AccessReturns`,
  `ServiceReturns`, `ProgramEnds`. TLAPS has no ENABLED and no fairness.
* *`HeadOfLine`*, whose property is refuted.

## 9. Not modelled

* *Several blocks of lab5 in one directory*, which also share its incoming buffer
  of requests. `HeadOfLine` has one block per directory.
* *Latencies, statistics, DMA, functional accesses* of lab5: no state of the
  protocol depends on them. DMA requests have no transition in the directory.
* *Latencies of the caches.* The ready times of blocks, the bus and the latency that
  an access returns.
* *Most lines of `lab3` and `lab4`.* Of the repository's lines the greater part is the
  vendored tool set, in two copies: opcode tables, system call proxies, loaders,
  option and expression parsers, the debugger, the scanner of EIO files and
  statistics. They are data paths, tables and formatting without a state
  machine whose steps could be taken in the wrong order, so a model of them would
  restate them. What does have one, the event queue, the caches and the
  out-of-order core, is modelled from one copy.
* *`sim-bpred.c`'s predictors* (`bpred.c`): a prediction cannot make the core wrong,
  and `OutOfOrder` is checked with every prediction.
* *The instruction list* of `lab3/instr.c`: `InstructionTrace` states what it means.
* *Text.* The table that `lab3` prints, statistics and options.

## 10. Observations

Met while modelling; they contradict no comment, or only one that has no
effect, and no run checks them.

* `MSI-dir.sm:239`: a PUTS that finds no sharer counts as not the last, although the
  comment takes "one sharer or none at all" for the last. It does no harm.
* `cache.c:841`: `last_tagset` is 0 for "none", which is also the value for block 0.
  An access to block 0 just after a miss dereferences `last_blk`, which is NULL.
* `cache.c:1028`: after a hit the block's ready time is read again after the
  prefetcher has run, which may have replaced it; the latency may be another block's.
* `cache.c:547`: the table of the stride prefetcher has the size of whichever cache
  prefetches first, and all caches share it.
* `cache.c:715`: `history_idx` only grows, and is used modulo 8; after 2^31 accesses
  of one instruction it is negative.
* `eventq.c:81`: `eventq_event_count` is compared with the limit and never counted up,
  so `max_events` limits nothing; 88: identifiers wrap around to 0, which stands for
  none.

## 11. Plan

Done, in this order: `MSINetwork`, `Sequencer`, `L1Cache`, `MSIDirectory`,
`MSIProtocol` with `AtomicMemory` and the proofs of each controller; `InstructionTrace`,
`Tomasulo`, `Dataflow` and their first proofs; `TwoBitPredictor`, `TwoLevelPredictor`
with `SaturatingCounters`, their proofs, `Perceptron`; `SimCache`, `Prefetcher`,
`CacheHierarchy` with `CacheLines`, `PrefetchTraining`; `EventQueue`; `Stations`,
`OutOfOrder` with `Architecture`; `HeadOfLine`; then proofs of coherence and of the
refinement of `AtomicMemory` (`MSICoherence`), of the pipeline's timing, of the
prefetchers' tables, and of the caches, one and several; then proofs of the
perceptron and of branch histories, of the event queue, of the out-of-order core
with its refinement of `Architecture`, and of the caches' refinement of `CacheLines`.

Left, most important first:

1. `HeadOfLine` for blocks of one directory, whose requests share its incoming
   buffer: that no circle of stalled messages is possible there.
2. `InstrList` for `lab3/instr.c`, against the function `InstructionTrace` assumes.
3. The ready times of cache blocks, which decide latencies, with the bus of `cache.c`.
