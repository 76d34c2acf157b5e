------------------------------ MODULE Tomasulo ------------------------------
(***************************************************************************)
(* The timing simulation of lab3/tomasulo.c: a four-stage out-of-order     *)
(* pipeline driven cycle by cycle over a recorded instruction trace.       *)
(*                                                                         *)
(* runTomasulo calls the stages from last to first in every cycle; stage   *)
(* is its program counter and each stage function is one action.  A        *)
(* pointer to an instruction is its index, NULL is 0.  The slots of the    *)
(* reservation stations and functional units are not told apart by         *)
(* anything, so each array is the set of the instructions in it; the       *)
(* instruction queue keeps its ring of slots.                              *)
(***************************************************************************)
EXTENDS InstructionTrace

CONSTANTS INSTR_QUEUE_SIZE, RESERV_INT_SIZE, RESERV_FP_SIZE,
          FU_INT_SIZE, FU_FP_SIZE, FU_INT_LATENCY, FU_FP_LATENCY,
          MaxCycle    \* bound: no cycle after this one is simulated

ASSUME SizeAssumption ==
  /\ {INSTR_QUEUE_SIZE, RESERV_INT_SIZE, RESERV_FP_SIZE, FU_INT_SIZE,
      FU_FP_SIZE, FU_INT_LATENCY, FU_FP_LATENCY} \subseteq Nat \ {0}
  /\ MaxCycle \in Nat

VARIABLES
  instr_queue, instr_queue_size, ifq_head_idx, ifq_tail_idx,
  reservINT, reservFP,    \* the instructions in the reservation stations
  fuINT, fuFP,            \* the instructions in the functional units
  commonDataBus,
  map_table,              \* the instruction that will write each register
  fetch_index,
  Q,                      \* the instructions each instruction waits for
  tom_dispatch_cycle, tom_issue_cycle, tom_execute_cycle, tom_cdb_cycle,
  cycle,
  stage                   \* the stage runTomasulo calls next

queueVars == <<instr_queue, instr_queue_size, ifq_head_idx, ifq_tail_idx>>
stationVars == <<reservINT, reservFP>>
unitVars == <<fuINT, fuFP>>

vars == <<trace, queueVars, stationVars, unitVars, commonDataBus, map_table,
          fetch_index, Q, tom_dispatch_cycle, tom_issue_cycle,
          tom_execute_cycle, tom_cdb_cycle, cycle, stage>>

NULL == 0
Pointer == Index \cup {NULL}
Slot == 0 .. INSTR_QUEUE_SIZE - 1
Stage == {"retire", "broadcast", "execute", "issue", "fetch", "check", "done"}

TypeOK ==
  /\ trace \in [Index -> Instruction]
  /\ instr_queue \in [Slot -> Pointer]
  /\ instr_queue_size \in 0 .. INSTR_QUEUE_SIZE
  /\ ifq_head_idx \in Slot /\ ifq_tail_idx \in Slot
  /\ reservINT \in SUBSET Index /\ reservFP \in SUBSET Index
  /\ fuINT \in SUBSET Index /\ fuFP \in SUBSET Index
  /\ commonDataBus \in Pointer
  /\ map_table \in [Reg -> Pointer]
  /\ fetch_index \in 0 .. sim_num_insn + 1
  /\ Q \in [Index -> SUBSET Index]
  /\ tom_dispatch_cycle \in [Index -> Nat] /\ tom_issue_cycle \in [Index -> Nat]
  /\ tom_execute_cycle \in [Index -> Nat] /\ tom_cdb_cycle \in [Index -> Nat]
  /\ cycle \in Nat \ {0}
  /\ stage \in Stage

Init ==
  /\ trace \in [Index -> Instruction]
  /\ instr_queue = [s \in Slot |-> NULL]
  /\ instr_queue_size = 0 /\ ifq_head_idx = 0 /\ ifq_tail_idx = 0
  /\ reservINT = {} /\ reservFP = {} /\ fuINT = {} /\ fuFP = {}
  /\ commonDataBus = NULL
  /\ map_table = [r \in Reg |-> NULL]
  /\ fetch_index = 0
  /\ Q = [i \in Index |-> {}]
  /\ tom_dispatch_cycle = [i \in Index |-> 0]
  /\ tom_issue_cycle = [i \in Index |-> 0]
  /\ tom_execute_cycle = [i \in Index |-> 0]
  /\ tom_cdb_cycle = [i \in Index |-> 0]
  /\ cycle = 1
  /\ stage = "retire"

\* The n oldest instructions of S.
Oldest(S, n) == {i \in S : Cardinality({j \in S : j < i}) < n}

-----------------------------------------------------------------------------
(* The instruction queue *)

\* Mutant: the tail index does not wrap around.
ifq_push_NoWrap(i) ==
  /\ instr_queue' = [instr_queue EXCEPT ![ifq_tail_idx] = i]
  /\ ifq_tail_idx' = ifq_tail_idx + 1
  /\ instr_queue_size' = instr_queue_size + 1
  /\ UNCHANGED ifq_head_idx

ifq_push(i) ==
  /\ instr_queue' = [instr_queue EXCEPT ![ifq_tail_idx] = i]
  /\ ifq_tail_idx' = (ifq_tail_idx + 1) % INSTR_QUEUE_SIZE
  /\ instr_queue_size' = instr_queue_size + 1
  /\ UNCHANGED ifq_head_idx

ifq_pop ==
  /\ ifq_head_idx' = (ifq_head_idx + 1) % INSTR_QUEUE_SIZE
  /\ instr_queue_size' = instr_queue_size - 1
  /\ UNCHANGED <<instr_queue, ifq_tail_idx>>

ifq_head ==
  IF instr_queue_size # 0 THEN instr_queue[ifq_head_idx] ELSE NULL

ifq_tail ==
  IF instr_queue_size # 0
    THEN instr_queue[(ifq_tail_idx + INSTR_QUEUE_SIZE - 1) % INSTR_QUEUE_SIZE]
    ELSE NULL

-----------------------------------------------------------------------------
(* The map table, the stations and the units *)

\* Mutant: the map table is updated first.
update_q_from_map_table_Late(i) ==
  Q' = [Q EXCEPT ![i] = {IF r \in trace[i].r_out THEN i ELSE map_table[r] :
                           r \in trace[i].r_in} \ {NULL}]

update_q_from_map_table(i) ==
  Q' = [Q EXCEPT ![i] = {map_table[r] : r \in trace[i].r_in} \ {NULL}]

\* Mutant: a register that has a writer keeps it.
update_map_table_KeepOlder(i) ==
  map_table' = [r \in Reg |-> IF r \in trace[i].r_out /\ map_table[r] = NULL
                                THEN i ELSE map_table[r]]

update_map_table(i) ==
  map_table' = [r \in Reg |-> IF r \in trace[i].r_out THEN i ELSE map_table[r]]

\* Mutant: the entry is cleared whoever is its writer by now.
clear_map_table_entry_Always(i) ==
  map_table' = [r \in Reg |-> IF r \in trace[i].r_out THEN NULL
                                                      ELSE map_table[r]]

clear_map_table_entry(i) ==
  map_table' = [r \in Reg |-> IF r \in trace[i].r_out /\ map_table[r] = i
                                THEN NULL ELSE map_table[r]]

\* Mutant: only the units are given back.
free_rs_and_fu_UnitOnly(S) ==
  /\ fuINT' = fuINT \ S /\ fuFP' = fuFP \ S
  /\ UNCHANGED stationVars

free_rs_and_fu(S) ==
  /\ reservINT' = reservINT \ S /\ fuINT' = fuINT \ S
  /\ reservFP' = reservFP \ S /\ fuFP' = fuFP \ S

Latency(i) == IF USES_INT_FU(i) THEN FU_INT_LATENCY ELSE FU_FP_LATENCY

is_execute_complete(i) == cycle - tom_execute_cycle[i] >= Latency(i)

-----------------------------------------------------------------------------
(* The stages, in the order in which a cycle runs them *)

\* The simulation is cut off at MaxCycle, which it must not reach.
CDB_To_retire ==
  /\ stage = "retire" /\ cycle < MaxCycle
  /\ stage' = "broadcast"
  /\ \/ commonDataBus # NULL /\ clear_map_table_entry(commonDataBus)
     \/ commonDataBus = NULL /\ UNCHANGED map_table
  /\ commonDataBus' = NULL
  /\ UNCHANGED <<trace, queueVars, stationVars, unitVars, fetch_index, Q,
                 tom_dispatch_cycle, tom_issue_cycle, tom_execute_cycle,
                 tom_cdb_cycle, cycle>>

Completed == {i \in fuINT \cup fuFP : is_execute_complete(i)}

\* Mutant: any completed instruction may get the bus.
oldest_completed_instr_Any == {i \in Completed : WRITES_CDB(i)}

oldest_completed_instr == Oldest({i \in Completed : WRITES_CDB(i)}, 1)

\* Completed stores leave; of the others, the oldest gets the bus.
execute_To_CDB ==
  /\ stage = "broadcast"
  /\ stage' = "execute"
  /\ LET stores == {i \in Completed : ~WRITES_CDB(i)} IN
     \/ \E i \in oldest_completed_instr :
          /\ commonDataBus = NULL
          /\ tom_cdb_cycle' = [tom_cdb_cycle EXCEPT ![i] = cycle]
          /\ commonDataBus' = i
          /\ free_rs_and_fu(stores \cup {i})
     \/ /\ commonDataBus # NULL \/ oldest_completed_instr = {}
        /\ free_rs_and_fu(stores)
        /\ UNCHANGED <<commonDataBus, tom_cdb_cycle>>
  /\ UNCHANGED <<trace, queueVars, map_table, fetch_index, Q,
                 tom_dispatch_cycle, tom_issue_cycle, tom_execute_cycle,
                 cycle>>

\* Mutant: a result broadcast in this very cycle can be used.
hasRAWHazard_SameCycle(i) ==
  \E p \in Q[i] : tom_cdb_cycle[p] = 0 \/ tom_cdb_cycle[p] > cycle

hasRAWHazard(i) ==
  \E p \in Q[i] : tom_cdb_cycle[p] = 0 \/ tom_cdb_cycle[p] >= cycle

\* The instructions of a station that may start to execute.
Ready(rs) ==
  {i \in rs : /\ tom_issue_cycle[i] \notin {0, cycle}
              /\ tom_execute_cycle[i] = 0
              /\ ~hasRAWHazard(i)}

\* Every free unit takes the oldest ready instruction left.
Starting(rs, units, size) == Oldest(Ready(rs), size - Cardinality(units))

issue_To_execute ==
  /\ stage = "execute"
  /\ stage' = "issue"
  /\ LET int == Starting(reservINT, fuINT, FU_INT_SIZE)
         fp  == Starting(reservFP, fuFP, FU_FP_SIZE)
     IN /\ fuINT' = fuINT \cup int
        /\ fuFP' = fuFP \cup fp
        /\ tom_execute_cycle' = [i \in Index |->
             IF i \in int \cup fp THEN cycle ELSE tom_execute_cycle[i]]
  /\ UNCHANGED <<trace, queueVars, stationVars, commonDataBus, map_table,
                 fetch_index, Q, tom_dispatch_cycle, tom_issue_cycle,
                 tom_cdb_cycle, cycle>>

reservINT_insert(i) ==
  /\ USES_INT_FU(i)
  /\ Cardinality(reservINT) < RESERV_INT_SIZE
  /\ reservINT' = reservINT \cup {i}
  /\ UNCHANGED reservFP

reservFP_insert(i) ==
  /\ USES_FP_FU(i)
  /\ Cardinality(reservFP) < RESERV_FP_SIZE
  /\ reservFP' = reservFP \cup {i}
  /\ UNCHANGED reservINT

StationsFull(i) ==
  \/ USES_INT_FU(i) /\ Cardinality(reservINT) >= RESERV_INT_SIZE
  \/ USES_FP_FU(i) /\ Cardinality(reservFP) >= RESERV_FP_SIZE

\* Only the head of the queue may leave it: a branch does so at once, another
\* instruction when a station of its kind is free.
dispatch_To_issue ==
  /\ stage = "issue"
  /\ stage' = "fetch"
  /\ LET i == ifq_head IN
     \/ /\ i # NULL /\ Executes(i)
        /\ reservINT_insert(i) \/ reservFP_insert(i)
        /\ update_q_from_map_table(i)
        /\ update_map_table(i)
        /\ tom_issue_cycle' = [tom_issue_cycle EXCEPT ![i] = cycle]
        /\ ifq_pop
     \/ /\ i # NULL /\ ~Executes(i)
        /\ ifq_pop
        /\ UNCHANGED <<stationVars, map_table, Q, tom_issue_cycle>>
     \/ /\ \/ i = NULL
           \/ i # NULL /\ StationsFull(i)
        /\ UNCHANGED <<queueVars, stationVars, map_table, Q, tom_issue_cycle>>
  /\ UNCHANGED <<trace, unitVars, commonDataBus, fetch_index,
                 tom_dispatch_cycle, tom_execute_cycle, tom_cdb_cycle, cycle>>

\* Mutant: traps are fetched like any other instruction.
Unfetched_TrapsToo == {i \in Index : i >= fetch_index}

\* The instructions fetch has not come to and will not skip.
Unfetched == {i \in Index : i >= fetch_index /\ ~IS_TRAP(i)}

fetch ==
  \/ /\ instr_queue_size < INSTR_QUEUE_SIZE
     /\ \E i \in Oldest(Unfetched, 1) : ifq_push(i) /\ fetch_index' = i + 1
  \/ /\ instr_queue_size < INSTR_QUEUE_SIZE
     /\ Unfetched = {}
     /\ fetch_index' = sim_num_insn + 1
     /\ UNCHANGED queueVars
  \/ /\ instr_queue_size >= INSTR_QUEUE_SIZE
     /\ UNCHANGED <<queueVars, fetch_index>>

fetch_To_dispatch ==
  /\ stage = "fetch"
  /\ stage' = "check"
  /\ fetch
  /\ tom_dispatch_cycle' = [i \in Index |->
       IF i = ifq_tail' /\ tom_dispatch_cycle[i] = 0 THEN cycle
                                                     ELSE tom_dispatch_cycle[i]]
  /\ UNCHANGED <<trace, stationVars, unitVars, commonDataBus, map_table, Q,
                 tom_issue_cycle, tom_execute_cycle, tom_cdb_cycle, cycle>>

\* Mutant: what is still in the queue is forgotten.
is_simulation_done_QueueIgnored ==
  /\ fetch_index >= sim_num_insn
  /\ reservINT = {} /\ reservFP = {} /\ fuINT = {} /\ fuFP = {}
  /\ commonDataBus = NULL
  /\ \A r \in Reg : map_table[r] = NULL

is_simulation_done ==
  /\ fetch_index >= sim_num_insn
  /\ instr_queue_size = 0
  /\ reservINT = {} /\ reservFP = {} /\ fuINT = {} /\ fuFP = {}
  /\ commonDataBus = NULL
  /\ \A r \in Reg : map_table[r] = NULL

EndOfCycle ==
  /\ stage = "check"
  /\ cycle' = cycle + 1
  /\ stage' = IF is_simulation_done THEN "done" ELSE "retire"
  /\ UNCHANGED <<trace, queueVars, stationVars, unitVars, commonDataBus,
                 map_table, fetch_index, Q, tom_dispatch_cycle,
                 tom_issue_cycle, tom_execute_cycle, tom_cdb_cycle>>

\* runTomasulo has returned.
Finished == stage = "done" /\ UNCHANGED vars

runTomasulo ==
  \/ CDB_To_retire \/ execute_To_CDB \/ issue_To_execute \/ dispatch_To_issue
  \/ fetch_To_dispatch \/ EndOfCycle

Next == runTomasulo \/ Finished

Spec == Init /\ [][Next]_vars

\* The simulation is a sequential program: it goes on while it can.
FairSpec == Spec /\ WF_vars(runTomasulo)

-----------------------------------------------------------------------------
(* Properties *)

\* The k-th instruction from the head of the queue.
QueueAt(k) == instr_queue[(ifq_head_idx + k) % INSTR_QUEUE_SIZE]
QueueIndex == 0 .. instr_queue_size - 1

\* The ring of slots is a FIFO queue of instructions in program order: every
\* instruction that fetch has passed and that is to be issued is in it until it
\* is issued, none twice, however often the indices have wrapped around.
QueueInOrder ==
  /\ ifq_tail_idx = (ifq_head_idx + instr_queue_size) % INSTR_QUEUE_SIZE
  /\ \A k \in QueueIndex :
       /\ QueueAt(k) \in Index
       /\ QueueAt(k) < fetch_index
       /\ tom_issue_cycle[QueueAt(k)] = 0
       /\ \A l \in QueueIndex : l < k => QueueAt(l) < QueueAt(k)
  /\ \A i \in Index :
       (Executes(i) /\ i < fetch_index /\ tom_issue_cycle[i] = 0)
         => \E k \in QueueIndex : QueueAt(k) = i

\* A reservation station is held from the issue of an instruction to its
\* broadcast, and no longer, a functional unit from the start of its execution:
\* the stations and units agree with the cycles recorded for each instruction.
StationsMatch ==
  /\ reservINT \cup reservFP \subseteq {i \in Index : tom_issue_cycle[i] # 0}
  /\ \A i \in Index : WRITES_CDB(i) /\ tom_issue_cycle[i] # 0 =>
       (i \in reservINT \cup reservFP <=> tom_cdb_cycle[i] = 0)
  /\ fuINT = {i \in reservINT : tom_execute_cycle[i] # 0}
  /\ fuFP = {i \in reservFP : tom_execute_cycle[i] # 0}
  /\ Cardinality(fuINT) <= FU_INT_SIZE /\ Cardinality(fuFP) <= FU_FP_SIZE

Retired(i) == tom_cdb_cycle[i] # 0 /\ commonDataBus # i

\* w writes r, and no later instruction that writes it has been issued.
LastIssuedWriter(w, r) ==
  /\ tom_issue_cycle[w] # 0 /\ r \in trace[w].r_out
  /\ \A v \in Index : (tom_issue_cycle[v] # 0 /\ r \in trace[v].r_out) => v <= w

\* The map table names, for every register, the last instruction issued that
\* writes it, until that very instruction retires: a retiring instruction does
\* not clear the entry of a later writer, and no entry outlives its writer.
MapTableCurrent ==
  \A r \in Reg : \A w \in Index :
    map_table[r] = w <=> LastIssuedWriter(w, r) /\ ~Retired(w)

\* What an issued instruction waits for are the instructions that produce its
\* inputs by program order; one it does not wait for had broadcast its result
\* in an earlier cycle than that of the issue.
DependenciesKept ==
  \A i \in Index : tom_issue_cycle[i] # 0 =>
    /\ Q[i] \subseteq Producers(i)
    /\ \A p \in Producers(i) \ Q[i] :
         tom_cdb_cycle[p] # 0 /\ tom_cdb_cycle[p] < tom_issue_cycle[i]

\* No instruction starts to execute in or before the cycle in which one that
\* produces one of its inputs broadcasts it (issue_To_execute: "all RAW
\* dependences need to have been resolved").
RAWRespected ==
  \A i \in Index : tom_execute_cycle[i] # 0 =>
    \A p \in Producers(i) :
      tom_cdb_cycle[p] # 0 /\ tom_cdb_cycle[p] < tom_execute_cycle[i]

\* Instructions are issued in program order: what has been issued is behind the
\* queue, and only what can execute is issued.
IssuedInOrder ==
  \A i \in Index : tom_issue_cycle[i] # 0 =>
    /\ Executes(i) /\ i < fetch_index
    /\ \A k \in QueueIndex : i < QueueAt(k)

\* What is in a station has been issued and has not broadcast, what is in a unit
\* is in a station, and what is on the bus has broadcast.
BroadcastOnce ==
  /\ \A i \in reservINT \cup reservFP :
       tom_issue_cycle[i] # 0 /\ tom_cdb_cycle[i] = 0
  /\ fuINT \cup fuFP \subseteq reservINT \cup reservFP
  /\ \A i \in Index : tom_cdb_cycle[i] # 0 => tom_issue_cycle[i] # 0
  /\ commonDataBus # NULL => tom_cdb_cycle[commonDataBus] # 0

\* A result broadcast in this cycle is on the bus, from execute_To_CDB to the
\* end of the cycle; no recorded cycle is in the future.
BusThisCycle ==
  /\ stage = "broadcast" => commonDataBus = NULL
  /\ \A i \in Index :
       /\ tom_issue_cycle[i] <= cycle /\ tom_cdb_cycle[i] <= cycle
       /\ tom_cdb_cycle[i] = cycle
            => commonDataBus = i /\ stage \notin {"retire", "broadcast"}

\* The inductive invariant behind RAWRespected.
PipelineInv ==
  /\ TypeOK
  /\ QueueInOrder
  /\ IssuedInOrder
  /\ BroadcastOnce
  /\ BusThisCycle
  /\ MapTableCurrent
  /\ DependenciesKept
  /\ RAWRespected

\* Every instruction spends a cycle at least in each stage, and its latency in
\* execution; instructions are dispatched and issued in program order, one per
\* cycle.
StageOrder ==
  \A i \in Index :
    /\ tom_issue_cycle[i] # 0 => tom_dispatch_cycle[i] \in 1 .. tom_issue_cycle[i] - 1
    /\ tom_execute_cycle[i] # 0 => tom_issue_cycle[i] \in 1 .. tom_execute_cycle[i] - 1
    /\ tom_cdb_cycle[i] # 0 =>
         /\ tom_execute_cycle[i] # 0
         /\ tom_cdb_cycle[i] >= tom_execute_cycle[i] + Latency(i)
    /\ \A j \in Index : j < i =>
         /\ tom_dispatch_cycle[i] # 0 /\ ~IS_TRAP(j)
              => tom_dispatch_cycle[j] \in 1 .. tom_dispatch_cycle[i] - 1
         /\ tom_issue_cycle[i] # 0 /\ Executes(j)
              => tom_issue_cycle[j] \in 1 .. tom_issue_cycle[i] - 1

\* The bus carries one result per cycle, and an instruction that gets it never
\* does so while an older one is complete and waiting for it.
OldestBroadcasts ==
  \A i, j \in Index : (tom_cdb_cycle[i] # 0 /\ j < i) =>
    /\ tom_cdb_cycle[j] # tom_cdb_cycle[i]
    /\ (WRITES_CDB(j) /\ tom_execute_cycle[j] # 0
          /\ tom_execute_cycle[j] + Latency(j) <= tom_cdb_cycle[i])
         => tom_cdb_cycle[j] \in 1 .. tom_cdb_cycle[i]

\* "We prioritize old instructions (in program order) over new ones": none
\* starts to execute before an older one of its kind that could start too.
OldestExecutes ==
  \A i, j \in Index :
    ( /\ j < i /\ tom_execute_cycle[i] # 0
      /\ (USES_INT_FU(i) /\ USES_INT_FU(j)) \/ (USES_FP_FU(i) /\ USES_FP_FU(j))
      /\ \A p \in Producers(j) : /\ tom_cdb_cycle[p] # 0
                                 /\ tom_cdb_cycle[p] < tom_execute_cycle[i] )
    => tom_execute_cycle[j] \in 1 .. tom_execute_cycle[i]

\* The timing table is one that the pipeline may print.
StagesInOrder == StageOrder /\ OldestBroadcasts /\ OldestExecutes

\* When the simulation is found to be done, the trace has been simulated to its
\* last instruction, although is_simulation_done does not wait for fetch_index
\* to pass it: all are through the stages they have, only traps are skipped.
AllSimulated ==
  stage = "done" => \A i \in Index :
    /\ IS_TRAP(i) \/ tom_dispatch_cycle[i] # 0
    /\ Executes(i) => tom_execute_cycle[i] # 0
    /\ WRITES_CDB(i) => tom_cdb_cycle[i] # 0

\* The instructions that have been dispatched are those fetch has passed and not
\* skipped, no trap gets into the queue, and an instruction in a unit has
\* started to execute.
FlowInv ==
  /\ \A i \in Index : tom_dispatch_cycle[i] # 0 <=> i < fetch_index /\ ~IS_TRAP(i)
  /\ \A k \in QueueIndex : ~IS_TRAP(QueueAt(k))
  /\ \A i \in fuINT \cup fuFP : tom_execute_cycle[i] # 0

\* The stations hold instructions of their kind, all that have been issued and
\* have not started to execute among them.
StationsByKind ==
  /\ \A i \in reservINT : USES_INT_FU(i)
  /\ \A i \in reservFP : USES_FP_FU(i)
  /\ \A i \in Index : tom_issue_cycle[i] # 0 /\ tom_execute_cycle[i] = 0
                       => i \in reservINT \cup reservFP

\* No recorded cycle is in the future, only what the stages of this cycle have
\* done bears its number, and fetch leaves the queue empty only behind the last
\* instruction.
CyclesPassed ==
  /\ \A i \in Index :
       /\ tom_dispatch_cycle[i] <= cycle /\ tom_execute_cycle[i] <= cycle
       /\ tom_dispatch_cycle[i] = cycle => stage = "check"
       /\ tom_issue_cycle[i] = cycle => stage \in {"fetch", "check"}
  /\ (stage = "check" /\ instr_queue_size = 0) => fetch_index > sim_num_insn

\* The inductive invariant behind the timing table, on top of PipelineInv.
TimingInv ==
  /\ FlowInv
  /\ StationsByKind
  /\ CyclesPassed
  /\ StationsMatch
  /\ StagesInOrder
  /\ AllSimulated

InQueue(i) == \E k \in QueueIndex : QueueAt(k) = i

\* How far instruction i has got, by where it is.
StatusOf(i) ==
  IF tom_dispatch_cycle[i] = 0 THEN "waiting"
  ELSE IF InQueue(i) THEN "fetched"
  ELSE IF i \in fuINT \cup fuFP THEN "executing"
  ELSE IF i \in reservINT \cup reservFP THEN "issued"
  ELSE "done"

Flow == INSTANCE Dataflow WITH status <- [i \in Index |-> StatusOf(i)]
\* The pipeline implements the data flow of the program: whatever the stations,
\* units, queue and bus delay, and whatever the map table renames, each step
\* fetches, issues, executes and finishes what Dataflow allows.
ImplementsDataflow == Flow!Spec

\* Every simulation comes to its end: the pipeline does not deadlock on full
\* stations, busy units or a result that nobody broadcasts.
Termination == <>(stage = "done")
=============================================================================
