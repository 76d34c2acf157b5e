--------------------------- MODULE TomasuloProofs ---------------------------
(***************************************************************************)
(* Proofs about the pipeline of Tomasulo, for every trace of every length, *)
(* and all sizes and latencies.  PipelineInv is inductive, so instructions *)
(* never use a result before its broadcast.  On top of it, FlowInv says    *)
(* what has been fetched, and TimingInv that the table of cycles is one    *)
(* the pipeline may print: stations and units are held as long as it says, *)
(* stages and instructions follow each other in order, older instructions  *)
(* go first, and none is left out.  At last the pipeline is shown to       *)
(* implement Dataflow.                                                     *)
(***************************************************************************)
EXTENDS Tomasulo, FiniteSetTheorems, TLAPS

-----------------------------------------------------------------------------
(* The ring of slots *)

LEMMA QueueSize == INSTR_QUEUE_SIZE \in Nat \ {0}
BY SizeAssumption

\* Indices wrap around once.
LEMMA Wrap ==
  ASSUME NEW n \in Nat \ {0}, NEW x \in 0 .. n + n - 1
  PROVE  x % n = IF x < n THEN x ELSE x - n
<1>1. CASE x < n
  BY <1>1, SMT
<1>2. CASE x >= n
  BY <1>2, SMT
<1>. QED  BY <1>1, <1>2

\* The slot behind the last instruction of a ring is none of theirs.
LEMMA SlotsDiffer ==
  ASSUME NEW n \in Nat \ {0}, NEW a \in 0 .. n - 1,
         NEW l \in 0 .. n - 1, NEW k \in 0 .. l - 1
  PROVE  (a + k) % n # (a + l) % n
<1>1. PICK x \in 0 .. n + n - 1 : x = a + k
  OBVIOUS
<1>2. PICK y \in 0 .. n + n - 1 : y = a + l
  OBVIOUS
<1>3. /\ x % n = IF x < n THEN x ELSE x - n
      /\ y % n = IF y < n THEN y ELSE y - n
  BY Wrap
<1>. QED  BY <1>1, <1>2, <1>3

\* The slots counted from the next one are the same slots.
LEMMA NextSlot ==
  ASSUME NEW n \in Nat \ {0}, NEW a \in 0 .. n - 1
  PROVE  /\ (a + 1) % n \in 0 .. n - 1
         /\ \A k \in 0 .. n - 1 : (((a + 1) % n) + k) % n = (a + (k + 1)) % n
<1>1. PICK x \in 0 .. n + n - 1 : x = a + 1
  OBVIOUS
<1>2. PICK next \in 0 .. n - 1 : next = IF x < n THEN x ELSE x - n
  <2>1. CASE x < n
    BY <2>1, x \in 0 .. n - 1
  <2>2. CASE x >= n
    BY <2>2, x - n \in 0 .. n - 1
  <2>. QED  BY <2>1, <2>2
<1>3. x % n = next
  BY <1>2, Wrap
<1>4. ASSUME NEW k \in 0 .. n - 1
      PROVE  (next + k) % n = (a + (k + 1)) % n
  <2>1. PICK y \in 0 .. n + n - 1 : y = next + k
    OBVIOUS
  <2>2. PICK z \in 0 .. n + n - 1 : z = a + (k + 1)
    OBVIOUS
  <2>3. y % n = z % n
    <3>1. /\ y % n = IF y < n THEN y ELSE y - n
          /\ z % n = IF z < n THEN z ELSE z - n
      BY Wrap
    <3>. QED  BY <1>1, <1>2, <2>1, <2>2, <3>1
  <2>. QED  BY <2>1, <2>2, <2>3
<1>. QED  BY <1>1, <1>3, <1>4

\* The tail moves on with the size.
LEMMA TailAfterNext ==
  ASSUME NEW n \in Nat \ {0}, NEW a \in 0 .. n - 1, NEW size \in 0 .. n - 1
  PROVE  (((a + size) % n) + 1) % n = (a + (size + 1)) % n
<1>1. PICK x \in 0 .. n + n - 1 : x = a + size
  OBVIOUS
<1>2. PICK tail \in 0 .. n - 1 : tail = IF x < n THEN x ELSE x - n
  <2>1. CASE x < n
    BY <2>1, x \in 0 .. n - 1
  <2>2. CASE x >= n
    BY <2>2, x - n \in 0 .. n - 1
  <2>. QED  BY <2>1, <2>2
<1>3. x % n = tail
  BY <1>2, Wrap
<1>4. PICK y \in 0 .. n + n - 1 : y = tail + 1
  OBVIOUS
<1>5. PICK z \in 0 .. n + n - 1 : z = a + (size + 1)
  OBVIOUS
<1>6. y % n = z % n
  <2>1. /\ y % n = IF y < n THEN y ELSE y - n
        /\ z % n = IF z < n THEN z ELSE z - n
    BY Wrap
  <2>. QED  BY <1>1, <1>2, <1>4, <1>5, <2>1
<1>. QED  BY <1>1, <1>3, <1>4, <1>5, <1>6

-----------------------------------------------------------------------------
(* The oldest instructions *)

\* Nothing in S is older than its oldest member.
LEMMA OldestOne ==
  ASSUME NEW S \in SUBSET Index, NEW i \in Oldest(S, 1)
  PROVE  i \in S /\ \A j \in S : i <= j
<1>. DEFINE older == {j \in S : j < i}
<1>1. Cardinality(older) < 1
  BY DEF Oldest
<1>2. IsFiniteSet(older)
  <2>1. IsFiniteSet(Index)
    BY NumInsnAssumption, FS_Interval DEF Index
  <2>. QED  BY <2>1, FS_Subset
<1>3. older = {}
  BY <1>1, <1>2, FS_CardinalityType, FS_EmptySet
<1>. QED  BY <1>3 DEF Oldest, Index

-----------------------------------------------------------------------------
(* What a step that leaves certain variables alone preserves *)

\* The data flow of program order is a matter of the trace alone.
LEMMA SameTrace ==
  ASSUME UNCHANGED trace
  PROVE  /\ \A i : /\ Executes(i)' <=> Executes(i)
                   /\ Producers(i)' = Producers(i)
                   /\ IS_TRAP(i)' <=> IS_TRAP(i)
                   /\ WRITES_CDB(i)' <=> WRITES_CDB(i)
BY DEF Executes, Producers, LastWriter, USES_INT_FU, USES_FP_FU, IS_TRAP, WRITES_CDB

LEMMA QueueFrame ==
  ASSUME UNCHANGED <<trace, queueVars, fetch_index, tom_issue_cycle>>
  PROVE  /\ QueueInOrder => QueueInOrder'
         /\ IssuedInOrder => IssuedInOrder'
BY SameTrace DEF QueueInOrder, IssuedInOrder, QueueAt, QueueIndex, queueVars

LEMMA MapFrame ==
  ASSUME UNCHANGED <<trace, map_table, commonDataBus, tom_issue_cycle, tom_cdb_cycle>>
  PROVE  MapTableCurrent => MapTableCurrent'
BY DEF MapTableCurrent, LastIssuedWriter, Retired

\* Broadcasts are for good.
LEMMA DependenciesFrame ==
  ASSUME UNCHANGED <<trace, Q, tom_issue_cycle>>,
         \A i \in Index : tom_cdb_cycle[i] # 0 => tom_cdb_cycle'[i] = tom_cdb_cycle[i]
  PROVE  DependenciesKept => DependenciesKept'
BY SameTrace DEF DependenciesKept, Producers

LEMMA RAWFrame ==
  ASSUME UNCHANGED <<trace, tom_execute_cycle>>,
         \A i \in Index : tom_cdb_cycle[i] # 0 => tom_cdb_cycle'[i] = tom_cdb_cycle[i]
  PROVE  RAWRespected => RAWRespected'
BY SameTrace DEF RAWRespected, Producers

-----------------------------------------------------------------------------
(* The invariant holds at first *)

LEMMA InitInv == Init => PipelineInv
<1>. SUFFICES ASSUME Init PROVE PipelineInv
  OBVIOUS
<1>. USE DEF Init
<1>1. TypeOK
  BY QueueSize, NumInsnAssumption
  DEF TypeOK, Slot, Pointer, NULL, Stage
<1>2. QueueInOrder
  <2>1. (0 + 0) % INSTR_QUEUE_SIZE = 0
    BY QueueSize, 0 \in 0 .. INSTR_QUEUE_SIZE + INSTR_QUEUE_SIZE - 1, Wrap
  <2>. QED  BY <2>1 DEF QueueInOrder, QueueIndex, Index
<1>3. IssuedInOrder
  BY DEF IssuedInOrder
<1>4. BroadcastOnce
  BY DEF BroadcastOnce, NULL
<1>5. BusThisCycle
  BY DEF BusThisCycle
<1>6. MapTableCurrent
  BY DEF MapTableCurrent, LastIssuedWriter, NULL, Index
<1>7. DependenciesKept /\ RAWRespected
  BY DEF DependenciesKept, RAWRespected
<1>. QED  BY <1>1, <1>2, <1>3, <1>4, <1>5, <1>6, <1>7 DEF PipelineInv

-----------------------------------------------------------------------------
(* The stages preserve it *)

LEMMA RetirePreserves ==
  ASSUME PipelineInv, CDB_To_retire
  PROVE  PipelineInv'
<1>. USE DEF PipelineInv
<1>1. TypeOK'
  BY DEF TypeOK, CDB_To_retire, clear_map_table_entry, Pointer, NULL, Stage,
         queueVars, stationVars, unitVars
<1>2. QueueInOrder' /\ IssuedInOrder'
  BY QueueFrame DEF CDB_To_retire
<1>3. BroadcastOnce'
  BY DEF BroadcastOnce, CDB_To_retire, stationVars, unitVars
<1>4. BusThisCycle'
  BY DEF BusThisCycle, CDB_To_retire
<1>5. MapTableCurrent'
  <2>. SUFFICES ASSUME NEW r \in Reg, NEW w \in Index
                PROVE  map_table'[r] = w <=> (LastIssuedWriter(w, r) /\ ~Retired(w))'
    BY DEF MapTableCurrent
  <2>1. map_table[r] = w <=> LastIssuedWriter(w, r) /\ ~Retired(w)
    BY DEF MapTableCurrent
  <2>2. LastIssuedWriter(w, r)' <=> LastIssuedWriter(w, r)
    BY DEF LastIssuedWriter, CDB_To_retire
  <2>3. w # NULL
    BY DEF Index, NULL
  <2>4. CASE commonDataBus = NULL
    <3>1. Retired(w)' <=> Retired(w)
      BY <2>3, <2>4 DEF Retired, CDB_To_retire
    <3>. QED  BY <2>1, <2>2, <2>4, <3>1 DEF CDB_To_retire
  <2>5. CASE commonDataBus = w
    <3>1. Retired(w)'
      BY <2>3, <2>5 DEF Retired, CDB_To_retire, BroadcastOnce
    <3>2. map_table'[r] # w
      <4>1. map_table[r] = w => r \in trace[w].r_out
        BY <2>1 DEF LastIssuedWriter
      <4>. QED  BY <4>1, <2>3, <2>5 DEF CDB_To_retire, clear_map_table_entry, TypeOK
    <3>. QED  BY <3>1, <3>2
  <2>6. CASE commonDataBus \notin {NULL, w}
    <3>1. Retired(w)' <=> Retired(w)
      BY <2>3, <2>6 DEF Retired, CDB_To_retire
    <3>2. map_table'[r] = w <=> map_table[r] = w
      BY <2>3, <2>6 DEF CDB_To_retire, clear_map_table_entry, TypeOK
    <3>. QED  BY <2>1, <2>2, <3>1, <3>2
  <2>. QED  BY <2>4, <2>5, <2>6
<1>6. DependenciesKept' /\ RAWRespected'
  BY DependenciesFrame, RAWFrame DEF CDB_To_retire
<1>. QED  BY <1>1, <1>2, <1>3, <1>4, <1>5, <1>6

LEMMA BroadcastPreserves ==
  ASSUME PipelineInv, execute_To_CDB
  PROVE  PipelineInv'
<1>. USE DEF PipelineInv
<1>. DEFINE Sent(i) == /\ tom_cdb_cycle' = [tom_cdb_cycle EXCEPT ![i] = cycle]
                       /\ commonDataBus' = i
            Leave(S) == S \subseteq Completed /\ free_rs_and_fu(S)
<1>1. /\ UNCHANGED <<trace, queueVars, map_table, fetch_index, Q, tom_dispatch_cycle,
                     tom_issue_cycle, tom_execute_cycle, cycle>>
      /\ stage = "broadcast" /\ stage' = "execute" /\ commonDataBus = NULL
  BY DEF execute_To_CDB, BusThisCycle
<1>2. \/ \E S : Leave(S) /\ UNCHANGED <<commonDataBus, tom_cdb_cycle>>
      \/ \E i \in Completed : \E S : Leave(S) /\ i \in S /\ Sent(i)
  <2>1. oldest_completed_instr \subseteq Completed
    BY DEF oldest_completed_instr, Oldest
  <2>. DEFINE stores == {i \in Completed : ~WRITES_CDB(i)}
  <2>2. CASE free_rs_and_fu(stores) /\ UNCHANGED <<commonDataBus, tom_cdb_cycle>>
    <3>1. stores \subseteq Completed
      OBVIOUS
    <3>. QED  BY <2>2, <3>1
  <2>3. ASSUME NEW i \in oldest_completed_instr, Sent(i), free_rs_and_fu(stores \cup {i})
        PROVE  \E k \in Completed : \E S : Leave(S) /\ k \in S /\ Sent(k)
    <3>1. stores \cup {i} \subseteq Completed /\ i \in stores \cup {i}
      BY <2>1
    <3>. QED  BY <2>1, <2>3, <3>1
  <2>. QED  BY <2>2, <2>3 DEF execute_To_CDB
<1>3. PICK S : Leave(S)
  BY <1>2
<1>4. \A i \in Completed : /\ i \in Index /\ tom_cdb_cycle[i] = 0
                           /\ tom_issue_cycle[i] # 0
  BY DEF Completed, BroadcastOnce, TypeOK
<1>5. /\ reservINT' \subseteq reservINT /\ reservFP' \subseteq reservFP
      /\ fuINT' \subseteq fuINT /\ fuFP' \subseteq fuFP
  BY <1>2 DEF free_rs_and_fu
<1>6. \A i \in Index : tom_cdb_cycle[i] # 0 => tom_cdb_cycle'[i] = tom_cdb_cycle[i]
  BY <1>2, <1>4 DEF TypeOK
<1>7. TypeOK'
  <2>1. commonDataBus' \in Pointer /\ tom_cdb_cycle' \in [Index -> Nat]
    BY <1>2, <1>4 DEF TypeOK, Pointer
  <2>. QED  BY <1>1, <1>5, <2>1 DEF TypeOK, Stage, queueVars
<1>8. QueueInOrder' /\ IssuedInOrder'
  BY <1>1, QueueFrame
<1>9. BroadcastOnce'
  <2>1. fuINT' \cup fuFP' \subseteq reservINT' \cup reservFP'
    BY <1>2 DEF free_rs_and_fu, BroadcastOnce
  <2>2. CASE \E T : Leave(T) /\ UNCHANGED <<commonDataBus, tom_cdb_cycle>>
    BY <1>1, <1>5, <2>1, <2>2 DEF BroadcastOnce
  <2>3. ASSUME NEW i \in Completed, NEW T, Leave(T), i \in T, Sent(i)
        PROVE  BroadcastOnce'
    <3>1. i \notin reservINT' \cup reservFP'
      BY <2>3 DEF free_rs_and_fu
    <3>2. \A j \in Index : j # i => tom_cdb_cycle'[j] = tom_cdb_cycle[j]
      BY <2>3 DEF TypeOK
    <3>3. tom_cdb_cycle'[i] = cycle /\ cycle # 0
      BY <2>3, <1>4 DEF TypeOK
    <3>4. reservINT \cup reservFP \subseteq Index
      BY DEF TypeOK
    <3>. QED  BY <1>1, <1>4, <1>5, <2>1, <2>3, <3>1, <3>2, <3>3, <3>4
              DEF BroadcastOnce
  <2>. QED  BY <1>2, <2>2, <2>3
<1>10. BusThisCycle'
  <2>1. CASE \E T : Leave(T) /\ UNCHANGED <<commonDataBus, tom_cdb_cycle>>
    BY <1>1, <2>1 DEF BusThisCycle
  <2>2. CASE \E i \in Completed : Sent(i)
    <3>1. PICK i \in Completed : Sent(i)
      BY <2>2
    <3>2. ASSUME NEW j \in Index
          PROVE  tom_cdb_cycle'[j] = IF j = i THEN cycle ELSE tom_cdb_cycle[j]
      BY <3>1, <1>4 DEF TypeOK
    <3>. QED  BY <1>1, <3>1, <3>2 DEF BusThisCycle, TypeOK
  <2>. QED  BY <1>2, <2>1, <2>2
<1>11. MapTableCurrent'
  <2>1. \A w, r : LastIssuedWriter(w, r)' <=> LastIssuedWriter(w, r)
    BY <1>1 DEF LastIssuedWriter
  <2>2. \A w \in Index : Retired(w)' <=> Retired(w)
    <3>1. CASE \E T : Leave(T) /\ UNCHANGED <<commonDataBus, tom_cdb_cycle>>
      BY <3>1 DEF Retired
    <3>2. ASSUME NEW i \in Completed, Sent(i), NEW w \in Index
          PROVE  Retired(w)' <=> Retired(w)
      BY <1>1, <1>4, <3>2 DEF Retired, TypeOK, Index, NULL
    <3>. QED  BY <1>2, <3>1, <3>2
  <2>. QED  BY <1>1, <2>1, <2>2 DEF MapTableCurrent
<1>12. DependenciesKept' /\ RAWRespected'
  BY <1>1, <1>6, DependenciesFrame, RAWFrame
<1>. QED  BY <1>7, <1>8, <1>9, <1>10, <1>11, <1>12

LEMMA ExecutePreserves ==
  ASSUME PipelineInv, issue_To_execute
  PROVE  PipelineInv'
<1>. USE DEF PipelineInv
<1>. DEFINE started == {i \in Index : tom_execute_cycle'[i] # tom_execute_cycle[i]}
<1>1. /\ UNCHANGED <<trace, queueVars, stationVars, commonDataBus, map_table,
                     fetch_index, Q, tom_dispatch_cycle, tom_issue_cycle,
                     tom_cdb_cycle, cycle>>
      /\ stage = "execute" /\ stage' = "issue"
  BY DEF issue_To_execute
<1>2. /\ Starting(reservINT, fuINT, FU_INT_SIZE) \subseteq Ready(reservINT)
      /\ Starting(reservFP, fuFP, FU_FP_SIZE) \subseteq Ready(reservFP)
  BY DEF Starting, Oldest
<1>3. /\ fuINT' \subseteq fuINT \cup Ready(reservINT)
      /\ fuFP' \subseteq fuFP \cup Ready(reservFP)
      /\ tom_execute_cycle' \in [Index -> Nat]
      /\ \A i \in started : /\ i \in Ready(reservINT) \cup Ready(reservFP)
                            /\ tom_execute_cycle'[i] = cycle
  BY <1>2 DEF issue_To_execute, TypeOK
<1>4. TypeOK'
  BY <1>1, <1>3 DEF TypeOK, Stage, Ready, queueVars, stationVars
<1>5. QueueInOrder' /\ IssuedInOrder'
  BY <1>1, QueueFrame
<1>6. BroadcastOnce'
  BY <1>1, <1>3 DEF BroadcastOnce, Ready, stationVars
<1>7. BusThisCycle'
  BY <1>1 DEF BusThisCycle
<1>8. MapTableCurrent' /\ DependenciesKept'
  BY <1>1, MapFrame, DependenciesFrame
<1>9. RAWRespected'
  <2>. SUFFICES ASSUME NEW i \in Index, tom_execute_cycle'[i] # 0,
                       NEW p \in Producers(i)
                PROVE  tom_cdb_cycle[p] # 0 /\ tom_cdb_cycle[p] < tom_execute_cycle'[i]
    BY <1>1, SameTrace DEF RAWRespected
  <2>1. CASE i \notin started
    BY <2>1 DEF RAWRespected
  <2>2. CASE i \in started
    <3>1. /\ tom_issue_cycle[i] # 0 /\ tom_issue_cycle[i] <= cycle
          /\ ~hasRAWHazard(i) /\ tom_execute_cycle'[i] = cycle
      BY <1>3, <2>2 DEF Ready, BroadcastOnce, BusThisCycle
    <3>2. p \in Index /\ tom_cdb_cycle[p] \in Nat /\ tom_issue_cycle[i] \in Nat /\ cycle \in Nat
      BY DEF Producers, TypeOK
    <3>3. CASE p \in Q[i]
      BY <3>1, <3>2, <3>3 DEF hasRAWHazard
    <3>4. CASE p \notin Q[i]
      BY <3>1, <3>2, <3>4 DEF DependenciesKept
    <3>. QED  BY <3>3, <3>4
  <2>. QED  BY <2>1, <2>2
<1>. QED  BY <1>4, <1>5, <1>6, <1>7, <1>8, <1>9

\* What issuing the head of the queue does to the queue.
LEMMA PopPreserves ==
  ASSUME TypeOK, QueueInOrder, ifq_head # NULL, ifq_pop
  PROVE  /\ instr_queue_size \in Nat \ {0}
         /\ ifq_head = QueueAt(0) /\ ifq_head \in Index
         /\ instr_queue_size' = instr_queue_size - 1
         /\ ifq_head_idx' \in Slot
         /\ ifq_tail_idx' = (ifq_head_idx' + instr_queue_size') % INSTR_QUEUE_SIZE
         /\ \A k \in QueueIndex' : k + 1 \in QueueIndex /\ QueueAt(k)' = QueueAt(k + 1)
<1>. DEFINE n == INSTR_QUEUE_SIZE
<1>1. n \in Nat \ {0} /\ ifq_head_idx \in 0 .. n - 1
  BY QueueSize DEF TypeOK, Slot
<1>2. /\ instr_queue_size \in 1 .. n
      /\ ifq_head = instr_queue[ifq_head_idx]
  BY <1>1 DEF ifq_head, TypeOK
<1>3. ifq_head = QueueAt(0) /\ 0 \in QueueIndex
  <2>1. (ifq_head_idx + 0) % n = ifq_head_idx
    BY <1>1, ifq_head_idx + 0 \in 0 .. n + n - 1, Wrap
  <2>. QED  BY <1>2, <2>1 DEF QueueAt, QueueIndex
<1>4. ifq_head \in Index
  BY <1>3 DEF QueueInOrder
<1>5. /\ instr_queue_size' = instr_queue_size - 1
      /\ ifq_head_idx' = (ifq_head_idx + 1) % n
      /\ UNCHANGED <<instr_queue, ifq_tail_idx>>
  BY DEF ifq_pop
<1>6. /\ ifq_head_idx' \in 0 .. n - 1
      /\ \A k \in 0 .. n - 1 : (ifq_head_idx' + k) % n = (ifq_head_idx + (k + 1)) % n
  BY <1>1, <1>5, NextSlot
<1>7. ifq_tail_idx' = (ifq_head_idx' + instr_queue_size') % n
  <2>1. ifq_tail_idx = (ifq_head_idx + instr_queue_size) % n
    BY DEF QueueInOrder
  <2>2. instr_queue_size' \in 0 .. n - 1 /\ instr_queue_size' + 1 = instr_queue_size
    BY <1>1, <1>2, <1>5
  <2>3. (ifq_head_idx' + instr_queue_size') % n = (ifq_head_idx + (instr_queue_size' + 1)) % n
    BY <1>6, <2>2
  <2>. QED  BY <1>5, <2>1, <2>2, <2>3
<1>8. ASSUME NEW k \in QueueIndex'
      PROVE  k + 1 \in QueueIndex /\ QueueAt(k)' = QueueAt(k + 1)
  <2>1. k \in 0 .. n - 1 /\ k + 1 \in QueueIndex
    BY <1>1, <1>2, <1>5 DEF QueueIndex
  <2>2. (ifq_head_idx' + k) % n = (ifq_head_idx + (k + 1)) % n
    BY <1>6, <2>1
  <2>. QED  BY <1>5, <2>1, <2>2 DEF QueueAt
<1>. QED  BY <1>2, <1>3, <1>4, <1>5, <1>6, <1>7, <1>8 DEF Slot

LEMMA IssuePreserves ==
  ASSUME PipelineInv, dispatch_To_issue
  PROVE  PipelineInv'
<1>. USE DEF PipelineInv
<1>. DEFINE h == ifq_head
<1>1. /\ UNCHANGED <<trace, unitVars, commonDataBus, fetch_index, tom_dispatch_cycle,
                     tom_execute_cycle, tom_cdb_cycle, cycle>>
      /\ stage = "issue" /\ stage' = "fetch"
  BY DEF dispatch_To_issue
<1>2. RAWRespected'
  BY <1>1, RAWFrame
<1>3. CASE UNCHANGED <<queueVars, stationVars, map_table, Q, tom_issue_cycle>>
  <2>1. TypeOK'
    BY <1>1, <1>3 DEF TypeOK, Stage, queueVars, stationVars, unitVars
  <2>2. QueueInOrder' /\ IssuedInOrder'
    BY <1>1, <1>3, QueueFrame
  <2>3. BroadcastOnce' /\ BusThisCycle'
    BY <1>1, <1>3 DEF BroadcastOnce, BusThisCycle, stationVars, unitVars
  <2>4. MapTableCurrent' /\ DependenciesKept'
    BY <1>1, <1>3, MapFrame, DependenciesFrame
  <2>. QED  BY <1>2, <2>1, <2>2, <2>3, <2>4
<1>4. CASE h # NULL /\ ifq_pop
  <2>1. /\ instr_queue_size \in Nat \ {0} /\ h = QueueAt(0) /\ h \in Index
        /\ instr_queue_size' = instr_queue_size - 1 /\ ifq_head_idx' \in Slot
        /\ ifq_tail_idx' = (ifq_head_idx' + instr_queue_size') % INSTR_QUEUE_SIZE
        /\ \A k \in QueueIndex' : k + 1 \in QueueIndex /\ QueueAt(k)' = QueueAt(k + 1)
    BY <1>4, PopPreserves
  <2>2. /\ h < fetch_index /\ tom_issue_cycle[h] = 0 /\ tom_cdb_cycle[h] = 0
        /\ \A k \in QueueIndex' : h < QueueAt(k)' /\ h # QueueAt(k)'
    <3>1. 0 \in QueueIndex
      BY <2>1 DEF QueueIndex
    <3>2. h < fetch_index /\ tom_issue_cycle[h] = 0 /\ tom_cdb_cycle[h] = 0
      BY <2>1, <3>1 DEF QueueInOrder, BroadcastOnce
    <3>3. ASSUME NEW k \in QueueIndex'
          PROVE  h < QueueAt(k)' /\ h # QueueAt(k)'
      <4>1. k + 1 \in QueueIndex /\ QueueAt(k)' = QueueAt(k + 1) /\ 0 < k + 1
        BY <2>1 DEF QueueIndex
      <4>2. h < QueueAt(k + 1) /\ QueueAt(k + 1) \in Index
        BY <2>1, <3>1, <4>1 DEF QueueInOrder
      <4>. QED  BY <2>1, <4>1, <4>2 DEF Index
    <3>. QED  BY <3>2, <3>3
  <2>3. /\ instr_queue_size' \in 0 .. INSTR_QUEUE_SIZE /\ ifq_tail_idx' \in Slot
        /\ instr_queue' = instr_queue
    <3>1. instr_queue_size \in 0 .. INSTR_QUEUE_SIZE /\ ifq_tail_idx \in Slot
      BY DEF TypeOK
    <3>2. UNCHANGED <<instr_queue, ifq_tail_idx>>
      BY <1>4 DEF ifq_pop
    <3>3. instr_queue_size' = instr_queue_size - 1 /\ instr_queue_size # 0
      BY <2>1
    <3>. QED  BY <3>1, <3>2, <3>3, QueueSize
  \* Every instruction before the head that executes has been issued, and none
  \* from the head on.
  <2>4. \A j \in Index : /\ j < h /\ Executes(j) => tom_issue_cycle[j] # 0
                         /\ tom_issue_cycle[j] # 0 => j < h
    <3>. SUFFICES ASSUME NEW j \in Index
                  PROVE  /\ j < h /\ Executes(j) => tom_issue_cycle[j] # 0
                         /\ tom_issue_cycle[j] # 0 => j < h
      OBVIOUS
    <3>1. 0 \in QueueIndex
      BY <2>1 DEF QueueIndex
    <3>2. ASSUME j < h, Executes(j), tom_issue_cycle[j] = 0 PROVE FALSE
      <4>1. j < fetch_index
        BY <2>1, <2>2, <3>2 DEF TypeOK, Index
      <4>2. PICK k \in QueueIndex : QueueAt(k) = j
        BY <3>2, <4>1 DEF QueueInOrder
      <4>3. k = 0 \/ 0 < k
        BY DEF QueueIndex
      <4>4. h = j \/ h < j
        BY <2>1, <3>1, <4>2, <4>3 DEF QueueInOrder
      <4>. QED  BY <2>1, <3>2, <4>4 DEF Index
    <3>3. tom_issue_cycle[j] # 0 => j < h
      BY <2>1, <3>1 DEF IssuedInOrder
    <3>. QED  BY <3>2, <3>3
  <2>5. CASE ~Executes(h) /\ UNCHANGED <<stationVars, map_table, Q, tom_issue_cycle>>
    <3>1. TypeOK'
      BY <1>1, <2>1, <2>3, <2>5 DEF TypeOK, Stage, stationVars, unitVars
    <3>2. QueueInOrder'
      <4>1. ASSUME NEW k \in QueueIndex'
            PROVE  /\ QueueAt(k)' \in Index /\ QueueAt(k)' < fetch_index'
                   /\ tom_issue_cycle'[QueueAt(k)'] = 0
                   /\ \A l \in QueueIndex' : l < k => QueueAt(l)' < QueueAt(k)'
        BY <1>1, <2>1, <2>5 DEF QueueInOrder, QueueIndex
      <4>2. ASSUME NEW i \in Index, Executes(i), i < fetch_index, tom_issue_cycle[i] = 0
            PROVE  \E k \in QueueIndex' : QueueAt(k)' = i
        <5>1. PICK k \in QueueIndex : QueueAt(k) = i
          BY <4>2 DEF QueueInOrder
        <5>2. k # 0
          BY <2>1, <2>5, <4>2, <5>1
        <5>3. k - 1 \in QueueIndex' /\ (k - 1) + 1 = k
          BY <2>1, <5>1, <5>2 DEF QueueIndex
        <5>4. QueueAt(k - 1)' = QueueAt(k)
          BY <2>1, <5>3
        <5>. QED  BY <5>1, <5>3, <5>4
      <4>. QED  BY <1>1, <2>1, <2>5, <4>1, <4>2, SameTrace DEF QueueInOrder
    <3>3. IssuedInOrder'
      BY <1>1, <2>1, <2>5, SameTrace DEF IssuedInOrder
    <3>4. BroadcastOnce' /\ BusThisCycle'
      BY <1>1, <2>5 DEF BroadcastOnce, BusThisCycle, stationVars, unitVars
    <3>5. MapTableCurrent' /\ DependenciesKept'
      BY <1>1, <2>5, MapFrame, DependenciesFrame
    <3>. QED  BY <1>2, <3>1, <3>2, <3>3, <3>4, <3>5
  <2>6. CASE /\ Executes(h)
             /\ reservINT_insert(h) \/ reservFP_insert(h)
             /\ update_q_from_map_table(h)
             /\ update_map_table(h)
             /\ tom_issue_cycle' = [tom_issue_cycle EXCEPT ![h] = cycle]
    <3>1. /\ tom_issue_cycle'[h] = cycle /\ cycle # 0
          /\ \A i \in Index : i # h => tom_issue_cycle'[i] = tom_issue_cycle[i]
          /\ tom_issue_cycle' \in [Index -> Nat]
      BY <2>1, <2>6 DEF TypeOK
    <3>2. /\ reservINT' \subseteq reservINT \cup {h} /\ reservFP' \subseteq reservFP \cup {h}
          /\ reservINT \subseteq reservINT' /\ reservFP \subseteq reservFP'
      BY <2>6 DEF reservINT_insert, reservFP_insert
    <3>3. /\ Q'[h] = {map_table[r] : r \in trace[h].r_in} \ {NULL}
          /\ \A i \in Index : i # h => Q'[i] = Q[i]
      BY <2>1, <2>6 DEF update_q_from_map_table, TypeOK
    <3>4. trace[h].r_in \subseteq Reg /\ trace[h].r_out \subseteq Reg
      BY <2>1, InstructionAssumption DEF TypeOK
    <3>5. TypeOK'
      <4>1. Q' \in [Index -> SUBSET Index]
        BY <2>1, <2>6, <3>4 DEF update_q_from_map_table, TypeOK, Pointer
      <4>2. map_table' \in [Reg -> Pointer]
        BY <2>1, <2>6 DEF update_map_table, TypeOK, Pointer
      <4>. QED  BY <1>1, <2>1, <2>3, <3>1, <3>2, <4>1, <4>2 DEF TypeOK, Stage, unitVars
    <3>6. QueueInOrder'
      <4>1. ASSUME NEW k \in QueueIndex'
            PROVE  /\ QueueAt(k)' \in Index /\ QueueAt(k)' < fetch_index'
                   /\ tom_issue_cycle'[QueueAt(k)'] = 0
                   /\ \A l \in QueueIndex' : l < k => QueueAt(l)' < QueueAt(k)'
        <5>1. k + 1 \in QueueIndex /\ QueueAt(k)' = QueueAt(k + 1) /\ QueueAt(k)' # h
          BY <2>1, <2>2
        <5>2. /\ QueueAt(k)' \in Index /\ QueueAt(k)' < fetch_index
              /\ tom_issue_cycle[QueueAt(k)'] = 0
          BY <5>1 DEF QueueInOrder
        <5>3. \A l \in QueueIndex' : l < k => QueueAt(l)' < QueueAt(k)'
          BY <2>1, <5>1 DEF QueueInOrder, QueueIndex
        <5>. QED  BY <1>1, <3>1, <5>1, <5>2, <5>3
      <4>2. ASSUME NEW i \in Index, Executes(i), i < fetch_index, tom_issue_cycle'[i] = 0
            PROVE  \E k \in QueueIndex' : QueueAt(k)' = i
        <5>1. i # h /\ tom_issue_cycle[i] = 0
          BY <3>1, <4>2
        <5>2. PICK k \in QueueIndex : QueueAt(k) = i
          BY <4>2, <5>1 DEF QueueInOrder
        <5>3. k - 1 \in QueueIndex' /\ (k - 1) + 1 = k
          BY <2>1, <5>1, <5>2 DEF QueueIndex
        <5>4. QueueAt(k - 1)' = QueueAt(k)
          BY <2>1, <5>3
        <5>. QED  BY <5>2, <5>3, <5>4
      <4>. QED  BY <1>1, <2>1, <4>1, <4>2, SameTrace DEF QueueInOrder
    <3>7. IssuedInOrder'
      <4>. SUFFICES ASSUME NEW i \in Index, tom_issue_cycle'[i] # 0
                    PROVE  /\ Executes(i) /\ i < fetch_index
                           /\ \A k \in QueueIndex' : i < QueueAt(k)'
        BY <1>1, SameTrace DEF IssuedInOrder
      <4>1. CASE i = h
        BY <2>2, <2>6, <4>1
      <4>2. CASE i # h
        BY <2>1, <3>1, <4>2 DEF IssuedInOrder
      <4>. QED  BY <4>1, <4>2
    <3>8. BroadcastOnce'
      <4>1. reservINT \cup reservFP \subseteq Index
        BY DEF TypeOK
      <4>. QED  BY <1>1, <2>1, <2>2, <3>1, <3>2, <4>1 DEF BroadcastOnce, unitVars
    <3>9. BusThisCycle'
      <4>1. \A i \in Index : tom_issue_cycle'[i] <= cycle
        BY <3>1 DEF BusThisCycle, TypeOK
      <4>. QED  BY <1>1, <4>1 DEF BusThisCycle
    <3>10. MapTableCurrent'
      <4>. SUFFICES ASSUME NEW r \in Reg, NEW w \in Index
                    PROVE  map_table'[r] = w <=> (LastIssuedWriter(w, r) /\ ~Retired(w))'
        BY DEF MapTableCurrent
      <4>1. map_table'[r] = IF r \in trace[h].r_out THEN h ELSE map_table[r]
        BY <2>6 DEF update_map_table
      <4>2. Retired(w)' <=> Retired(w)
        BY <1>1 DEF Retired
      <4>3. ~Retired(h)
        BY <2>2 DEF Retired
      <4>4. CASE r \in trace[h].r_out
        <5>1. LastIssuedWriter(w, r)' <=> w = h
          BY <1>1, <2>1, <2>4, <3>1, <4>4 DEF LastIssuedWriter, Index
        <5>. QED  BY <4>1, <4>2, <4>3, <4>4, <5>1
      <4>5. CASE r \notin trace[h].r_out
        <5>1. LastIssuedWriter(w, r)' <=> LastIssuedWriter(w, r)
          BY <1>1, <2>1, <3>1, <4>5 DEF LastIssuedWriter
        <5>. QED  BY <4>1, <4>2, <4>5, <5>1 DEF MapTableCurrent
      <4>. QED  BY <4>4, <4>5
    <3>11. DependenciesKept'
      <4>. SUFFICES ASSUME NEW i \in Index, tom_issue_cycle'[i] # 0
                    PROVE  /\ Q'[i] \subseteq Producers(i)
                           /\ \A p \in Producers(i) \ Q'[i] :
                                tom_cdb_cycle[p] # 0 /\ tom_cdb_cycle[p] < tom_issue_cycle'[i]
        BY <1>1, SameTrace DEF DependenciesKept
      <4>1. CASE i # h
        BY <3>1, <3>3, <4>1 DEF DependenciesKept
      \* The last writer issued is the last writer in program order.
      <4>2. \A p \in Index, r \in Reg : LastIssuedWriter(p, r) <=> LastWriter(p, h, r)
        BY <2>1, <2>4 DEF LastIssuedWriter, LastWriter, IssuedInOrder, Index
      <4>3. Q'[h] \subseteq Producers(h)
        <5>. SUFFICES ASSUME NEW r \in trace[h].r_in, map_table[r] # NULL
                      PROVE  map_table[r] \in Producers(h)
          BY <3>3
        <5>1. r \in Reg /\ map_table[r] \in Index
          BY <3>4 DEF TypeOK, Pointer
        <5>2. LastIssuedWriter(map_table[r], r)
          BY <5>1 DEF MapTableCurrent
        <5>. QED  BY <4>2, <5>1, <5>2 DEF Producers
      <4>4. ASSUME NEW p \in Producers(h) \ Q'[h]
            PROVE  tom_cdb_cycle[p] # 0 /\ tom_cdb_cycle[p] < cycle
        <5>1. PICK r \in trace[h].r_in : LastWriter(p, h, r)
          BY DEF Producers
        <5>2. p \in Index /\ r \in Reg /\ p # NULL
          BY <3>4 DEF Producers, Index, NULL
        <5>3. map_table[r] # p
          BY <3>3, <5>2
        <5>4. Retired(p)
          BY <4>2, <5>1, <5>2, <5>3 DEF MapTableCurrent
        <5>. QED  BY <5>2, <5>4 DEF Retired, BusThisCycle, TypeOK
      <4>. QED  BY <3>1, <4>1, <4>3, <4>4
    <3>. QED  BY <1>2, <3>5, <3>6, <3>7, <3>8, <3>9, <3>10, <3>11
  <2>. QED  BY <1>4, <2>5, <2>6, <1>3 DEF dispatch_To_issue
<1>. QED  BY <1>3, <1>4 DEF dispatch_To_issue

\* What fetching an instruction does to the queue.
LEMMA PushPreserves ==
  ASSUME TypeOK, QueueInOrder, instr_queue_size < INSTR_QUEUE_SIZE,
         NEW i \in Index, ifq_push(i)
  PROVE  /\ instr_queue_size' = instr_queue_size + 1
         /\ instr_queue_size' \in 0 .. INSTR_QUEUE_SIZE
         /\ instr_queue' \in [Slot -> Pointer]
         /\ ifq_head_idx' \in Slot /\ ifq_tail_idx' \in Slot
         /\ ifq_tail_idx' = (ifq_head_idx' + instr_queue_size') % INSTR_QUEUE_SIZE
         /\ \A k \in QueueIndex : QueueAt(k)' = QueueAt(k)
         /\ \A k : k = instr_queue_size => QueueAt(k)' = i
<1>. DEFINE n == INSTR_QUEUE_SIZE
            size == instr_queue_size
<1>1. /\ n \in Nat \ {0} /\ ifq_head_idx \in 0 .. n - 1 /\ ifq_tail_idx \in 0 .. n - 1
      /\ size \in 0 .. n - 1
      /\ ifq_tail_idx = (ifq_head_idx + size) % n
  BY QueueSize DEF TypeOK, Slot, QueueInOrder
<1>2. /\ instr_queue' = [instr_queue EXCEPT ![ifq_tail_idx] = i]
      /\ ifq_tail_idx' = (ifq_tail_idx + 1) % n
      /\ instr_queue_size' = size + 1
      /\ ifq_head_idx' = ifq_head_idx
  BY DEF ifq_push
<1>3. /\ instr_queue_size' \in 0 .. n
      /\ instr_queue' \in [Slot -> Pointer]
  BY <1>1, <1>2 DEF TypeOK, Slot, Pointer
<1>4. ifq_tail_idx' \in 0 .. n - 1
  BY <1>1, <1>2, NextSlot
<1>5. ifq_tail_idx' = (ifq_head_idx + (size + 1)) % n
  BY <1>1, <1>2, TailAfterNext
<1>6. ASSUME NEW k \in QueueIndex
      PROVE  QueueAt(k)' = QueueAt(k)
  <2>1. k \in 0 .. size - 1
    BY DEF QueueIndex
  <2>2. (ifq_head_idx + k) % n # ifq_tail_idx
    BY <1>1, <2>1, SlotsDiffer
  <2>. QED  BY <1>1, <1>2, <2>2 DEF QueueAt, TypeOK, Slot
<1>7. ASSUME NEW k, k = size
      PROVE  QueueAt(k)' = i
  <2>1. QueueAt(k)' = instr_queue'[(ifq_head_idx' + k) % n]
    BY DEF QueueAt
  <2>. QED  BY <1>1, <1>2, <1>7, <2>1 DEF TypeOK, Slot
<1>. QED  BY <1>1, <1>2, <1>3, <1>4, <1>5, <1>6, <1>7 DEF Slot

LEMMA FetchPreserves ==
  ASSUME PipelineInv, fetch_To_dispatch
  PROVE  PipelineInv'
<1>. USE DEF PipelineInv
<1>1. /\ UNCHANGED <<trace, stationVars, unitVars, commonDataBus, map_table, Q,
                     tom_issue_cycle, tom_execute_cycle, tom_cdb_cycle, cycle>>
      /\ stage = "fetch" /\ stage' = "check" /\ fetch
  BY DEF fetch_To_dispatch
<1>2. tom_dispatch_cycle' \in [Index -> Nat]
  BY DEF fetch_To_dispatch, TypeOK
<1>3. BroadcastOnce' /\ BusThisCycle'
  BY <1>1 DEF BroadcastOnce, BusThisCycle, stationVars, unitVars
<1>4. MapTableCurrent' /\ DependenciesKept' /\ RAWRespected'
  BY <1>1, MapFrame, DependenciesFrame, RAWFrame
<1>5. CASE UNCHANGED <<queueVars, fetch_index>>
  <2>1. TypeOK'
    BY <1>1, <1>2, <1>5 DEF TypeOK, Stage, queueVars, stationVars, unitVars
  <2>. QED  BY <1>1, <1>3, <1>4, <1>5, <2>1, QueueFrame
<1>6. CASE /\ Unfetched = {} /\ fetch_index' = sim_num_insn + 1
           /\ UNCHANGED queueVars
  <2>1. TypeOK'
    BY <1>1, <1>2, <1>6, NumInsnAssumption
    DEF TypeOK, Stage, queueVars, stationVars, unitVars
  <2>2. \A i \in Index : Executes(i) => i < fetch_index
    BY <1>6 DEF Unfetched, Executes, IS_TRAP, USES_INT_FU, USES_FP_FU, TypeOK, Index
  <2>3. \A i \in Index : i < fetch_index => i < fetch_index'
    BY <1>6, NumInsnAssumption DEF TypeOK, Index
  <2>4. QueueInOrder' /\ IssuedInOrder'
    BY <1>1, <1>6, <2>2, <2>3, SameTrace
    DEF QueueInOrder, IssuedInOrder, QueueAt, QueueIndex, queueVars
  <2>. QED  BY <1>3, <1>4, <2>1, <2>4
<1>7. CASE instr_queue_size < INSTR_QUEUE_SIZE
           /\ \E i \in Oldest(Unfetched, 1) : ifq_push(i) /\ fetch_index' = i + 1
  <2>1. PICK i \in Oldest(Unfetched, 1) : ifq_push(i) /\ fetch_index' = i + 1
    BY <1>7
  <2>2. /\ i \in Index /\ fetch_index <= i /\ i \in Nat /\ fetch_index \in Nat
        /\ \A j \in Unfetched : i <= j
    <3>1. Unfetched \in SUBSET Index
      BY DEF Unfetched
    <3>2. i \in Unfetched /\ \A j \in Unfetched : i <= j
      BY <3>1, OldestOne
    <3>. QED  BY <3>2 DEF Unfetched, Index, TypeOK
  <2>. PICK size \in Nat : size = instr_queue_size
    BY DEF TypeOK
  <2>3. /\ instr_queue_size' = instr_queue_size + 1
        /\ instr_queue_size' \in 0 .. INSTR_QUEUE_SIZE
        /\ instr_queue' \in [Slot -> Pointer]
        /\ ifq_head_idx' \in Slot /\ ifq_tail_idx' \in Slot
        /\ ifq_tail_idx' = (ifq_head_idx' + instr_queue_size') % INSTR_QUEUE_SIZE
        /\ \A k \in QueueIndex : QueueAt(k)' = QueueAt(k)
        /\ QueueAt(size)' = i
    BY <1>7, <2>1, <2>2, PushPreserves
  <2>4. TypeOK'
    <3>1. fetch_index' \in 0 .. sim_num_insn + 1
      BY <2>1, <2>2, NumInsnAssumption DEF Index
    <3>. QED  BY <1>1, <1>2, <2>3, <3>1 DEF TypeOK, Stage, stationVars, unitVars
  <2>5. \A k \in QueueIndex' : k \in QueueIndex \/ k = size
    BY <2>3 DEF QueueIndex, TypeOK
  <2>6. size \in QueueIndex' /\ QueueIndex \subseteq QueueIndex'
    BY <2>3 DEF QueueIndex, TypeOK
  \* What is in the queue was fetched before i.
  <2>7. \A k \in QueueIndex : QueueAt(k) \in Index /\ QueueAt(k) < i
    BY <2>2 DEF QueueInOrder, Index
  <2>8. QueueInOrder'
    <3>1. ASSUME NEW k \in QueueIndex'
          PROVE  /\ QueueAt(k)' \in Index /\ QueueAt(k)' < fetch_index'
                 /\ tom_issue_cycle[QueueAt(k)'] = 0
                 /\ \A l \in QueueIndex' : l < k => QueueAt(l)' < QueueAt(k)'
      <4>1. CASE k \in QueueIndex
        <5>1. QueueAt(k)' = QueueAt(k) /\ QueueAt(k) < i /\ QueueAt(k) \in Index
          BY <2>3, <2>7, <4>1
        <5>2. QueueAt(k) < fetch_index'
          BY <2>1, <2>2, <5>1 DEF Index
        <5>3. \A l \in QueueIndex' : l < k => l \in QueueIndex
          BY <2>3, <4>1 DEF QueueIndex, TypeOK
        <5>4. \A l \in QueueIndex' : l < k => QueueAt(l)' < QueueAt(k)
          BY <2>3, <4>1, <5>3 DEF QueueInOrder
        <5>. QED  BY <4>1, <5>1, <5>2, <5>4 DEF QueueInOrder
      <4>2. CASE k = size
        <5>1. tom_issue_cycle[i] = 0
          BY <2>2 DEF IssuedInOrder
        <5>2. \A l \in QueueIndex' : l < k => l \in QueueIndex
          BY <2>5, <4>2 DEF TypeOK, QueueIndex
        <5>. QED  BY <2>1, <2>2, <2>3, <2>7, <4>2, <5>1, <5>2
      <4>. QED  BY <2>5, <4>1, <4>2
    <3>2. ASSUME NEW j \in Index, Executes(j), j < fetch_index', tom_issue_cycle[j] = 0
          PROVE  \E k \in QueueIndex' : QueueAt(k)' = j
      <4>1. CASE j < fetch_index
        <5>1. PICK k \in QueueIndex : QueueAt(k) = j
          BY <3>2, <4>1 DEF QueueInOrder
        <5>. QED  BY <2>3, <2>6, <5>1
      <4>2. CASE ~(j < fetch_index)
        <5>1. j \in Unfetched
          BY <3>2, <4>2, <2>2
          DEF Unfetched, Executes, IS_TRAP, USES_INT_FU, USES_FP_FU, Index
        <5>2. j = i
          BY <2>1, <2>2, <3>2, <5>1 DEF Index
        <5>. QED  BY <2>3, <2>6, <5>2
      <4>. QED  BY <4>1, <4>2
    <3>. QED  BY <1>1, <2>3, <3>1, <3>2, SameTrace DEF QueueInOrder
  <2>9. IssuedInOrder'
    <3>. SUFFICES ASSUME NEW j \in Index, tom_issue_cycle[j] # 0
                  PROVE  /\ Executes(j) /\ j < fetch_index'
                         /\ \A k \in QueueIndex' : j < QueueAt(k)'
      BY <1>1, SameTrace DEF IssuedInOrder
    <3>1. /\ Executes(j) /\ j < fetch_index
          /\ \A k \in QueueIndex : j < QueueAt(k)
      BY DEF IssuedInOrder
    <3>2. j < i /\ j < fetch_index'
      BY <2>1, <2>2, <3>1 DEF Index
    <3>. QED  BY <2>3, <2>5, <3>1, <3>2
  <2>. QED  BY <1>3, <1>4, <2>4, <2>8, <2>9
<1>. QED  BY <1>1, <1>5, <1>6, <1>7 DEF fetch

LEMMA CheckPreserves ==
  ASSUME PipelineInv, EndOfCycle
  PROVE  PipelineInv'
<1>. USE DEF PipelineInv
<1>1. /\ UNCHANGED <<trace, queueVars, stationVars, unitVars, commonDataBus,
                     map_table, fetch_index, Q, tom_dispatch_cycle,
                     tom_issue_cycle, tom_execute_cycle, tom_cdb_cycle>>
      /\ cycle' = cycle + 1 /\ stage' \in {"done", "retire"}
  BY DEF EndOfCycle
<1>2. TypeOK'
  BY <1>1 DEF TypeOK, Stage, queueVars, stationVars, unitVars
<1>3. BroadcastOnce'
  BY <1>1 DEF BroadcastOnce, stationVars, unitVars
<1>4. BusThisCycle'
  BY <1>1 DEF BusThisCycle, TypeOK
<1>. QED  BY <1>1, <1>2, <1>3, <1>4, QueueFrame, MapFrame, DependenciesFrame, RAWFrame

-----------------------------------------------------------------------------
(* The inductive invariant *)

\* The inductive invariant holds of every simulation of every trace, on a
\* pipeline of any size.
THEOREM PipelineInvariance == Spec => []PipelineInv
<1>1. Init => PipelineInv
  BY InitInv
<1>2. PipelineInv /\ [Next]_vars => PipelineInv'
  <2>. SUFFICES ASSUME PipelineInv, [Next]_vars PROVE PipelineInv'
    OBVIOUS
  <2>1. CASE UNCHANGED vars
    <3>1. TypeOK' /\ BroadcastOnce' /\ BusThisCycle'
      BY <2>1 DEF PipelineInv, TypeOK, BroadcastOnce, BusThisCycle, vars,
                  queueVars, stationVars, unitVars
    <3>. QED  BY <2>1, <3>1, QueueFrame, MapFrame, DependenciesFrame, RAWFrame
              DEF PipelineInv, vars
  <2>2. CASE runTomasulo
    BY <2>2, RetirePreserves, BroadcastPreserves, ExecutePreserves,
       IssuePreserves, FetchPreserves, CheckPreserves DEF runTomasulo
  <2>. QED  BY <2>1, <2>2 DEF Next, Finished
<1>. QED  BY <1>1, <1>2, PTL DEF Spec

-----------------------------------------------------------------------------
(* What has been fetched *)

\* The parts of the pipeline an instruction can be in exclude one another.
LEMMA Places ==
  ASSUME PipelineInv, FlowInv, NEW i \in Index
  PROVE  /\ InQueue(i) => /\ tom_dispatch_cycle[i] # 0 /\ tom_issue_cycle[i] = 0
                          /\ i \notin reservINT \cup reservFP
         /\ i \in reservINT \cup reservFP => tom_dispatch_cycle[i] # 0
         /\ i \in fuINT \cup fuFP => i \in reservINT \cup reservFP
<1>1. InQueue(i) => tom_issue_cycle[i] = 0 /\ i < fetch_index /\ ~IS_TRAP(i)
  BY DEF InQueue, PipelineInv, QueueInOrder, FlowInv
<1>2. i \in reservINT \cup reservFP => tom_issue_cycle[i] # 0
  BY DEF PipelineInv, BroadcastOnce
<1>3. tom_issue_cycle[i] # 0 => i < fetch_index /\ ~IS_TRAP(i)
  BY DEF PipelineInv, IssuedInOrder, Executes, IS_TRAP, USES_INT_FU, USES_FP_FU
<1>. QED  BY <1>1, <1>2, <1>3 DEF FlowInv, PipelineInv, BroadcastOnce

LEMMA InitFlowInv == Init => FlowInv
BY DEF Init, FlowInv, Index, QueueIndex

\* The slot in front of the tail is that of the last instruction.
LEMMA TailSlot ==
  ASSUME NEW n \in Nat \ {0}, NEW a \in 0 .. n - 1, NEW size \in 1 .. n
  PROVE  (((a + size) % n) + n - 1) % n = (a + (size - 1)) % n
<1>1. PICK x \in 0 .. n + n - 1 : x = a + size
  OBVIOUS
<1>2. PICK tail \in 0 .. n - 1 : tail = IF x < n THEN x ELSE x - n
  <2>1. CASE x < n
    BY <2>1, x \in 0 .. n - 1
  <2>2. CASE x >= n
    BY <2>2, x - n \in 0 .. n - 1
  <2>. QED  BY <2>1, <2>2
<1>3. x % n = tail
  BY <1>2, Wrap
<1>4. PICK y \in 0 .. n + n - 1 : y = tail + n - 1
  OBVIOUS
<1>5. PICK z \in 0 .. n + n - 1 : z = a + (size - 1)
  OBVIOUS
<1>6. y % n = z % n
  <2>1. /\ y % n = IF y < n THEN y ELSE y - n
        /\ z % n = IF z < n THEN z ELSE z - n
    BY Wrap
  <2>. QED  BY <1>1, <1>2, <1>4, <1>5, <2>1
<1>. QED  BY <1>1, <1>3, <1>4, <1>5, <1>6

\* i is fetched, and nothing but traps is skipped.
Fetched(i) ==
  /\ tom_dispatch_cycle[i] = 0 /\ tom_dispatch_cycle'[i] # 0
  /\ \A j \in Index : j # i => tom_dispatch_cycle'[j] = tom_dispatch_cycle[j]
  /\ fetch_index <= i /\ ~IS_TRAP(i) /\ fetch_index' = i + 1
  /\ \A j \in Index : fetch_index <= j /\ j < i => IS_TRAP(j)
  /\ InQueue(i)'
  /\ \A j \in Index : j # i => (InQueue(j)' <=> InQueue(j))

\* fetch_To_dispatch fetches one instruction, or none.
LEMMA FetchCases ==
  ASSUME PipelineInv, FlowInv, fetch_To_dispatch
  PROVE  \/ \E i \in Index : Fetched(i)
         \/ /\ UNCHANGED queueVars
            /\ \A j \in Index :
                 /\ tom_dispatch_cycle'[j] = 0 <=> tom_dispatch_cycle[j] = 0
                 /\ ~IS_TRAP(j) => (j < fetch_index' <=> j < fetch_index)
<1>. DEFINE n == INSTR_QUEUE_SIZE
<1>. USE DEF PipelineInv
<1>1. /\ n \in Nat \ {0} /\ cycle # 0 /\ fetch_index \in Nat
      /\ ifq_head_idx \in 0 .. n - 1 /\ instr_queue_size \in 0 .. n
      /\ ifq_tail_idx = (ifq_head_idx + instr_queue_size) % n
  BY QueueSize DEF TypeOK, Slot, QueueInOrder
<1>2. \A j \in Index :
        tom_dispatch_cycle'[j] = IF j = ifq_tail' /\ tom_dispatch_cycle[j] = 0
                                   THEN cycle ELSE tom_dispatch_cycle[j]
  BY DEF fetch_To_dispatch
<1>3. CASE UNCHANGED queueVars
  <2>1. \A j \in Index : tom_dispatch_cycle'[j] = 0 <=> tom_dispatch_cycle[j] = 0
    <3>. SUFFICES ASSUME NEW j \in Index, j = ifq_tail'
                  PROVE  tom_dispatch_cycle[j] # 0
      BY <1>1, <1>2
    <3>1. instr_queue_size # 0 /\ j = instr_queue[(ifq_tail_idx + n - 1) % n]
      BY <1>3 DEF ifq_tail, queueVars, NULL, Index
    <3>2. (ifq_tail_idx + n - 1) % n = (ifq_head_idx + (instr_queue_size - 1)) % n
      BY <1>1, <3>1, instr_queue_size \in 1 .. n, TailSlot
    <3>3. instr_queue_size - 1 \in QueueIndex
      BY <1>1, <3>1 DEF QueueIndex
    <3>4. j = QueueAt(instr_queue_size - 1)
      BY <3>1, <3>2 DEF QueueAt
    <3>. QED  BY <3>3, <3>4 DEF FlowInv, QueueInOrder
  <2>2. \A j \in Index : ~IS_TRAP(j) => (j < fetch_index' <=> j < fetch_index)
    <3>1. CASE fetch_index' = fetch_index
      BY <3>1
    <3>2. CASE Unfetched = {} /\ fetch_index' = sim_num_insn + 1
      <4>. SUFFICES ASSUME NEW j \in Index, ~IS_TRAP(j)
                    PROVE  j < fetch_index' /\ j < fetch_index
        OBVIOUS
      <4>1. j \in Nat /\ j < fetch_index'
        BY <3>2, NumInsnAssumption DEF Index
      <4>2. j \notin Unfetched
        BY <3>2
      <4>. QED  BY <1>1, <4>1, <4>2 DEF Unfetched
    <3>3. CASE \E i \in Index : ifq_push(i)
      BY <1>1, <1>3, <3>3 DEF ifq_push, queueVars
    <3>. QED  BY <3>1, <3>2, <3>3 DEF fetch_To_dispatch, fetch, Oldest, Unfetched
  <2>. QED  BY <1>3, <2>1, <2>2
<1>4. CASE instr_queue_size < n
           /\ \E i \in Oldest(Unfetched, 1) : ifq_push(i) /\ fetch_index' = i + 1
  <2>1. PICK i \in Oldest(Unfetched, 1) : ifq_push(i) /\ fetch_index' = i + 1
    BY <1>4
  <2>2. /\ i \in Index /\ fetch_index <= i /\ ~IS_TRAP(i)
        /\ \A j \in Unfetched : i <= j
    <3>1. Unfetched \in SUBSET Index
      BY DEF Unfetched
    <3>2. i \in Unfetched /\ \A j \in Unfetched : i <= j
      BY <3>1, OldestOne
    <3>. QED  BY <3>2 DEF Unfetched
  <2>. PICK size \in 0 .. n - 1 : size = instr_queue_size
    BY <1>1, <1>4
  <2>3. /\ instr_queue_size' = size + 1
        /\ ifq_head_idx' \in 0 .. n - 1
        /\ ifq_tail_idx' = (ifq_head_idx' + instr_queue_size') % n
        /\ \A k \in QueueIndex : QueueAt(k)' = QueueAt(k)
        /\ QueueAt(size)' = i
    BY <1>4, <2>1, <2>2, PushPreserves DEF Slot
  <2>4. ifq_tail' = i
    <3>1. (ifq_tail_idx' + n - 1) % n = (ifq_head_idx' + ((size + 1) - 1)) % n
      BY <1>1, <2>3, size + 1 \in 1 .. n, TailSlot
    <3>2. (size + 1) - 1 = size /\ size + 1 # 0
      OBVIOUS
    <3>3. ifq_tail' = instr_queue'[(ifq_head_idx' + size) % n]
      BY <2>3, <3>1, <3>2 DEF ifq_tail
    <3>. QED  BY <2>3, <3>3 DEF QueueAt
  <2>5. tom_dispatch_cycle[i] = 0
    BY <1>1, <2>2 DEF FlowInv, Index
  <2>6. /\ \A k \in QueueIndex' : k \in QueueIndex \/ k = size
        /\ size \in QueueIndex' /\ QueueIndex \subseteq QueueIndex'
    BY <2>3 DEF QueueIndex
  <2>7. Fetched(i)
    <3>1. \A j \in Index : fetch_index <= j /\ j < i => IS_TRAP(j)
      BY <1>1, <2>2 DEF Unfetched, Index
    <3>2. InQueue(i)'
      BY <2>3, <2>6 DEF InQueue
    <3>3. \A j \in Index : j # i => (InQueue(j)' <=> InQueue(j))
      BY <2>3, <2>6 DEF InQueue
    <3>. QED  BY <1>1, <1>2, <2>1, <2>2, <2>4, <2>5, <3>1, <3>2, <3>3 DEF Fetched
  <2>. QED  BY <2>2, <2>7
<1>. QED  BY <1>3, <1>4 DEF fetch_To_dispatch, fetch

LEMMA FlowPreserves ==
  ASSUME PipelineInv, PipelineInv', FlowInv, [Next]_vars
  PROVE  FlowInv'
<1>1. CASE UNCHANGED <<trace, queueVars, fetch_index, tom_dispatch_cycle,
                       unitVars, tom_execute_cycle>>
  BY <1>1, SameTrace DEF FlowInv, QueueIndex, QueueAt, queueVars, unitVars
<1>2. CASE execute_To_CDB
  <2>1. /\ UNCHANGED <<trace, queueVars, fetch_index, tom_dispatch_cycle, tom_execute_cycle>>
        /\ fuINT' \subseteq fuINT /\ fuFP' \subseteq fuFP
    BY <1>2 DEF execute_To_CDB, free_rs_and_fu
  <2>. QED  BY <2>1, SameTrace DEF FlowInv, QueueIndex, QueueAt, queueVars
<1>3. CASE issue_To_execute
  <2>1. UNCHANGED <<trace, queueVars, fetch_index, tom_dispatch_cycle>>
    BY <1>3 DEF issue_To_execute
  <2>2. \A i \in fuINT' \cup fuFP' : i \in Index /\ tom_execute_cycle'[i] # 0
    BY <1>3 DEF issue_To_execute, FlowInv, PipelineInv, TypeOK, Starting, Oldest, Ready
  <2>. QED  BY <2>1, <2>2, SameTrace DEF FlowInv, QueueIndex, QueueAt, queueVars
<1>4. CASE dispatch_To_issue
  <2>1. UNCHANGED <<trace, fetch_index, tom_dispatch_cycle, unitVars, tom_execute_cycle>>
    BY <1>4 DEF dispatch_To_issue
  <2>2. CASE UNCHANGED queueVars
    BY <1>1, <2>1, <2>2
  <2>3. CASE ifq_head # NULL /\ ifq_pop
    <3>1. \A k \in QueueIndex' : k + 1 \in QueueIndex /\ QueueAt(k)' = QueueAt(k + 1)
      BY <2>3, PopPreserves DEF PipelineInv
    <3>. QED  BY <2>1, <3>1, SameTrace DEF FlowInv, unitVars
  <2>. QED  BY <1>4, <2>2, <2>3 DEF dispatch_To_issue
<1>5. CASE fetch_To_dispatch
  <2>1. UNCHANGED <<trace, unitVars, tom_execute_cycle>>
    BY <1>5 DEF fetch_To_dispatch
  <2>2. /\ \A i \in Index : tom_dispatch_cycle'[i] # 0 <=> i < fetch_index' /\ ~IS_TRAP(i)
        /\ \A k \in QueueIndex' : ~IS_TRAP(QueueAt(k)')
    <3>1. CASE /\ UNCHANGED queueVars
               /\ \A j \in Index :
                    /\ tom_dispatch_cycle'[j] = 0 <=> tom_dispatch_cycle[j] = 0
                    /\ ~IS_TRAP(j) => (j < fetch_index' <=> j < fetch_index)
      BY <3>1 DEF FlowInv, QueueIndex, QueueAt, queueVars
    <3>2. ASSUME NEW i \in Index, Fetched(i)
          PROVE  /\ \A j \in Index : tom_dispatch_cycle'[j] # 0 <=> j < fetch_index' /\ ~IS_TRAP(j)
                 /\ \A k \in QueueIndex' : ~IS_TRAP(QueueAt(k)')
      <4>1. ASSUME NEW j \in Index
            PROVE  tom_dispatch_cycle'[j] # 0 <=> j < fetch_index' /\ ~IS_TRAP(j)
        BY <3>2 DEF Fetched, FlowInv, PipelineInv, TypeOK, Index
      <4>2. ASSUME NEW k \in QueueIndex'
            PROVE  ~IS_TRAP(QueueAt(k)')
        <5>1. PICK j \in Index : j = QueueAt(k)'
          BY DEF PipelineInv, QueueInOrder
        <5>2. InQueue(j)'
          BY <5>1 DEF InQueue
        <5>3. j = i \/ InQueue(j)
          BY <3>2, <5>2 DEF Fetched
        <5>. QED  BY <3>2, <5>1, <5>3 DEF Fetched, InQueue, FlowInv
      <4>. QED  BY <4>1, <4>2
    <3>. QED  BY <1>5, <3>1, <3>2, FetchCases
  <2>. QED  BY <2>1, <2>2, SameTrace DEF FlowInv, unitVars
<1>. QED  BY <1>1, <1>2, <1>3, <1>4, <1>5
          DEF Next, runTomasulo, Finished, vars, CDB_To_retire, EndOfCycle

\* What has been dispatched is what fetch has passed and not skipped, for
\* every trace (fetch, fetch_To_dispatch).
THEOREM FlowInvariance == Spec => []FlowInv
<1>1. Init => FlowInv
  BY InitFlowInv
<1>2. PipelineInv /\ PipelineInv' /\ FlowInv /\ [Next]_vars => FlowInv'
  BY FlowPreserves
<1>. QED  BY <1>1, <1>2, PipelineInvariance, PTL DEF Spec

-----------------------------------------------------------------------------
(* The n oldest instructions *)

\* An instruction has fewer older ones in S than a younger one of S has.
LEMMA FewerOlder ==
  ASSUME NEW S \in SUBSET Index, NEW i \in S, NEW j \in S, j < i
  PROVE  /\ Cardinality({k \in S : k < j}) \in Nat
         /\ Cardinality({k \in S : k < i}) \in Nat
         /\ Cardinality({k \in S : k < j}) < Cardinality({k \in S : k < i})
<1>. DEFINE Older(k) == {l \in S : l < k}
<1>1. i \in Nat /\ j \in Nat /\ S \subseteq Nat
  BY DEF Index
<1>2. IsFiniteSet(Older(i))
  <2>1. IsFiniteSet(Index)
    BY NumInsnAssumption, FS_Interval DEF Index
  <2>. QED  BY <2>1, FS_Subset
<1>3. Older(j) \in SUBSET Older(i) /\ j \in Older(i) \ Older(j)
  <2>1. \A k \in S : k < j => k < i
    BY <1>1
  <2>2. j < i /\ ~(j < j)
    BY <1>1
  <2>. QED  BY <2>1, <2>2
<1>4. Older(j) # Older(i)
  BY <1>3
<1>. HIDE DEF Older
<1>5. /\ IsFiniteSet(Older(j)) /\ Cardinality(Older(j)) <= Cardinality(Older(i))
      /\ Cardinality(Older(i)) # Cardinality(Older(j))
  BY <1>2, <1>3, <1>4, FS_Subset
<1>6. Cardinality(Older(i)) \in Nat /\ Cardinality(Older(j)) \in Nat
  BY <1>2, <1>5, FS_CardinalityType
<1>. QED  BY <1>5, <1>6 DEF Older

\* The n oldest are n at most.
LEMMA OldestBounded ==
  ASSUME NEW S \in SUBSET Index, NEW n \in Nat
  PROVE  IsFiniteSet(Oldest(S, n)) /\ Cardinality(Oldest(S, n)) <= n
<1>. DEFINE rank == [i \in Oldest(S, n) |-> Cardinality({k \in S : k < i})]
<1>1. IsFiniteSet(Oldest(S, n)) /\ Oldest(S, n) \subseteq S
  <2>1. IsFiniteSet(Index)
    BY NumInsnAssumption, FS_Interval DEF Index
  <2>2. Oldest(S, n) \in SUBSET Index /\ Oldest(S, n) \subseteq S
    BY DEF Oldest
  <2>. QED  BY <2>1, <2>2, FS_Subset
<1>2. IsFiniteSet(0 .. n - 1) /\ Cardinality(0 .. n - 1) = n
  BY FS_Interval
<1>3. rank \in [Oldest(S, n) -> 0 .. n - 1]
  <2>. SUFFICES ASSUME NEW i \in Oldest(S, n)
                PROVE  Cardinality({k \in S : k < i}) \in 0 .. n - 1
    OBVIOUS
  <2>1. Cardinality({k \in S : k < i}) < n
    BY DEF Oldest
  <2>2. IsFiniteSet({k \in S : k < i})
    <3>1. IsFiniteSet(Index)
      BY NumInsnAssumption, FS_Interval DEF Index
    <3>. QED  BY <3>1, FS_Subset
  <2>. QED  BY <2>1, <2>2, FS_CardinalityType
<1>4. ASSUME NEW x \in Oldest(S, n), NEW y \in Oldest(S, n), x # y
      PROVE  rank[x] # rank[y]
  <2>1. x \in S /\ y \in S /\ x \in Nat /\ y \in Nat
    <3>1. x \in S /\ y \in S /\ S \subseteq Nat
      BY <1>1 DEF Index
    <3>. QED  BY <3>1
  <2>2. CASE x < y
    BY <1>4, <2>1, <2>2, FewerOlder
  <2>3. CASE y < x
    BY <1>4, <2>1, <2>3, FewerOlder
  <2>. QED  BY <1>4, <2>1, <2>2, <2>3
<1>. HIDE DEF rank
<1>5. Cardinality(Oldest(S, n)) \in Nat
  BY <1>1, FS_CardinalityType
<1>6. ~(n < Cardinality(Oldest(S, n)))
  BY <1>1, <1>2, <1>3, <1>4, FS_PigeonHole
<1>. QED  BY <1>1, <1>5, <1>6

\* What is older than one of the n oldest is one of them.
LEMMA OldestClosed ==
  ASSUME NEW S \in SUBSET Index, NEW n \in Int,
         NEW i \in Oldest(S, n), NEW j \in S, j < i
  PROVE  j \in Oldest(S, n)
<1>1. i \in S /\ Cardinality({k \in S : k < i}) < n
  BY DEF Oldest
<1>2. /\ Cardinality({k \in S : k < j}) \in Nat
      /\ Cardinality({k \in S : k < i}) \in Nat
      /\ Cardinality({k \in S : k < j}) < Cardinality({k \in S : k < i})
  BY <1>1, FewerOlder
<1>3. Cardinality({k \in S : k < j}) < n
  BY <1>1, <1>2
<1>. QED  BY <1>3 DEF Oldest

\* As many as are still free may be added to a set of bounded size.
LEMMA RoomForOldest ==
  ASSUME NEW units \in SUBSET Index, NEW size \in Nat, Cardinality(units) <= size,
         NEW S \in SUBSET Index
  PROVE  Cardinality(units \cup Oldest(S, size - Cardinality(units))) <= size
<1>1. IsFiniteSet(units) /\ Cardinality(units) \in Nat
  <2>1. IsFiniteSet(Index)
    BY NumInsnAssumption, FS_Interval DEF Index
  <2>. QED  BY <2>1, FS_Subset, FS_CardinalityType
<1>. PICK n \in Nat : n = size - Cardinality(units)
  BY <1>1
<1>2. IsFiniteSet(Oldest(S, n)) /\ Cardinality(Oldest(S, n)) <= n
  BY OldestBounded
<1>3. /\ Cardinality(units \cup Oldest(S, n))
           = Cardinality(units) + Cardinality(Oldest(S, n))
               - Cardinality(units \cap Oldest(S, n))
      /\ Cardinality(units \cap Oldest(S, n)) \in Nat
      /\ Cardinality(Oldest(S, n)) \in Nat
  BY <1>1, <1>2, FS_Union, FS_Intersection, FS_CardinalityType
<1>. QED  BY <1>1, <1>2, <1>3

-----------------------------------------------------------------------------
(* The timing table: what a step leaves alone *)

LEMMA SameKinds ==
  ASSUME UNCHANGED trace
  PROVE  \A i : /\ USES_INT_FU(i)' <=> USES_INT_FU(i)
                /\ USES_FP_FU(i)' <=> USES_FP_FU(i)
                /\ Latency(i)' = Latency(i)
BY DEF USES_INT_FU, USES_FP_FU, Latency

LEMMA Latencies ==
  \A i : Latency(i) \in Nat \ {0}
BY SizeAssumption DEF Latency

LEMMA StationsFrame ==
  ASSUME UNCHANGED <<trace, stationVars, unitVars, tom_issue_cycle,
                     tom_execute_cycle, tom_cdb_cycle>>
  PROVE  /\ StationsByKind => StationsByKind'
         /\ StationsMatch => StationsMatch'
BY SameTrace, SameKinds DEF StationsByKind, StationsMatch, stationVars, unitVars

LEMMA StagesFrame ==
  ASSUME UNCHANGED <<trace, tom_dispatch_cycle, tom_issue_cycle,
                     tom_execute_cycle, tom_cdb_cycle>>
  PROVE  StagesInOrder => StagesInOrder'
<1>1. StageOrder => StageOrder'
  BY SameTrace, SameKinds DEF StageOrder
<1>2. OldestBroadcasts => OldestBroadcasts'
  BY SameTrace, SameKinds DEF OldestBroadcasts
<1>3. OldestExecutes => OldestExecutes'
  BY SameTrace, SameKinds DEF OldestExecutes
<1>. QED  BY <1>1, <1>2, <1>3 DEF StagesInOrder

LEMMA InitTiming == Init => TimingInv
<1>. SUFFICES ASSUME Init PROVE TimingInv
  OBVIOUS
<1>. USE DEF Init
<1>1. FlowInv
  BY InitFlowInv
<1>2. StationsByKind /\ CyclesPassed
  BY DEF StationsByKind, CyclesPassed
<1>3. StationsMatch
  BY SizeAssumption, FS_EmptySet DEF StationsMatch
<1>4. StagesInOrder
  BY DEF StagesInOrder, StageOrder, OldestBroadcasts, OldestExecutes
<1>5. AllSimulated
  BY DEF AllSimulated
<1>. QED  BY <1>1, <1>2, <1>3, <1>4, <1>5 DEF TimingInv

-----------------------------------------------------------------------------
(* The timing table: the stages preserve its invariant *)

LEMMA RetireTiming ==
  ASSUME PipelineInv, TimingInv, FlowInv', CDB_To_retire
  PROVE  TimingInv'
<1>1. /\ UNCHANGED <<trace, queueVars, stationVars, unitVars, fetch_index,
                     tom_dispatch_cycle, tom_issue_cycle, tom_execute_cycle,
                     tom_cdb_cycle, cycle>>
      /\ stage = "retire" /\ stage' = "broadcast"
  BY DEF CDB_To_retire
<1>2. StationsByKind' /\ StationsMatch' /\ StagesInOrder'
  BY <1>1, StationsFrame, StagesFrame DEF TimingInv
<1>3. CyclesPassed'
  BY <1>1 DEF TimingInv, CyclesPassed
<1>4. AllSimulated'
  BY <1>1 DEF AllSimulated
<1>. QED  BY <1>2, <1>3, <1>4 DEF TimingInv

\* What has a result, has started to execute and has not broadcast is in a unit.
LEMMA InUnit ==
  ASSUME PipelineInv, TimingInv, NEW i \in Index, WRITES_CDB(i),
         tom_execute_cycle[i] # 0, tom_cdb_cycle[i] = 0
  PROVE  i \in fuINT \cup fuFP
<1>1. tom_issue_cycle[i] # 0
  BY DEF TimingInv, StagesInOrder, StageOrder
<1>. QED  BY <1>1 DEF TimingInv, StationsMatch

LEMMA BroadcastTiming ==
  ASSUME PipelineInv, TimingInv, FlowInv', execute_To_CDB
  PROVE  TimingInv'
<1>1. /\ UNCHANGED <<trace, queueVars, map_table, fetch_index, Q, tom_dispatch_cycle,
                     tom_issue_cycle, tom_execute_cycle, cycle>>
      /\ stage = "broadcast" /\ stage' = "execute"
  BY DEF execute_To_CDB
<1>2. /\ cycle \in Nat \ {0}
      /\ tom_execute_cycle \in [Index -> Nat]
      /\ tom_cdb_cycle \in [Index -> Nat]
  BY DEF PipelineInv, TypeOK
<1>3. PICK S : /\ S \subseteq Completed /\ free_rs_and_fu(S)
               /\ \A j \in Index : j \in S /\ WRITES_CDB(j) => tom_cdb_cycle'[j] # 0
               /\ \A j \in Index :
                    tom_cdb_cycle'[j] # tom_cdb_cycle[j] =>
                      /\ j \in oldest_completed_instr /\ j \in S
                      /\ tom_cdb_cycle'[j] = cycle
                      /\ \A k \in Index : k # j => tom_cdb_cycle'[k] = tom_cdb_cycle[k]
  <2>. DEFINE stores == {i \in Completed : ~WRITES_CDB(i)}
  <2>1. CASE free_rs_and_fu(stores) /\ UNCHANGED tom_cdb_cycle
    BY <2>1
  <2>2. ASSUME NEW i \in oldest_completed_instr,
               tom_cdb_cycle' = [tom_cdb_cycle EXCEPT ![i] = cycle],
               free_rs_and_fu(stores \cup {i})
        PROVE  /\ stores \cup {i} \subseteq Completed
               /\ \A j \in Index : j \in stores \cup {i} /\ WRITES_CDB(j)
                                     => tom_cdb_cycle'[j] # 0
               /\ \A j \in Index :
                    tom_cdb_cycle'[j] # tom_cdb_cycle[j] =>
                      /\ j \in oldest_completed_instr /\ j \in stores \cup {i}
                      /\ tom_cdb_cycle'[j] = cycle
                      /\ \A k \in Index : k # j => tom_cdb_cycle'[k] = tom_cdb_cycle[k]
    <3>1. i \in Completed
      BY DEF oldest_completed_instr, Oldest
    <3>. QED  BY <1>2, <2>2, <3>1
  <2>. QED  BY <2>1, <2>2 DEF execute_To_CDB
<1>4. \A j \in Completed : /\ j \in Index /\ j \in fuINT \cup fuFP
                           /\ tom_execute_cycle[j] # 0 /\ tom_issue_cycle[j] # 0
                           /\ tom_cdb_cycle[j] = 0
                           /\ cycle >= tom_execute_cycle[j] + Latency(j)
  <2>. SUFFICES ASSUME NEW j \in Completed
                PROVE  /\ j \in Index /\ j \in fuINT \cup fuFP
                       /\ tom_execute_cycle[j] # 0 /\ tom_issue_cycle[j] # 0
                       /\ tom_cdb_cycle[j] = 0
                       /\ cycle >= tom_execute_cycle[j] + Latency(j)
    OBVIOUS
  <2>1. j \in Index /\ j \in fuINT \cup fuFP /\ is_execute_complete(j)
    BY DEF Completed, PipelineInv, TypeOK
  <2>2. /\ tom_execute_cycle[j] # 0
        /\ tom_issue_cycle[j] # 0 /\ tom_cdb_cycle[j] = 0
    BY <2>1 DEF TimingInv, FlowInv, PipelineInv, BroadcastOnce
  <2>. QED  BY <1>2, <2>1, <2>2, Latencies DEF is_execute_complete
<1>5. \A j \in Index : tom_cdb_cycle[j] # 0 => tom_cdb_cycle'[j] = tom_cdb_cycle[j]
  BY <1>3, <1>4
<1>6. /\ reservINT' = reservINT \ S /\ reservFP' = reservFP \ S
      /\ fuINT' = fuINT \ S /\ fuFP' = fuFP \ S
  BY <1>3 DEF free_rs_and_fu
<1>7. StationsByKind'
  BY <1>1, <1>3, <1>4, <1>6, SameKinds DEF TimingInv, StationsByKind
<1>8. CyclesPassed'
  BY <1>1 DEF TimingInv, CyclesPassed
<1>9. StationsMatch'
  <2>1. reservINT' \cup reservFP' \subseteq {i \in Index : tom_issue_cycle'[i] # 0}
    BY <1>1, <1>6 DEF TimingInv, StationsMatch
  <2>2. ASSUME NEW i \in Index, WRITES_CDB(i), tom_issue_cycle[i] # 0
        PROVE  i \in reservINT' \cup reservFP' <=> tom_cdb_cycle'[i] = 0
    <3>1. i \in reservINT \cup reservFP <=> tom_cdb_cycle[i] = 0
      BY <2>2 DEF TimingInv, StationsMatch
    <3>. QED  BY <1>2, <1>3, <1>6, <2>2, <3>1
  <2>3. /\ fuINT' = {i \in reservINT' : tom_execute_cycle'[i] # 0}
        /\ fuFP' = {i \in reservFP' : tom_execute_cycle'[i] # 0}
    BY <1>1, <1>6 DEF TimingInv, StationsMatch
  <2>4. Cardinality(fuINT') <= FU_INT_SIZE /\ Cardinality(fuFP') <= FU_FP_SIZE
    <3>1. IsFiniteSet(fuINT) /\ IsFiniteSet(fuFP)
      <4>1. IsFiniteSet(Index)
        BY NumInsnAssumption, FS_Interval DEF Index
      <4>. QED  BY <4>1, FS_Subset DEF PipelineInv, TypeOK
    <3>2. /\ Cardinality(fuINT') <= Cardinality(fuINT)
          /\ Cardinality(fuFP') <= Cardinality(fuFP)
          /\ Cardinality(fuINT') \in Nat /\ Cardinality(fuINT) \in Nat
          /\ Cardinality(fuFP') \in Nat /\ Cardinality(fuFP) \in Nat
      BY <1>6, <3>1, FS_Subset, FS_CardinalityType
    <3>. QED  BY <3>2, SizeAssumption DEF TimingInv, StationsMatch
  <2>. QED  BY <1>1, <2>1, <2>2, <2>3, <2>4, SameTrace DEF StationsMatch
<1>10. StageOrder'
  <2>1. ASSUME NEW i \in Index, tom_cdb_cycle'[i] # 0
        PROVE  /\ tom_execute_cycle[i] # 0
               /\ tom_cdb_cycle'[i] >= tom_execute_cycle[i] + Latency(i)
    <3>1. CASE tom_cdb_cycle'[i] = tom_cdb_cycle[i]
      BY <2>1, <3>1 DEF TimingInv, StagesInOrder, StageOrder
    <3>2. CASE tom_cdb_cycle'[i] # tom_cdb_cycle[i]
      BY <1>3, <1>4, <3>2
    <3>. QED  BY <3>1, <3>2
  <2>. QED  BY <1>1, <2>1, SameTrace, SameKinds DEF TimingInv, StagesInOrder, StageOrder
<1>11. OldestBroadcasts'
  <2>. SUFFICES ASSUME NEW i \in Index, NEW j \in Index, tom_cdb_cycle'[i] # 0, j < i
                PROVE  /\ tom_cdb_cycle'[j] # tom_cdb_cycle'[i]
                       /\ (WRITES_CDB(j) /\ tom_execute_cycle[j] # 0
                             /\ tom_execute_cycle[j] + Latency(j) <= tom_cdb_cycle'[i])
                          => tom_cdb_cycle'[j] \in 1 .. tom_cdb_cycle'[i]
    BY <1>1, SameTrace, SameKinds DEF OldestBroadcasts
  <2>1. /\ i # j /\ tom_cdb_cycle[i] # cycle /\ tom_cdb_cycle[j] # cycle
        /\ tom_cdb_cycle[j] <= cycle
    BY <1>1 DEF Index, PipelineInv, BusThisCycle
  <2>2. CASE tom_cdb_cycle'[i] # tom_cdb_cycle[i]
    <3>1. /\ i \in oldest_completed_instr /\ tom_cdb_cycle'[i] = cycle
          /\ tom_cdb_cycle'[j] = tom_cdb_cycle[j]
      BY <1>3, <2>1, <2>2
    <3>2. ASSUME WRITES_CDB(j), tom_execute_cycle[j] # 0,
                 tom_execute_cycle[j] + Latency(j) <= cycle
          PROVE  tom_cdb_cycle[j] # 0
      <4>. SUFFICES ASSUME tom_cdb_cycle[j] = 0 PROVE FALSE
        OBVIOUS
      <4>1. j \in fuINT \cup fuFP
        BY <3>2, InUnit
      <4>2. is_execute_complete(j)
        BY <1>2, <3>2, Latencies DEF is_execute_complete
      <4>3. {k \in Completed : WRITES_CDB(k)} \in SUBSET Index
        BY <1>4
      <4>4. j \in {k \in Completed : WRITES_CDB(k)}
        BY <3>2, <4>1, <4>2 DEF Completed
      <4>5. i <= j
        BY <3>1, <4>3, <4>4, OldestOne DEF oldest_completed_instr
      <4>. QED  BY <4>5 DEF Index
    <3>. QED  BY <1>2, <2>1, <3>1, <3>2
  <2>3. CASE tom_cdb_cycle'[i] = tom_cdb_cycle[i]
    <3>1. /\ tom_cdb_cycle[j] # tom_cdb_cycle[i]
          /\ (WRITES_CDB(j) /\ tom_execute_cycle[j] # 0
                /\ tom_execute_cycle[j] + Latency(j) <= tom_cdb_cycle[i])
             => tom_cdb_cycle[j] \in 1 .. tom_cdb_cycle[i]
      BY <2>3 DEF TimingInv, StagesInOrder, OldestBroadcasts
    <3>2. CASE tom_cdb_cycle'[j] = tom_cdb_cycle[j]
      BY <2>3, <3>1, <3>2
    <3>3. CASE tom_cdb_cycle'[j] # tom_cdb_cycle[j]
      <4>1. tom_cdb_cycle'[j] = cycle /\ tom_cdb_cycle[j] = 0
        BY <1>3, <1>5, <3>3
      <4>. QED  BY <2>1, <2>3, <3>1, <4>1
    <3>. QED  BY <3>2, <3>3
  <2>. QED  BY <2>2, <2>3
<1>12. OldestExecutes'
  <2>. SUFFICES ASSUME NEW i \in Index, NEW j \in Index,
                       j < i, tom_execute_cycle[i] # 0,
                       (USES_INT_FU(i) /\ USES_INT_FU(j)) \/ (USES_FP_FU(i) /\ USES_FP_FU(j)),
                       \A p \in Producers(j) : /\ tom_cdb_cycle'[p] # 0
                                               /\ tom_cdb_cycle'[p] < tom_execute_cycle[i]
                PROVE  tom_execute_cycle[j] \in 1 .. tom_execute_cycle[i]
    BY <1>1, SameTrace, SameKinds DEF OldestExecutes
  <2>1. ASSUME NEW p \in Producers(j)
        PROVE  tom_cdb_cycle'[p] = tom_cdb_cycle[p]
    <3>1. p \in Index
      BY DEF Producers
    <3>2. tom_execute_cycle[i] <= cycle
      BY DEF TimingInv, CyclesPassed
    <3>. QED  BY <1>2, <1>3, <3>1, <3>2
  <2>. QED  BY <2>1 DEF TimingInv, StagesInOrder, OldestExecutes
<1>13. AllSimulated'
  BY <1>1 DEF AllSimulated
<1>. QED  BY <1>7, <1>8, <1>9, <1>10, <1>11, <1>12, <1>13 DEF TimingInv, StagesInOrder

\* Every free unit takes an instruction of its kind, the oldest that are ready.
LEMMA ExecuteTiming ==
  ASSUME PipelineInv, TimingInv, FlowInv', issue_To_execute
  PROVE  TimingInv'
<1>. DEFINE int == Starting(reservINT, fuINT, FU_INT_SIZE)
            fp  == Starting(reservFP, fuFP, FU_FP_SIZE)
<1>1. /\ UNCHANGED <<trace, queueVars, stationVars, commonDataBus, map_table,
                     fetch_index, Q, tom_dispatch_cycle, tom_issue_cycle,
                     tom_cdb_cycle, cycle>>
      /\ UNCHANGED <<reservINT, reservFP>>
      /\ stage = "execute" /\ stage' = "issue"
      /\ fuINT' = fuINT \cup int /\ fuFP' = fuFP \cup fp
      /\ \A i \in Index : tom_execute_cycle'[i] =
           IF i \in int \cup fp THEN cycle ELSE tom_execute_cycle[i]
  BY DEF issue_To_execute, stationVars
<1>2. /\ cycle \in Nat \ {0}
      /\ tom_execute_cycle \in [Index -> Nat] /\ tom_issue_cycle \in [Index -> Nat]
      /\ tom_cdb_cycle \in [Index -> Nat]
      /\ reservINT \in SUBSET Index /\ reservFP \in SUBSET Index
      /\ fuINT \in SUBSET Index /\ fuFP \in SUBSET Index
  BY DEF PipelineInv, TypeOK
<1>3. int \subseteq Ready(reservINT) /\ fp \subseteq Ready(reservFP)
  BY DEF Starting, Oldest
<1>4. /\ \A i \in int : i \in reservINT /\ USES_INT_FU(i)
      /\ \A i \in fp : i \in reservFP /\ USES_FP_FU(i)
      /\ \A i : ~(USES_INT_FU(i) /\ USES_FP_FU(i))
  BY <1>3 DEF Ready, TimingInv, StationsByKind, USES_INT_FU, USES_FP_FU
<1>5. \A i \in int \cup fp : /\ i \in Index /\ tom_execute_cycle[i] = 0
                             /\ tom_issue_cycle[i] \in 1 .. cycle - 1
                             /\ tom_cdb_cycle[i] = 0
  <2>. SUFFICES ASSUME NEW i \in int \cup fp
                PROVE  /\ i \in Index /\ tom_execute_cycle[i] = 0
                       /\ tom_issue_cycle[i] \in 1 .. cycle - 1
                       /\ tom_cdb_cycle[i] = 0
    OBVIOUS
  <2>1. /\ i \in Index /\ tom_execute_cycle[i] = 0
        /\ tom_issue_cycle[i] \notin {0, cycle}
    BY <1>2, <1>3 DEF Ready
  <2>2. tom_issue_cycle[i] <= cycle
    BY <2>1 DEF PipelineInv, BusThisCycle
  <2>3. tom_cdb_cycle[i] = 0
    BY <2>1 DEF TimingInv, StagesInOrder, StageOrder
  <2>. QED  BY <1>2, <2>1, <2>2, <2>3
<1>6. \A i \in Index : tom_execute_cycle[i] # 0 => tom_execute_cycle'[i] = tom_execute_cycle[i]
  BY <1>1, <1>5
<1>7. StationsByKind'
  BY <1>1, <1>6, SameKinds DEF TimingInv, StationsByKind
<1>8. CyclesPassed'
  BY <1>1, <1>2 DEF TimingInv, CyclesPassed
<1>9. StationsMatch'
  <2>1. fuINT' = {i \in reservINT' : tom_execute_cycle'[i] # 0}
    <3>1. \A i \in reservINT : i \notin fp
      BY <1>4 DEF TimingInv, StationsByKind
    <3>2. \A i \in reservINT : tom_execute_cycle'[i] # 0 <=> i \in int \/ tom_execute_cycle[i] # 0
      BY <1>1, <1>2, <3>1
    <3>3. fuINT = {i \in reservINT : tom_execute_cycle[i] # 0}
      BY DEF TimingInv, StationsMatch
    <3>. HIDE DEF int, fp
    <3>. QED  BY <1>1, <1>4, <3>2, <3>3
  <2>2. fuFP' = {i \in reservFP' : tom_execute_cycle'[i] # 0}
    <3>1. \A i \in reservFP : i \notin int
      BY <1>4 DEF TimingInv, StationsByKind
    <3>2. \A i \in reservFP : tom_execute_cycle'[i] # 0 <=> i \in fp \/ tom_execute_cycle[i] # 0
      BY <1>1, <1>2, <3>1
    <3>3. fuFP = {i \in reservFP : tom_execute_cycle[i] # 0}
      BY DEF TimingInv, StationsMatch
    <3>. HIDE DEF int, fp
    <3>. QED  BY <1>1, <1>4, <3>2, <3>3
  <2>3. Cardinality(fuINT') <= FU_INT_SIZE /\ Cardinality(fuFP') <= FU_FP_SIZE
    <3>1. Ready(reservINT) \in SUBSET Index /\ Ready(reservFP) \in SUBSET Index
      BY <1>2 DEF Ready
    <3>2. Cardinality(fuINT) <= FU_INT_SIZE /\ Cardinality(fuFP) <= FU_FP_SIZE
      BY DEF TimingInv, StationsMatch
    <3>3. FU_INT_SIZE \in Nat /\ FU_FP_SIZE \in Nat
      BY SizeAssumption
    <3>. QED  BY <1>1, <1>2, <3>1, <3>2, <3>3, RoomForOldest DEF Starting
  <2>. QED  BY <1>1, <2>1, <2>2, <2>3, SameTrace DEF TimingInv, StationsMatch
<1>10. StageOrder'
  <2>1. ASSUME NEW i \in Index
        PROVE  /\ tom_execute_cycle'[i] # 0
                    => tom_issue_cycle[i] \in 1 .. tom_execute_cycle'[i] - 1
               /\ tom_cdb_cycle[i] # 0 => tom_execute_cycle'[i] = tom_execute_cycle[i]
    <3>1. CASE i \in int \cup fp
      BY <1>1, <1>5, <3>1
    <3>2. CASE i \notin int \cup fp
      BY <1>1, <3>2 DEF TimingInv, StagesInOrder, StageOrder
    <3>. QED  BY <3>1, <3>2
  <2>. QED  BY <1>1, <2>1, SameTrace, SameKinds DEF TimingInv, StagesInOrder, StageOrder
<1>11. OldestBroadcasts'
  <2>. SUFFICES ASSUME NEW i \in Index, NEW j \in Index, tom_cdb_cycle[i] # 0, j < i
                PROVE  /\ tom_cdb_cycle[j] # tom_cdb_cycle[i]
                       /\ (WRITES_CDB(j) /\ tom_execute_cycle'[j] # 0
                             /\ tom_execute_cycle'[j] + Latency(j) <= tom_cdb_cycle[i])
                          => tom_cdb_cycle[j] \in 1 .. tom_cdb_cycle[i]
    BY <1>1, SameTrace, SameKinds DEF OldestBroadcasts
  <2>1. /\ tom_cdb_cycle[j] # tom_cdb_cycle[i]
        /\ (WRITES_CDB(j) /\ tom_execute_cycle[j] # 0
              /\ tom_execute_cycle[j] + Latency(j) <= tom_cdb_cycle[i])
           => tom_cdb_cycle[j] \in 1 .. tom_cdb_cycle[i]
    BY DEF TimingInv, StagesInOrder, OldestBroadcasts
  <2>2. CASE tom_execute_cycle'[j] = tom_execute_cycle[j]
    BY <2>1, <2>2
  <2>3. CASE tom_execute_cycle'[j] = cycle
    <3>1. tom_cdb_cycle[i] <= cycle
      BY DEF PipelineInv, BusThisCycle
    <3>2. Latency(j) \in Nat \ {0}
      BY Latencies
    <3>. QED  BY <1>2, <2>1, <2>3, <3>1, <3>2
  <2>. QED  BY <1>1, <2>2, <2>3
<1>12. OldestExecutes'
  <2>. SUFFICES ASSUME NEW i \in Index, NEW j \in Index,
                       j < i, tom_execute_cycle'[i] # 0,
                       (USES_INT_FU(i) /\ USES_INT_FU(j)) \/ (USES_FP_FU(i) /\ USES_FP_FU(j)),
                       \A p \in Producers(j) : /\ tom_cdb_cycle[p] # 0
                                               /\ tom_cdb_cycle[p] < tom_execute_cycle'[i]
                PROVE  tom_execute_cycle'[j] \in 1 .. tom_execute_cycle'[i]
    BY <1>1, SameTrace, SameKinds DEF OldestExecutes
  <2>1. CASE i \notin int \cup fp
    <3>1. tom_execute_cycle'[i] = tom_execute_cycle[i]
      BY <1>1, <2>1
    <3>2. tom_execute_cycle[j] \in 1 .. tom_execute_cycle[i]
      BY <3>1 DEF TimingInv, StagesInOrder, OldestExecutes
    <3>3. tom_execute_cycle'[j] = tom_execute_cycle[j]
      BY <1>6, <3>2
    <3>. QED  BY <3>1, <3>2, <3>3
  <2>2. CASE i \in int \cup fp
    <3>1. tom_execute_cycle'[i] = cycle
      BY <1>1, <2>2
    <3>2. CASE tom_execute_cycle[j] # 0
      <4>1. tom_execute_cycle[j] <= cycle
        BY DEF TimingInv, CyclesPassed
      <4>. QED  BY <1>2, <1>6, <3>1, <3>2, <4>1
    <3>3. CASE tom_execute_cycle[j] = 0
      <4>1. tom_issue_cycle[j] \in 1 .. cycle - 1
        <5>1. tom_issue_cycle[j] \in 1 .. tom_issue_cycle[i] - 1
          BY <1>5, <2>2 DEF TimingInv, StagesInOrder, StageOrder, Executes
        <5>. QED  BY <1>2, <1>5, <2>2, <5>1
      <4>2. j \in reservINT \cup reservFP
        BY <3>3, <4>1 DEF TimingInv, StationsByKind
      <4>3. ~hasRAWHazard(j)
        <5>1. Q[j] \subseteq Producers(j)
          BY <4>1 DEF PipelineInv, DependenciesKept
        <5>2. Producers(j) \subseteq Index
          BY DEF Producers
        <5>. QED  BY <1>2, <3>1, <5>1, <5>2 DEF hasRAWHazard
      <4>4. \A rs : j \in rs => j \in Ready(rs)
        BY <1>2, <3>3, <4>1, <4>3 DEF Ready
      <4>5. ASSUME NEW rs \in SUBSET Index, NEW n \in Int,
                   i \in Oldest(Ready(rs), n), j \in rs
            PROVE  j \in Oldest(Ready(rs), n)
        <5>1. Ready(rs) \in SUBSET Index /\ j \in Ready(rs)
          BY <4>4, <4>5 DEF Ready
        <5>. QED  BY <4>5, <5>1, OldestClosed
      <4>6. /\ FU_INT_SIZE - Cardinality(fuINT) \in Int
            /\ FU_FP_SIZE - Cardinality(fuFP) \in Int
        <5>1. IsFiniteSet(Index)
          BY NumInsnAssumption, FS_Interval DEF Index
        <5>2. Cardinality(fuINT) \in Nat /\ Cardinality(fuFP) \in Nat
          BY <1>2, <5>1, FS_Subset, FS_CardinalityType
        <5>. QED  BY <5>2, SizeAssumption
      <4>7. CASE USES_INT_FU(i) /\ USES_INT_FU(j)
        <5>1. i \in int /\ j \in reservINT
          BY <1>4, <2>2, <4>2, <4>7 DEF TimingInv, StationsByKind
        <5>2. j \in int
          BY <1>2, <4>5, <4>6, <5>1 DEF Starting
        <5>. QED  BY <1>1, <1>2, <3>1, <5>2
      <4>8. CASE USES_FP_FU(i) /\ USES_FP_FU(j)
        <5>1. i \in fp /\ j \in reservFP
          BY <1>4, <2>2, <4>2, <4>8 DEF TimingInv, StationsByKind
        <5>2. j \in fp
          BY <1>2, <4>5, <4>6, <5>1 DEF Starting
        <5>. QED  BY <1>1, <1>2, <3>1, <5>2
      <4>. QED  BY <4>7, <4>8
    <3>. QED  BY <3>2, <3>3
  <2>. QED  BY <2>1, <2>2
<1>13. AllSimulated'
  BY <1>1 DEF AllSimulated
<1>. QED  BY <1>7, <1>8, <1>9, <1>10, <1>11, <1>12, <1>13 DEF TimingInv, StagesInOrder

\* Issuing the head of the queue: all older instructions that execute have been
\* issued, in earlier cycles.
LEMMA IssueTiming ==
  ASSUME PipelineInv, TimingInv, FlowInv', dispatch_To_issue
  PROVE  TimingInv'
<1>1. /\ UNCHANGED <<trace, unitVars, commonDataBus, fetch_index,
                     tom_dispatch_cycle, tom_execute_cycle, tom_cdb_cycle, cycle>>
      /\ stage = "issue" /\ stage' = "fetch"
  BY DEF dispatch_To_issue
<1>2. /\ cycle \in Nat \ {0}
      /\ tom_execute_cycle \in [Index -> Nat] /\ tom_issue_cycle \in [Index -> Nat]
      /\ tom_dispatch_cycle \in [Index -> Nat] /\ tom_cdb_cycle \in [Index -> Nat]
  BY DEF PipelineInv, TypeOK
<1>3. AllSimulated'
  BY <1>1 DEF AllSimulated
<1>4. CASE UNCHANGED <<stationVars, tom_issue_cycle>>
  <2>1. StationsByKind' /\ StationsMatch' /\ StagesInOrder'
    BY <1>1, <1>4, StationsFrame, StagesFrame DEF TimingInv
  <2>2. CyclesPassed'
    BY <1>1, <1>4 DEF TimingInv, CyclesPassed
  <2>. QED  BY <1>3, <2>1, <2>2 DEF TimingInv
<1>5. CASE /\ ifq_head # NULL /\ Executes(ifq_head)
           /\ reservINT_insert(ifq_head) \/ reservFP_insert(ifq_head)
           /\ tom_issue_cycle' = [tom_issue_cycle EXCEPT ![ifq_head] = cycle]
           /\ ifq_pop
  <2>1. PICK h \in Index : h = ifq_head /\ h = QueueAt(0)
    BY <1>5, PopPreserves DEF PipelineInv
  <2>2. 0 \in QueueIndex
    BY <1>5, PopPreserves DEF PipelineInv, QueueIndex
  <2>3. /\ h < fetch_index /\ tom_issue_cycle[h] = 0
        /\ tom_dispatch_cycle[h] # 0
        /\ h \notin reservINT \cup reservFP
    <3>1. InQueue(h)
      BY <2>1, <2>2 DEF InQueue
    <3>. QED  BY <2>1, <2>2, <3>1, Places DEF TimingInv, PipelineInv, QueueInOrder
  <2>4. tom_execute_cycle[h] = 0 /\ tom_cdb_cycle[h] = 0
    <3>1. tom_execute_cycle[h] = 0
      BY <1>2, <2>3 DEF TimingInv, StagesInOrder, StageOrder
    <3>. QED  BY <3>1 DEF TimingInv, StagesInOrder, StageOrder
  <2>5. \A i \in Index : tom_issue_cycle'[i] = IF i = h THEN cycle ELSE tom_issue_cycle[i]
    BY <1>2, <1>5, <2>1
  <2>6. \/ USES_INT_FU(h) /\ reservINT' = reservINT \cup {h} /\ reservFP' = reservFP
        \/ USES_FP_FU(h) /\ reservFP' = reservFP \cup {h} /\ reservINT' = reservINT
    BY <1>5, <2>1 DEF reservINT_insert, reservFP_insert
  <2>7. StationsByKind'
    <3>1. \A i \in reservINT' : USES_INT_FU(i)
      BY <2>6 DEF TimingInv, StationsByKind
    <3>2. \A i \in reservFP' : USES_FP_FU(i)
      BY <2>6 DEF TimingInv, StationsByKind
    <3>3. \A i \in Index : tom_issue_cycle'[i] # 0 /\ tom_execute_cycle[i] = 0
                             => i \in reservINT' \cup reservFP'
      BY <2>5, <2>6 DEF TimingInv, StationsByKind
    <3>. QED  BY <1>1, <3>1, <3>2, <3>3, SameKinds DEF StationsByKind
  <2>8. CyclesPassed'
    BY <1>1, <1>2, <2>5 DEF TimingInv, CyclesPassed
  <2>9. StationsMatch'
    <3>1. reservINT' \cup reservFP' \subseteq {i \in Index : tom_issue_cycle'[i] # 0}
      BY <1>2, <2>5, <2>6 DEF TimingInv, StationsMatch
    <3>2. \A i \in Index : WRITES_CDB(i) /\ tom_issue_cycle'[i] # 0 =>
            (i \in reservINT' \cup reservFP' <=> tom_cdb_cycle[i] = 0)
      BY <2>4, <2>5, <2>6 DEF TimingInv, StationsMatch
    <3>3. /\ fuINT = {i \in reservINT' : tom_execute_cycle[i] # 0}
          /\ fuFP = {i \in reservFP' : tom_execute_cycle[i] # 0}
      BY <2>4, <2>6 DEF TimingInv, StationsMatch
    <3>. QED  BY <1>1, <3>1, <3>2, <3>3, SameTrace DEF TimingInv, StationsMatch, unitVars
  <2>10. StageOrder'
    <3>1. ASSUME NEW i \in Index, tom_issue_cycle'[i] # 0
          PROVE  tom_dispatch_cycle[i] \in 1 .. tom_issue_cycle'[i] - 1
      <4>1. tom_dispatch_cycle[h] <= cycle /\ tom_dispatch_cycle[h] # cycle
        BY <1>1 DEF TimingInv, CyclesPassed
      <4>2. CASE i = h
        BY <1>2, <2>3, <2>5, <4>1, <4>2
      <4>3. CASE i # h
        BY <2>5, <3>1, <4>3 DEF TimingInv, StagesInOrder, StageOrder
      <4>. QED  BY <4>2, <4>3
    <3>2. ASSUME NEW i \in Index, tom_execute_cycle[i] # 0
          PROVE  tom_issue_cycle'[i] \in 1 .. tom_execute_cycle[i] - 1
      BY <2>4, <2>5, <3>2 DEF TimingInv, StagesInOrder, StageOrder
    <3>3. ASSUME NEW i \in Index, NEW j \in Index, j < i, Executes(j),
                 tom_issue_cycle'[i] # 0
          PROVE  tom_issue_cycle'[j] \in 1 .. tom_issue_cycle'[i] - 1
      <4>1. CASE i = h
        <5>1. tom_issue_cycle[j] # 0
          <6>. SUFFICES ASSUME tom_issue_cycle[j] = 0 PROVE FALSE
            OBVIOUS
          <6>1. j < fetch_index
            BY <2>3, <3>3, <4>1 DEF PipelineInv, TypeOK, Index
          <6>2. PICK k \in QueueIndex : QueueAt(k) = j
            BY <3>3, <6>1 DEF PipelineInv, QueueInOrder
          <6>3. k = 0 \/ 0 < k
            BY DEF QueueIndex
          <6>4. j = h \/ h < j
            BY <2>1, <2>2, <6>2, <6>3 DEF PipelineInv, QueueInOrder
          <6>. QED  BY <3>3, <4>1, <6>4 DEF Index
        <5>2. tom_issue_cycle[j] <= cycle /\ tom_issue_cycle[j] # cycle
          BY <1>1 DEF PipelineInv, BusThisCycle, TimingInv, CyclesPassed
        <5>3. j # h
          BY <3>3, <4>1 DEF Index
        <5>. QED  BY <1>2, <2>5, <4>1, <5>1, <5>2, <5>3
      <4>2. CASE i # h
        <5>1. tom_issue_cycle[j] \in 1 .. tom_issue_cycle[i] - 1
          BY <2>5, <3>3, <4>2 DEF TimingInv, StagesInOrder, StageOrder
        <5>2. j # h
          BY <2>3, <5>1
        <5>. QED  BY <2>5, <4>2, <5>1, <5>2
      <4>. QED  BY <4>1, <4>2
    <3>. QED  BY <1>1, <3>1, <3>2, <3>3, SameTrace, SameKinds
              DEF TimingInv, StagesInOrder, StageOrder
  <2>11. OldestBroadcasts' /\ OldestExecutes'
    BY <1>1, SameTrace, SameKinds
    DEF TimingInv, StagesInOrder, OldestBroadcasts, OldestExecutes
  <2>. QED  BY <1>3, <2>7, <2>8, <2>9, <2>10, <2>11 DEF TimingInv, StagesInOrder
<1>. QED  BY <1>4, <1>5 DEF dispatch_To_issue

\* Fetching an instruction: all older ones but traps have been fetched, in
\* earlier cycles.
LEMMA FetchTiming ==
  ASSUME PipelineInv, TimingInv, FlowInv', fetch_To_dispatch
  PROVE  TimingInv'
<1>1. /\ UNCHANGED <<trace, stationVars, unitVars, commonDataBus, map_table, Q,
                     tom_issue_cycle, tom_execute_cycle, tom_cdb_cycle, cycle>>
      /\ stage = "fetch" /\ stage' = "check" /\ fetch
  BY DEF fetch_To_dispatch
<1>2. /\ cycle \in Nat \ {0} /\ tom_dispatch_cycle \in [Index -> Nat]
      /\ fetch_index \in Nat
  BY DEF PipelineInv, TypeOK
<1>3. \A i \in Index :
        /\ tom_dispatch_cycle'[i] \in {cycle, tom_dispatch_cycle[i]}
        /\ tom_dispatch_cycle[i] # 0 => tom_dispatch_cycle'[i] = tom_dispatch_cycle[i]
  BY DEF fetch_To_dispatch
<1>4. \A i \in Index : tom_dispatch_cycle[i] < cycle
  BY <1>1, <1>2 DEF TimingInv, CyclesPassed
<1>5. StationsByKind' /\ StationsMatch'
  BY <1>1, StationsFrame DEF TimingInv
<1>6. CyclesPassed'
  <2>1. \A i \in Index : tom_dispatch_cycle'[i] <= cycle
    BY <1>2, <1>3, <1>4
  <2>2. instr_queue_size' = 0 => fetch_index' > sim_num_insn
    <3>1. instr_queue_size \in Nat
      BY DEF PipelineInv, TypeOK
    <3>2. CASE \E i \in Index : ifq_push(i)
      BY <3>1, <3>2 DEF ifq_push
    <3>3. CASE fetch_index' = sim_num_insn + 1
      BY <3>3, NumInsnAssumption
    <3>4. CASE instr_queue_size >= INSTR_QUEUE_SIZE /\ UNCHANGED <<queueVars, fetch_index>>
      BY <3>1, <3>4, QueueSize DEF queueVars
    <3>. QED  BY <1>1, <3>2, <3>3, <3>4 DEF fetch, Oldest, Unfetched
  <2>. QED  BY <1>1, <2>1, <2>2 DEF TimingInv, CyclesPassed
<1>7. StageOrder'
  <2>1. ASSUME NEW i \in Index, tom_issue_cycle[i] # 0
        PROVE  tom_dispatch_cycle'[i] \in 1 .. tom_issue_cycle[i] - 1
    <3>1. tom_dispatch_cycle[i] \in 1 .. tom_issue_cycle[i] - 1
      BY <2>1 DEF TimingInv, StagesInOrder, StageOrder
    <3>. QED  BY <1>3, <3>1
  <2>2. ASSUME NEW i \in Index, NEW j \in Index, j < i,
               tom_dispatch_cycle'[i] # 0, ~IS_TRAP(j)
        PROVE  tom_dispatch_cycle'[j] \in 1 .. tom_dispatch_cycle'[i] - 1
    <3>1. CASE tom_dispatch_cycle[i] # 0
      <4>1. tom_dispatch_cycle[j] \in 1 .. tom_dispatch_cycle[i] - 1
        BY <2>2, <3>1 DEF TimingInv, StagesInOrder, StageOrder
      <4>. QED  BY <1>3, <3>1, <4>1
    <3>2. CASE tom_dispatch_cycle[i] = 0
      <4>1. PICK h \in Index : Fetched(h)
        BY <2>2, <3>2, FetchCases DEF TimingInv
      <4>2. i = h /\ tom_dispatch_cycle'[i] = cycle
        BY <1>3, <2>2, <3>2, <4>1 DEF Fetched
      <4>3. j < fetch_index
        BY <1>2, <2>2, <4>1, <4>2 DEF Fetched, Index
      <4>4. tom_dispatch_cycle[j] # 0
        BY <2>2, <4>3 DEF TimingInv, FlowInv
      <4>. QED  BY <1>2, <1>3, <1>4, <4>2, <4>4
    <3>. QED  BY <3>1, <3>2
  <2>. QED  BY <1>1, <2>1, <2>2, SameTrace, SameKinds
            DEF TimingInv, StagesInOrder, StageOrder
<1>8. OldestBroadcasts' /\ OldestExecutes'
  BY <1>1, SameTrace, SameKinds
  DEF TimingInv, StagesInOrder, OldestBroadcasts, OldestExecutes
<1>9. AllSimulated'
  BY <1>1 DEF AllSimulated
<1>. QED  BY <1>5, <1>6, <1>7, <1>8, <1>9 DEF TimingInv, StagesInOrder

\* When the check finds the simulation done, fetch has passed the last
\* instruction: it would have filled the empty queue otherwise.
LEMMA CheckTiming ==
  ASSUME PipelineInv, TimingInv, FlowInv', EndOfCycle
  PROVE  TimingInv'
<1>1. /\ UNCHANGED <<trace, queueVars, stationVars, unitVars, commonDataBus,
                     map_table, fetch_index, Q, tom_dispatch_cycle,
                     tom_issue_cycle, tom_execute_cycle, tom_cdb_cycle>>
      /\ cycle' = cycle + 1 /\ stage = "check"
      /\ stage' = IF is_simulation_done THEN "done" ELSE "retire"
  BY DEF EndOfCycle
<1>2. StationsByKind' /\ StationsMatch' /\ StagesInOrder'
  BY <1>1, StationsFrame, StagesFrame DEF TimingInv
<1>3. CyclesPassed'
  <2>1. \A i \in Index : /\ tom_dispatch_cycle[i] < cycle + 1
                         /\ tom_issue_cycle[i] < cycle + 1
                         /\ tom_execute_cycle[i] < cycle + 1
    BY DEF TimingInv, CyclesPassed, PipelineInv, BusThisCycle, TypeOK
  <2>2. cycle \in Nat /\ \A i \in Index : /\ tom_dispatch_cycle[i] \in Nat
                                          /\ tom_issue_cycle[i] \in Nat
                                          /\ tom_execute_cycle[i] \in Nat
    BY DEF PipelineInv, TypeOK
  <2>. QED  BY <1>1, <2>1, <2>2 DEF CyclesPassed
<1>4. AllSimulated'
  <2>. SUFFICES ASSUME is_simulation_done, NEW i \in Index
                PROVE  /\ IS_TRAP(i) \/ tom_dispatch_cycle[i] # 0
                       /\ Executes(i) => tom_execute_cycle[i] # 0
                       /\ WRITES_CDB(i) => tom_cdb_cycle[i] # 0
    BY <1>1, SameTrace DEF AllSimulated
  <2>1. i < fetch_index
    BY <1>1, NumInsnAssumption
    DEF is_simulation_done, TimingInv, CyclesPassed, PipelineInv, TypeOK, Index
  <2>2. IS_TRAP(i) \/ tom_dispatch_cycle[i] # 0
    BY <2>1 DEF TimingInv, FlowInv
  <2>3. QueueIndex = {}
    BY DEF is_simulation_done, QueueIndex
  <2>4. Executes(i) => tom_issue_cycle[i] # 0
    BY <2>1, <2>3 DEF PipelineInv, QueueInOrder
  <2>5. Executes(i) => tom_execute_cycle[i] # 0
    BY <2>4 DEF TimingInv, StationsByKind, is_simulation_done
  <2>6. WRITES_CDB(i) => Executes(i)
    BY DEF WRITES_CDB, Executes, USES_INT_FU, USES_FP_FU
  <2>7. WRITES_CDB(i) => tom_cdb_cycle[i] # 0
    BY <2>4, <2>6 DEF TimingInv, StationsMatch, is_simulation_done
  <2>. QED  BY <2>2, <2>5, <2>7
<1>. QED  BY <1>2, <1>3, <1>4 DEF TimingInv

\* The invariant of the timing table holds of every simulation of every trace,
\* on a pipeline of any size and any latencies.
THEOREM TimingInvariance == Spec => []TimingInv
<1>1. Init => TimingInv
  BY InitTiming
<1>2. PipelineInv /\ FlowInv' /\ TimingInv /\ [Next]_vars => TimingInv'
  <2>. SUFFICES ASSUME PipelineInv, FlowInv', TimingInv, [Next]_vars
                PROVE  TimingInv'
    OBVIOUS
  <2>1. CASE UNCHANGED vars
    <3>1. StationsByKind' /\ StationsMatch' /\ StagesInOrder'
      BY <2>1, StationsFrame, StagesFrame DEF TimingInv, vars
    <3>2. CyclesPassed'
      BY <2>1 DEF TimingInv, CyclesPassed, vars, queueVars
    <3>3. AllSimulated'
      BY <2>1, SameTrace DEF TimingInv, AllSimulated, vars
    <3>. QED  BY <3>1, <3>2, <3>3 DEF TimingInv
  <2>2. CASE runTomasulo
    BY <2>2, RetireTiming, BroadcastTiming, ExecuteTiming, IssueTiming,
       FetchTiming, CheckTiming DEF runTomasulo
  <2>. QED  BY <2>1, <2>2 DEF Next, Finished
<1>. QED  BY <1>1, <1>2, PipelineInvariance, FlowInvariance, PTL DEF Spec

-----------------------------------------------------------------------------
(* The theorems *)

\* No instruction starts to execute before the results it reads, by program
\* order, have been broadcast (issue_To_execute).
THEOREM RAWAlwaysRespected == Spec => []RAWRespected
BY PipelineInvariance, PTL DEF PipelineInv

\* The map table names the last writer in flight of every register: retiring
\* instructions do not disturb later writers (clear_map_table_entry).
THEOREM MapTableAlwaysCurrent == Spec => []MapTableCurrent
BY PipelineInvariance, PTL DEF PipelineInv

\* The ring is a queue in program order, of any number of slots (ifq_push,
\* ifq_pop).
THEOREM QueueAlwaysInOrder == Spec => []QueueInOrder
BY PipelineInvariance, PTL DEF PipelineInv

\* A station is held from the issue to the broadcast, a unit from the start of
\* the execution, and no more units are in use than there are
\* (dispatch_To_issue, issue_To_execute, execute_To_CDB).
THEOREM StationsAlwaysMatch == Spec => []StationsMatch
BY TimingInvariance, PTL DEF TimingInv

\* The timing table shows the stages in order, the instructions in order, and
\* the older before the younger on the bus and in the units (runTomasulo).
THEOREM StagesAlwaysInOrder == Spec => []StagesInOrder
BY TimingInvariance, PTL DEF TimingInv

\* A simulation that ends has simulated its whole trace (is_simulation_done).
THEOREM NoneLeftOut == Spec => []AllSimulated
BY TimingInvariance, PTL DEF TimingInv

-----------------------------------------------------------------------------
(* Where an instruction is *)

\* The place gives the status.
LEMMA StatusByPlace ==
  ASSUME PipelineInv, FlowInv, NEW i \in Index
  PROVE  /\ StatusOf(i) = "waiting" <=> tom_dispatch_cycle[i] = 0
         /\ StatusOf(i) = "fetched" <=> InQueue(i)
         /\ StatusOf(i) = "executing" <=> i \in fuINT \cup fuFP
         /\ StatusOf(i) = "issued" <=> i \in (reservINT \cup reservFP) \ (fuINT \cup fuFP)
         /\ StatusOf(i) = "done" <=> /\ tom_dispatch_cycle[i] # 0
                                     /\ ~InQueue(i)
                                     /\ i \notin reservINT \cup reservFP
BY Places DEF StatusOf

\* An instruction whose place does not change keeps its status.
LEMMA SameStatus ==
  ASSUME NEW i,
         tom_dispatch_cycle'[i] = 0 <=> tom_dispatch_cycle[i] = 0,
         InQueue(i)' <=> InQueue(i),
         i \in fuINT' \cup fuFP' <=> i \in fuINT \cup fuFP,
         i \in reservINT' \cup reservFP' <=> i \in reservINT \cup reservFP
  PROVE  StatusOf(i)' = StatusOf(i)
BY DEF StatusOf

LEMMA SameQueue ==
  ASSUME UNCHANGED queueVars, NEW i
  PROVE  InQueue(i)' <=> InQueue(i)
BY DEF InQueue, QueueIndex, QueueAt, queueVars

-----------------------------------------------------------------------------
(* Every step of the pipeline is a step of the data flow, or none *)

LEMMA SameDefinitions ==
  /\ Flow!Index = Index
  /\ \A i : /\ Flow!IS_TRAP(i) <=> IS_TRAP(i)
            /\ Flow!Executes(i) <=> Executes(i)
            /\ Flow!WRITES_CDB(i) <=> WRITES_CDB(i)
            /\ Flow!Producers(i) = Producers(i)
BY DEF Flow!Index, Index, Flow!IS_TRAP, IS_TRAP, Flow!Executes, Executes,
       Flow!USES_INT_FU, USES_INT_FU, Flow!USES_FP_FU, USES_FP_FU,
       Flow!WRITES_CDB, WRITES_CDB, Flow!Producers, Producers,
       Flow!LastWriter, LastWriter

LEMMA Moves ==
  ASSUME NEW S, NEW s,
         \A i \in Index : StatusOf(i)' = IF i \in S THEN s ELSE StatusOf(i)
  PROVE  Flow!Move(S, s)
BY SameDefinitions DEF Flow!Move

LEMMA NobodyMoves ==
  ASSUME UNCHANGED trace, \A i \in Index : StatusOf(i)' = StatusOf(i)
  PROVE  UNCHANGED Flow!dataflowVars
BY DEF Flow!dataflowVars

LEMMA BroadcastIsFinish ==
  ASSUME PipelineInv, PipelineInv', FlowInv, FlowInv', execute_To_CDB
  PROVE  Flow!Next
<1>1. UNCHANGED <<trace, queueVars, tom_dispatch_cycle>>
  BY DEF execute_To_CDB
<1>2. PICK S : /\ S \subseteq Completed
               /\ free_rs_and_fu(S)
               /\ \A i, j \in S : (WRITES_CDB(i) /\ WRITES_CDB(j)) => i = j
  <2>. DEFINE stores == {i \in Completed : ~WRITES_CDB(i)}
  <2>1. CASE free_rs_and_fu(stores)
    BY <2>1
  <2>2. ASSUME NEW k \in oldest_completed_instr, free_rs_and_fu(stores \cup {k})
        PROVE  \E S : /\ S \subseteq Completed
                      /\ free_rs_and_fu(S)
                      /\ \A i, j \in S : (WRITES_CDB(i) /\ WRITES_CDB(j)) => i = j
    <3>1. stores \cup {k} \subseteq Completed
      BY DEF oldest_completed_instr, Oldest
    <3>2. \A i, j \in stores \cup {k} : (WRITES_CDB(i) /\ WRITES_CDB(j)) => i = j
      OBVIOUS
    <3>. QED  BY <2>2, <3>1, <3>2
  <2>. QED  BY <2>1, <2>2 DEF execute_To_CDB
<1>3. S \subseteq fuINT \cup fuFP /\ S \in SUBSET Index
  BY <1>2 DEF Completed, PipelineInv, TypeOK
<1>4. \A i \in S : StatusOf(i) = "executing"
  BY <1>3, StatusByPlace
<1>5. ASSUME NEW i \in Index
      PROVE  StatusOf(i)' = IF i \in S THEN "done" ELSE StatusOf(i)
  <2>1. InQueue(i)' <=> InQueue(i)
    BY <1>1, SameQueue
  <2>2. CASE i \notin S
    <3>1. /\ i \in fuINT' \cup fuFP' <=> i \in fuINT \cup fuFP
          /\ i \in reservINT' \cup reservFP' <=> i \in reservINT \cup reservFP
      BY <1>2, <2>2 DEF free_rs_and_fu
    <3>. QED  BY <1>1, <2>1, <2>2, <3>1, SameStatus
  <2>3. CASE i \in S
    <3>1. i \notin fuINT' \cup fuFP' /\ i \notin reservINT' \cup reservFP'
      BY <1>2, <2>3 DEF free_rs_and_fu
    <3>2. ~InQueue(i) /\ tom_dispatch_cycle[i] # 0
      BY <1>3, <2>3, Places
    <3>. QED  BY <1>1, <2>1, <2>3, <3>1, <3>2 DEF StatusOf
  <2>. QED  BY <2>2, <2>3
<1>6. Flow!Finish(S)
  BY <1>2, <1>3, <1>4, <1>5, Moves, SameDefinitions DEF Flow!Finish
<1>. QED  BY <1>1, <1>3, <1>6, SameDefinitions DEF Flow!Next

LEMMA StartIsExecute ==
  ASSUME PipelineInv, PipelineInv', FlowInv, FlowInv', issue_To_execute
  PROVE  Flow!Next
<1>1. UNCHANGED <<trace, queueVars, stationVars, tom_dispatch_cycle, tom_cdb_cycle>>
  BY DEF issue_To_execute
<1>2. PICK S : /\ S \subseteq Ready(reservINT) \cup Ready(reservFP)
               /\ fuINT' \cup fuFP' = (fuINT \cup fuFP) \cup S
               /\ \A i \in S : tom_execute_cycle'[i] # 0
  <2>. DEFINE int == Starting(reservINT, fuINT, FU_INT_SIZE)
              fp  == Starting(reservFP, fuFP, FU_FP_SIZE)
  <2>1. int \cup fp \subseteq Ready(reservINT) \cup Ready(reservFP)
    BY DEF Starting, Oldest
  <2>2. fuINT' \cup fuFP' = (fuINT \cup fuFP) \cup (int \cup fp)
    BY DEF issue_To_execute
  <2>3. \A i \in int \cup fp : tom_execute_cycle'[i] # 0
    BY <2>1 DEF issue_To_execute, Ready, PipelineInv, TypeOK
  <2>. QED  BY <2>1, <2>2, <2>3
<1>3. ASSUME NEW i \in S
      PROVE  /\ i \in Index /\ StatusOf(i) = "issued"
             /\ \A p \in Producers(i) : StatusOf(p) = "done"
  <2>1. /\ i \in Index /\ i \in reservINT \cup reservFP
        /\ i \notin fuINT \cup fuFP
    BY <1>2 DEF Ready, FlowInv, PipelineInv, TypeOK
  <2>2. StatusOf(i) = "issued"
    BY <2>1, StatusByPlace
  <2>3. ASSUME NEW p \in Producers(i)
        PROVE  StatusOf(p) = "done"
    <3>1. p \in Index /\ tom_cdb_cycle'[p] # 0
      BY <1>1, <1>2, <2>1, SameTrace DEF Producers, PipelineInv, RAWRespected
    <3>2. tom_cdb_cycle[p] # 0 /\ tom_issue_cycle[p] # 0
      BY <1>1, <3>1 DEF PipelineInv, BroadcastOnce
    <3>3. /\ p \notin reservINT \cup reservFP
          /\ ~InQueue(p)
          /\ tom_dispatch_cycle[p] # 0
      <4>1. p \notin reservINT \cup reservFP
        BY <3>2 DEF PipelineInv, BroadcastOnce
      <4>2. ~InQueue(p)
        BY <3>1, <3>2, Places
      <4>3. p < fetch_index /\ ~IS_TRAP(p)
        BY <3>1, <3>2
        DEF PipelineInv, IssuedInOrder, Executes, IS_TRAP, USES_INT_FU, USES_FP_FU
      <4>. QED  BY <3>1, <4>1, <4>2, <4>3 DEF FlowInv
    <3>. QED  BY <3>1, <3>3, StatusByPlace
  <2>. QED  BY <2>1, <2>2, <2>3
<1>4. ASSUME NEW i \in Index
      PROVE  StatusOf(i)' = IF i \in S THEN "executing" ELSE StatusOf(i)
  <2>1. InQueue(i)' <=> InQueue(i)
    BY <1>1, SameQueue
  <2>2. i \in reservINT' \cup reservFP' <=> i \in reservINT \cup reservFP
    BY <1>1 DEF stationVars
  <2>3. CASE i \notin S
    BY <1>1, <1>2, <2>1, <2>2, <2>3, SameStatus
  <2>4. CASE i \in S
    <3>1. ~InQueue(i) /\ tom_dispatch_cycle[i] # 0
      BY <1>2, <2>4, Places DEF Ready
    <3>. QED  BY <1>1, <1>2, <2>1, <2>4, <3>1 DEF StatusOf
  <2>. QED  BY <2>3, <2>4
<1>5. S \in SUBSET Index
  BY <1>3
<1>6. Flow!Execute(S)
  <2>1. \A i \in S : \A p \in Producers(i) : p \in Index
    BY DEF Producers
  <2>. QED  BY <1>3, <1>4, <2>1, Moves, SameDefinitions DEF Flow!Execute
<1>. QED  BY <1>1, <1>5, <1>6, SameDefinitions DEF Flow!Next

LEMMA DispatchIsIssue ==
  ASSUME PipelineInv, PipelineInv', FlowInv, FlowInv', dispatch_To_issue
  PROVE  Flow!Next \/ UNCHANGED Flow!dataflowVars
<1>1. UNCHANGED <<trace, unitVars, tom_dispatch_cycle>>
  BY DEF dispatch_To_issue
<1>2. CASE UNCHANGED <<queueVars, stationVars>>
  <2>1. \A i \in Index : StatusOf(i)' = StatusOf(i)
    BY <1>1, <1>2, SameQueue DEF StatusOf, stationVars, unitVars
  <2>. QED  BY <1>1, <2>1, NobodyMoves
<1>3. CASE ifq_head # NULL /\ ifq_pop
  <2>1. PICK h \in Index : h = ifq_head /\ h = QueueAt(0)
    BY <1>3, PopPreserves DEF PipelineInv
  <2>2. /\ instr_queue_size \in Nat \ {0}
        /\ instr_queue_size' = instr_queue_size - 1
        /\ \A k \in QueueIndex' : k + 1 \in QueueIndex /\ QueueAt(k)' = QueueAt(k + 1)
    BY <1>3, PopPreserves DEF PipelineInv
  <2>3. 0 \in QueueIndex /\ InQueue(h)
    BY <2>1, <2>2 DEF InQueue, QueueIndex
  <2>4. /\ tom_dispatch_cycle[h] # 0 /\ h \notin reservINT \cup reservFP
        /\ h \notin fuINT \cup fuFP
    BY <2>3, Places
  <2>5. \A k \in QueueIndex : QueueAt(k) = h \/ h < QueueAt(k)
    <3>. SUFFICES ASSUME NEW k \in QueueIndex, k # 0 PROVE h < QueueAt(k)
      BY <2>1
    <3>1. 0 < k
      BY DEF QueueIndex
    <3>. QED  BY <2>1, <2>3, <3>1 DEF PipelineInv, QueueInOrder
  <2>6. \A j \in Index : j < h => StatusOf(j) # "fetched"
    <3>. SUFFICES ASSUME NEW j \in Index, j < h, InQueue(j) PROVE FALSE
      BY StatusByPlace
    <3>. QED  BY <2>5 DEF InQueue, Index
  <2>7. ~InQueue(h)'
    <3>. SUFFICES ASSUME NEW k \in QueueIndex', QueueAt(k)' = h PROVE FALSE
      BY DEF InQueue
    <3>1. k + 1 \in QueueIndex /\ QueueAt(k + 1) = h /\ 0 < k + 1
      BY <2>2 DEF QueueIndex
    <3>2. QueueAt(0) < QueueAt(k + 1)
      BY <2>3, <3>1 DEF PipelineInv, QueueInOrder
    <3>. QED  BY <2>1, <3>1, <3>2 DEF Index
  <2>8. \A i \in Index : i # h => (InQueue(i)' <=> InQueue(i))
    <3>. SUFFICES ASSUME NEW i \in Index, i # h PROVE InQueue(i)' <=> InQueue(i)
      OBVIOUS
    <3>1. InQueue(i)' => InQueue(i)
      BY <2>2 DEF InQueue
    <3>2. ASSUME NEW k \in QueueIndex, QueueAt(k) = i PROVE InQueue(i)'
      <4>1. k # 0
        BY <2>1, <3>2
      <4>2. k - 1 \in QueueIndex' /\ (k - 1) + 1 = k
        BY <2>2, <4>1 DEF QueueIndex
      <4>3. QueueAt(k - 1)' = i
        BY <2>2, <3>2, <4>2
      <4>. QED  BY <4>2, <4>3 DEF InQueue
    <3>. QED  BY <3>1, <3>2 DEF InQueue
  <2>9. /\ \A i \in Index : i # h =>
             (i \in reservINT' \cup reservFP' <=> i \in reservINT \cup reservFP)
        /\ h \in reservINT' \cup reservFP' <=> Executes(h)
    <3>1. CASE Executes(h) /\ (reservINT_insert(h) \/ reservFP_insert(h))
      BY <3>1 DEF reservINT_insert, reservFP_insert
    <3>2. CASE ~Executes(h) /\ UNCHANGED stationVars
      BY <2>4, <3>2 DEF stationVars
    <3>3. CASE UNCHANGED queueVars
      BY <2>2, <3>3 DEF queueVars
    <3>. QED  BY <2>1, <3>1, <3>2, <3>3 DEF dispatch_To_issue
  <2>10. ASSUME NEW i \in Index
         PROVE  StatusOf(i)' = IF i \in {h} THEN (IF Executes(h) THEN "issued" ELSE "done")
                                            ELSE StatusOf(i)
    <3>1. i \in fuINT' \cup fuFP' <=> i \in fuINT \cup fuFP
      BY <1>1 DEF unitVars
    <3>2. CASE i # h
      BY <1>1, <2>8, <2>9, <3>1, <3>2, SameStatus
    <3>3. CASE i = h
      BY <1>1, <2>4, <2>7, <2>9, <3>1, <3>3 DEF StatusOf
    <3>. QED  BY <3>2, <3>3
  <2>11. Flow!Issue(h)
    <3>1. StatusOf(h) = "fetched"
      BY <2>3, StatusByPlace
    <3>2. Flow!Move({h}, IF Executes(h) THEN "issued" ELSE "done")
      BY <2>10, Moves
    <3>. QED  BY <2>6, <3>1, <3>2, SameDefinitions DEF Flow!Issue
  <2>. QED  BY <1>1, <2>11, SameDefinitions DEF Flow!Next
<1>. QED  BY <1>2, <1>3 DEF dispatch_To_issue

LEMMA FetchIsFetch ==
  ASSUME PipelineInv, PipelineInv', FlowInv, FlowInv', fetch_To_dispatch
  PROVE  Flow!Next \/ UNCHANGED Flow!dataflowVars
<1>1. UNCHANGED <<trace, stationVars, unitVars>>
  BY DEF fetch_To_dispatch
<1>2. CASE /\ UNCHANGED queueVars
           /\ \A j \in Index : tom_dispatch_cycle'[j] = 0 <=> tom_dispatch_cycle[j] = 0
  <2>1. ASSUME NEW i \in Index PROVE StatusOf(i)' = StatusOf(i)
    BY <1>1, <1>2, SameQueue, SameStatus DEF stationVars, unitVars
  <2>. QED  BY <1>1, <2>1, NobodyMoves
<1>3. ASSUME NEW h \in Index, Fetched(h) PROVE Flow!Next
  <2>1. StatusOf(h) = "waiting"
    BY <1>3, StatusByPlace DEF Fetched
  <2>2. \A j \in Index : (j < h /\ StatusOf(j) = "waiting") => IS_TRAP(j)
    <3>. SUFFICES ASSUME NEW j \in Index, j < h, tom_dispatch_cycle[j] = 0
                  PROVE  IS_TRAP(j)
      BY StatusByPlace
    <3>1. j < fetch_index => IS_TRAP(j)
      BY DEF FlowInv
    <3>. QED  BY <1>3, <3>1 DEF Fetched, PipelineInv, TypeOK, Index
  <2>3. ASSUME NEW i \in Index
        PROVE  StatusOf(i)' = IF i \in {h} THEN "fetched" ELSE StatusOf(i)
    <3>1. /\ i \in fuINT' \cup fuFP' <=> i \in fuINT \cup fuFP
          /\ i \in reservINT' \cup reservFP' <=> i \in reservINT \cup reservFP
      BY <1>1 DEF unitVars, stationVars
    <3>2. CASE i # h
      BY <1>3, <3>1, <3>2, SameStatus DEF Fetched
    <3>3. CASE i = h
      BY <1>3, <3>3 DEF Fetched, StatusOf
    <3>. QED  BY <3>2, <3>3
  <2>4. Flow!Fetch(h)
    <3>1. Flow!Move({h}, "fetched")
      BY <2>3, Moves
    <3>. QED  BY <1>3, <2>1, <2>2, <3>1, SameDefinitions DEF Flow!Fetch, Fetched
  <2>. QED  BY <1>1, <2>4, SameDefinitions DEF Flow!Next
<1>. QED  BY <1>2, <1>3, FetchCases

-----------------------------------------------------------------------------
(* The theorems *)

\* The pipeline of lab3 implements the data flow of the program, whatever the
\* trace, the sizes of its structures and the latencies of its units.
THEOREM PipelineImplementsDataflow == Spec => ImplementsDataflow
<1>1. Init => Flow!Init
  <2>. SUFFICES ASSUME Init PROVE Flow!Init
    OBVIOUS
  <2>1. \A i \in Index : StatusOf(i) = "waiting"
    BY DEF Init, StatusOf
  <2>. QED  BY <2>1, SameDefinitions DEF Init, Flow!Init
<1>2. ASSUME PipelineInv, PipelineInv', FlowInv, FlowInv', [Next]_vars
      PROVE  [Flow!Next]_(Flow!dataflowVars)
  <2>1. CASE UNCHANGED <<trace, queueVars, stationVars, unitVars, tom_dispatch_cycle>>
    <3>1. ASSUME NEW i \in Index PROVE StatusOf(i)' = StatusOf(i)
      BY <2>1, SameQueue, SameStatus DEF stationVars, unitVars
    <3>. QED  BY <2>1, <3>1, NobodyMoves
  <2>2. CASE execute_To_CDB \/ issue_To_execute
    BY <1>2, <2>2, BroadcastIsFinish, StartIsExecute
  <2>3. CASE dispatch_To_issue \/ fetch_To_dispatch
    BY <1>2, <2>3, DispatchIsIssue, FetchIsFetch
  <2>. QED  BY <1>2, <2>1, <2>2, <2>3
            DEF Next, runTomasulo, Finished, vars, CDB_To_retire, EndOfCycle
<1>. QED  BY <1>1, <1>2, PipelineInvariance, FlowInvariance, PTL
          DEF Spec, ImplementsDataflow, Flow!Spec
=============================================================================
