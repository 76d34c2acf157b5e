------------------------------ MODULE Dataflow ------------------------------
(***************************************************************************)
(* What the pipeline of lab3 promises: instructions are fetched and issued *)
(* in program order, an instruction executes only when those whose results *)
(* it reads have broadcast them, and one result is broadcast at a time.    *)
(* There are no cycles, queues, stations, units or map table.              *)
(***************************************************************************)
EXTENDS InstructionTrace

VARIABLE status    \* how far each instruction has got

Status == {"waiting", "fetched", "issued", "executing", "done"}

dataflowVars == <<trace, status>>

Init ==
  /\ trace \in [Index -> Instruction]
  /\ status = [i \in Index |-> "waiting"]

Move(S, s) == status' = [i \in Index |-> IF i \in S THEN s ELSE status[i]]

\* Traps are skipped.
Fetch(i) ==
  /\ ~IS_TRAP(i)
  /\ status[i] = "waiting"
  /\ \A j \in Index : (j < i /\ status[j] = "waiting") => IS_TRAP(j)
  /\ Move({i}, "fetched")

Issue(i) ==
  /\ status[i] = "fetched"
  /\ \A j \in Index : j < i => status[j] # "fetched"
  /\ Move({i}, IF Executes(i) THEN "issued" ELSE "done")

Execute(S) ==
  /\ \A i \in S : /\ status[i] = "issued"
                  /\ \A p \in Producers(i) : status[p] = "done"
  /\ Move(S, "executing")

Finish(S) ==
  /\ \A i \in S : status[i] = "executing"
  /\ \A i, j \in S : (WRITES_CDB(i) /\ WRITES_CDB(j)) => i = j
  /\ Move(S, "done")

Next ==
  /\ \/ \E i \in Index : Fetch(i) \/ Issue(i)
     \/ \E S \in SUBSET Index : Execute(S) \/ Finish(S)
  /\ UNCHANGED trace

Spec == Init /\ [][Next]_dataflowVars
=============================================================================
