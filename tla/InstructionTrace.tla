-------------------------- MODULE InstructionTrace --------------------------
(***************************************************************************)
(* The instruction trace of lab3: what sim-safe records of a program, as   *)
(* far as the timing of Tomasulo's algorithm depends on it.  An            *)
(* instruction is the class of its opcode and the sets of registers it     *)
(* reads and writes (r_in and r_out without their DNA entries).            *)
(*                                                                         *)
(* trace[i] is entry i of the code's table, the i-th instruction executed; *)
(* the table's entry 0 is not used.                                        *)
(***************************************************************************)
EXTENDS Integers, FiniteSets

CONSTANTS Reg,           \* the registers, of all register files
          Instruction,   \* the instructions a program may have
          sim_num_insn   \* the number of instructions simulated

VARIABLE trace

\* The classes of the opcode flags: F_ICOMP, F_LOAD, F_STORE, F_FCOMP, F_COND
\* or F_UNCOND or F_CALL, F_TRAP.  An opcode of machine.def is of one class.
Opcode == {"ICOMP", "LOAD", "STORE", "FCOMP", "CTRL", "TRAP"}

ASSUME InstructionAssumption ==
  Instruction \subseteq [op : Opcode, r_in : SUBSET Reg, r_out : SUBSET Reg]
ASSUME NumInsnAssumption == sim_num_insn \in Nat \ {0}

\* No store of machine.def has an output register (DNA, DNA).
ASSUME StoreAssumption ==
  \A x \in Instruction : x.op = "STORE" => x.r_out = {}

Index == 1 .. sim_num_insn

IS_TRAP(i) == trace[i].op = "TRAP"
USES_INT_FU(i) == trace[i].op \in {"ICOMP", "LOAD", "STORE"}
USES_FP_FU(i) == trace[i].op = "FCOMP"
WRITES_CDB(i) == trace[i].op \in {"ICOMP", "LOAD", "FCOMP"}

\* Control instructions and traps do not get further than the queue.
Executes(i) == USES_INT_FU(i) \/ USES_FP_FU(i)

\* p is the last instruction before i that executes and writes r.
LastWriter(p, i, r) ==
  /\ p < i /\ Executes(p) /\ r \in trace[p].r_out
  /\ \A k \in Index : (p < k /\ k < i /\ Executes(k)) => r \notin trace[k].r_out

\* The instructions whose results instruction i reads, by program order alone.
Producers(i) ==
  {p \in Index : \E r \in trace[i].r_in : LastWriter(p, i, r)}
=============================================================================
