----------------------------- MODULE MCTomasulo -----------------------------
(* Tomasulo on all traces of a few instructions, for TLC. *)
EXTENDS Tomasulo

CONSTANTS r1, r2

Insn(op, in, out) == [op |-> op, r_in |-> in, r_out |-> out]

\* Chains through one register, two writers of one register, an instruction
\* that reads what it writes, and one of each class of opcode (a load is like
\* an integer instruction).
MCInstruction ==
  {Insn("ICOMP", {r1}, {r1}), Insn("FCOMP", {}, {r1}), Insn("FCOMP", {r1, r2}, {r2}),
   Insn("STORE", {r1, r2}, {}), Insn("CTRL", {r1}, {r1}),
   Insn("TRAP", {}, {})}
=============================================================================
