---------------------------- MODULE MCOutOfOrder ----------------------------
(* OutOfOrder on small programs, for TLC. *)
EXTENDS OutOfOrder

Op(flags, class, ins, out) ==
  [Nop EXCEPT !.flags = flags, !.class = class, !.ins = ins, !.out = out]
Alu(out, a, b) == Op({}, "IntALU", <<a, b, NA>>, out)
Mult(out, a, b) == Op({"LONGLAT"}, "IntMULT", <<a, b, NA>>, out)
Load(out, base, addr) == [Op({"LOAD"}, "RdPort", <<NA, base, NA>>, out) EXCEPT !.addr = addr]
Store(data, base, addr) == [Op({"STORE"}, "WrPort", <<data, base, NA>>, NA) EXCEPT !.addr = addr]
Branch(on, target, taken) ==
  [Op({"CTRL", "DIRJMP"}, "IntALU", <<on, NA, NA>>, NA) EXCEPT !.target = target, !.taken = taken]
Jump(on, target) ==
  [Op({"CTRL"}, "IntALU", <<on, NA, NA>>, NA) EXCEPT !.target = target, !.taken = TRUE]
Trap == Op({"TRAP"}, NA, <<NA, NA, NA>>, NA)
Quit == Op({"TRAP", "EXIT"}, NA, <<NA, NA, NA>>, NA)

\* A branch on a slow value, and a wrong path that starts long operations,
\* accesses memory and redefines what the right path reads.
AfterBranch ==
  {<<slow, Branch("r1", 4, TRUE), wrong, Alu("r1", "r1", "r2"), Quit>> :
     slow \in {Mult("r1", NA, NA), Load("r1", NA, 1)},
     wrong \in {Mult("r1", "r1", NA), Store("r1", NA, 1), Load("r1", "r2", 2)}}

MCPrograms == AfterBranch \cup
  {<<Mult("r1", NA, NA), Branch("r1", 5, TRUE), Load("r2", NA, 1), Store("r1", "r2", 1),
     Store("r2", NA, 1), Load("r1", NA, 1), Quit>>,
   <<Alu("r1", NA, NA), Branch("r1", 4, FALSE), Load("r1", NA, 2), Branch("r1", 6, TRUE),
     Alu("r1", "r1", NA), Quit>>,
   \* stores whose data or address is late, loads of the same and another address
   <<Mult("r1", NA, NA), Store("r1", NA, 1), Load("r2", NA, 1), Load("r1", NA, 2), Quit>>,
   <<Load("r1", NA, 2), Store("r2", "r1", 1), Load("r2", NA, 2), Alu("r2", "r2", NA), Quit>>,
   <<Mult("r1", NA, NA), Store("r1", NA, 1), Store("r2", NA, 1), Load("r2", NA, 1), Quit>>,
   <<Mult("r1", NA, NA), Store("r1", NA, 1), Store("r2", NA, 2), Load("r2", NA, 1), Quit>>,
   \* an indirect jump, traps and a nop
   <<Jump("r1", 3), Trap, Nop, Alu("r1", NA, NA), Trap, Alu("r1", NA, NA), Quit>>,
   \* more ready operations than units
   <<Mult("r1", NA, NA), Alu("r2", "r1", NA), Mult("r1", NA, NA), Mult("r2", NA, NA), Quit>>}

\* sim-outorder's defaults, and each of its switches.
Default == [inorder_issue |-> FALSE, include_spec |-> TRUE, perfect |-> FALSE, bugcompat |-> FALSE]
MCOptions ==
  {Default, [Default EXCEPT !.include_spec = FALSE], [Default EXCEPT !.perfect = TRUE],
   [Default EXCEPT !.bugcompat = TRUE],
   [Default EXCEPT !.inorder_issue = TRUE, !.bugcompat = TRUE],
   [Default EXCEPT !.inorder_issue = TRUE]}

Latency(op, issue) == [oplat |-> op, issuelat |-> issue]
MCFUs == <<[IntALU |-> Latency(1, 1)], [IntALU |-> Latency(1, 1)],
           [IntMULT |-> Latency(3, 2)],
           [RdPort |-> Latency(1, 1), WrPort |-> Latency(1, 1)]>>
=============================================================================
