---------------------------- MODULE Architecture ----------------------------
(***************************************************************************)
(* What the out-of-order core promises: the program's instructions are     *)
(* executed one after the other, as if there were no prediction, and those *)
(* that take a station retire in the same order.  A trap waits until all   *)
(* instructions before it have retired.                                    *)
(***************************************************************************)
EXTENDS Integers, SequencesExt

CONSTANT Programs

VARIABLES prog, executed, retired, done

vars == <<prog, executed, retired, done>>

NextPC ==
  IF executed = <<>> THEN 1
  ELSE LET pc == Last(executed)
       IN IF prog[pc].taken THEN prog[pc].target ELSE pc + 1

\* What takes a station, of the instructions executed.
ToRetire ==
  LET kept[n \in 0 .. Len(executed)] ==
        IF n = 0 THEN <<>>
        ELSE IF prog[executed[n]].flags \cap {"NOP", "EXIT"} = {}
             THEN Append(kept[n - 1], executed[n])
        ELSE kept[n - 1]
  IN kept[Len(executed)]

Init == prog \in Programs /\ executed = <<>> /\ retired = <<>> /\ done = FALSE

Execute ==
  /\ ~done /\ NextPC \in DOMAIN prog
  /\ "TRAP" \in prog[NextPC].flags => retired = ToRetire
  /\ executed' = Append(executed, NextPC)
  /\ done' = ("EXIT" \in prog[NextPC].flags)
  /\ UNCHANGED <<prog, retired>>

Retire ==
  /\ Len(retired) < Len(ToRetire)
  /\ retired' = Append(retired, ToRetire[Len(retired) + 1])
  /\ UNCHANGED <<prog, executed, done>>

Next == Execute \/ Retire

Spec == Init /\ [][Next]_vars
=============================================================================
