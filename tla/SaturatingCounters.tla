------------------------- MODULE SaturatingCounters -------------------------
(***************************************************************************)
(* What the counter-based predictors of lab2/predictor.cc promise: a       *)
(* branch is predicted by a counter of its own choice, a counter from 0    *)
(* (strongly not taken) to 3 (strongly taken) counts the outcomes it is    *)
(* told, and no counter is touched by the outcomes of another.             *)
(***************************************************************************)
EXTENDS Integers, Sequences

CONSTANT Counters

VARIABLES
  counter,
  run,           \* history: how many equal outcomes, at most two, a counter has
                 \* been told last; negative if they were not taken
  asked          \* the counter asked for a prediction that is not resolved
                 \* yet, and what it predicted

vars == <<counter, run, asked>>

Nobody == [at |-> <<>>, taken |-> FALSE]

Init ==
  /\ counter = [i \in Counters |-> 1]
  /\ run = [i \in Counters |-> 0]
  /\ asked = Nobody

Taken(c) == c > 1

Predict(i) ==
  /\ asked = Nobody
  /\ asked' = [at |-> <<i>>, taken |-> Taken(counter[i])]
  /\ UNCHANGED <<counter, run>>

Count(c, taken) ==
  IF taken THEN IF c < 3 THEN c + 1 ELSE c
           ELSE IF c > 0 THEN c - 1 ELSE c

Told(r, taken) ==
  IF taken THEN IF r > 0 THEN 2 ELSE 1
           ELSE IF r < 0 THEN -2 ELSE -1

Resolve(i, taken) ==
  /\ asked.at = <<i>>
  /\ counter' = [counter EXCEPT ![i] = Count(@, taken)]
  /\ run' = [run EXCEPT ![i] = Told(@, taken)]
  /\ asked' = Nobody

Next == \E i \in Counters : Predict(i) \/ \E taken \in BOOLEAN : Resolve(i, taken)

Spec == Init /\ [][Next]_vars

-----------------------------------------------------------------------------
\* A counter that has been told the same outcome twice in a row predicts it.
LearnsInTwo ==
  \A i \in Counters : /\ run[i] = 2 => Taken(counter[i])
                     /\ run[i] = -2 => ~Taken(counter[i])
=============================================================================
