------------------------------ MODULE Branches ------------------------------
(***************************************************************************)
(* What the predictors of lab2/predictor.cc have in common.  The framework *)
(* that calls them is not in the repository; it asks for the prediction of *)
(* a branch and then tells its outcome, one branch at a time.              *)
(***************************************************************************)
EXTENDS Integers, Sequences

CONSTANT PCs     \* addresses of the branches

ASSUME BranchAssumption == PCs \subseteq Nat

Power[n \in Nat] == IF n = 0 THEN 1 ELSE 2 * Power[n - 1]

\* The number that has these bits, the lowest first.
Value(bits) ==
  LET value[n \in 0 .. Len(bits)] ==
        IF n = 0 THEN 0
        ELSE value[n - 1] + (IF bits[n] THEN Power[n - 1] ELSE 0)
  IN value[Len(bits)]

\* What has been asked and not been told yet: a branch and its prediction.
Nobody == [at |-> <<>>, taken |-> FALSE]
Asked(PC, prediction) == [at |-> <<PC>>, taken |-> prediction]

\* A counter from 0 (strongly not taken) to 3 (strongly taken).
Taken(prediction) == prediction > 1

\* Mutant: not taken counts down by two.
Count_Fast(c, taken) ==
  IF taken THEN IF c < 3 THEN c + 1 ELSE c
           ELSE IF c > 1 THEN c - 2 ELSE 0

Count(c, taken) ==
  IF taken THEN IF c < 3 THEN c + 1 ELSE c
           ELSE IF c > 0 THEN c - 1 ELSE c

\* History: how many equal outcomes, at most two, a counter has been told last;
\* negative if they were not taken.
Told(r, taken) ==
  IF taken THEN IF r > 0 THEN 2 ELSE 1
           ELSE IF r < 0 THEN -2 ELSE -1
=============================================================================
