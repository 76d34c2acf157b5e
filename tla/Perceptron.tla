----------------------------- MODULE Perceptron -----------------------------
(***************************************************************************)
(* The perceptron predictor of lab2/predictor.cc.  GetPrediction_openend leaves    *)
(* the perceptron it has chosen and its output in the globals idx and      *)
(* result, and UpdatePredictor_openend, which is given a PC, uses the globals.     *)
(***************************************************************************)
EXTENDS Branches, FiniteSets

CONSTANTS
  INDEX_BITS,         \* of the perceptrons (8)
  PERCEPTRON_HISTORY, \* HISTORY_BITS, outcomes in the global history (62)
  PERCEPTRON_THETA,   \* THETA, the largest output that still trains (133)
  WEIGHT_MAX          \* 127, in an int8_t

ASSUME PerceptronAssumption ==
  /\ {PERCEPTRON_HISTORY, WEIGHT_MAX} \subseteq Nat \ {0}
  /\ PERCEPTRON_THETA \in Nat /\ INDEX_BITS \in 0 .. 32

WEIGHT_MIN == -WEIGHT_MAX
NUM_PERCEPTRONS == Power[INDEX_BITS]
Perceptrons == 0 .. NUM_PERCEPTRONS - 1
History == 0 .. PERCEPTRON_HISTORY - 1

VARIABLES
  perceptron_weights, bias_weights,
  GHR,           \* the last outcomes, latest first, as 1 and -1
  idx, result,   \* what the last prediction leaves for its update
  asked_openend          \* the branch that was predicted last, until it is resolved

vars_openend == <<perceptron_weights, bias_weights, GHR, idx, result, asked_openend>>
weightVars == <<perceptron_weights, bias_weights>>

InitPredictor_openend ==
  /\ perceptron_weights = [i \in Perceptrons |-> [k \in History |-> 0]]
  /\ bias_weights = [i \in Perceptrons |-> 0]
  /\ GHR = [k \in History |-> -1]
  /\ idx = 0 /\ result = 0
  /\ asked_openend = Nobody

\* The low bits of the PC xor those of the history, whose lowest bit is the
\* latest outcome.
Hash(PC) ==
  LET differs(k) == ((PC \div Power[k]) % 2 = 1) # (k \in History /\ GHR[k] = 1)
  IN Value([k \in 1 .. INDEX_BITS |-> differs(k - 1)])

Output(bias, weights, history) ==
  LET prediction[i \in 0 .. PERCEPTRON_HISTORY] ==
        IF i = 0 THEN bias
        ELSE prediction[i - 1] + weights[i - 1] * history[i - 1]
  IN prediction[PERCEPTRON_HISTORY]
OutputOf(i) == Output(bias_weights[i], perceptron_weights[i], GHR)

\* Mutant: idx is a local variable that hides the global one.
GetPrediction_Hidden(PC) ==
  /\ asked_openend = Nobody
  /\ result' = OutputOf(Hash(PC))
  /\ asked_openend' = Asked(PC, result' >= 0)
  /\ UNCHANGED <<weightVars, GHR, idx>>

GetPrediction_openend(PC) ==
  /\ asked_openend = Nobody
  /\ idx' = Hash(PC)
  /\ result' = OutputOf(Hash(PC))
  /\ asked_openend' = Asked(PC, result' >= 0)
  /\ UNCHANGED <<weightVars, GHR>>

\* A weight goes up when outcome and history agree, else down.
\* Mutant: and a saturated weight goes back.
Adjust_FallBack(w, up) ==
  IF up THEN IF w < WEIGHT_MAX THEN w + 1 ELSE w - 1
        ELSE IF w > WEIGHT_MIN THEN w - 1 ELSE w + 1

Adjust(w, up) ==
  IF up THEN IF w < WEIGHT_MAX THEN w + 1 ELSE w
        ELSE IF w > WEIGHT_MIN THEN w - 1 ELSE w

Trains(predDir, resolveDir) ==
  predDir # resolveDir \/ result \in -PERCEPTRON_THETA .. PERCEPTRON_THETA

UpdatePredictor_openend(PC, resolveDir) ==
  LET target == IF resolveDir THEN 1 ELSE -1
  IN /\ asked_openend.at = <<PC>>
     /\ IF Trains(asked_openend.taken, resolveDir)
          THEN /\ bias_weights' =
                    [bias_weights EXCEPT ![idx] = Adjust(@, target = 1)]
               /\ perceptron_weights' =
                    [perceptron_weights EXCEPT ![idx] =
                       [k \in History |-> Adjust(@[k], target = GHR[k])]]
          ELSE UNCHANGED weightVars
     /\ GHR' = [k \in History |-> IF k = 0 THEN target ELSE GHR[k - 1]]
     /\ asked_openend' = Nobody
     /\ UNCHANGED <<idx, result>>

Next_openend ==
  \E PC \in PCs :
    \/ GetPrediction_openend(PC)
    \/ \E resolveDir \in BOOLEAN : UpdatePredictor_openend(PC, resolveDir)

Spec_openend == InitPredictor_openend /\ [][Next_openend]_vars_openend

-----------------------------------------------------------------------------
(* Properties *)

Weight == WEIGHT_MIN .. WEIGHT_MAX

\* Weights stay within their limits.
TypeOK_openend ==
  /\ perceptron_weights \in [Perceptrons -> [History -> Weight]]
  /\ bias_weights \in [Perceptrons -> Weight]
  /\ GHR \in [History -> {-1, 1}]
  /\ idx \in Perceptrons

\* The perceptron that an update trains is the one that predicted the branch:
\* the globals are still those of this branch's prediction, and the history
\* that chose it has not moved (UpdatePredictor_openend).
TrainsItsPredictor ==
  asked_openend # Nobody =>
    /\ idx = Hash(asked_openend.at[1])
    /\ result = OutputOf(idx)
    /\ asked_openend.taken = (result >= 0)

Saturated(w, up) == w = (IF up THEN WEIGHT_MAX ELSE WEIGHT_MIN)

\* Training moves the output of the same perceptron for the same history
\* towards the outcome, by one for each weight not yet saturated: a wrong
\* prediction repeated is corrected.  A branch predicted right and far enough
\* from 0 leaves the weights alone (UpdatePredictor_openend).
TrainingHelps ==
  [][asked_openend # Nobody /\ asked_openend' = Nobody =>
       LET target == GHR'[0]
           free == Cardinality({k \in History :
                     ~Saturated(perceptron_weights[idx][k], target = GHR[k])})
                   + (IF Saturated(bias_weights[idx], target = 1) THEN 0 ELSE 1)
           before == OutputOf(idx)
           after == Output(bias_weights'[idx], perceptron_weights'[idx], GHR)
       IN after - before =
            IF before * target > PERCEPTRON_THETA THEN 0 ELSE target * free]_vars_openend
=============================================================================
