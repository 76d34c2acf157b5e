----------------------------- MODULE Predictors -----------------------------
(***************************************************************************)
(* The tables that learn, for TLC: one of the branch predictors of         *)
(* lab2/predictor.cc or the prefetcher tables of lab4/cache.c works, the   *)
(* others stay as they were created.                                       *)
(***************************************************************************)
EXTENDS TwoBitPredictor, TwoLevelPredictor, Perceptron, PrefetchTraining

VARIABLE which    \* the predictor that works

vars == <<which, vars_2bitsat, vars_2level, vars_openend, vars_prefetch>>

Init ==
  /\ which \in {"2bitsat", "2level", "openend", "prefetch"}
  /\ InitPredictor_2bitsat /\ InitPredictor_2level /\ InitPredictor_openend
  /\ Init_prefetch

Next ==
  \/ /\ which = "2bitsat" /\ Next_2bitsat
     /\ UNCHANGED <<which, vars_2level, vars_openend, vars_prefetch>>
  \/ /\ which = "2level" /\ Next_2level
     /\ UNCHANGED <<which, vars_2bitsat, vars_openend, vars_prefetch>>
  \/ /\ which = "openend" /\ Next_openend
     /\ UNCHANGED <<which, vars_2bitsat, vars_2level, vars_prefetch>>
  \/ /\ which = "prefetch" /\ Next_prefetch
     /\ UNCHANGED <<which, vars_2bitsat, vars_2level, vars_openend>>

Spec == Init /\ [][Next]_vars

-----------------------------------------------------------------------------
(* Properties: the others are in the modules of the predictors *)

\* What a predictor leaves for the update of the same branch is still right
\* when that comes: histories are the branches' last outcomes, and idx and
\* result are those of the branch that was predicted.
HistoriesKept == HistoryIsPast /\ TrainsItsPredictor
=============================================================================
