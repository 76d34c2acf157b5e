-------------------------- MODULE TwoLevelPredictor --------------------------
(***************************************************************************)
(* The two-level (PAp) predictor of lab2/predictor.cc: the branch history  *)
(* table BHT keeps the last outcomes of the branches of an entry, and they *)
(* choose a counter in one of the tables of PHT.                           *)
(***************************************************************************)
EXTENDS Branches

CONSTANTS
  PHT_TABLES,    \* tables of counters (8)
  BHT_ENTRIES,   \* histories (512)
  HISTORY_LENGTH \* outcomes in a history (6)

ASSUME TablesAssumption ==
  {PHT_TABLES, BHT_ENTRIES} \subseteq Nat \ {0} /\ HISTORY_LENGTH \in Nat

HISTORIES == Power[HISTORY_LENGTH]

VARIABLES
  PHT, BHT,
  past,          \* history: the outcomes of an entry's branches, latest first
  run_2level,    \* history: what each counter has been told last
  asked_2level

vars_2level == <<PHT, BHT, past, run_2level, asked_2level>>

PHT_index(PC) == PC % PHT_TABLES
BHT_index(PC) == (PC \div PHT_TABLES) % BHT_ENTRIES
CounterOf(PC) == <<PHT_index(PC), BHT[BHT_index(PC)]>>
PHT_counters == (0 .. PHT_TABLES - 1) \X (0 .. HISTORIES - 1)

InitPredictor_2level ==
  /\ PHT = [c \in PHT_counters |-> 1]
  /\ BHT = [b \in 0 .. BHT_ENTRIES - 1 |-> 0]
  /\ past = [b \in 0 .. BHT_ENTRIES - 1 |-> <<>>]
  /\ run_2level = [c \in PHT_counters |-> 0]
  /\ asked_2level = Nobody

GetPrediction_2level(PC) ==
  /\ asked_2level = Nobody
  /\ asked_2level' = Asked(PC, Taken(PHT[CounterOf(PC)]))
  /\ UNCHANGED <<PHT, BHT, past, run_2level>>

Shift(history, taken) ==
  (2 * history + (IF taken THEN 1 ELSE 0)) % HISTORIES

\* As many outcomes as a history has.
Latest(seen) ==
  IF Len(seen) > HISTORY_LENGTH THEN SubSeq(seen, 1, HISTORY_LENGTH) ELSE seen

\* The counter is that of the history before this outcome.
UpdatePredictor_2level(PC, resolveDir) ==
  LET c == CounterOf(PC)
      b == BHT_index(PC)
  IN /\ asked_2level.at = <<PC>>
     /\ PHT' = [PHT EXCEPT ![c] = Count(@, resolveDir)]
     /\ BHT' = [BHT EXCEPT ![b] = Shift(@, resolveDir)]
     /\ past' = [past EXCEPT ![b] = Latest(<<resolveDir>> \o @)]
     /\ run_2level' = [run_2level EXCEPT ![c] = Told(@, resolveDir)]
     /\ asked_2level' = Nobody

Next_2level ==
  \E PC \in PCs :
    \/ GetPrediction_2level(PC)
    \/ \E resolveDir \in BOOLEAN : UpdatePredictor_2level(PC, resolveDir)

Spec_2level == InitPredictor_2level /\ [][Next_2level]_vars_2level

-----------------------------------------------------------------------------
(* Properties *)

\* A history is the number whose bits are the last outcomes of the entry's
\* branches, the latest lowest; outcomes there have not been are not taken.
HistoryIsPast ==
  \A b \in DOMAIN BHT : BHT[b] = Value(past[b])

Unindexed == INSTANCE SaturatingCounters WITH
  Counters <- PHT_counters, counter <- PHT,
  run <- run_2level,
  asked <- IF asked_2level = Nobody THEN Nobody
           ELSE [asked_2level EXCEPT !.at = <<CounterOf(asked_2level.at[1])>>]

\* The prediction and the update of a branch use the same counter, chosen by
\* the history before the outcome, and no other counter changes.
ImplementsCounters_2level == Unindexed!Spec
=============================================================================
