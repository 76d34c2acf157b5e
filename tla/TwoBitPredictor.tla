--------------------------- MODULE TwoBitPredictor ---------------------------
(***************************************************************************)
(* The 2-bit saturating counters of lab2/predictor.cc, packed four to a    *)
(* byte.                                                                   *)
(***************************************************************************)
EXTENDS Branches

CONSTANT NUM_ENTRIES   \* bytes (1024)

ASSUME TableAssumption == NUM_ENTRIES \in Nat \ {0}

COUNTERS_PER_BYTE == 4
NUM_COUNTERS == NUM_ENTRIES * COUNTERS_PER_BYTE

VARIABLES
  prediction_table,
  run_2bitsat,   \* history: what each counter has been told last
  asked_2bitsat

vars_2bitsat == <<prediction_table, run_2bitsat, asked_2bitsat>>

Byte == 0 .. 255
Index(PC) == PC % NUM_COUNTERS
ByteOf(indx) == indx \div COUNTERS_PER_BYTE

\* 1 shifted left by the offset of a counter in its byte.
Unit(indx) == <<1, 4, 16, 64>>[(indx % COUNTERS_PER_BYTE) + 1]

Field(byte, indx) == (byte \div Unit(indx)) % 4
get_2bit_prediction(indx) == Field(prediction_table[ByteOf(indx)], indx)

\* Mutant: two counters are cleared.
Packed_ClearsTwo(byte, indx, counter_val) ==
  byte + (counter_val - ((byte \div Unit(indx)) % 16)) * Unit(indx)

\* The byte with the counter cleared and set again.
\* Mutant: it is set over the old one.
Packed_NotCleared(byte, indx, counter_val) ==
  IF counter_val > Field(byte, indx)
    THEN byte + (counter_val - Field(byte, indx)) * Unit(indx) ELSE byte

Packed(byte, indx, counter_val) ==
  byte + (counter_val - Field(byte, indx)) * Unit(indx)

InitPredictor_2bitsat ==
  /\ prediction_table = [b \in 0 .. NUM_ENTRIES - 1 |-> 85]    \* 01010101
  /\ run_2bitsat = [i \in 0 .. NUM_COUNTERS - 1 |-> 0]
  /\ asked_2bitsat = Nobody

GetPrediction_2bitsat(PC) ==
  /\ asked_2bitsat = Nobody
  /\ asked_2bitsat' = Asked(PC, Taken(get_2bit_prediction(Index(PC))))
  /\ UNCHANGED <<prediction_table, run_2bitsat>>

UpdatePredictor_2bitsat(PC, resolveDir) ==
  LET index == Index(PC)
  IN /\ asked_2bitsat.at = <<PC>>
     /\ prediction_table' =
          [prediction_table EXCEPT ![ByteOf(index)] =
             Packed(@, index, Count(get_2bit_prediction(index), resolveDir))]
     /\ run_2bitsat' = [run_2bitsat EXCEPT ![index] = Told(@, resolveDir)]
     /\ asked_2bitsat' = Nobody

Next_2bitsat ==
  \E PC \in PCs :
    \/ GetPrediction_2bitsat(PC)
    \/ \E resolveDir \in BOOLEAN : UpdatePredictor_2bitsat(PC, resolveDir)

Spec_2bitsat == InitPredictor_2bitsat /\ [][Next_2bitsat]_vars_2bitsat

-----------------------------------------------------------------------------
(* Properties *)

TypeOK_2bitsat ==
  /\ prediction_table \in [0 .. NUM_ENTRIES - 1 -> Byte]
  /\ asked_2bitsat \in {Nobody} \cup
       [at : {<<PC>> : PC \in PCs}, taken : BOOLEAN]

\* A branch whose counter saw the same outcome twice in a row is predicted to
\* go that way, whatever its neighbours in the byte do (the table's comment,
\* 0 strongly not taken .. 3 strong taken).
LearnsInTwo ==
  \A PC \in PCs :
    LET i == Index(PC)
    IN /\ run_2bitsat[i] = 2 => Taken(get_2bit_prediction(i))
       /\ run_2bitsat[i] = -2 => ~Taken(get_2bit_prediction(i))

Unpacked == INSTANCE SaturatingCounters WITH
  Counters <- 0 .. NUM_COUNTERS - 1,
  counter <- [i \in 0 .. NUM_COUNTERS - 1 |-> get_2bit_prediction(i)],
  run <- run_2bitsat,
  asked <- IF asked_2bitsat = Nobody THEN Nobody
           ELSE [asked_2bitsat EXCEPT !.at = <<Index(asked_2bitsat.at[1])>>]

\* The packed bytes behave as counters each in a variable of its own: an
\* update reads and writes two bits and leaves the other six alone.
ImplementsCounters_2bitsat == Unpacked!Spec
=============================================================================
