--------------------------- MODULE PredictorProofs ---------------------------
(***************************************************************************)
(* Proofs about the predictors of lab2, for tables of any size and any     *)
(* branches.  The packed 2-bit counters of TwoBitPredictor implement       *)
(* counters in variables of their own, and two equal outcomes decide a     *)
(* prediction; so do the counters of TwoLevelPredictor: every index is in  *)
(* its table, and a prediction and its update agree on the counter.        *)
(***************************************************************************)
EXTENDS Predictors, InductionLemmas, FiniteSetTheorems, SequenceTheorems, TLAPS

Indices == 0 .. NUM_COUNTERS - 1

Runs == -2 .. 2

-----------------------------------------------------------------------------
(* Arithmetic of the packing *)

LEMMA IndexInRange ==
  \A PC \in Nat : Index(PC) \in Indices
<1>1. NUM_COUNTERS \in Nat \ {0}
  BY TableAssumption DEF NUM_COUNTERS, COUNTERS_PER_BYTE
<1>2. QED
  BY <1>1 DEF Index, Indices

LEMMA ByteInRange ==
  \A i \in Indices : ByteOf(i) \in 0 .. NUM_ENTRIES - 1
BY TableAssumption DEF Indices, ByteOf, NUM_COUNTERS, COUNTERS_PER_BYTE

\* Two counters of one byte are at different offsets.
LEMMA OffsetTells ==
  \A i, j \in Indices :
    ByteOf(i) = ByteOf(j) => (i = j <=> i % 4 = j % 4)
BY TableAssumption DEF Indices, ByteOf, NUM_COUNTERS, COUNTERS_PER_BYTE

Units == {1, 4, 16, 64}

\* Setting the two bits at u leaves those at v as they were.
LEMMA SetBits ==
  ASSUME NEW byte \in Byte, NEW u \in Units, NEW v \in Units, NEW c \in 0 .. 3
  PROVE  LET set == byte + (c - ((byte \div u) % 4)) * u
         IN /\ set \in Byte
            /\ (set \div v) % 4 = IF u = v THEN c ELSE (byte \div v) % 4
<1>1. CASE u = 1
  <2>1. CASE v = 1 BY <1>1, <2>1 DEF Byte
  <2>2. CASE v = 4 BY <1>1, <2>2 DEF Byte
  <2>3. CASE v = 16 BY <1>1, <2>3 DEF Byte
  <2>4. CASE v = 64 BY <1>1, <2>4 DEF Byte
  <2>5. QED BY <2>1, <2>2, <2>3, <2>4 DEF Units
<1>2. CASE u = 4
  <2>1. CASE v = 1 BY <1>2, <2>1 DEF Byte
  <2>2. CASE v = 4 BY <1>2, <2>2 DEF Byte
  <2>3. CASE v = 16 BY <1>2, <2>3 DEF Byte
  <2>4. CASE v = 64 BY <1>2, <2>4 DEF Byte
  <2>5. QED BY <2>1, <2>2, <2>3, <2>4 DEF Units
<1>3. CASE u = 16
  <2>1. CASE v = 1 BY <1>3, <2>1 DEF Byte
  <2>2. CASE v = 4 BY <1>3, <2>2 DEF Byte
  <2>3. CASE v = 16 BY <1>3, <2>3 DEF Byte
  <2>4. CASE v = 64 BY <1>3, <2>4 DEF Byte
  <2>5. QED BY <2>1, <2>2, <2>3, <2>4 DEF Units
<1>4. CASE u = 64
  <2>1. CASE v = 1 BY <1>4, <2>1 DEF Byte
  <2>2. CASE v = 4 BY <1>4, <2>2 DEF Byte
  <2>3. CASE v = 16 BY <1>4, <2>3 DEF Byte
  <2>4. CASE v = 64 BY <1>4, <2>4 DEF Byte
  <2>5. QED BY <2>1, <2>2, <2>3, <2>4 DEF Units
<1>5. QED
  BY <1>1, <1>2, <1>3, <1>4 DEF Units

LEMMA UnitOfOffset ==
  /\ \A i \in Indices : Unit(i) \in Units
  /\ \A i, j \in Indices : Unit(i) = Unit(j) <=> i % 4 = j % 4
<1>1. \A i \in Indices : i % 4 \in 0 .. 3
  BY TableAssumption DEF Indices, NUM_COUNTERS, COUNTERS_PER_BYTE
<1>2. \A i \in Indices : /\ i % 4 = 0 => Unit(i) = 1
                         /\ i % 4 = 1 => Unit(i) = 4
                         /\ i % 4 = 2 => Unit(i) = 16
                         /\ i % 4 = 3 => Unit(i) = 64
  BY <1>1 DEF Unit, COUNTERS_PER_BYTE
<1>3. QED
  BY <1>1, <1>2 DEF Units

\* A counter that is set reads as it was set, and every other counter of its
\* byte as before.
LEMMA PackedField ==
  ASSUME NEW byte \in Byte, NEW i \in Indices, NEW j \in Indices,
         NEW c \in 0 .. 3, ByteOf(i) = ByteOf(j)
  PROVE  /\ Packed(byte, i, c) \in Byte
         /\ Field(Packed(byte, i, c), j) =
              IF i = j THEN c ELSE Field(byte, j)
<1>1. Unit(i) \in Units /\ Unit(j) \in Units /\ (Unit(i) = Unit(j) <=> i = j)
  BY UnitOfOffset, OffsetTells
<1>2. QED
  BY <1>1, SetBits DEF Packed, Field

LEMMA FieldInRange ==
  \A byte \in Byte, i \in Indices : Field(byte, i) \in 0 .. 3
<1>1. \A byte \in Byte, u \in Units : (byte \div u) % 4 \in 0 .. 3
  BY DEF Byte, Units
<1>2. QED
  BY <1>1, UnitOfOffset DEF Field

-----------------------------------------------------------------------------
(* The invariant: a counter is not at the end its last outcome points away
   from, and on the side that two equal outcomes point to *)

Agrees(r, c) == (r > 0 => c >= r) /\ (r < 0 => c <= 3 + r)

TypeInv ==
  /\ prediction_table \in [0 .. NUM_ENTRIES - 1 -> Byte]
  /\ run_2bitsat \in [Indices -> Runs]
  /\ \/ asked_2bitsat = Nobody
     \/ \E PC \in PCs, t \in BOOLEAN : asked_2bitsat = [at |-> <<PC>>, taken |-> t]

CounterInv ==
  /\ TypeInv
  /\ \A i \in Indices : Agrees(run_2bitsat[i], get_2bit_prediction(i))

LEMMA CountInRange ==
  ASSUME NEW c \in 0 .. 3, NEW t \in BOOLEAN
  PROVE  Count(c, t) \in 0 .. 3
BY DEF Count

LEMMA ToldAgrees ==
  ASSUME NEW c \in 0 .. 3, NEW t \in BOOLEAN, NEW r \in Runs, Agrees(r, c)
  PROVE  Told(r, t) \in Runs /\ Agrees(Told(r, t), Count(c, t))
BY DEF Runs, Agrees, Told, Count

\* An update changes one counter, by Count, and one history.
LEMMA UpdateChanges ==
  ASSUME TypeInv, NEW PC \in PCs, NEW t \in BOOLEAN, UpdatePredictor_2bitsat(PC, t)
  PROVE  /\ Index(PC) \in Indices
         /\ prediction_table' \in [0 .. NUM_ENTRIES - 1 -> Byte]
         /\ \A i \in Indices :
              get_2bit_prediction(i)' =
                IF i = Index(PC) THEN Count(get_2bit_prediction(i), t)
                                 ELSE get_2bit_prediction(i)
<1> DEFINE index == Index(PC)
           c == get_2bit_prediction(index)
           byte == prediction_table[ByteOf(index)]
<1>1. index \in Indices
  BY IndexInRange, BranchAssumption
<1>2. byte \in Byte /\ c \in 0 .. 3 /\ Count(c, t) \in 0 .. 3
  BY <1>1, ByteInRange, FieldInRange, CountInRange DEF TypeInv, get_2bit_prediction
<1>3. prediction_table' =
        [prediction_table EXCEPT ![ByteOf(index)] = Packed(@, index, Count(c, t))]
  BY DEF UpdatePredictor_2bitsat
<1>4. Packed(byte, index, Count(c, t)) \in Byte
  BY <1>1, <1>2, PackedField
<1>5. ASSUME NEW i \in Indices
      PROVE  get_2bit_prediction(i)' = IF i = index THEN Count(c, t)
                                                  ELSE get_2bit_prediction(i)
  <2>1. ByteOf(i) \in 0 .. NUM_ENTRIES - 1 /\ ByteOf(index) \in 0 .. NUM_ENTRIES - 1
    BY <1>1, ByteInRange
  <2>2. CASE ByteOf(i) = ByteOf(index)
    <3>1. prediction_table'[ByteOf(i)] = Packed(byte, index, Count(c, t))
      BY <1>3, <2>1, <2>2 DEF TypeInv
    <3>2. Field(Packed(byte, index, Count(c, t)), i) =
            IF index = i THEN Count(c, t) ELSE Field(byte, i)
      BY <1>1, <1>2, <2>2, PackedField
    <3>3. QED
      BY <2>2, <3>1, <3>2 DEF get_2bit_prediction
  <2>3. CASE ByteOf(i) # ByteOf(index)
    <3>1. prediction_table'[ByteOf(i)] = prediction_table[ByteOf(i)]
      BY <1>3, <2>1, <2>3 DEF TypeInv
    <3>2. QED
      BY <2>3, <3>1 DEF get_2bit_prediction
  <2>4. QED
    BY <2>2, <2>3
<1>6. QED
  BY <1>1, <1>3, <1>4, <1>5 DEF TypeInv

LEMMA InitialCounters ==
  ASSUME InitPredictor_2bitsat
  PROVE  \A i \in Indices : get_2bit_prediction(i) = 1
<1>1. \A u \in Units : (85 \div u) % 4 = 1
  BY DEF Units
<1>2. QED
  BY <1>1, UnitOfOffset, ByteInRange DEF InitPredictor_2bitsat, get_2bit_prediction, Field

LEMMA CounterInit == InitPredictor_2bitsat => CounterInv
<1> SUFFICES ASSUME InitPredictor_2bitsat PROVE CounterInv
  OBVIOUS
<1>1. TypeInv
  BY DEF InitPredictor_2bitsat, TypeInv, Byte, Indices, Runs
<1>2. \A i \in Indices : run_2bitsat[i] = 0
  BY DEF InitPredictor_2bitsat, Indices
<1>3. QED
  BY <1>1, <1>2, InitialCounters DEF CounterInv, Agrees

LEMMA CounterNext == CounterInv /\ [Next_2bitsat]_vars_2bitsat => CounterInv'
<1> SUFFICES ASSUME CounterInv, [Next_2bitsat]_vars_2bitsat PROVE CounterInv'
  OBVIOUS
<1>1. ASSUME NEW PC \in PCs, GetPrediction_2bitsat(PC) PROVE CounterInv'
  <2>1. UNCHANGED <<prediction_table, run_2bitsat>>
    BY <1>1 DEF Asked, GetPrediction_2bitsat
  <2>2. asked_2bitsat' = Asked(PC, Taken(get_2bit_prediction(Index(PC))))
    BY <1>1 DEF Asked, GetPrediction_2bitsat
  <2>3. Taken(get_2bit_prediction(Index(PC))) \in BOOLEAN
    BY DEF Taken
  <2>4. TypeInv'
    BY <2>1, <2>2, <2>3 DEF Asked, CounterInv, TypeInv
  <2>5. QED
    BY <2>1, <2>4 DEF CounterInv, get_2bit_prediction
<1>2. ASSUME NEW PC \in PCs, NEW t \in BOOLEAN, UpdatePredictor_2bitsat(PC, t)
      PROVE  CounterInv'
  <2>1. /\ Index(PC) \in Indices
        /\ prediction_table' \in [0 .. NUM_ENTRIES - 1 -> Byte]
        /\ \A i \in Indices :
             get_2bit_prediction(i)' =
               IF i = Index(PC) THEN Count(get_2bit_prediction(i), t)
                                ELSE get_2bit_prediction(i)
    BY <1>2, UpdateChanges DEF CounterInv
  <2>2. /\ run_2bitsat' = [run_2bitsat EXCEPT ![Index(PC)] = Told(@, t)]
        /\ asked_2bitsat' = Nobody
    BY <1>2 DEF UpdatePredictor_2bitsat
  <2>3. \A i \in Indices : get_2bit_prediction(i) \in 0 .. 3
    BY ByteInRange, FieldInRange DEF CounterInv, TypeInv, get_2bit_prediction
  <2>4. ASSUME NEW i \in Indices
        PROVE  run_2bitsat'[i] \in Runs /\ Agrees(run_2bitsat'[i], get_2bit_prediction(i)')
    <3>1. run_2bitsat[i] \in Runs /\ Agrees(run_2bitsat[i], get_2bit_prediction(i))
      BY DEF CounterInv, TypeInv
    <3>2. CASE i = Index(PC)
      <4>1. run_2bitsat'[i] = Told(run_2bitsat[i], t)
        BY <2>2, <3>2 DEF CounterInv, TypeInv
      <4>2. get_2bit_prediction(i)' = Count(get_2bit_prediction(i), t)
        BY <2>1, <3>2
      <4>3. QED
        BY <2>3, <3>1, <4>1, <4>2, ToldAgrees
    <3>3. CASE i # Index(PC)
      BY <2>1, <2>2, <3>1, <3>3 DEF CounterInv, TypeInv
    <3>4. QED
      BY <3>2, <3>3
  <2>5. run_2bitsat' \in [Indices -> Runs]
    BY <2>2, <2>4 DEF CounterInv, TypeInv
  <2>6. QED
    BY <2>1, <2>2, <2>4, <2>5 DEF CounterInv, TypeInv
<1>3. CASE UNCHANGED vars_2bitsat
  BY <1>3 DEF CounterInv, TypeInv, vars_2bitsat, get_2bit_prediction
<1>4. QED
  BY <1>1, <1>2, <1>3 DEF Next_2bitsat

THEOREM CounterInvariance == Spec_2bitsat => []CounterInv
BY CounterInit, CounterNext, PTL DEF Spec_2bitsat

-----------------------------------------------------------------------------
(* The theorems *)

\* Bytes stay bytes: no update carries out of its two bits.
THEOREM TableTypeCorrect == Spec_2bitsat => []TypeOK_2bitsat
<1>1. CounterInv => TypeOK_2bitsat
  BY DEF CounterInv, TypeInv, TypeOK_2bitsat
<1>2. QED
  BY <1>1, CounterInvariance, PTL

\* Two equal outcomes in a row decide the prediction of their counter, for
\* tables of any size and any branches.
THEOREM TwoOutcomesDecide == Spec_2bitsat => []LearnsInTwo
<1>1. ASSUME CounterInv PROVE LearnsInTwo
  <2> SUFFICES ASSUME NEW PC \in PCs
               PROVE  LET i == Index(PC)
                      IN /\ run_2bitsat[i] = 2 => Taken(get_2bit_prediction(i))
                         /\ run_2bitsat[i] = -2 => ~Taken(get_2bit_prediction(i))
    BY DEF LearnsInTwo
  <2>1. Index(PC) \in Indices
    BY IndexInRange, BranchAssumption
  <2>2. /\ Agrees(run_2bitsat[Index(PC)], get_2bit_prediction(Index(PC)))
        /\ get_2bit_prediction(Index(PC)) \in 0 .. 3
    BY <1>1, <2>1, ByteInRange, FieldInRange
       DEF CounterInv, TypeInv, get_2bit_prediction
  <2>3. QED
    BY <2>2 DEF Agrees, Taken
<1>2. QED
  BY <1>1, CounterInvariance, PTL

LEMMA RefinesInit == InitPredictor_2bitsat => Unpacked!Init
BY InitialCounters DEF InitPredictor_2bitsat, Unpacked!Init, Unpacked!Nobody, Indices, Nobody

LEMMA RefinesNext ==
  CounterInv /\ [Next_2bitsat]_vars_2bitsat => [Unpacked!Next]_(Unpacked!vars)
<1> SUFFICES ASSUME CounterInv, [Next_2bitsat]_vars_2bitsat
             PROVE  [Unpacked!Next]_(Unpacked!vars)
  OBVIOUS
<1> USE DEF Indices
<1>1. ASSUME NEW PC \in PCs, GetPrediction_2bitsat(PC) PROVE Unpacked!Predict(Index(PC))
  <2>1. Index(PC) \in Indices
    BY IndexInRange, BranchAssumption
  <2>2. asked_2bitsat = Nobody /\ asked_2bitsat' # Nobody
    BY <1>1 DEF Asked, GetPrediction_2bitsat, Nobody
  <2>3. QED
    BY <1>1, <2>1, <2>2 DEF Asked, GetPrediction_2bitsat, Unpacked!Predict, Unpacked!Nobody,
       Nobody, Taken, Unpacked!Taken, get_2bit_prediction
<1>2. ASSUME NEW PC \in PCs, NEW t \in BOOLEAN, UpdatePredictor_2bitsat(PC, t)
      PROVE  Unpacked!Resolve(Index(PC), t)
  <2>1. /\ Index(PC) \in Indices
        /\ \A i \in Indices :
             get_2bit_prediction(i)' =
               IF i = Index(PC) THEN Count(get_2bit_prediction(i), t)
                                ELSE get_2bit_prediction(i)
    BY <1>2, UpdateChanges DEF CounterInv
  <2>2. asked_2bitsat.at = <<PC>> /\ asked_2bitsat # Nobody /\ asked_2bitsat' = Nobody
    BY <1>2 DEF UpdatePredictor_2bitsat, Nobody
  <2>3. asked_2bitsat.at[1] = PC /\ "at" \in DOMAIN asked_2bitsat
    BY <2>2 DEF CounterInv, TypeInv
  <2>4. run_2bitsat' = [run_2bitsat EXCEPT ![Index(PC)] = Unpacked!Told(@, t)]
    BY <1>2 DEF UpdatePredictor_2bitsat, Told, Unpacked!Told
  <2>5. [i \in Indices |-> get_2bit_prediction(i)']
          = [[i \in Indices |-> get_2bit_prediction(i)]
               EXCEPT ![Index(PC)] = Unpacked!Count(@, t)]
    BY <2>1 DEF Count, Unpacked!Count
  <2>6. QED
    BY <2>2, <2>3, <2>4, <2>5 DEF Unpacked!Resolve, Unpacked!Nobody, Nobody
<1>3. CASE UNCHANGED vars_2bitsat
  BY <1>3 DEF vars_2bitsat, Unpacked!vars, get_2bit_prediction, Nobody
<1>4. QED
  <2>1. \A PC \in PCs : Index(PC) \in Indices
    BY IndexInRange, BranchAssumption
  <2>2. QED
    BY <1>1, <1>2, <1>3, <2>1 DEF Next_2bitsat, Unpacked!Next

\* The packed bytes implement counters in variables of their own, for any
\* number of bytes and any branches.
THEOREM PackedCountersImplement == Spec_2bitsat => ImplementsCounters_2bitsat
BY CounterInvariance, RefinesInit, RefinesNext, PTL
   DEF Spec_2bitsat, ImplementsCounters_2bitsat, Unpacked!Spec

-----------------------------------------------------------------------------
(* Powers of two, and numbers given by their bits *)

LEMMA PowerIs ==
  Power[0] = 1 /\ \A n \in Nat : Power[n] \in Nat \ {0} /\ Power[n + 1] = 2 * Power[n]
<1> DEFINE Is(f) == f = [n \in Nat |-> IF n = 0 THEN 1 ELSE 2 * f[n - 1]]
           step == [x \in Nat \X (Nat \ {0}) |-> 2 * x[2]]
<1>1. \E f \in [Nat -> Nat \ {0}] : \A n \in Nat : Follows(f, n, 1, step)
  <2>1. step \in [Nat \X (Nat \ {0}) -> Nat \ {0}] /\ 1 \in Nat \ {0}
    OBVIOUS
  <2> HIDE DEF step
  <2>2. QED
    BY <2>1, EndlessRecursion
<1>2. PICK f \in [Nat -> Nat \ {0}] : \A n \in Nat : Follows(f, n, 1, step)
  BY <1>1
<1>3. f[0] = 1 /\ \A n \in Nat : f[n + 1] = 2 * f[n]
  <2>1. \A n \in Nat : n + 1 \in Nat /\ n \in 0 .. (n + 1) - 1 /\ 0 \in Nat
    OBVIOUS
  <2>2. f[0] = 1 /\ \A n \in Nat : f[n + 1] = step[<<n, f[n]>>]
    BY <1>2, <2>1 DEF Follows
  <2>3. QED
    BY <2>2
<1>4. Is(f)
  <2>1. \A n \in Nat : n # 0 => n - 1 \in Nat /\ (n - 1) + 1 = n
    OBVIOUS
  <2>2. \A n \in Nat : f[n] = IF n = 0 THEN 1 ELSE 2 * f[n - 1]
    BY <1>3, <2>1
  <2>3. f = [n \in Nat |-> f[n]]
    OBVIOUS
  <2>4. QED
    BY <2>2, <2>3
<1>5. Is(Power)
  <2>1. Power = CHOOSE g : Is(g)
    BY DEF Power
  <2> HIDE DEF Is
  <2>2. QED
    BY <1>4, <2>1
<1>6. \A k \in Nat : Power[k] = IF k = 0 THEN 1 ELSE 2 * Power[k - 1]
  BY <1>5
<1>7. ASSUME NEW n \in Nat PROVE Power[n] = f[n]
  <2>1. Power[0] = f[0]
    BY <1>3, <1>6
  <2>2. \A k \in 0 .. n - 1 : Power[k] = f[k] => Power[k + 1] = f[k + 1]
    <3>1. \A k \in 0 .. n - 1 : k \in Nat /\ k + 1 \in Nat /\ k + 1 # 0 /\ (k + 1) - 1 = k
      OBVIOUS
    <3>2. QED
      BY <1>3, <1>6, <3>1
  <2>3. \A k \in 0 .. n : Power[k] = f[k]
    BY <2>1, <2>2, SameValues
  <2>4. QED
    BY <2>3
<1>8. QED
  <2>1. \A n \in Nat : n + 1 \in Nat
    OBVIOUS
  <2>2. QED
    BY <1>3, <1>7, <2>1

LEMMA PowerGrows ==
  ASSUME NEW m \in Nat, NEW n \in Nat, m <= n
  PROVE  Power[m] <= Power[n]
<1> DEFINE S == {d \in Nat : Power[m] <= Power[m + d]}
<1>1. 0 \in S
  BY PowerIs
<1>2. ASSUME NEW d \in Nat, d \in S PROVE d + 1 \in S
  <2>1. m + d \in Nat /\ m + (d + 1) = (m + d) + 1
    OBVIOUS
  <2>2. Power[m + (d + 1)] = 2 * Power[m + d] /\ Power[m + d] \in Nat /\ Power[m] \in Nat
    BY <2>1, PowerIs
  <2>3. QED
    BY <1>2, <2>2
<1> HIDE DEF S
<1>3. Nat \subseteq S
  BY <1>1, <1>2, Induction
<1>4. n - m \in Nat /\ m + (n - m) = n
  OBVIOUS
<1>5. QED
  BY <1>3, <1>4 DEF S

LEMMA HistoriesIs == HISTORIES \in Nat \ {0}
BY PowerIs, TablesAssumption DEF HISTORIES

Bit(bits, n) == IF bits[n] THEN Power[n - 1] ELSE 0

\* f has the values of the first bits.
Values(f, bits) ==
  /\ f \in [0 .. Len(bits) -> Nat] /\ f[0] = 0
  /\ \A k \in 0 .. Len(bits) - 1 : f[k + 1] = f[k] + Bit(bits, k + 1)

LEMMA ValueIs ==
  ASSUME NEW bits \in Seq(BOOLEAN)
  PROVE  \E f : Values(f, bits) /\ Value(bits) = f[Len(bits)]
<1> DEFINE L == Len(bits)
           Is(f) == f = [n \in 0 .. L |->
                           IF n = 0 THEN 0
                           ELSE f[n - 1] + (IF bits[n] THEN Power[n - 1] ELSE 0)]
           step == [x \in Nat \X Nat |-> x[2] + Bit(bits, x[1] + 1)]
           value == CHOOSE f : Is(f)
<1>1. L \in Nat
  OBVIOUS
<1>2. \A k \in Nat : Bit(bits, k + 1) \in Nat
  <2>1. \A k \in Nat : Power[k] \in Nat
    BY PowerIs
  <2>2. \A k \in Nat : (k + 1) - 1 = k
    OBVIOUS
  <2>3. QED
    BY <2>1, <2>2 DEF Bit
<1>3. step \in [Nat \X Nat -> Nat]
  BY <1>2
<1>4. PICK f \in [0 .. L -> Nat] : Follows(f, L, 0, step)
  <2> HIDE DEF step
  <2>1. QED
    BY <1>1, <1>3, Recursion
<1>5. f[0] = 0 /\ \A k \in 0 .. L - 1 : f[k + 1] = f[k] + Bit(bits, k + 1)
  <2>1. \A k \in 0 .. L - 1 : k \in Nat /\ k \in 0 .. L /\ f[k] \in Nat
    BY <1>1
  <2>2. \A k \in 0 .. L - 1 : step[<<k, f[k]>>] = f[k] + Bit(bits, k + 1)
    BY <2>1
  <2> HIDE DEF step
  <2>3. QED
    BY <1>4, <2>2 DEF Follows
<1>6. Is(f)
  <2>1. \A n \in 0 .. L : n # 0 => n - 1 \in 0 .. L - 1 /\ (n - 1) + 1 = n
    BY <1>1
  <2>2. \A n \in 0 .. L : n # 0 => f[n] = f[n - 1] + Bit(bits, n)
    BY <1>5, <2>1
  <2>3. \A n \in 0 .. L : f[n] = IF n = 0 THEN 0
                                 ELSE f[n - 1] + (IF bits[n] THEN Power[n - 1] ELSE 0)
    BY <1>5, <2>2 DEF Bit
  <2>4. f = [n \in 0 .. L |-> f[n]]
    OBVIOUS
  <2>5. QED
    BY <2>3, <2>4
<1>7. Is(value)
  BY <1>6, Zenon
<1>8. value[L] = f[L]
  <2>1. PICK v : v = value
    OBVIOUS
  <2>2. Is(v)
    BY <1>7, <2>1
  <2>3. v[0] = f[0]
    BY <1>1, <1>5, <2>2
  <2>4. ASSUME NEW k \in 0 .. L - 1, v[k] = f[k] PROVE v[k + 1] = f[k + 1]
    <3>1. k + 1 \in 0 .. L /\ k + 1 # 0 /\ (k + 1) - 1 = k
      BY <1>1
    <3>2. v[k + 1] = v[k] + (IF bits[k + 1] THEN Power[k] ELSE 0)
      BY <2>2, <3>1
    <3>3. QED
      BY <1>5, <2>4, <3>1, <3>2 DEF Bit
  <2> HIDE DEF value, L
  <2>5. \A k \in 0 .. L - 1 : v[k] = f[k] => v[k + 1] = f[k + 1]
    BY <2>4
  <2>6. StepsAlike(L, v, f) /\ L \in Nat
    BY <1>1, <2>3, <2>5 DEF StepsAlike
  <2>7. QED
    BY <2>1, <2>6, EndsAlike
<1>9. Value(bits) = value[L]
  BY Zenon DEF Value
<1>10. L \in 0 .. L
  BY <1>1
<1>11. QED
  BY <1>4, <1>5, <1>8, <1>9, <1>10 DEF Values

LEMMA BitIs ==
  ASSUME NEW bits, NEW n \in Nat
  PROVE  Bit(bits, n + 1) = (IF bits[n + 1] THEN Power[n] ELSE 0) /\ Bit(bits, n + 1) \in Nat
<1>1. (n + 1) - 1 = n /\ Power[n] \in Nat
  BY PowerIs
<1>2. QED
  BY <1>1 DEF Bit

\* A number of n bits.
LEMMA ValueFits ==
  ASSUME NEW bits \in Seq(BOOLEAN), NEW f, Values(f, bits)
  PROVE  \A n \in 0 .. Len(bits) : f[n] \in Nat /\ f[n] < Power[n]
<1> DEFINE S == {n \in Nat : n <= Len(bits) => f[n] < Power[n]}
<1>1. /\ Len(bits) \in Nat /\ f[0] = 0
      /\ \A n \in 0 .. Len(bits) : f[n] \in Nat
      /\ \A k \in 0 .. Len(bits) - 1 : f[k + 1] = f[k] + Bit(bits, k + 1)
  BY DEF Values
<1>2. 0 \in S
  <2>1. Power[0] = 1
    BY PowerIs
  <2>2. QED
    BY <1>1, <2>1
<1>3. ASSUME NEW n \in Nat, n \in S PROVE n + 1 \in S
  <2> SUFFICES ASSUME n + 1 <= Len(bits) PROVE f[n + 1] < Power[n + 1]
    OBVIOUS
  <2>1. n \in 0 .. Len(bits) - 1 /\ n \in 0 .. Len(bits) /\ n <= Len(bits)
    BY <1>1
  <2>2. f[n] \in Nat /\ f[n] < Power[n] /\ f[n + 1] = f[n] + Bit(bits, n + 1)
    BY <1>1, <1>3, <2>1
  <2>3. Power[n] \in Nat /\ Power[n + 1] = 2 * Power[n]
    BY PowerIs
  <2>4. Bit(bits, n + 1) \in {0, Power[n]}
    BY BitIs
  <2>5. QED
    BY <2>2, <2>3, <2>4
<1> HIDE DEF S
<1>4. Nat \subseteq S
  BY <1>2, <1>3, Induction
<1>5. QED
  BY <1>1, <1>4 DEF S

LEMMA ValueOfPrefix ==
  ASSUME NEW bits \in Seq(BOOLEAN), NEW f, Values(f, bits), NEW m \in 0 .. Len(bits)
  PROVE  Value(SubSeq(bits, 1, m)) = f[m]
<1> DEFINE low == SubSeq(bits, 1, m)
<1>1. Len(bits) \in Nat /\ m \in Nat
  OBVIOUS
<1>2. low \in Seq(BOOLEAN) /\ Len(low) = m /\ \A k \in 1 .. m : low[k] = bits[k]
  BY <1>1
<1> HIDE DEF low
<1>3. PICK g : Values(g, low) /\ Value(low) = g[Len(low)]
  BY <1>2, ValueIs
<1>4. f[0] = g[0]
  BY <1>3 DEF Values
<1>5. ASSUME NEW k \in 0 .. m - 1, g[k] = f[k] PROVE g[k + 1] = f[k + 1]
  <2>1. k \in 0 .. Len(bits) - 1 /\ k + 1 \in 1 .. m /\ k \in Nat
    BY <1>1
  <2>2. Bit(low, k + 1) = Bit(bits, k + 1)
    <3>1. low[k + 1] = bits[k + 1]
      BY <1>2, <2>1
    <3>2. QED
      BY <3>1 DEF Bit
  <2>3. f[k + 1] = f[k] + Bit(bits, k + 1) /\ g[k + 1] = g[k] + Bit(low, k + 1)
    BY <1>2, <1>3, <2>1 DEF Values
  <2>4. QED
    BY <1>5, <2>2, <2>3
<1>6. \A k \in 0 .. m - 1 : g[k] = f[k] => g[k + 1] = f[k + 1]
  BY <1>5
<1>7. StepsAlike(m, g, f)
  BY <1>4, <1>6 DEF StepsAlike
<1>8. g[m] = f[m]
  BY <1>1, <1>7, EndsAlike
<1>9. QED
  BY <1>2, <1>3, <1>8 DEF low

\* One bit more at the low end doubles the number.
LEMMA ValueOfLonger ==
  ASSUME NEW bits \in Seq(BOOLEAN), NEW f, Values(f, bits), NEW t \in BOOLEAN,
         NEW longer \in Seq(BOOLEAN), Len(longer) = Len(bits) + 1, longer[1] = t,
         \A k \in 1 .. Len(bits) : longer[k + 1] = bits[k],
         NEW g, Values(g, longer)
  PROVE  \A n \in 0 .. Len(bits) : g[n + 1] = (IF t THEN 1 ELSE 0) + 2 * f[n]
<1> DEFINE one == IF t THEN 1 ELSE 0
           S == {n \in Nat : n <= Len(bits) => g[n + 1] = one + 2 * f[n]}
<1>1. /\ Len(bits) \in Nat /\ one \in Nat
      /\ \A n \in 0 .. Len(bits) : f[n] \in Nat
  <2>1. f \in [0 .. Len(bits) -> Nat]
    BY DEF Values
  <2>2. QED
    BY <2>1
<1>2. 0 \in S
  <2>1. 0 \in 0 .. Len(longer) - 1 /\ 0 \in Nat
    BY <1>1
  <2>2. g[0 + 1] = g[0] + Bit(longer, 0 + 1) /\ g[0] = 0 /\ f[0] = 0
    BY <2>1 DEF Values
  <2>3. Bit(longer, 1) = one
    <3>1. Power[0] = 1
      BY PowerIs
    <3>2. Bit(longer, 0 + 1) = IF longer[0 + 1] THEN Power[0] ELSE 0
      BY <2>1, BitIs
    <3>3. 0 + 1 = 1
      OBVIOUS
    <3>4. QED
      BY <3>1, <3>2, <3>3
  <2>4. g[0 + 1] = one
    <3>1. one \in Nat /\ 0 + 1 = 1
      OBVIOUS
    <3> HIDE DEF one
    <3>2. QED
      BY <2>2, <2>3, <3>1
  <2> HIDE DEF one
  <2>5. QED
    BY <1>1, <2>2, <2>4
<1>3. ASSUME NEW n \in Nat, n \in S PROVE n + 1 \in S
  <2> SUFFICES ASSUME n + 1 <= Len(bits) PROVE g[(n + 1) + 1] = one + 2 * f[n + 1]
    OBVIOUS
  <2>1. /\ n \in 0 .. Len(bits) - 1 /\ n + 1 \in 0 .. Len(longer) - 1 /\ n <= Len(bits)
        /\ n + 1 \in 1 .. Len(bits) /\ n \in 0 .. Len(bits) /\ n + 1 \in Nat
    BY <1>1
  <2>2. /\ f[n + 1] = f[n] + Bit(bits, n + 1)
        /\ g[(n + 1) + 1] = g[n + 1] + Bit(longer, (n + 1) + 1)
    BY <2>1 DEF Values
  <2>3. Bit(longer, (n + 1) + 1) = 2 * Bit(bits, n + 1) /\ Bit(bits, n + 1) \in Nat
    <3>1. Bit(longer, (n + 1) + 1) = IF longer[(n + 1) + 1] THEN Power[n + 1] ELSE 0
      BY <2>1, BitIs
    <3>2. /\ Bit(bits, n + 1) = (IF bits[n + 1] THEN Power[n] ELSE 0)
          /\ Bit(bits, n + 1) \in Nat
      BY BitIs
    <3>3. longer[(n + 1) + 1] = bits[n + 1] /\ Power[n + 1] = 2 * Power[n]
      BY <2>1, PowerIs
    <3>4. QED
      BY <3>1, <3>2, <3>3
  <2>4. g[n + 1] = one + 2 * f[n] /\ f[n] \in Nat
    BY <1>1, <1>3, <2>1
  <2> HIDE DEF one
  <2>5. QED
    BY <1>1, <2>2, <2>3, <2>4
<1> HIDE DEF S
<1>4. Nat \subseteq S
  BY <1>2, <1>3, Induction
<1>5. \A n \in 0 .. Len(bits) : n \in S /\ n <= Len(bits)
  BY <1>1, <1>4
<1>6. QED
  BY <1>5 DEF S

\* A history moves on by one outcome, and forgets the oldest when it is full.
LEMMA ShiftIs ==
  ASSUME NEW bits \in Seq(BOOLEAN), Len(bits) <= HISTORY_LENGTH, NEW t \in BOOLEAN
  PROVE  /\ Latest(<<t>> \o bits) \in Seq(BOOLEAN)
         /\ Len(Latest(<<t>> \o bits)) <= HISTORY_LENGTH
         /\ Value(Latest(<<t>> \o bits)) = Shift(Value(bits), t)
<1> DEFINE longer == <<t>> \o bits
           H == HISTORY_LENGTH
           one == IF t THEN 1 ELSE 0
<1>1. Len(bits) \in Nat /\ H \in Nat /\ one \in Nat
  BY TablesAssumption
<1>2. /\ longer \in Seq(BOOLEAN) /\ Len(longer) = Len(bits) + 1 /\ longer[1] = t
      /\ \A k \in 1 .. Len(bits) : longer[k + 1] = bits[k]
  <2>1. <<t>> \in Seq(BOOLEAN) /\ Len(<<t>>) = 1
    OBVIOUS
  <2>2. QED
    BY <1>1, <2>1
<1> HIDE DEF longer
<1>3. PICK f : Values(f, bits) /\ Value(bits) = f[Len(bits)]
  BY ValueIs
<1>4. PICK g : Values(g, longer) /\ Value(longer) = g[Len(longer)]
  BY <1>2, ValueIs
<1>5. g[Len(bits) + 1] = one + 2 * f[Len(bits)] /\ f[Len(bits)] \in Nat
  <2>1. \A n \in 0 .. Len(bits) : g[n + 1] = one + 2 * f[n]
    BY <1>2, <1>3, <1>4, ValueOfLonger
  <2>2. Len(bits) \in 0 .. Len(bits)
    BY <1>1
  <2>3. QED
    BY <1>3, <2>1, <2>2, ValueFits
<1> HIDE DEF one
<1>6. Shift(Value(bits), t) = g[Len(bits) + 1] % HISTORIES
  <2>1. Shift(Value(bits), t) = (2 * f[Len(bits)] + one) % HISTORIES
    BY <1>3 DEF Shift, one
  <2>2. QED
    BY <1>1, <1>5, <2>1
<1>7. /\ HISTORIES \in Nat \ {0} /\ HISTORIES = Power[H]
      /\ \A n \in 0 .. Len(longer) : g[n] \in Nat /\ g[n] < Power[n]
  BY <1>2, <1>4, HistoriesIs, ValueFits DEF HISTORIES
<1>8. CASE Len(longer) > H
  <2>1. Len(longer) = H + 1 /\ H \in 0 .. Len(longer) /\ H \in 0 .. Len(longer) - 1
    BY <1>1, <1>2, <1>8
  <2>2. Latest(longer) = SubSeq(longer, 1, H) /\ Value(Latest(longer)) = g[H]
    BY <1>2, <1>4, <1>8, <2>1, ValueOfPrefix DEF Latest
  <2>3. Latest(longer) \in Seq(BOOLEAN) /\ Len(Latest(longer)) = H
    BY <1>1, <1>2, <2>1, <2>2
  <2>4. g[Len(bits) + 1] \in {g[H], g[H] + HISTORIES}
    <3>1. g[H + 1] = g[H] + Bit(longer, H + 1) /\ Bit(longer, H + 1) \in {0, HISTORIES}
      BY <1>1, <1>4, <1>7, <2>1, BitIs DEF Values
    <3>2. QED
      BY <1>1, <1>2, <1>7, <2>1, <3>1
  <2>5. g[Len(bits) + 1] % HISTORIES = g[H]
    <3>1. \A x, y \in Nat : x < y => x % y = x /\ (x + y) % y = x
      OBVIOUS
    <3>2. g[H] \in Nat /\ g[H] < HISTORIES /\ HISTORIES \in Nat
      BY <1>7, <2>1
    <3>3. QED
      BY <2>4, <3>1, <3>2
  <2>6. QED
    BY <1>1, <1>6, <2>2, <2>3, <2>5 DEF longer
<1>9. CASE ~(Len(longer) > H)
  <2>1. Len(longer) \in Nat /\ Len(longer) <= H /\ Len(longer) \in 0 .. Len(longer)
    BY <1>1, <1>2, <1>9
  <2>2. Latest(longer) = longer
    BY <1>9 DEF Latest
  <2>3. Power[Len(longer)] <= HISTORIES /\ Power[Len(longer)] \in Nat
    BY <1>1, <1>7, <2>1, PowerIs, PowerGrows
  <2>4. g[Len(longer)] % HISTORIES = g[Len(longer)]
    <3>1. \A x, y \in Nat : x < y => x % y = x
      OBVIOUS
    <3>2. g[Len(longer)] \in Nat /\ g[Len(longer)] < HISTORIES
      BY <1>7, <2>1, <2>3
    <3>3. QED
      BY <1>7, <3>1, <3>2
  <2>5. QED
    BY <1>2, <1>4, <1>6, <2>1, <2>2, <2>4 DEF longer
<1>10. QED
  BY <1>8, <1>9

-----------------------------------------------------------------------------
(* The two-level predictor *)

TwoLevelInv ==
  /\ PHT \in [PHT_counters -> 0 .. 3]
  /\ BHT \in [0 .. BHT_ENTRIES - 1 -> 0 .. HISTORIES - 1]
  /\ run_2level \in [PHT_counters -> -2 .. 2]
  /\ \/ asked_2level = Nobody
     \/ \E PC \in PCs, t \in BOOLEAN : asked_2level = [at |-> <<PC>>, taken |-> t]

LEMMA BranchIndices ==
  \A PC \in PCs : /\ PHT_index(PC) \in 0 .. PHT_TABLES - 1
                  /\ BHT_index(PC) \in 0 .. BHT_ENTRIES - 1
<1> SUFFICES ASSUME NEW PC \in PCs
             PROVE  /\ PHT_index(PC) \in 0 .. PHT_TABLES - 1
                    /\ BHT_index(PC) \in 0 .. BHT_ENTRIES - 1
  OBVIOUS
<1>1. PC \in Nat /\ PC \div PHT_TABLES \in Nat
  BY TablesAssumption, BranchAssumption
<1>2. QED
  BY <1>1, TablesAssumption DEF PHT_index, BHT_index

LEMMA CounterInTable ==
  ASSUME TwoLevelInv, NEW PC \in PCs
  PROVE  CounterOf(PC) \in PHT_counters
BY BranchIndices DEF TwoLevelInv, CounterOf, PHT_counters

LEMMA TwoLevelInit == InitPredictor_2level => TwoLevelInv
<1>1. 0 \in 0 .. HISTORIES - 1
  BY HistoriesIs
<1>2. QED
  BY <1>1 DEF InitPredictor_2level, TwoLevelInv

LEMMA TwoLevelNext == TwoLevelInv /\ [Next_2level]_vars_2level => TwoLevelInv'
<1> SUFFICES ASSUME TwoLevelInv, [Next_2level]_vars_2level PROVE TwoLevelInv'
  OBVIOUS
<1>1. ASSUME NEW PC \in PCs, GetPrediction_2level(PC) PROVE TwoLevelInv'
  <2>1. Taken(PHT[CounterOf(PC)]) \in BOOLEAN
    BY DEF Taken
  <2>2. QED
    BY <1>1, <2>1 DEF TwoLevelInv, Asked, GetPrediction_2level
<1>2. ASSUME NEW PC \in PCs, NEW t \in BOOLEAN, UpdatePredictor_2level(PC, t)
      PROVE  TwoLevelInv'
  <2>1. CounterOf(PC) \in PHT_counters /\ BHT_index(PC) \in 0 .. BHT_ENTRIES - 1
    BY CounterInTable, BranchIndices
  <2>2. \A c \in 0 .. 3 : Count(c, t) \in 0 .. 3
    BY DEF Count
  <2>3. \A h \in 0 .. HISTORIES - 1 : Shift(h, t) \in 0 .. HISTORIES - 1
    BY HistoriesIs DEF Shift
  <2>4. \A r \in -2 .. 2 : Told(r, t) \in -2 .. 2
    BY DEF Told
  <2>5. PHT' \in [PHT_counters -> 0 .. 3]
    BY <1>2, <2>1, <2>2 DEF TwoLevelInv, UpdatePredictor_2level
  <2>6. BHT' \in [0 .. BHT_ENTRIES - 1 -> 0 .. HISTORIES - 1]
    BY <1>2, <2>1, <2>3 DEF TwoLevelInv, UpdatePredictor_2level
  <2>7. run_2level' \in [PHT_counters -> -2 .. 2] /\ asked_2level' = Nobody
    BY <1>2, <2>1, <2>4 DEF TwoLevelInv, UpdatePredictor_2level
  <2>8. QED
    BY <2>5, <2>6, <2>7 DEF TwoLevelInv
<1>3. CASE UNCHANGED vars_2level
  BY <1>3 DEF TwoLevelInv, vars_2level
<1>4. QED
  BY <1>1, <1>2, <1>3 DEF Next_2level

LEMMA TwoLevelRefinesInit == InitPredictor_2level => Unindexed!Init
BY DEF InitPredictor_2level, Unindexed!Init, Unindexed!Nobody, Nobody

LEMMA TwoLevelRefinesNext == TwoLevelInv /\ [Next_2level]_vars_2level => [Unindexed!Next]_(Unindexed!vars)
<1> SUFFICES ASSUME TwoLevelInv, [Next_2level]_vars_2level PROVE [Unindexed!Next]_(Unindexed!vars)
  OBVIOUS
<1>1. ASSUME NEW PC \in PCs, GetPrediction_2level(PC)
      PROVE  Unindexed!Predict(CounterOf(PC))
  <2>1. asked_2level = Nobody /\ asked_2level' # Nobody
    BY <1>1 DEF Asked, GetPrediction_2level, Nobody
  <2>2. CounterOf(PC)' = CounterOf(PC)
    BY <1>1 DEF Asked, GetPrediction_2level, CounterOf
  <2>3. asked_2level'.at[1] = PC
    BY <1>1 DEF Asked, GetPrediction_2level
  <2>4. QED
    BY <1>1, <2>1, <2>2, <2>3 DEF Asked, GetPrediction_2level, Unindexed!Predict,
       Unindexed!Nobody, Nobody, Taken, Unindexed!Taken
<1>2. ASSUME NEW PC \in PCs, NEW t \in BOOLEAN, UpdatePredictor_2level(PC, t)
      PROVE  Unindexed!Resolve(CounterOf(PC), t)
  <2>1. asked_2level.at = <<PC>> /\ asked_2level # Nobody /\ asked_2level' = Nobody
    BY <1>2 DEF UpdatePredictor_2level, Nobody
  <2>2. asked_2level.at[1] = PC /\ "at" \in DOMAIN asked_2level
    BY <2>1 DEF TwoLevelInv
  <2>3. run_2level' = [run_2level EXCEPT ![CounterOf(PC)] = Unindexed!Told(@, t)]
    BY <1>2 DEF UpdatePredictor_2level, Told, Unindexed!Told
  <2>4. PHT' = [PHT EXCEPT ![CounterOf(PC)] = Unindexed!Count(@, t)]
    BY <1>2 DEF UpdatePredictor_2level, Count, Unindexed!Count
  <2>5. QED
    BY <2>1, <2>2, <2>3, <2>4 DEF Unindexed!Resolve, Unindexed!Nobody, Nobody
<1>3. CASE UNCHANGED vars_2level
  BY <1>3 DEF vars_2level, Unindexed!vars, CounterOf, Nobody
<1>4. QED
  <2>1. \A PC \in PCs : CounterOf(PC) \in PHT_counters
    BY CounterInTable
  <2>2. QED
    BY <1>1, <1>2, <1>3, <2>1 DEF Next_2level, Unindexed!Next

\* The two-level predictor implements counters in variables of their own, for
\* tables of any size: predictions and updates use the same counter.
THEOREM TwoLevelImplements == Spec_2level => ImplementsCounters_2level
<1>1. Spec_2level => []TwoLevelInv
  BY TwoLevelInit, TwoLevelNext, PTL DEF Spec_2level
<1>2. QED
  BY <1>1, TwoLevelRefinesInit, TwoLevelRefinesNext, PTL
     DEF Spec_2level, ImplementsCounters_2level, Unindexed!Spec

-----------------------------------------------------------------------------
(* Its histories are the branches' outcomes *)

HistoryInv ==
  /\ TwoLevelInv
  /\ past \in [0 .. BHT_ENTRIES - 1 -> Seq(BOOLEAN)]
  /\ \A b \in 0 .. BHT_ENTRIES - 1 :
       Len(past[b]) <= HISTORY_LENGTH /\ BHT[b] = Value(past[b])

LEMMA HistoryInit == InitPredictor_2level => HistoryInv
<1>1. PICK none : none = <<>>
  OBVIOUS
<1>2. none \in Seq(BOOLEAN) /\ Len(none) = 0
  BY <1>1
<1>3. PICK f : Values(f, none) /\ Value(none) = f[Len(none)]
  BY <1>2, ValueIs
<1>4. Value(none) = 0
  BY <1>2, <1>3 DEF Values
<1>5. 0 <= HISTORY_LENGTH
  BY TablesAssumption
<1>6. QED
  BY <1>1, <1>2, <1>4, <1>5, TwoLevelInit DEF InitPredictor_2level, HistoryInv

LEMMA HistoryNext == HistoryInv /\ [Next_2level]_vars_2level => HistoryInv'
<1> SUFFICES ASSUME HistoryInv, [Next_2level]_vars_2level PROVE HistoryInv'
  OBVIOUS
<1>1. TwoLevelInv'
  BY TwoLevelNext DEF HistoryInv
<1>2. ASSUME UNCHANGED <<BHT, past>> PROVE HistoryInv'
  BY <1>1, <1>2 DEF HistoryInv
<1>3. ASSUME NEW PC \in PCs, NEW t \in BOOLEAN, UpdatePredictor_2level(PC, t)
      PROVE  HistoryInv'
  <2>1. PICK b \in 0 .. BHT_ENTRIES - 1 : b = BHT_index(PC)
    BY BranchIndices
  <2>2. /\ BHT' = [BHT EXCEPT ![b] = Shift(@, t)]
        /\ past' = [past EXCEPT ![b] = Latest(<<t>> \o @)]
    BY <1>3, <2>1 DEF UpdatePredictor_2level
  <2>3. past[b] \in Seq(BOOLEAN) /\ Len(past[b]) <= HISTORY_LENGTH /\ BHT[b] = Value(past[b])
    BY DEF HistoryInv
  <2>4. /\ Latest(<<t>> \o past[b]) \in Seq(BOOLEAN)
        /\ Len(Latest(<<t>> \o past[b])) <= HISTORY_LENGTH
        /\ Value(Latest(<<t>> \o past[b])) = Shift(Value(past[b]), t)
    BY <2>3, ShiftIs
  <2>5. PICK new, value : new = Latest(<<t>> \o past[b]) /\ value = Shift(BHT[b], t)
    OBVIOUS
  <2>6. BHT' = [BHT EXCEPT ![b] = value] /\ past' = [past EXCEPT ![b] = new]
    BY <2>2, <2>5
  <2>7. new \in Seq(BOOLEAN) /\ Len(new) <= HISTORY_LENGTH /\ Value(new) = value
    BY <2>3, <2>4, <2>5
  <2>8. past' \in [0 .. BHT_ENTRIES - 1 -> Seq(BOOLEAN)]
    BY <2>6, <2>7 DEF HistoryInv
  <2>9. \A c \in 0 .. BHT_ENTRIES - 1 :
          Len(past'[c]) <= HISTORY_LENGTH /\ BHT'[c] = Value(past'[c])
    BY <2>6, <2>7 DEF HistoryInv, TwoLevelInv
  <2>10. QED
    BY <1>1, <2>8, <2>9 DEF HistoryInv
<1>4. QED
  BY <1>2, <1>3 DEF Next_2level, GetPrediction_2level, vars_2level

LEMMA HistoryInvHolds == HistoryInv => HistoryIsPast
BY DEF HistoryInv, TwoLevelInv, HistoryIsPast

-----------------------------------------------------------------------------
(* The perceptrons *)

OpenendInv ==
  /\ TypeOK_openend /\ TrainsItsPredictor
  /\ asked_openend # Nobody =>
       \E PC \in PCs, t \in BOOLEAN : asked_openend = [at |-> <<PC>>, taken |-> t]

\* p has the sums of the first weights times outcomes.
Sums(p, bias, weights, history) ==
  /\ p \in [0 .. PERCEPTRON_HISTORY -> Int] /\ p[0] = bias
  /\ \A k \in History : p[k + 1] = p[k] + weights[k] * history[k]

LEMMA OutputIs ==
  ASSUME NEW bias \in Int, NEW weights \in [History -> Int], NEW history \in [History -> Int]
  PROVE  \E p : /\ Sums(p, bias, weights, history)
                /\ Output(bias, weights, history) = p[PERCEPTRON_HISTORY]
<1> DEFINE L == PERCEPTRON_HISTORY
           Is(p) == p = [i \in 0 .. L |->
                           IF i = 0 THEN bias
                           ELSE p[i - 1] + weights[i - 1] * history[i - 1]]
           term(k) == IF k \in History THEN weights[k] * history[k] ELSE 0
           step == [x \in Nat \X Int |-> x[2] + term(x[1])]
           prediction == CHOOSE p : Is(p)
<1>1. L \in Nat /\ History = 0 .. L - 1
  BY PerceptronAssumption DEF History
<1>2. \A k \in Nat : term(k) \in Int
  OBVIOUS
<1> HIDE DEF term
<1>3. step \in [Nat \X Int -> Int]
  BY <1>2
<1>4. PICK f \in [0 .. L -> Int] : Follows(f, L, bias, step)
  <2> HIDE DEF step
  <2>1. QED
    BY <1>1, <1>3, Recursion
<1>5. f[0] = bias /\ \A k \in 0 .. L - 1 : f[k + 1] = f[k] + weights[k] * history[k]
  <2>1. \A k \in 0 .. L - 1 : k \in Nat /\ k \in 0 .. L /\ f[k] \in Int
    BY <1>1
  <2>2. \A k \in 0 .. L - 1 : step[<<k, f[k]>>] = f[k] + term(k)
    BY <2>1
  <2>3. \A k \in 0 .. L - 1 : term(k) = weights[k] * history[k]
    BY <1>1 DEF term
  <2> HIDE DEF step
  <2>4. QED
    BY <1>4, <2>2, <2>3 DEF Follows
<1>6. Is(f)
  <2>1. \A n \in 0 .. L : n # 0 => n - 1 \in 0 .. L - 1 /\ (n - 1) + 1 = n
    BY <1>1
  <2>2. \A n \in 0 .. L : f[n] = IF n = 0 THEN bias
                                 ELSE f[n - 1] + weights[n - 1] * history[n - 1]
    BY <1>5, <2>1
  <2>3. f = [n \in 0 .. L |-> f[n]]
    OBVIOUS
  <2>4. QED
    BY <2>2, <2>3
<1>7. Is(prediction)
  BY <1>6, Zenon
<1>8. PICK v : v = prediction
  OBVIOUS
<1>9. Is(v)
  BY <1>7, <1>8
<1>10. v[0] = f[0] /\ \A k \in 0 .. L - 1 : v[k] = f[k] => v[k + 1] = f[k + 1]
  <2>1. \A k \in 0 .. L - 1 : k + 1 \in 0 .. L /\ k + 1 # 0 /\ (k + 1) - 1 = k
    BY <1>1
  <2>2. \A k \in 0 .. L - 1 : v[k + 1] = v[k] + weights[k] * history[k]
    BY <1>9, <2>1
  <2>3. v[0] = bias
    BY <1>1, <1>9
  <2> HIDE DEF L
  <2>4. QED
    BY <1>5, <2>2, <2>3
<1> HIDE DEF prediction, L, Is
<1>11. StepsAlike(L, v, f)
  BY <1>10 DEF StepsAlike
<1>12. Output(bias, weights, history) = prediction[L]
  BY Zenon DEF Output, prediction, L, Is
<1>13. v[L] = f[L]
  BY <1>1, <1>11, EndsAlike
<1>14. Output(bias, weights, history) = f[L]
  BY <1>8, <1>12, <1>13
<1>15. QED
  BY <1>1, <1>4, <1>5, <1>14 DEF Sums, L

LEMMA HashIs ==
  ASSUME NEW PC
  PROVE  Hash(PC) \in Perceptrons
<1> DEFINE differs(k) == ((PC \div Power[k]) % 2 = 1) # (k \in History /\ GHR[k] = 1)
<1>1. INDEX_BITS \in Nat
  BY PerceptronAssumption
<1>2. \A k : differs(k) \in BOOLEAN
  OBVIOUS
<1> HIDE DEF differs
<1>3. PICK bits : bits = [k \in 1 .. INDEX_BITS |-> differs(k - 1)]
  OBVIOUS
<1>4. bits \in Seq(BOOLEAN) /\ Len(bits) = INDEX_BITS
  BY <1>1, <1>2, <1>3
<1>5. PICK f : Values(f, bits) /\ Value(bits) = f[INDEX_BITS]
  BY <1>4, ValueIs
<1>6. INDEX_BITS \in 0 .. Len(bits)
  BY <1>1, <1>4
<1>7. Value(bits) \in Nat /\ Value(bits) < NUM_PERCEPTRONS
  BY <1>4, <1>5, <1>6, ValueFits DEF NUM_PERCEPTRONS
<1>8. Hash(PC) = Value(bits)
  BY <1>3, Zenon DEF Hash, differs
<1>9. NUM_PERCEPTRONS \in Nat
  BY <1>1, PowerIs DEF NUM_PERCEPTRONS
<1>10. QED
  BY <1>7, <1>8, <1>9 DEF Perceptrons

LEMMA AdjustIs ==
  ASSUME NEW w \in Weight, NEW history \in {-1, 1}, NEW target \in {-1, 1}
  PROVE  /\ Adjust(w, target = history) \in Weight
         /\ Adjust(w, target = history) * history
              = w * history + (IF Saturated(w, target = history) THEN 0 ELSE target)
<1>1. WEIGHT_MAX \in Nat
  BY PerceptronAssumption
<1>2. w \in Int /\ w <= WEIGHT_MAX /\ -WEIGHT_MAX <= w /\ -WEIGHT_MAX \in Int
  BY <1>1 DEF Weight, WEIGHT_MIN
<1>3. \A x \in Int : x * 1 = x /\ x * (-1) = -x
  OBVIOUS
<1>4. CASE history = 1 /\ target = 1
  <2>1. Adjust(w, TRUE) \in Int
    BY <1>1, <1>2 DEF Adjust
  <2>2. QED
    BY <1>1, <1>2, <1>3, <1>4, <2>1 DEF Adjust, Saturated, Weight, WEIGHT_MIN
<1>5. CASE history = 1 /\ target = -1
  <2>1. Adjust(w, FALSE) \in Int
    BY <1>1, <1>2 DEF Adjust
  <2>2. QED
    BY <1>1, <1>2, <1>3, <1>5, <2>1 DEF Adjust, Saturated, Weight, WEIGHT_MIN
<1>6. CASE history = -1 /\ target = 1
  <2>1. Adjust(w, FALSE) \in Int
    BY <1>1, <1>2 DEF Adjust
  <2>2. QED
    BY <1>1, <1>2, <1>3, <1>6, <2>1 DEF Adjust, Saturated, Weight, WEIGHT_MIN
<1>7. CASE history = -1 /\ target = -1
  <2>1. Adjust(w, TRUE) \in Int
    BY <1>1, <1>2 DEF Adjust
  <2>2. QED
    BY <1>1, <1>2, <1>3, <1>7, <2>1 DEF Adjust, Saturated, Weight, WEIGHT_MIN
<1>8. QED
  BY <1>4, <1>5, <1>6, <1>7

\* The output moves towards target by one for each free weight.
Moves(before, after, bias, free, target) ==
  /\ before \in Int /\ after \in Int /\ Cardinality(free) \in Nat
  /\ after - before
       = target * (Cardinality(free) + (IF Saturated(bias, target = 1) THEN 0 ELSE 1))

\* Adjusting each weight moves the output by the number of weights that are
\* not saturated.
LEMMA OutputMoves ==
  ASSUME NEW bias \in Weight, NEW weights \in [History -> Weight],
         NEW history \in [History -> {-1, 1}], NEW target \in {-1, 1},
         NEW bias2, bias2 = Adjust(bias, target = 1),
         NEW weights2, weights2 = [k \in History |-> Adjust(weights[k], target = history[k])],
         NEW free, free = {k \in History : ~Saturated(weights[k], target = history[k])}
  PROVE  Moves(Output(bias, weights, history), Output(bias2, weights2, history), bias, free, target)
<1> DEFINE L == PERCEPTRON_HISTORY
           moved(n) == {k \in 0 .. n - 1 : ~Saturated(weights[k], target = history[k])}
           towards(x) == IF target = 1 THEN x ELSE -x
<1>1. L \in Nat /\ History = 0 .. L - 1
  BY PerceptronAssumption DEF History
<1>2. Weight \subseteq Int
  BY PerceptronAssumption DEF Weight, WEIGHT_MIN
<1>3. /\ bias \in Int /\ weights \in [History -> Int] /\ history \in [History -> Int]
      /\ bias2 \in Int /\ weights2 \in [History -> Int]
  <2>1. bias2 \in Weight
    BY AdjustIs
  <2>2. \A k \in History : weights2[k] \in Weight
    BY AdjustIs
  <2>3. weights2 \in [History -> Weight]
    BY <2>2
  <2>4. bias2 \in Int /\ weights2 \in [History -> Int]
    BY <1>2, <2>1, <2>3
  <2>5. weights \in [History -> Int] /\ bias \in Int
    BY <1>2
  <2>6. history \in [History -> Int]
    <3>1. {-1, 1} \subseteq Int
      OBVIOUS
    <3>2. QED
      BY <3>1
  <2>7. QED
    BY <2>4, <2>5, <2>6
<1>4. PICK p : Sums(p, bias, weights, history) /\ Output(bias, weights, history) = p[L]
  BY <1>3, OutputIs
<1>5. PICK q : Sums(q, bias2, weights2, history) /\ Output(bias2, weights2, history) = q[L]
  BY <1>3, OutputIs
<1>6. \A n \in 0 .. L : p[n] \in Int /\ q[n] \in Int
  <2>1. p \in [0 .. L -> Int] /\ q \in [0 .. L -> Int]
    BY <1>4, <1>5 DEF Sums
  <2>2. QED
    BY <2>1
<1>7. \A n \in Nat : Cardinality(moved(n)) \in Nat /\ IsFiniteSet(moved(n))
  <2> SUFFICES ASSUME NEW n \in Nat PROVE Cardinality(moved(n)) \in Nat /\ IsFiniteSet(moved(n))
    OBVIOUS
  <2>1. IsFiniteSet(0 .. n - 1)
    BY FS_Interval
  <2>2. IsFiniteSet(moved(n))
    BY <2>1, FS_Subset
  <2>3. QED
    BY <2>2, FS_CardinalityType
<1>8. ASSUME NEW k \in 0 .. L - 1
      PROVE  /\ q[k + 1] - p[k + 1] = q[k] - p[k] + (IF k \in moved(k + 1) THEN target ELSE 0)
             /\ moved(k + 1) = IF k \in moved(k + 1) THEN moved(k) \cup {k} ELSE moved(k)
             /\ k \notin moved(k)
  <2>1. k \in History /\ k \in 0 .. L /\ k + 1 \in 0 .. L /\ k \in 0 .. (k + 1) - 1
    BY <1>1
  <2>2. /\ p[k + 1] = p[k] + weights[k] * history[k]
        /\ q[k + 1] = q[k] + weights2[k] * history[k]
    BY <1>4, <1>5, <2>1 DEF Sums
  <2>3. weights[k] \in Weight /\ history[k] \in {-1, 1}
    BY <2>1
  <2>4. weights2[k] * history[k]
          = weights[k] * history[k]
              + (IF Saturated(weights[k], target = history[k]) THEN 0 ELSE target)
    BY <2>1, <2>3, AdjustIs
  <2>5. k \in moved(k + 1) <=> ~Saturated(weights[k], target = history[k])
    BY <2>1
  <2>6. weights[k] * history[k] \in Int /\ weights2[k] * history[k] \in Int /\ target \in Int
    BY <1>3, <2>1
  <2>7. q[k + 1] - p[k + 1] = q[k] - p[k] + (IF k \in moved(k + 1) THEN target ELSE 0)
    <3> HIDE DEF moved
    <3>1. p[k] \in Int /\ q[k] \in Int
      BY <1>6, <2>1
    <3>2. PICK a \in Int, b \in Int : a = weights[k] * history[k] /\ b = weights2[k] * history[k]
      BY <2>6
    <3>3. b = a + (IF k \in moved(k + 1) THEN target ELSE 0)
      BY <2>4, <2>5, <3>2
    <3>4. p[k + 1] = p[k] + a /\ q[k + 1] = q[k] + b
      BY <2>2, <3>2
    <3>5. QED
      BY <2>6, <3>1, <3>3, <3>4
  <2>8. \A j : j \in 0 .. (k + 1) - 1 <=> j = k \/ j \in 0 .. k - 1
    BY <1>1
  <2>9. k \notin 0 .. k - 1
    BY <1>1
  <2>10. QED
    BY <2>7, <2>8, <2>9
<1> HIDE DEF moved
<1>9. ASSUME NEW k \in 0 .. L - 1
      PROVE  Cardinality(moved(k + 1)) = Cardinality(moved(k)) + (IF k \in moved(k + 1) THEN 1 ELSE 0)
  <2>1. k \in Nat
    BY <1>1
  <2>2. Cardinality(moved(k) \cup {k}) = Cardinality(moved(k)) + 1
    BY <1>7, <1>8, <2>1, FS_AddElement
  <2>3. Cardinality(moved(k)) \in Nat
    BY <1>7, <2>1
  <2>4. QED
    BY <1>8, <2>2, <2>3
<1>10. q[0] - p[0] = IF Saturated(bias, target = 1) THEN 0 ELSE target
  <2>1. p[0] = bias /\ q[0] = bias2
    BY <1>4, <1>5 DEF Sums
  <2>2. bias2 * 1 = bias * 1 + (IF Saturated(bias, target = 1) THEN 0 ELSE target)
    BY AdjustIs
  <2>3. QED
    BY <1>3, <2>1, <2>2
<1> DEFINE S == {n \in Nat : n <= L => q[n] - p[n] = q[0] - p[0] + towards(Cardinality(moved(n)))}
<1>11. 0 \in S
  <2>1. moved(0) = {}
    BY DEF moved
  <2>2. Cardinality(moved(0)) = 0
    BY <2>1, FS_EmptySet
  <2>3. QED
    BY <1>1, <1>6, <2>2
<1>12. ASSUME NEW n \in Nat, n \in S PROVE n + 1 \in S
  <2> SUFFICES ASSUME n + 1 <= L
               PROVE  q[n + 1] - p[n + 1] = q[0] - p[0] + towards(Cardinality(moved(n + 1)))
    OBVIOUS
  <2>1. n \in 0 .. L - 1 /\ n <= L /\ n \in 0 .. L /\ 0 \in 0 .. L /\ n + 1 \in 0 .. L
    BY <1>1
  <2>2. /\ q[n + 1] - p[n + 1] = q[n] - p[n] + (IF n \in moved(n + 1) THEN target ELSE 0)
        /\ Cardinality(moved(n + 1)) = Cardinality(moved(n)) + (IF n \in moved(n + 1) THEN 1 ELSE 0)
        /\ Cardinality(moved(n)) \in Nat
    BY <1>7, <1>8, <1>9, <2>1
  <2>3. q[n] - p[n] = q[0] - p[0] + towards(Cardinality(moved(n)))
    BY <1>12, <2>1
  <2>4. p[n] \in Int /\ q[n] \in Int /\ p[0] \in Int /\ q[0] \in Int
    BY <1>6, <2>1
  <2>5. CASE target = 1
    BY <2>2, <2>3, <2>4, <2>5
  <2>6. CASE target = -1
    BY <2>2, <2>3, <2>4, <2>6
  <2>7. QED
    BY <2>5, <2>6
<1>13. L \in S /\ L \in 0 .. L /\ 0 \in 0 .. L
  <2> HIDE DEF S
  <2>1. Nat \subseteq S
    BY <1>11, <1>12, Induction
  <2>2. QED
    BY <1>1, <2>1
<1>14. free = moved(L)
  BY <1>1 DEF moved
<1>15. /\ q[L] - p[L] = q[0] - p[0] + towards(Cardinality(free))
       /\ Cardinality(free) \in Nat /\ p[L] \in Int /\ q[L] \in Int
  <2>1. q[L] - p[L] = q[0] - p[0] + towards(Cardinality(moved(L)))
    BY <1>1, <1>13
  <2>2. Cardinality(moved(L)) \in Nat /\ p[L] \in Int /\ q[L] \in Int
    BY <1>1, <1>6, <1>7, <1>13
  <2> HIDE DEF S, towards
  <2>3. QED
    BY <1>14, <2>1, <2>2
<1>16. \A x \in Int : target * x = towards(x)
  <2>1. \A x \in Int : 1 * x = x /\ (-1) * x = -x
    OBVIOUS
  <2>2. QED
    BY <2>1
<1>17. q[L] - p[L] = towards(Cardinality(free) + (IF Saturated(bias, target = 1) THEN 0 ELSE 1))
  BY <1>10, <1>15
<1>18. QED
  BY <1>4, <1>5, <1>15, <1>16, <1>17 DEF Moves

LEMMA OpenendInit == InitPredictor_openend => OpenendInv
<1> SUFFICES ASSUME InitPredictor_openend PROVE OpenendInv
  OBVIOUS
<1>1. 0 \in Weight
  BY PerceptronAssumption DEF Weight, WEIGHT_MIN
<1>2. 0 \in Perceptrons
  <2>1. INDEX_BITS \in Nat
    BY PerceptronAssumption
  <2>2. NUM_PERCEPTRONS \in Nat \ {0}
    BY <2>1, PowerIs DEF NUM_PERCEPTRONS
  <2>3. QED
    BY <2>2 DEF Perceptrons
<1>3. TypeOK_openend
  BY <1>1, <1>2 DEF InitPredictor_openend, TypeOK_openend
<1>4. asked_openend = Nobody
  BY DEF InitPredictor_openend
<1>5. QED
  BY <1>3, <1>4 DEF OpenendInv, TrainsItsPredictor

\* What an update makes of the perceptron that idx names.
LEMMA UpdateTrains ==
  ASSUME OpenendInv, NEW PC \in PCs, NEW t \in BOOLEAN, UpdatePredictor_openend(PC, t),
         NEW target, target = IF t THEN 1 ELSE -1
  PROVE  /\ IF Trains(asked_openend.taken, t)
              THEN /\ bias_weights' = [bias_weights EXCEPT ![idx] =
                                         Adjust(bias_weights[idx], target = 1)]
                   /\ perceptron_weights' =
                        [perceptron_weights EXCEPT ![idx] =
                           [k \in History |->
                              Adjust(perceptron_weights[idx][k], target = GHR[k])]]
              ELSE UNCHANGED weightVars
         /\ GHR' = [k \in History |-> IF k = 0 THEN target ELSE GHR[k - 1]]
         /\ asked_openend' = Nobody /\ asked_openend.at = <<PC>>
         /\ idx' = idx /\ result' = result
         /\ asked_openend # Nobody
<1>1. asked_openend # Nobody
  <2>1. <<PC>> # <<>>
    OBVIOUS
  <2>2. QED
    BY <2>1 DEF UpdatePredictor_openend, Nobody
<1>2. QED
  BY <1>1 DEF UpdatePredictor_openend

LEMMA OpenendNext == OpenendInv /\ [Next_openend]_vars_openend => OpenendInv'
<1> SUFFICES ASSUME OpenendInv, [Next_openend]_vars_openend PROVE OpenendInv'
  OBVIOUS
<1>1. ASSUME NEW PC \in PCs, GetPrediction_openend(PC) PROVE OpenendInv'
  <2>1. /\ idx' = Hash(PC) /\ result' = OutputOf(Hash(PC))
        /\ asked_openend' = [at |-> <<PC>>, taken |-> (result' >= 0)]
        /\ GHR' = GHR /\ bias_weights' = bias_weights
        /\ perceptron_weights' = perceptron_weights
    BY <1>1 DEF GetPrediction_openend, weightVars, Asked
  <2>2. Hash(PC) \in Perceptrons
    BY HashIs
  <2>3. TypeOK_openend'
    BY <2>1, <2>2 DEF OpenendInv, TypeOK_openend
  <2>4. Hash(PC)' = Hash(PC)
    BY <2>1 DEF Hash
  <2>5. \A i : OutputOf(i)' = OutputOf(i)
    BY <2>1 DEF OutputOf
  <2>6. asked_openend'.at[1] = PC /\ asked_openend'.taken = (result' >= 0)
    BY <2>1
  <2>7. Hash(asked_openend.at[1])' = Hash(PC)
    BY <2>1, <2>6 DEF Hash
  <2>8. OutputOf(idx)' = result'
    BY <2>1 DEF OutputOf
  <2>9. TrainsItsPredictor'
    BY <2>1, <2>6, <2>7, <2>8 DEF TrainsItsPredictor
  <2>10. \E d \in PCs, t \in BOOLEAN : asked_openend' = [at |-> <<d>>, taken |-> t]
    <3>1. (result' >= 0) \in BOOLEAN
      OBVIOUS
    <3>2. QED
      BY <2>1, <3>1, Zenon
  <2>11. QED
    BY <2>3, <2>9, <2>10 DEF OpenendInv
<1>2. ASSUME NEW PC \in PCs, NEW t \in BOOLEAN, UpdatePredictor_openend(PC, t)
      PROVE  OpenendInv'
  <2>1. PICK target \in {-1, 1} : target = IF t THEN 1 ELSE -1
    OBVIOUS
  <2>2. /\ IF Trains(asked_openend.taken, t)
             THEN /\ bias_weights' = [bias_weights EXCEPT ![idx] =
                                        Adjust(bias_weights[idx], target = 1)]
                  /\ perceptron_weights' =
                       [perceptron_weights EXCEPT ![idx] =
                          [k \in History |->
                             Adjust(perceptron_weights[idx][k], target = GHR[k])]]
             ELSE UNCHANGED weightVars
        /\ GHR' = [k \in History |-> IF k = 0 THEN target ELSE GHR[k - 1]]
        /\ asked_openend' = Nobody /\ idx' = idx
    BY <1>2, <2>1, UpdateTrains
  <2>3. /\ perceptron_weights \in [Perceptrons -> [History -> Weight]]
        /\ bias_weights \in [Perceptrons -> Weight]
        /\ GHR \in [History -> {-1, 1}] /\ idx \in Perceptrons
    BY DEF OpenendInv, TypeOK_openend
  <2>4. \A w \in Weight, h \in {-1, 1} : Adjust(w, target = h) \in Weight
    BY AdjustIs
  <2>5. Adjust(bias_weights[idx], target = 1) \in Weight
    BY <2>3, <2>4
  <2>6. [k \in History |-> Adjust(perceptron_weights[idx][k], target = GHR[k])]
          \in [History -> Weight]
    <3>1. ASSUME NEW k \in History
          PROVE  Adjust(perceptron_weights[idx][k], target = GHR[k]) \in Weight
      <4>1. perceptron_weights[idx][k] \in Weight /\ GHR[k] \in {-1, 1}
        BY <2>3
      <4>2. QED
        BY <2>4, <4>1
    <3>2. QED
      BY <3>1
  <2>7. /\ perceptron_weights' \in [Perceptrons -> [History -> Weight]]
        /\ bias_weights' \in [Perceptrons -> Weight]
    <3>1. CASE Trains(asked_openend.taken, t)
      BY <2>2, <2>3, <2>5, <2>6, <3>1
    <3>2. CASE ~Trains(asked_openend.taken, t)
      BY <2>2, <2>3, <3>2 DEF weightVars
    <3>3. QED
      BY <3>1, <3>2
  <2>8. GHR' \in [History -> {-1, 1}]
    <3>1. \A k \in History : k # 0 => k - 1 \in History
      BY PerceptronAssumption DEF History
    <3>2. QED
      BY <2>2, <2>3, <3>1
  <2>9. QED
    BY <2>2, <2>3, <2>7, <2>8 DEF OpenendInv, TypeOK_openend, TrainsItsPredictor
<1>3. CASE UNCHANGED vars_openend
  BY <1>3 DEF vars_openend, weightVars, OpenendInv, TypeOK_openend, TrainsItsPredictor, Hash,
              OutputOf
<1>4. QED
  BY <1>1, <1>2, <1>3 DEF Next_openend

\* The weights of perceptrons of any size stay within their limits, whatever the
\* branches do, and an update trains the perceptron that predicted the branch.
THEOREM PerceptronInvariance == Spec_openend => []OpenendInv
BY OpenendInit, OpenendNext, PTL DEF Spec_openend

LEMMA UpdateHelps ==
  ASSUME OpenendInv, Next_openend, asked_openend # Nobody, asked_openend' = Nobody,
         NEW target, target = GHR'[0],
         NEW free, free = Cardinality({k \in History :
                            ~Saturated(perceptron_weights[idx][k], target = GHR[k])})
                          + (IF Saturated(bias_weights[idx], target = 1) THEN 0 ELSE 1),
         NEW before, before = OutputOf(idx),
         NEW after, after = Output(bias_weights'[idx], perceptron_weights'[idx], GHR)
  PROVE  after - before = IF before * target > PERCEPTRON_THETA THEN 0 ELSE target * free
<1>1. PICK PC \in PCs, t \in BOOLEAN : UpdatePredictor_openend(PC, t)
  BY DEF Next_openend, GetPrediction_openend
<1>2. PICK T \in {-1, 1} : T = IF t THEN 1 ELSE -1
  OBVIOUS
<1>3. /\ IF Trains(asked_openend.taken, t)
           THEN /\ bias_weights' = [bias_weights EXCEPT ![idx] =
                                      Adjust(bias_weights[idx], T = 1)]
                /\ perceptron_weights' =
                     [perceptron_weights EXCEPT ![idx] =
                        [k \in History |-> Adjust(perceptron_weights[idx][k], T = GHR[k])]]
           ELSE UNCHANGED weightVars
      /\ GHR' = [k \in History |-> IF k = 0 THEN T ELSE GHR[k - 1]]
  BY <1>1, <1>2, UpdateTrains
<1>4. T = target
  <2>1. 0 \in History
    BY PerceptronAssumption DEF History
  <2>2. QED
    BY <1>3, <2>1
<1>5. /\ perceptron_weights \in [Perceptrons -> [History -> Weight]]
      /\ bias_weights \in [Perceptrons -> Weight]
      /\ GHR \in [History -> {-1, 1}] /\ idx \in Perceptrons
      /\ result = before /\ asked_openend.taken = (before >= 0)
  BY DEF OpenendInv, TypeOK_openend, TrainsItsPredictor
<1>6. PICK b \in Weight, w \in [History -> Weight] :
        b = bias_weights[idx] /\ w = perceptron_weights[idx]
  BY <1>5
<1>7. PICK b2, w2, moved :
        /\ b2 = Adjust(b, T = 1) /\ w2 = [k \in History |-> Adjust(w[k], T = GHR[k])]
        /\ moved = {k \in History : ~Saturated(w[k], T = GHR[k])}
  OBVIOUS
<1>8. /\ Output(b, w, GHR) \in Int /\ Output(b2, w2, GHR) \in Int /\ Cardinality(moved) \in Nat
      /\ Output(b2, w2, GHR) - Output(b, w, GHR)
           = T * (Cardinality(moved) + (IF Saturated(b, T = 1) THEN 0 ELSE 1))
  <2>1. PICK G \in [History -> {-1, 1}] : G = GHR
    BY <1>5
  <2>2. /\ w2 = [k \in History |-> Adjust(w[k], T = G[k])]
        /\ moved = {k \in History : ~Saturated(w[k], T = G[k])}
    BY <1>7, <2>1
  <2>3. Moves(Output(b, w, G), Output(b2, w2, G), b, moved, T)
    <3>1. /\ b \in Weight /\ w \in [History -> Weight] /\ G \in [History -> {-1, 1}]
          /\ T \in {-1, 1} /\ b2 = Adjust(b, T = 1)
      BY <1>7
    <3>2. QED
      BY <2>2, <3>1, OutputMoves, Zenon
  <2>4. QED
    BY <2>1, <2>3 DEF Moves
<1>9. before = Output(b, w, GHR) /\ before \in Int
  BY <1>6, <1>8 DEF OutputOf
<1>10. free = Cardinality(moved) + (IF Saturated(b, T = 1) THEN 0 ELSE 1)
  BY <1>4, <1>6, <1>7
<1>11. \A x \in Int : x * 1 = x /\ x * (-1) = -x
  OBVIOUS
<1>12. PERCEPTRON_THETA \in Nat
  BY PerceptronAssumption
<1>13. CASE Trains(asked_openend.taken, t)
  <2>1. bias_weights'[idx] = b2 /\ perceptron_weights'[idx] = w2
    BY <1>3, <1>5, <1>6, <1>7, <1>13
  <2>2. after - before = target * free
    BY <1>4, <1>8, <1>9, <1>10, <2>1
  <2>3. ~(before * target > PERCEPTRON_THETA)
    <3>1. \/ before \in -PERCEPTRON_THETA .. PERCEPTRON_THETA
          \/ t /\ before < 0
          \/ ~t /\ before >= 0
      BY <1>5, <1>9, <1>13 DEF Trains
    <3>2. CASE t
      BY <1>2, <1>4, <1>9, <1>11, <1>12, <3>1, <3>2
    <3>3. CASE ~t
      BY <1>2, <1>4, <1>9, <1>11, <1>12, <3>1, <3>3
    <3>4. QED
      BY <3>2, <3>3
  <2>4. QED
    BY <2>2, <2>3
<1>14. CASE ~Trains(asked_openend.taken, t)
  <2>1. bias_weights'[idx] = b /\ perceptron_weights'[idx] = w
    BY <1>3, <1>6, <1>14 DEF weightVars
  <2>2. after - before = 0
    BY <1>9, <2>1
  <2>3. before * target > PERCEPTRON_THETA
    <3>1. /\ before \notin -PERCEPTRON_THETA .. PERCEPTRON_THETA
          /\ t => before >= 0
          /\ ~t => before < 0
      BY <1>5, <1>9, <1>14 DEF Trains
    <3>2. CASE t
      BY <1>2, <1>4, <1>9, <1>11, <1>12, <3>1, <3>2
    <3>3. CASE ~t
      BY <1>2, <1>4, <1>9, <1>11, <1>12, <3>1, <3>3
    <3>4. QED
      BY <3>2, <3>3
  <2>4. QED
    BY <2>2, <2>3
<1>15. QED
  BY <1>13, <1>14

\* For perceptrons of any size and any threshold, training moves the output
\* towards the outcome by one for each weight that is not saturated, and a branch
\* predicted right and far enough from 0 leaves it (UpdatePredictor_openend).
THEOREM TrainingAlwaysHelps == Spec_openend => TrainingHelps
<1>1. ASSUME OpenendInv, [Next_openend]_vars_openend
      PROVE  [asked_openend # Nobody /\ asked_openend' = Nobody =>
                LET target == GHR'[0]
                    free == Cardinality({k \in History :
                              ~Saturated(perceptron_weights[idx][k], target = GHR[k])})
                            + (IF Saturated(bias_weights[idx], target = 1) THEN 0 ELSE 1)
                    before == OutputOf(idx)
                    after == Output(bias_weights'[idx], perceptron_weights'[idx], GHR)
                IN after - before =
                     IF before * target > PERCEPTRON_THETA THEN 0
                     ELSE target * free]_vars_openend
  <2>1. CASE UNCHANGED vars_openend
    BY <2>1
  <2>2. CASE Next_openend
    BY <1>1, <2>2, UpdateHelps
  <2>3. QED
    BY <1>1, <2>1, <2>2
<1>2. QED
  BY <1>1, PerceptronInvariance, PTL DEF Spec_openend, TrainingHelps

-----------------------------------------------------------------------------
(* What the predictors leave for their updates *)

HistoriesInv == HistoryInv /\ OpenendInv

\* For branches that share entries in any way, and tables of any size: a
\* history is the number of the last outcomes of its branches, and a perceptron
\* is trained for the branch it has predicted (lab2/predictor.cc).
THEOREM HistoriesAlwaysKept == Spec => []HistoriesKept
<1>1. Init => HistoriesInv
  BY HistoryInit, OpenendInit DEF Init, HistoriesInv
<1>2. HistoriesInv /\ [Next]_vars => HistoriesInv'
  <2>1. [Next]_vars => [Next_2level]_vars_2level /\ [Next_openend]_vars_openend
    BY DEF Next, vars
  <2>2. QED
    BY <2>1, HistoryNext, OpenendNext DEF HistoriesInv
<1>3. HistoriesInv => HistoriesKept
  BY HistoryInvHolds DEF HistoriesInv, HistoriesKept, OpenendInv
<1>4. QED
  BY <1>1, <1>2, <1>3, PTL DEF Spec

-----------------------------------------------------------------------------
(* The tables of the prefetchers: an entry is followed by itself, and what *)
(* it holds is related to the addresses that its instruction accessed last *)

Strides(r, n) == r[n + 1] - r[n + 2]

\* The latest n strides of the history r are the same.
Alike(r, n) == Len(r) > n /\ \A k \in 0 .. n - 1 : Strides(r, k) = Strides(r, 0)

Histories == {r \in Seq(Nat) : Len(r) <= RECENT}

Bounded(now) == IF Len(now) > RECENT THEN Front(now) ELSE now

\* The history r after an access by pc to addr; o had the entry.
LatestOf(r, o, pc, addr) == Bounded(<<addr>> \o (IF o = pc THEN r ELSE <<>>))

-----------------------------------------------------------------------------
(* The invariant of an entry e that o had, whose latest addresses are r *)

RPTEntries ==
  [tag : Nat, prev_addr : Nat, stride : Int, state : RPTState]

\* What the entry of the stride prefetcher knows: outside INIT its stride is
\* the latest one, and in INIT the one before if an exception was forgiven.
StrideEntryInv(e, o, r) ==
  /\ e \in RPTEntries /\ o \in Nat /\ r \in Histories
  /\ e.tag = o
  /\ o = 0 => r = <<>>
  /\ o # 0 => Len(r) >= 1 /\ e.prev_addr = r[1]
  /\ e.state # "INIT" => Len(r) >= 2 /\ e.stride = Strides(r, 0)
  /\ e.state = "INIT" => \/ e.stride = 0
                         \/ Len(r) >= 3 /\ e.stride = Strides(r, 1)
  /\ Alike(r, 2) => e.state \notin {"INIT", "NO_PRED"}
  /\ Alike(r, 3) => e.state = "STEADY"
  /\ e.state = "STEADY" /\ e.stride # 0 =>
       \/ Len(r) >= 3 /\ e.stride = Strides(r, 1)
       \/ Len(r) >= 4 /\ e.stride = Strides(r, 2)

PLTEntries ==
  [pc : Nat, stride : Int, confidence : 0 .. 7,
   history_idx : 0 .. 2 * HISTORY_BITS - 1,
   addr_history : [0 .. HISTORY_BITS - 1 -> Nat]]

\* What the entry of the open-ended prefetcher knows: its ring holds the
\* latest two addresses, it is confident only of a stride it saw, and the
\* more so the longer a stream of one stride has been.
StreamEntryInv(e, o, r) ==
  /\ e \in PLTEntries /\ o \in Nat /\ r \in Histories
  /\ e.pc = o
  /\ o = 0 => r = <<>>
  /\ o # 0 => Len(r) >= 1 /\ e.history_idx >= 1
  /\ Len(r) >= 2 <=> e.history_idx >= 2
  /\ e.confidence > 0 => e.stride # 0 /\ Len(r) >= 3
  /\ \A n \in 1 .. 2 :
       Len(r) >= n =>
         e.addr_history[(e.history_idx - n + HISTORY_BITS)
                          % HISTORY_BITS] = r[n]
  /\ \A n \in 2 .. 4 :
       Alike(r, n) /\ Strides(r, 0) # 0 =>
         e.stride = Strides(r, 0) /\ e.confidence >= n - 1

Slots == 0 .. TABLE_SIZE - 1

TrainingInv ==
  /\ RPT = [i \in Slots |-> RPT[i]] /\ PLT = [i \in Slots |-> PLT[i]]
  /\ owner = [i \in Slots |-> owner[i]] /\ recent = [i \in Slots |-> recent[i]]
  /\ \A i \in Slots :
       /\ StrideEntryInv(RPT[i], owner[i], recent[i])
       /\ StreamEntryInv(PLT[i], owner[i], recent[i])

-----------------------------------------------------------------------------
(* Histories *)

\* The oldest address is forgotten when there are too many.
LEMMA AddedToHistory ==
  ASSUME NEW s \in Histories, NEW addr \in Nat
  PROVE  LET new == Bounded(<<addr>> \o s)
         IN /\ new \in Histories
            /\ Len(new) = IF Len(s) = 5 THEN 5 ELSE Len(s) + 1
            /\ new[1] = addr
            /\ \A n \in 1 .. 4 : n <= Len(s) => new[n + 1] = s[n]
<1> DEFINE now == <<addr>> \o s
           new == Bounded(now)
<1>1. s \in Seq(Nat) /\ Len(s) \in Nat /\ Len(s) <= 5
  BY DEF Histories, RECENT
<1>2. /\ now \in Seq(Nat) /\ Len(now) = Len(s) + 1 /\ now[1] = addr
      /\ \A n \in 1 .. Len(s) : now[n + 1] = s[n]
  BY <1>1
<1>3. CASE Len(s) = 5
  <2>1. Len(now) = 6
    BY <1>2, <1>3
  <2>2. new = SubSeq(now, 1, 5)
    BY <2>1 DEF RECENT, Front, Bounded
  <2> HIDE DEF now, new
  <2>3. /\ \A n \in 1 .. 5 : now[n] \in Nat
        /\ Len(SubSeq(now, 1, 5)) = 5
        /\ \A n \in 1 .. 5 : SubSeq(now, 1, 5)[n] = now[n]
    <3>1. now \in Seq(Nat) /\ Len(now) = 6
      BY <1>2, <2>1
    <3>2. \A n \in 1 .. 5 : now[n] \in Nat
      <4>1. now \in [1 .. Len(now) -> Nat]
        BY <3>1, LenProperties
      <4>2. now \in [1 .. 6 -> Nat]
        BY <3>1, <4>1, Zenon
      <4>3. QED
        BY <4>2
    <3>3. Len(SubSeq(now, 1, 5)) = 5
      BY <3>1
    <3>4. \A n \in 1 .. 5 : SubSeq(now, 1, 5)[n] = now[n]
      BY <3>1
    <3>5. QED
      BY <3>2, <3>3, <3>4
  <2>4. SubSeq(now, 1, 5) \in Seq(Nat)
    <3>1. 1 \in Int /\ 5 \in Int
      OBVIOUS
    <3>2. QED
      BY <2>3, <3>1, SubSeqProperties
  <2>5. SubSeq(now, 1, 5) \in Histories
    <3>1. \A n : n = 5 => n <= 5
      OBVIOUS
    <3>2. Len(SubSeq(now, 1, 5)) <= 5
      BY <2>3, <3>1, Zenon
    <3>3. QED
      BY <2>4, <3>2 DEF Histories, RECENT
  <2>6. \A n \in 1 .. 4 : SubSeq(now, 1, 5)[n + 1] = s[n]
    BY <1>2, <1>3, <2>3
  <2>7. SubSeq(now, 1, 5)[1] = addr
    BY <1>2, <2>3
  <2>8. QED
    BY <1>3, <2>2, <2>3, <2>5, <2>6, <2>7, Zenon DEF now, new
<1>4. CASE Len(s) # 5
  <2>1. Len(s) < 5
    <3>1. \A n \in Nat : n <= 5 /\ n # 5 => n < 5
      OBVIOUS
    <3>2. QED
      BY <1>1, <1>4, <3>1
  <2>2. Len(now) <= 5
    BY <1>1, <1>2, <2>1
  <2>3. new = now
    BY <1>2, <2>2 DEF RECENT, Bounded
  <2>4. now \in Histories
    BY <1>2, <2>2 DEF Histories, RECENT
  <2>5. \A n \in 1 .. 4 : n <= Len(s) => now[n + 1] = s[n]
    <3>1. \A n \in 1 .. 4 : n <= Len(s) => n \in 1 .. Len(s)
      BY <1>1
    <3>2. QED
      BY <1>2, <3>1, Zenon
  <2> HIDE DEF now, new
  <2>6. QED
    BY <1>2, <1>4, <2>3, <2>4, <2>5, Zenon DEF now, new
<1>5. QED
  BY <1>3, <1>4

\* An instruction that finds another's entry starts a history of its own.
LEMMA LatestStarts ==
  ASSUME NEW r, NEW o, NEW pc, o # pc, NEW addr \in Nat
  PROVE  LET new == LatestOf(r, o, pc, addr)
         IN new \in Histories /\ Len(new) = 1 /\ new[1] = addr
<1> DEFINE new == LatestOf(r, o, pc, addr)
           none == <<>>
<1>1. none \in Histories /\ Len(none) = 0
  BY DEF Histories, RECENT
<1>2. new = Bounded(<<addr>> \o none)
  BY Zenon DEF LatestOf
<1> HIDE DEF none, new
<1>3. /\ new \in Histories /\ new[1] = addr
      /\ Len(new) = IF Len(none) = 5 THEN 5 ELSE Len(none) + 1
  BY <1>1, <1>2, AddedToHistory
<1>4. QED
  BY <1>1, <1>3 DEF new

LEMMA LatestShifts ==
  ASSUME NEW r \in Histories, NEW pc, NEW addr \in Nat
  PROVE  LET new == LatestOf(r, pc, pc, addr)
         IN /\ new \in Histories
            /\ Len(new) = IF Len(r) = 5 THEN 5 ELSE Len(r) + 1
            /\ new[1] = addr
            /\ \A n \in 1 .. 4 : n <= Len(r) => new[n + 1] = r[n]
<1> DEFINE new == LatestOf(r, pc, pc, addr)
<1>1. new = Bounded(<<addr>> \o r)
  BY Zenon DEF LatestOf
<1>2. QED
  BY <1>1, AddedToHistory

\* What it is for n strides to be alike, in the numbers that are used.
LEMMA AlikeSpelt ==
  ASSUME NEW r \in Histories
  PROVE  /\ Alike(r, 2) <=> Len(r) > 2 /\ Strides(r, 1) = Strides(r, 0)
         /\ Alike(r, 3) <=> /\ Alike(r, 2)
                            /\ Len(r) > 3 /\ Strides(r, 2) = Strides(r, 0)
         /\ Alike(r, 4) <=> /\ Alike(r, 3)
                            /\ Len(r) > 4 /\ Strides(r, 3) = Strides(r, 0)
<1>1. Len(r) \in Nat
  BY DEF Histories
<1>2. /\ \A k \in 0 .. 1 : k \in {0, 1}
      /\ \A k \in 0 .. 2 : k \in {0, 1, 2}
      /\ \A k \in 0 .. 3 : k \in {0, 1, 2, 3}
  OBVIOUS
<1>3. /\ {0, 1} \subseteq 0 .. 1
      /\ {0, 1, 2} \subseteq 0 .. 2 /\ {0, 1, 2, 3} \subseteq 0 .. 3
  OBVIOUS
<1>4. Alike(r, 2) <=> Len(r) > 2 /\ Strides(r, 1) = Strides(r, 0)
  BY <1>2, <1>3 DEF Alike
<1>5. Alike(r, 3) <=> Len(r) > 3 /\ Strides(r, 1) = Strides(r, 0)
                                 /\ Strides(r, 2) = Strides(r, 0)
  BY <1>2, <1>3 DEF Alike
<1>6. Alike(r, 4) <=> Len(r) > 4 /\ Strides(r, 1) = Strides(r, 0)
                                 /\ Strides(r, 2) = Strides(r, 0)
                                 /\ Strides(r, 3) = Strides(r, 0)
  BY <1>2, <1>3 DEF Alike
<1>7. QED
  BY <1>1, <1>4, <1>5, <1>6

\* An access by the same instruction moves the strides on by one.
Shifted(new, r, addr) ==
  /\ new \in Histories /\ new[1] = addr
  /\ Len(new) = IF Len(r) = 5 THEN 5 ELSE Len(r) + 1
  /\ Strides(new, 0) = addr - r[1]
  /\ \A n \in 0 .. 2 : n + 2 <= Len(r) => Strides(new, n + 1) = Strides(r, n)
  /\ \A n \in 0 .. 3 : n + 2 <= Len(r) => Strides(r, n) \in Int

LEMMA StridesShift ==
  ASSUME NEW r \in Histories, NEW pc \in Nat, NEW addr \in Nat, Len(r) >= 1
  PROVE  Shifted(LatestOf(r, pc, pc, addr), r, addr)
<1> DEFINE new == LatestOf(r, pc, pc, addr)
<1>1. /\ new \in Histories /\ new[1] = addr
      /\ Len(new) = IF Len(r) = 5 THEN 5 ELSE Len(r) + 1
      /\ \A n \in 1 .. 4 : n <= Len(r) => new[n + 1] = r[n]
  BY LatestShifts
<1>2. r \in Seq(Nat) /\ Len(r) \in Nat /\ Len(r) <= 5
  BY DEF Histories, RECENT
<1>3. \A n \in 1 .. Len(r) : r[n] \in Nat
  BY <1>2
<1>4. Strides(new, 0) = addr - r[1]
  <2>1. new[2] = r[1]
    BY <1>1, <1>2
  <2>2. QED
    BY <1>1, <2>1 DEF Strides
<1>5. ASSUME NEW n \in 0 .. 2, n + 2 <= Len(r)
      PROVE  Strides(new, n + 1) = Strides(r, n)
  <2>1. new[n + 2] = r[n + 1] /\ new[n + 3] = r[n + 2]
    <3>1. n + 1 \in 1 .. 4 /\ n + 2 \in 1 .. 4 /\ n + 1 <= Len(r)
      BY <1>2, <1>5
    <3>2. new[(n + 1) + 1] = r[n + 1] /\ new[(n + 2) + 1] = r[n + 2]
      BY <1>1, <1>5, <3>1
    <3>3. QED
      BY <3>2
  <2>2. n + 1 + 1 = n + 2 /\ n + 1 + 2 = n + 3
    OBVIOUS
  <2>3. QED
    BY <2>1, <2>2 DEF Strides
<1>6. \A n \in 0 .. 3 : n + 2 <= Len(r) => Strides(r, n) \in Int
  BY <1>2, <1>3 DEF Strides
<1>7. QED
  BY <1>1, <1>4, <1>5, <1>6 DEF Shifted

-----------------------------------------------------------------------------
(* The stride prefetcher *)

LEMMA StrideEntryKept ==
  ASSUME NEW e, NEW o, NEW r, StrideEntryInv(e, o, r),
         NEW pc \in Nat \ {0}, NEW addr \in Nat
  PROVE  StrideEntryInv(stride_train(e, pc, addr), pc, LatestOf(r, o, pc, addr))
<1> DEFINE f == stride_train(e, pc, addr)
           new == LatestOf(r, o, pc, addr)
<1>1. /\ e \in RPTEntries /\ o \in Nat /\ r \in Histories /\ e.tag = o
      /\ Len(r) \in Nat /\ Len(r) <= 5
  BY DEF StrideEntryInv, Histories, RECENT
<1>2. CASE o # pc
  <2>1. /\ new \in Histories /\ Len(new) = 1 /\ new[1] = addr
    BY <1>2, LatestStarts
  <2>2. f = [tag |-> pc, prev_addr |-> addr, stride |-> 0, state |-> "INIT"]
    BY <1>1, <1>2 DEF stride_train, NewRPTEntry
  <2>3. ~Alike(new, 2) /\ ~Alike(new, 3)
    BY <2>1 DEF Alike
  <2>4. f \in RPTEntries
    BY <2>2 DEF RPTEntries, RPTState
  <2>5. QED
    BY <2>1, <2>2, <2>3, <2>4 DEF StrideEntryInv
<1>3. CASE o = pc
  <2> DEFINE stride == addr - e.prev_addr
  <2>1. /\ Len(r) >= 1 /\ e.prev_addr = r[1]
        /\ e.state # "INIT" => Len(r) >= 2 /\ e.stride = Strides(r, 0)
        /\ e.state = "INIT" => \/ e.stride = 0
                               \/ Len(r) >= 3 /\ e.stride = Strides(r, 1)
        /\ Alike(r, 2) => e.state \notin {"INIT", "NO_PRED"}
        /\ e.stride \in Int /\ e.prev_addr \in Nat /\ e.state \in RPTState
    BY <1>1, <1>3 DEF StrideEntryInv, RPTEntries
  <2>2. /\ new \in Histories /\ new[1] = addr
        /\ Len(new) = IF Len(r) = 5 THEN 5 ELSE Len(r) + 1
        /\ Strides(new, 0) = stride
        /\ Len(r) >= 2 => Strides(new, 1) = Strides(r, 0)
        /\ Len(r) >= 3 => Strides(new, 2) = Strides(r, 1)
    <3>1. pc \in Nat /\ addr \in Nat /\ Len(r) >= 1 /\ r \in Histories
      BY <1>1, <2>1
    <3>2. new = LatestOf(r, pc, pc, addr)
      BY <1>3
    <3> HIDE DEF new
    <3>3. Shifted(new, r, addr)
      BY <3>1, <3>2, StridesShift
    <3>4. QED
      BY <1>1, <2>1, <3>3 DEF Shifted
  <2>3. f = [tag |-> pc, prev_addr |-> addr,
             stride |-> IF stride = e.stride \/ e.state = "STEADY"
                          THEN e.stride ELSE stride,
             state |-> IF stride = e.stride THEN Confirmed(e.state)
                       ELSE Refuted(e.state)]
    <3>1. e = [tag |-> pc, prev_addr |-> e.prev_addr, stride |-> e.stride,
               state |-> e.state]
      BY <1>1, <1>3 DEF RPTEntries
    <3>2. QED
      BY <1>1, <1>3, <3>1 DEF stride_train
  <2>4. /\ Alike(new, 2) <=> Len(new) > 2 /\ Strides(new, 1) = Strides(new, 0)
        /\ Alike(new, 3) <=> Alike(new, 2) /\ Len(new) > 3
                                           /\ Strides(new, 2) = Strides(new, 0)
    BY <2>2, AlikeSpelt
  <2>5. Alike(new, 3) => Alike(r, 2)
    BY <1>1, <2>1, <2>2, <2>4, AlikeSpelt
  <2>6. f \in RPTEntries
    BY <2>1, <2>3 DEF RPTEntries, RPTState, Confirmed, Refuted
  <2>7. f.state # "INIT" => Len(new) >= 2 /\ f.stride = Strides(new, 0)
    BY <1>1, <2>1, <2>2, <2>3 DEF RPTState, Confirmed, Refuted
  <2>8. f.state = "INIT" => \/ f.stride = 0
                            \/ Len(new) >= 3 /\ f.stride = Strides(new, 1)
    BY <1>1, <2>1, <2>2, <2>3 DEF RPTState, Confirmed, Refuted
  <2>9. Alike(new, 2) => f.state \notin {"INIT", "NO_PRED"}
    BY <1>1, <2>1, <2>2, <2>3, <2>4 DEF RPTState, Confirmed, Refuted
  <2>10. Alike(new, 3) => f.state = "STEADY"
    BY <1>1, <2>1, <2>2, <2>3, <2>4, <2>5 DEF RPTState, Confirmed, Refuted
  <2>11. f.state = "STEADY" /\ f.stride # 0 =>
           \/ Len(new) >= 3 /\ f.stride = Strides(new, 1)
           \/ Len(new) >= 4 /\ f.stride = Strides(new, 2)
    BY <1>1, <2>1, <2>2, <2>3 DEF RPTState, Confirmed, Refuted
  <2>12. QED
    BY <2>2, <2>3, <2>6, <2>7, <2>8, <2>9, <2>10, <2>11, <1>1 DEF StrideEntryInv
<1>4. QED
  BY <1>2, <1>3

-----------------------------------------------------------------------------
(* The ring of addresses *)

\* An index of a ring may have wrapped around twice.
LEMMA WrapTwice ==
  ASSUME NEW n \in Nat \ {0}, NEW x \in 0 .. n + n + n - 1
  PROVE  x % n = IF x < n THEN x ELSE IF x < n + n THEN x - n ELSE x - n - n
<1>1. CASE x < n
  BY <1>1, SMT
<1>2. CASE x >= n /\ x < n + n
  BY <1>2, SMT
<1>3. CASE x >= n + n
  BY <1>3, SMT
<1>4. QED
  BY <1>1, <1>2, <1>3

\* The slot that is written is found one back from the next index, and the
\* one that was found one back is found two back.
LEMMA RingMoves ==
  ASSUME NEW ix \in 1 .. 2 * HISTORY_BITS - 1
  PROVE  LET next == NextHistoryIdx(ix)
             at == ix % HISTORY_BITS
             Back(i, n) == (i - n + HISTORY_BITS) % HISTORY_BITS
         IN /\ next \in 2 .. 2 * HISTORY_BITS - 1
            /\ at \in 0 .. HISTORY_BITS - 1
            /\ Back(ix, 1) \in 0 .. HISTORY_BITS - 1 /\ Back(ix, 1) # at
            /\ Back(next, 1) = at
            /\ Back(next, 2) = Back(ix, 1)
<1> DEFINE H == HISTORY_BITS
           next == NextHistoryIdx(ix)
<1>1. H \in Nat /\ H >= 2
  BY PrefetchAssumption
<1> HIDE DEF H
<1>2. \A x \in 0 .. H + H + H - 1 :
        x % H = IF x < H THEN x ELSE IF x < H + H THEN x - H ELSE x - H - H
  <2>1. H \in Nat \ {0}
    BY <1>1
  <2>2. QED
    BY <2>1, WrapTwice
<1>3. ix \in 1 .. H + H - 1
  BY <1>1 DEF H
<1>4. next = IF ix + 1 = H + H THEN H ELSE ix + 1
  BY <1>1 DEF NextHistoryIdx, H
<1> HIDE DEF next
<1>5. next \in 2 .. H + H - 1
  BY <1>1, <1>3, <1>4
<1>6. PICK x \in 0 .. H + H + H - 1 : x = ix - 1 + H
  BY <1>1, <1>3
<1>7. PICK y \in 0 .. H + H + H - 1 : y = next - 1 + H
  BY <1>1, <1>5
<1>8. PICK z \in 0 .. H + H + H - 1 : z = next - 2 + H
  BY <1>1, <1>5
<1>9. ix \in 0 .. H + H + H - 1
  BY <1>1, <1>3
<1>10. ix % H \in 0 .. H - 1
  BY <1>1, <1>2, <1>3, <1>9
<1>11. x % H \in 0 .. H - 1 /\ x % H # ix % H
  BY <1>1, <1>2, <1>3, <1>6, <1>9
<1>12. y % H = ix % H
  BY <1>1, <1>2, <1>3, <1>4, <1>7, <1>9
<1>13. z % H = x % H
  BY <1>1, <1>2, <1>3, <1>4, <1>6, <1>8
<1>14. next \in 2 .. 2 * H - 1
  BY <1>1, <1>5
<1>15. QED
  BY <1>6, <1>7, <1>8, <1>10, <1>11, <1>12, <1>13, <1>14 DEF H, next

-----------------------------------------------------------------------------
(* The open-ended prefetcher *)

\* What an instruction that has its entry is found to do, from its addresses.
LEMMA DetectsLatest ==
  ASSUME NEW e, NEW pc \in Nat, NEW r, StreamEntryInv(e, pc, r),
         Len(r) >= 1, NEW addr \in Nat
  PROVE  detect_stride(e, addr) =
           IF Len(r) >= 2 /\ Abs((addr - r[1]) - Strides(r, 0)) <= JITTER
             THEN addr - r[1] ELSE 0
<1> DEFINE Back(n) ==
      e.addr_history[(e.history_idx - n + HISTORY_BITS) % HISTORY_BITS]
<1>1. /\ Len(r) >= 2 <=> e.history_idx >= 2
      /\ Back(1) = r[1]
      /\ Len(r) >= 2 => Back(2) = r[2]
  BY DEF StreamEntryInv
<1>2. detect_stride(e, addr) =
        IF e.history_idx >= 2
             /\ Abs((addr - Back(1)) - (Back(1) - Back(2))) <= JITTER
          THEN addr - Back(1) ELSE 0
  BY DEF detect_stride
<1>3. Strides(r, 0) = r[1] - r[2]
  BY DEF Strides
<1> HIDE DEF Back
<1>4. CASE Len(r) >= 2
  BY <1>1, <1>2, <1>3, <1>4
<1>5. CASE ~(Len(r) >= 2)
  BY <1>1, <1>2, <1>5
<1>6. QED
  BY <1>4, <1>5

LEMMA StreamEntryKept ==
  ASSUME NEW e, NEW o, NEW r, StreamEntryInv(e, o, r),
         NEW pc \in Nat \ {0}, NEW addr \in Nat
  PROVE  StreamEntryInv(open_ended_train(e, pc, addr), pc,
                        LatestOf(r, o, pc, addr))
<1> DEFINE f == open_ended_train(e, pc, addr)
           new == LatestOf(r, o, pc, addr)
           Back(i, n) == (i - n + HISTORY_BITS) % HISTORY_BITS
<1>1. /\ e \in PLTEntries /\ o \in Nat /\ r \in Histories /\ e.pc = o
      /\ Len(r) \in Nat /\ Len(r) <= 5
  BY DEF StreamEntryInv, Histories, RECENT
<1>2. HISTORY_BITS \in Nat /\ HISTORY_BITS >= 2
  BY PrefetchAssumption
<1>3. CASE o # pc
  <2>1. /\ new \in Histories /\ Len(new) = 1 /\ new[1] = addr
    BY <1>3, LatestStarts
  <2> HIDE DEF new
  <2>2. f = [pc |-> pc, stride |-> 0, confidence |-> 0, history_idx |-> 1,
             addr_history |-> [e.addr_history EXCEPT ![0] = addr]]
    BY <1>1, <1>3 DEF open_ended_train, PLTEntries
  <2> HIDE DEF f
  <2>3. \A n \in 2 .. 4 : ~Alike(new, n)
    BY <2>1 DEF Alike
  <2>4. f.addr_history \in [0 .. HISTORY_BITS - 1 -> Nat]
    BY <1>1, <1>2, <2>2 DEF PLTEntries
  <2>5. f \in PLTEntries
    BY <1>2, <2>2, <2>4 DEF PLTEntries
  <2>6. f.addr_history[Back(f.history_idx, 1)] = new[1]
    <3>1. HISTORY_BITS % HISTORY_BITS = 0
      BY <1>2, WrapTwice
    <3>2. Back(f.history_idx, 1) = 0
      BY <1>2, <2>2, <3>1
    <3>3. f.addr_history[0] = addr
      BY <1>1, <1>2, <2>2 DEF PLTEntries
    <3>4. QED
      BY <2>1, <3>2, <3>3
  <2>7. \A n \in 1 .. 2 :
          Len(new) >= n => f.addr_history[Back(f.history_idx, n)] = new[n]
    BY <2>1, <2>6
  <2>8. QED
    BY <2>1, <2>2, <2>3, <2>5, <2>7 DEF StreamEntryInv, f, new
<1>4. CASE o = pc
  <2> DEFINE detected == detect_stride(e, addr)
             at == e.history_idx % HISTORY_BITS
  <2>1. /\ Len(r) >= 1
        /\ e.history_idx \in 1 .. 2 * HISTORY_BITS - 1
        /\ Len(r) >= 2 <=> e.history_idx >= 2
        /\ e.confidence > 0 => e.stride # 0 /\ Len(r) >= 3
        /\ e.confidence \in 0 .. 7 /\ e.stride \in Int
        /\ e.addr_history \in [0 .. HISTORY_BITS - 1 -> Nat]
    <3>1. /\ e.history_idx \in 0 .. 2 * HISTORY_BITS - 1
          /\ e.confidence \in 0 .. 7 /\ e.stride \in Int
          /\ e.addr_history \in [0 .. HISTORY_BITS - 1 -> Nat]
      BY <1>1 DEF PLTEntries
    <3>2. /\ Len(r) >= 1 /\ e.history_idx >= 1
          /\ Len(r) >= 2 <=> e.history_idx >= 2
          /\ e.confidence > 0 => e.stride # 0 /\ Len(r) >= 3
      BY <1>4 DEF StreamEntryInv
    <3>3. e.history_idx \in 1 .. 2 * HISTORY_BITS - 1
      BY <1>2, <3>1, <3>2
    <3>4. QED
      BY <3>1, <3>2, <3>3
  <2>2. /\ new \in Histories /\ new[1] = addr
        /\ Len(new) = IF Len(r) = 5 THEN 5 ELSE Len(r) + 1
        /\ Strides(new, 0) = addr - r[1] /\ Strides(new, 0) \in Int
        /\ Len(r) >= 2 => Strides(r, 0) \in Int
        /\ \A n \in 0 .. 2 :
             n + 2 <= Len(r) => Strides(new, n + 1) = Strides(r, n)
    <3>1. r[1] \in Nat
      BY <1>1, <2>1 DEF Histories
    <3>2. new = LatestOf(r, pc, pc, addr) /\ pc \in Nat
      BY <1>4
    <3> HIDE DEF new
    <3>3. /\ new \in Histories /\ new[1] = addr
          /\ Len(new) = IF Len(r) = 5 THEN 5 ELSE Len(r) + 1
          /\ Strides(new, 0) = addr - r[1]
          /\ \A n \in 0 .. 2 :
               n + 2 <= Len(r) => Strides(new, n + 1) = Strides(r, n)
          /\ \A n \in 0 .. 3 :
               n + 2 <= Len(r) => Strides(r, n) \in Int
      <4>1. r \in Histories /\ pc \in Nat /\ addr \in Nat /\ Len(r) >= 1
        BY <1>1, <2>1, <3>2
      <4>2. Shifted(new, r, addr)
        BY <3>2, <4>1, StridesShift
      <4>3. QED
        BY <4>2, Zenon DEF Shifted
    <3>4. Len(r) >= 2 => Strides(r, 0) \in Int
      BY <1>1, <3>3
    <3>5. addr - r[1] \in Int
      BY <3>1
    <3>6. QED
      BY <3>3, <3>4, <3>5
  <2>3. new[2] = r[1]
    BY <1>1, <1>4, <2>1, LatestShifts
  <2>4. f = [pc |-> pc,
             stride |-> IF detected # 0 THEN detected ELSE e.stride,
             confidence |-> NextConfidence(e, detected),
             history_idx |-> NextHistoryIdx(e.history_idx),
             addr_history |-> [e.addr_history EXCEPT ![at] = addr]]
    <3>1. e = [pc |-> pc, stride |-> e.stride, confidence |-> e.confidence,
               history_idx |-> e.history_idx, addr_history |-> e.addr_history]
      BY <1>1, <1>4 DEF PLTEntries
    <3>2. QED
      BY <1>1, <1>4, <3>1 DEF open_ended_train
  <2>5. detected = IF /\ Len(r) >= 2
                      /\ Abs(Strides(new, 0) - Strides(r, 0)) <= JITTER
                     THEN Strides(new, 0) ELSE 0
    BY <1>4, <2>1, <2>2, DetectsLatest
  <2> HIDE DEF f, new, detected
  <2>6. detected \in Int
    BY <2>2, <2>5
  <2>7. /\ f.confidence \in 0 .. 7 /\ f.stride \in Int
        /\ f.confidence > 0 => f.stride # 0 /\ Len(new) >= 3
    <3>1. detected # 0 => Len(new) >= 3
      BY <1>1, <2>2, <2>5
    <3>2. Len(r) >= 3 => Len(new) >= 3
      BY <1>1, <2>2
    <3>3. f.confidence = NextConfidence(e, detected)
      BY <2>4
    <3>4. f.stride = IF detected # 0 THEN detected ELSE e.stride
      BY <2>4
    <3>5. QED
      BY <2>1, <2>6, <3>1, <3>2, <3>3, <3>4 DEF NextConfidence
  <2>8. /\ f.history_idx \in 2 .. 2 * HISTORY_BITS - 1
        /\ f.addr_history \in [0 .. HISTORY_BITS - 1 -> Nat]
        /\ \A n \in 1 .. 2 :
             Len(new) >= n => f.addr_history[Back(f.history_idx, n)] = new[n]
    <3>1. /\ f.history_idx = NextHistoryIdx(e.history_idx)
          /\ f.addr_history = [e.addr_history EXCEPT ![at] = addr]
      BY <2>4
    <3>2. /\ f.history_idx \in 2 .. 2 * HISTORY_BITS - 1
          /\ at \in 0 .. HISTORY_BITS - 1
          /\ Back(e.history_idx, 1) \in 0 .. HISTORY_BITS - 1
          /\ Back(e.history_idx, 1) # at
          /\ Back(f.history_idx, 1) = at
          /\ Back(f.history_idx, 2) = Back(e.history_idx, 1)
      <4>1. PICK ix \in 1 .. 2 * HISTORY_BITS - 1 : ix = e.history_idx
        BY <2>1
      <4>2. PICK nx : nx = NextHistoryIdx(ix)
        OBVIOUS
      <4>3. /\ nx \in 2 .. 2 * HISTORY_BITS - 1
            /\ ix % HISTORY_BITS \in 0 .. HISTORY_BITS - 1
            /\ Back(ix, 1) \in 0 .. HISTORY_BITS - 1
            /\ Back(ix, 1) # ix % HISTORY_BITS
            /\ Back(nx, 1) = ix % HISTORY_BITS /\ Back(nx, 2) = Back(ix, 1)
        BY <4>2, RingMoves
      <4>4. f.history_idx = nx /\ at = ix % HISTORY_BITS
        BY <3>1, <4>1, <4>2
      <4> HIDE DEF Back, at
      <4>5. QED
        BY <4>1, <4>3, <4>4
    <3> HIDE DEF at
    <3>3. e.addr_history[Back(e.history_idx, 1)] = r[1]
      BY <1>4, <2>1 DEF StreamEntryInv
    <3> HIDE DEF Back
    <3>4. /\ f.addr_history \in [0 .. HISTORY_BITS - 1 -> Nat]
          /\ f.addr_history[at] = addr
          /\ f.addr_history[Back(e.history_idx, 1)] = r[1]
      BY <2>1, <3>1, <3>2, <3>3
    <3>5. /\ f.addr_history[Back(f.history_idx, 1)] = new[1]
          /\ f.addr_history[Back(f.history_idx, 2)] = new[2]
      BY <2>2, <2>3, <3>2, <3>4
    <3>6. QED
      BY <3>2, <3>4, <3>5
  <2>9. \A n \in 2 .. 4 :
          Alike(new, n) /\ Strides(new, 0) # 0 =>
            f.stride = Strides(new, 0) /\ f.confidence >= n - 1
    <3>1. /\ f.confidence = NextConfidence(e, detected)
          /\ f.stride = IF detected # 0 THEN detected ELSE e.stride
      BY <2>4
    <3>2. /\ Alike(new, 2) <=> Len(new) > 2 /\ Strides(new, 1) = Strides(new, 0)
          /\ Alike(new, 3) <=> /\ Alike(new, 2) /\ Len(new) > 3
                               /\ Strides(new, 2) = Strides(new, 0)
          /\ Alike(new, 4) <=> /\ Alike(new, 3) /\ Len(new) > 4
                               /\ Strides(new, 3) = Strides(new, 0)
      BY <2>2, AlikeSpelt
    <3>3. Alike(new, 2) => Len(r) >= 2 /\ Strides(r, 0) = Strides(new, 0)
      <4>1. Alike(new, 2) => Len(r) >= 2
        <5>1. ASSUME ~(Len(r) >= 2) PROVE Len(new) <= 2
          <6>1. Len(r) \in Nat /\ Len(new) = IF Len(r) = 5 THEN 5 ELSE Len(r) + 1
            BY <1>1, <2>2
          <6> HIDE DEF new
          <6>2. PICK n \in Nat : n = Len(r)
            BY <6>1
          <6>3. n < 2 /\ Len(new) = IF n = 5 THEN 5 ELSE n + 1
            BY <5>1, <6>1, <6>2
          <6>4. QED
            BY <6>2, <6>3
        <5>2. Len(new) \in Nat
          BY <1>1, <2>2
        <5>3. Len(new) <= 2 => ~(Len(new) > 2)
          BY <5>2
        <5>4. QED
          BY <3>2, <5>1, <5>3
      <4>2. Len(r) >= 2 => Strides(new, 1) = Strides(r, 0)
        BY <2>2
      <4>3. QED
        BY <3>2, <4>1, <4>2
    <3>4. Alike(new, 2) => detected = Strides(new, 0)
      BY <2>2, <2>5, <3>3, PrefetchAssumption DEF Abs
    <3>5. /\ Alike(new, 3) => Alike(r, 2)
          /\ Alike(new, 4) => Alike(r, 3)
      BY <1>1, <2>1, <2>2, <3>2, AlikeSpelt
    <3>6. /\ Alike(r, 2) /\ Strides(r, 0) # 0 =>
               e.stride = Strides(r, 0) /\ e.confidence >= 1
          /\ Alike(r, 3) /\ Strides(r, 0) # 0 =>
               e.stride = Strides(r, 0) /\ e.confidence >= 2
      BY DEF StreamEntryInv
    <3>7. Alike(new, 2) /\ Strides(new, 0) # 0 =>
            f.stride = Strides(new, 0) /\ f.confidence >= 1
      BY <2>1, <2>6, <3>1, <3>4 DEF NextConfidence
    <3>8. Alike(new, 3) /\ Strides(new, 0) # 0 => f.confidence >= 2
      BY <2>1, <2>6, <3>1, <3>2, <3>3, <3>4, <3>5, <3>6 DEF NextConfidence
    <3>9. Alike(new, 4) /\ Strides(new, 0) # 0 => f.confidence >= 3
      BY <2>1, <2>6, <3>1, <3>2, <3>3, <3>4, <3>5, <3>6 DEF NextConfidence
    <3>10. \A n \in 2 .. 4 : n = 2 \/ n = 3 \/ n = 4
      OBVIOUS
    <3>11. QED
      BY <3>2, <3>7, <3>8, <3>9, <3>10
  <2>10. f \in PLTEntries
    BY <1>2, <2>4, <2>7, <2>8 DEF PLTEntries
  <2>11. QED
    BY <1>1, <2>1, <2>2, <2>4, <2>7, <2>8, <2>9, <2>10
    DEF StreamEntryInv, f, new
<1>5. QED
  BY <1>3, <1>4

-----------------------------------------------------------------------------
(* The tables *)

\* The two tables have as many entries, so that an access is to the same.
LEMMA OneIndex ==
  ASSUME NEW pc \in Nat, NEW t, DOMAIN t = Slots
  PROVE  RPTIndex(t, pc) = PLTIndex(pc) /\ PLTIndex(pc) \in Slots
<1>1. TABLE_SIZE \in Nat \ {0}
  BY PrefetchAssumption
<1>2. Cardinality(Slots) = TABLE_SIZE
  <2>1. 0 \in Int /\ TABLE_SIZE - 1 \in Int /\ ~(0 > TABLE_SIZE - 1)
    BY <1>1
  <2>2. Cardinality(0 .. TABLE_SIZE - 1) = (TABLE_SIZE - 1) - 0 + 1
    BY <2>1, FS_Interval
  <2>3. QED
    BY <1>1, <2>2 DEF Slots
<1>3. pc % TABLE_SIZE \in 0 .. TABLE_SIZE - 1
  BY <1>1
<1>4. QED
  BY <1>2, <1>3 DEF RPTIndex, PLTIndex, Slots

LEMMA TrainingInit == Init_prefetch => TrainingInv
<1> SUFFICES ASSUME Init_prefetch PROVE TrainingInv
  OBVIOUS
<1> DEFINE none == <<>>
<1>1. /\ RPT = [i \in Slots |-> NewRPTEntry]
      /\ PLT = [i \in Slots |-> NewPLTEntry]
      /\ owner = [i \in Slots |-> 0] /\ recent = [i \in Slots |-> none]
  BY DEF Init_prefetch, NewRPT, NewPLT, Slots
<1>2. none \in Histories /\ Len(none) = 0
  BY DEF Histories, RECENT
<1> HIDE DEF none
<1>3. \A n \in 2 .. 4 : ~Alike(none, n)
  BY <1>2 DEF Alike
<1>4. StrideEntryInv(NewRPTEntry, 0, none)
  BY <1>2, <1>3 DEF StrideEntryInv, NewRPTEntry, RPTEntries, RPTState, none
<1>5. StreamEntryInv(NewPLTEntry, 0, none)
  <2>1. NewPLTEntry \in PLTEntries
    BY PrefetchAssumption DEF NewPLTEntry, PLTEntries
  <2>2. QED
    BY <1>2, <1>3, <2>1 DEF StreamEntryInv, NewPLTEntry, none
<1>6. QED
  BY <1>1, <1>4, <1>5 DEF TrainingInv

\* An access trains one entry of both tables, and only that.
LEMMA AccessTrains ==
  ASSUME TrainingInv, NEW pc \in Nat, NEW addr \in Nat, Access(pc, addr)
  PROVE  LET i == PLTIndex(pc)
         IN /\ i \in Slots
            /\ RPT' = [RPT EXCEPT ![i] = stride_train(RPT[i], pc, addr)]
            /\ PLT' = [PLT EXCEPT ![i] = open_ended_train(PLT[i], pc, addr)]
            /\ owner' = [owner EXCEPT ![i] = pc]
            /\ recent' = [recent EXCEPT
                            ![i] = LatestOf(recent[i], owner[i], pc, addr)]
<1>1. DOMAIN RPT = Slots
  BY DEF TrainingInv
<1>2. RPTIndex(RPT, pc) = PLTIndex(pc) /\ PLTIndex(pc) \in Slots
  BY <1>1, OneIndex
<1>3. QED
  BY <1>2, Zenon DEF Access, LatestOf, Bounded

LEMMA TrainingStep ==
  ASSUME TrainingInv, [Next_prefetch]_vars_prefetch
  PROVE  TrainingInv'
<1>1. CASE UNCHANGED vars_prefetch
  BY <1>1 DEF TrainingInv, vars_prefetch
<1>2. ASSUME NEW pc \in Pcs, NEW addr \in Addrs, Access(pc, addr)
      PROVE  TrainingInv'
  <2> DEFINE i == PLTIndex(pc)
  <2>1. pc \in Nat \ {0} /\ addr \in Nat
    BY TrainingAssumption
  <2>2. /\ i \in Slots
        /\ RPT' = [RPT EXCEPT ![i] = stride_train(RPT[i], pc, addr)]
        /\ PLT' = [PLT EXCEPT ![i] = open_ended_train(PLT[i], pc, addr)]
        /\ owner' = [owner EXCEPT ![i] = pc]
        /\ recent' = [recent EXCEPT
                        ![i] = LatestOf(recent[i], owner[i], pc, addr)]
    BY <1>2, <2>1, AccessTrains
  <2> HIDE DEF i
  <2>3. /\ DOMAIN RPT = Slots /\ DOMAIN PLT = Slots
        /\ DOMAIN owner = Slots /\ DOMAIN recent = Slots
    BY DEF TrainingInv
  <2>4. /\ RPT' = [j \in Slots |-> RPT'[j]] /\ PLT' = [j \in Slots |-> PLT'[j]]
        /\ owner' = [j \in Slots |-> owner'[j]]
        /\ recent' = [j \in Slots |-> recent'[j]]
    BY <2>2, <2>3
  <2>5. ASSUME NEW j \in Slots
        PROVE  /\ StrideEntryInv(RPT'[j], owner'[j], recent'[j])
               /\ StreamEntryInv(PLT'[j], owner'[j], recent'[j])
    <3>1. /\ StrideEntryInv(RPT[j], owner[j], recent[j])
          /\ StreamEntryInv(PLT[j], owner[j], recent[j])
      BY DEF TrainingInv
    <3>2. CASE j = i
      <4>1. /\ RPT'[j] = stride_train(RPT[j], pc, addr)
            /\ PLT'[j] = open_ended_train(PLT[j], pc, addr)
            /\ owner'[j] = pc
            /\ recent'[j] = LatestOf(recent[j], owner[j], pc, addr)
        BY <2>2, <2>3, <3>2
      <4>2. QED
        BY <2>1, <3>1, <4>1, StrideEntryKept, StreamEntryKept
    <3>3. CASE j # i
      <4>1. /\ RPT'[j] = RPT[j] /\ PLT'[j] = PLT[j]
            /\ owner'[j] = owner[j] /\ recent'[j] = recent[j]
        BY <2>2, <2>3, <3>3
      <4>2. QED
        BY <3>1, <4>1
    <3>4. QED
      BY <3>2, <3>3
  <2>6. QED
    BY <2>4, <2>5 DEF TrainingInv
<1>3. QED
  BY <1>1, <1>2 DEF Next_prefetch

-----------------------------------------------------------------------------
(* What the tables have learned, in every behaviour *)

\* What an entry knows is true of the addresses its instruction accessed,
\* for whatever instructions, none with the pc 0, and whatever addresses.
THEOREM TrainingInvariance == Spec_prefetch => []TrainingInv
<1>1. Init_prefetch => TrainingInv
  BY TrainingInit
<1>2. TrainingInv /\ [Next_prefetch]_vars_prefetch => TrainingInv'
  BY TrainingStep
<1>3. QED
  BY <1>1, <1>2, PTL DEF Spec_prefetch

LEMMA Spelt ==
  ASSUME TrainingInv
  PROVE  /\ Entries = Slots
         /\ \A i, n : Stride(i, n) = Strides(recent[i], n)
         /\ \A i, n : Steady(i, n) <=> Alike(recent[i], n)
<1>1. Entries = Slots
  BY DEF TrainingInv, Entries
<1>2. \A i, n : Stride(i, n) = Strides(recent[i], n)
  BY DEF Stride, Strides
<1>3. \A i, n : Steady(i, n) <=> Alike(recent[i], n)
  BY <1>2, Zenon DEF Steady, Alike
<1>4. QED
  BY <1>1, <1>2, <1>3

\* The stride prefetcher learns a stride that was seen twice in a row, whatever
\* shared its entry and whatever it predicted before, and has a stride that is
\* not 0 for steady only if that was seen twice lately (stride_prefetcher).
THEOREM StrideAlwaysLearned == Spec_prefetch => []StrideLearned
<1>1. TrainingInv => RepeatedIsLearned
  <2> SUFFICES ASSUME TrainingInv, NEW i \in Slots
               PROVE  /\ Steady(i, 2) => /\ RPT[i].stride = Stride(i, 0)
                                         /\ RPT[i].state # "NO_PRED"
                      /\ Steady(i, 3) => RPT[i].state = "STEADY"
    BY Spelt, Zenon DEF RepeatedIsLearned
  <2>1. StrideEntryInv(RPT[i], owner[i], recent[i])
    BY DEF TrainingInv
  <2>2. /\ Stride(i, 0) = Strides(recent[i], 0)
        /\ Steady(i, 2) <=> Alike(recent[i], 2)
        /\ Steady(i, 3) <=> Alike(recent[i], 3)
    BY Spelt
  <2>3. QED
    BY <2>1, <2>2 DEF StrideEntryInv
<1>2. TrainingInv => SteadyIsRepeated
  <2> SUFFICES ASSUME TrainingInv, NEW i \in Slots,
                      RPT[i].state = "STEADY", RPT[i].stride # 0
               PROVE  \E n \in 1 .. Len(recent[i]) - 2 :
                        n <= 2 /\ RPT[i].stride = Stride(i, n)
                               /\ Stride(i, n) = Stride(i, 0)
    BY Spelt, Zenon DEF SteadyIsRepeated
  <2> DEFINE r == recent[i]
  <2>1. /\ r \in Histories /\ Len(r) \in Nat
        /\ RPT[i].stride = Strides(r, 0)
        /\ \/ Len(r) >= 3 /\ RPT[i].stride = Strides(r, 1)
           \/ Len(r) >= 4 /\ RPT[i].stride = Strides(r, 2)
    BY DEF TrainingInv, StrideEntryInv, Histories
  <2>2. \A n : Stride(i, n) = Strides(r, n)
    BY Spelt
  <2>3. CASE Len(r) >= 3 /\ RPT[i].stride = Strides(r, 1)
    <3>1. 1 \in 1 .. Len(r) - 2
      BY <2>1, <2>3
    <3>2. QED
      BY <2>1, <2>2, <2>3, <3>1
  <2>4. CASE Len(r) >= 4 /\ RPT[i].stride = Strides(r, 2)
    <3>1. 2 \in 1 .. Len(r) - 2
      BY <2>1, <2>4
    <3>2. QED
      BY <2>1, <2>2, <2>4, <3>1
  <2>5. QED
    BY <2>1, <2>3, <2>4
<1>3. QED
  BY <1>1, <1>2, TrainingInvariance, PTL DEF StrideLearned

\* The ring of the open-ended prefetcher, however long, holds the latest two
\* addresses where detect_stride looks, and four equal strides bring it to
\* prefetch along them whatever it trusted before (open_ended_prefetcher).
THEOREM StreamAlwaysPrefetched == Spec_prefetch => []StreamIsPrefetched
<1>1. TrainingInv => HistoryCurrent
  BY Spelt DEF TrainingInv, StreamEntryInv, HistoryCurrent
<1>2. TrainingInv => RepeatedIsPrefetched
  <2> SUFFICES ASSUME TrainingInv, NEW i \in Slots,
                      Steady(i, 4), Stride(i, 0) # 0
               PROVE  PLT[i].confidence >= THETA /\ PLT[i].stride = Stride(i, 0)
    BY Spelt, Zenon DEF RepeatedIsPrefetched
  <2>1. StreamEntryInv(PLT[i], owner[i], recent[i])
    BY DEF TrainingInv
  <2>2. Stride(i, 0) = Strides(recent[i], 0) /\ Alike(recent[i], 4)
    BY Spelt
  <2>3. QED
    BY <2>1, <2>2 DEF StreamEntryInv, THETA
<1>3. QED
  BY <1>1, <1>2, TrainingInvariance, PTL DEF StreamIsPrefetched

\* A stream that goes on keeps its largest degree of prefetching, though the
\* confidence of 7 falls back to 6 and rises again (open_ended_prefetcher).
THEOREM DegreeAlwaysKept == Spec_prefetch => DegreeKept
<1> DEFINE Kept ==
      \A i \in Entries :
        /\ calculate_degree(PLT[i].confidence) = MAX_PREFETCH_DEGREE
        /\ owner'[i] = owner[i] /\ recent'[i] # recent[i]
        /\ recent'[i][1] - recent[i][1] = PLT[i].stride
        /\ Stride(i, 0) = PLT[i].stride
        => calculate_degree(PLT'[i].confidence) = MAX_PREFETCH_DEGREE
<1>1. ASSUME TrainingInv, [Next_prefetch]_vars_prefetch
      PROVE  [Kept]_vars_prefetch
  <2> SUFFICES ASSUME NEW pc \in Pcs, NEW addr \in Addrs, Access(pc, addr),
                      NEW i \in Slots,
                      calculate_degree(PLT[i].confidence) = MAX_PREFETCH_DEGREE,
                      owner'[i] = owner[i], recent'[i] # recent[i],
                      recent'[i][1] - recent[i][1] = PLT[i].stride,
                      Stride(i, 0) = PLT[i].stride
               PROVE  calculate_degree(PLT'[i].confidence) = MAX_PREFETCH_DEGREE
    <3>1. Entries = Slots
      BY <1>1, Spelt
    <3>2. QED
      BY <1>1, <3>1, Zenon DEF Next_prefetch
  <2> DEFINE e == PLT[i]
             r == recent[i]
             detected == detect_stride(e, addr)
  <2>1. pc \in Nat \ {0} /\ addr \in Nat
    BY TrainingAssumption
  <2>2. /\ i = PLTIndex(pc) /\ owner[i] = pc
        /\ PLT'[i] = open_ended_train(e, pc, addr)
        /\ recent'[i] = LatestOf(r, pc, pc, addr)
    BY <1>1, <2>1, AccessTrains DEF TrainingInv
  <2>3. StreamEntryInv(e, pc, r)
    BY <1>1, <2>2 DEF TrainingInv
  <2>4. /\ e \in PLTEntries /\ e.pc = pc /\ r \in Histories
        /\ e.confidence \in 6 .. 7 /\ e.stride \in Int /\ e.stride # 0
        /\ Len(r) >= 3
    <3>1. e.confidence \in 0 .. 7 /\ e.stride \in Int
      BY <2>3 DEF StreamEntryInv, PLTEntries
    <3>2. e.confidence \in 6 .. 7
      BY <3>1 DEF calculate_degree, MAX_PREFETCH_DEGREE, THETA
    <3>3. QED
      BY <2>3, <3>1, <3>2 DEF StreamEntryInv
  <2>5. addr - r[1] = e.stride /\ Strides(r, 0) = e.stride
    BY <1>1, <2>1, <2>2, <2>4, LatestShifts, Spelt
  <2>6. detected = e.stride
    <3>1. Abs(e.stride - e.stride) <= JITTER
      BY <2>4, PrefetchAssumption DEF Abs
    <3>2. Len(r) >= 1 /\ Len(r) >= 2
      BY <2>4 DEF Histories
    <3>3. QED
      BY <2>1, <2>3, <2>5, <3>1, <3>2, DetectsLatest
  <2>7. PLT'[i].confidence = NextConfidence(e, detected)
    BY <2>2, <2>4 DEF open_ended_train, PLTEntries
  <2>8. PLT'[i].confidence \in 6 .. 7
    BY <2>4, <2>6, <2>7 DEF NextConfidence
  <2>9. QED
    BY <2>8 DEF calculate_degree, MAX_PREFETCH_DEGREE, THETA
<1>2. QED
  BY <1>1, TrainingInvariance, PTL DEF Spec_prefetch, DegreeKept
=============================================================================
