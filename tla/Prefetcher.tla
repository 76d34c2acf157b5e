----------------------------- MODULE Prefetcher -----------------------------
(***************************************************************************)
(* The three prefetchers of lab4/cache.c: what an access teaches them and  *)
(* which addresses they then want in the cache.  The stride prefetcher     *)
(* learns in the reference prediction table RPT, the open-ended one in the *)
(* table PLT.                                                              *)
(*                                                                         *)
(* A pc is counted in units of 8 bytes, as both indices shift it.          *)
(* Addresses are unsigned and wrap around at ADDR_SPACE; strides are       *)
(* differences of addresses and have a sign.  last_addr of a PLT entry is  *)
(* written and never read; it is left out.                                 *)
(***************************************************************************)
EXTENDS SimCache

CONSTANTS
  ADDR_SPACE,         \* number of addresses (2^32 or 2^64 in the code)
  TABLE_SIZE,         \* entries of PLT
  HISTORY_BITS,       \* addresses an entry of PLT remembers
  JITTER              \* largest difference of strides that are alike (64)

ASSUME PrefetchAssumption ==
  /\ {ADDR_SPACE, TABLE_SIZE} \subseteq Nat \ {0}
  /\ HISTORY_BITS \in Nat /\ HISTORY_BITS >= 2
  /\ JITTER \in Nat

THETA == 3
MAX_PREFETCH_DEGREE == 4

Abs(n) == IF n < 0 THEN -n ELSE n
LineAt(cp, addr) == CACHE_BADDR(cp, addr % ADDR_SPACE)

next_line(cp, addr) == <<LineAt(cp, addr + cp.bsize)>>

-----------------------------------------------------------------------------
(* The stride prefetcher *)

RPTState == {"INIT", "STEADY", "TRANSIENT", "NO_PRED"}
NewRPTEntry == [tag |-> 0, prev_addr |-> 0, stride |-> 0, state |-> "INIT"]
NewRPT(size) == [i \in 0 .. size - 1 |-> NewRPTEntry]
RPTIndex(RPT, pc) == pc % Cardinality(DOMAIN RPT)

Confirmed(state) == IF state = "NO_PRED" THEN "TRANSIENT" ELSE "STEADY"

Refuted(state) ==
  CASE state = "INIT" -> "TRANSIENT"
    [] state = "STEADY" -> "INIT"
    [] state \in {"TRANSIENT", "NO_PRED"} -> "NO_PRED"

\* The entry of pc after an access to addr.  A steady stride survives one
\* exception.  Mutant: it survives any number.
stride_train_Sticky(entry, pc, addr) ==
  LET stride == addr - entry.prev_addr
  IN IF entry.tag # pc
       THEN [NewRPTEntry EXCEPT !.tag = pc, !.prev_addr = addr]
     ELSE IF stride = entry.stride
       THEN [entry EXCEPT !.prev_addr = addr, !.state = Confirmed(@)]
     ELSE [entry EXCEPT !.prev_addr = addr,
                        !.stride = IF entry.state \in {"STEADY", "INIT"}
                                     THEN @ ELSE stride,
                        !.state = Refuted(@)]

stride_train(entry, pc, addr) ==
  LET stride == addr - entry.prev_addr
  IN IF entry.tag # pc
       THEN [NewRPTEntry EXCEPT !.tag = pc, !.prev_addr = addr]
     ELSE IF stride = entry.stride
       THEN [entry EXCEPT !.prev_addr = addr, !.state = Confirmed(@)]
     ELSE [entry EXCEPT !.prev_addr = addr,
                        !.stride = IF entry.state = "STEADY" THEN @ ELSE stride,
                        !.state = Refuted(@)]

\* What is prefetched by an entry that has had pc before: nothing without a
\* prediction.
stride_targets(cp, entry, pc, addr) ==
  LET trained == stride_train(entry, pc, addr)
  IN IF entry.tag # pc \/ trained.state = "NO_PRED" THEN <<>>
     ELSE <<LineAt(cp, addr + trained.stride)>>

-----------------------------------------------------------------------------
(* The open-ended prefetcher *)

NewPLTEntry ==
  [pc |-> 0, stride |-> 0, confidence |-> 0, history_idx |-> 0,
   addr_history |-> [i \in 0 .. HISTORY_BITS - 1 |-> 0]]
NewPLT == [i \in 0 .. TABLE_SIZE - 1 |-> NewPLTEntry]
PLTIndex(pc) == pc % TABLE_SIZE

detect_stride(entry, addr) ==
  LET recent(n) ==
        entry.addr_history[(entry.history_idx - n + HISTORY_BITS)
                             % HISTORY_BITS]
      new == addr - recent(1)
      prev == recent(1) - recent(2)
  IN IF entry.history_idx >= 2 /\ Abs(new - prev) <= JITTER THEN new ELSE 0

\* history_idx counts on for ever and is used modulo HISTORY_BITS, or to see
\* whether there are two addresses yet: it is kept below 2 * HISTORY_BITS.
NextHistoryIdx(idx) ==
  IF idx + 1 = 2 * HISTORY_BITS THEN HISTORY_BITS ELSE idx + 1

\* Mutant: a stride seen again is taken for a new one.
NextConfidence_Forgetful(entry, detected) ==
  IF detected # 0 THEN 1
  ELSE IF entry.confidence > 0 THEN entry.confidence - 1 ELSE 0

\* A stride seen again adds one, until 7; any other stride, and the same
\* stride at 7, takes one away.
NextConfidence(entry, detected) ==
  LET confidence == entry.confidence
  IN IF detected # 0
       THEN IF entry.stride = detected /\ confidence < 7 THEN confidence + 1
            ELSE IF confidence > 1 THEN confidence - 1 ELSE 1
     ELSE IF confidence > 0 THEN confidence - 1 ELSE 0

open_ended_train(entry, pc, addr) ==
  IF entry.pc # pc
    THEN [entry EXCEPT !.pc = pc, !.stride = 0, !.confidence = 0,
                       !.history_idx = 1, !.addr_history[0] = addr]
    ELSE LET detected == detect_stride(entry, addr)
         IN [entry EXCEPT
               !.addr_history[entry.history_idx % HISTORY_BITS] = addr,
               !.history_idx = NextHistoryIdx(@),
               !.stride = IF detected # 0 THEN detected ELSE @,
               !.confidence = NextConfidence(entry, detected)]

\* Mutant: the largest degree needs the largest confidence.
calculate_degree_Largest(confidence) ==
  CASE confidence < THETA -> 1
    [] confidence = 3 -> 2
    [] confidence \in 4 .. 6 -> 3
    [] confidence = 7 -> 4

calculate_degree(confidence) ==
  CASE confidence < THETA -> 1
    [] confidence = 3 -> 2
    [] confidence \in {4, 5} -> 3
    [] confidence >= 6 -> 4

\* A stride smaller than a block is widened to one.
open_ended_targets(cp, entry, pc, addr) ==
  LET trained == open_ended_train(entry, pc, addr)
      stride == IF Abs(trained.stride) >= cp.bsize THEN trained.stride
                ELSE IF trained.stride > 0 THEN cp.bsize ELSE -cp.bsize
  IN IF entry.pc = pc /\ trained.confidence >= THETA /\ trained.stride # 0
       THEN [i \in 1 .. calculate_degree(trained.confidence) |->
               LineAt(cp, addr + i * stride)]
       ELSE <<>>
=============================================================================
