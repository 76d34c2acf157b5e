-------------------------- MODULE PrefetchTraining --------------------------
(***************************************************************************)
(* The tables of the stride prefetcher and of the open-ended one           *)
(* (lab4/cache.c) while instructions that share their entries access any   *)
(* addresses in any order: what a table has learned is related to what was *)
(* accessed.  The caches are left out, as nothing in them reaches the      *)
(* tables.                                                                 *)
(***************************************************************************)
EXTENDS Prefetcher

CONSTANTS Pcs, Addrs

\* An entry that was never used has the pc 0, which no instruction has.
ASSUME TrainingAssumption == Pcs \subseteq Nat \ {0} /\ Addrs \subseteq Nat

VARIABLES
  RPT, PLT,
  owner,         \* history: whose addresses an entry has, and the latest of
  recent         \* them, newest first

vars_prefetch == <<RPT, PLT, owner, recent>>

RECENT == 5

Init_prefetch ==
  /\ RPT = NewRPT(TABLE_SIZE) /\ PLT = NewPLT
  /\ owner = [i \in DOMAIN PLT |-> 0]
  /\ recent = [i \in DOMAIN PLT |-> <<>>]

Access(pc, addr) ==
  LET i == PLTIndex(pc)
      mine == IF owner[i] = pc THEN recent[i] ELSE <<>>
      now == <<addr>> \o mine
  IN /\ RPT' = [RPT EXCEPT ![RPTIndex(RPT, pc)] = stride_train(@, pc, addr)]
     /\ PLT' = [PLT EXCEPT ![i] = open_ended_train(@, pc, addr)]
     /\ owner' = [owner EXCEPT ![i] = pc]
     /\ recent' = [recent EXCEPT
                     ![i] = IF Len(now) > RECENT THEN Front(now) ELSE now]

Next_prefetch == \E pc \in Pcs, addr \in Addrs : Access(pc, addr)

Spec_prefetch == Init_prefetch /\ [][Next_prefetch]_vars_prefetch

-----------------------------------------------------------------------------
(* Properties *)

Entries == DOMAIN PLT

\* The stride of entry i n accesses ago; 0 is the latest.
Stride(i, n) == recent[i][n + 1] - recent[i][n + 2]

\* The latest n strides of entry i are the same.
Steady(i, n) ==
  Len(recent[i]) > n /\ \A k \in 0 .. n - 1 : Stride(i, k) = Stride(i, 0)

\* Whatever was accessed before, a stride seen twice in a row is predicted,
\* and seen three times it is steady (stride_prefetcher: "Disables prefetching
\* for entry" only while no stride repeats).
RepeatedIsLearned ==
  \A i \in Entries :
    /\ Steady(i, 2) => /\ RPT[i].stride = Stride(i, 0)
                       /\ RPT[i].state # "NO_PRED"
    /\ Steady(i, 3) => RPT[i].state = "STEADY"

\* A stride that is not 0 is steady only if it was seen twice within the last
\* three accesses: one exception is forgiven, not two.
SteadyIsRepeated ==
  \A i \in Entries :
    RPT[i].state = "STEADY" /\ RPT[i].stride # 0 =>
      \E n \in 1 .. Len(recent[i]) - 2 :
        n <= 2 /\ RPT[i].stride = Stride(i, n) /\ Stride(i, n) = Stride(i, 0)

\* The stride prefetcher learns a stride seen twice in a row, whatever was
\* accessed before, and keeps it through one exception but not through two.
StrideLearned == RepeatedIsLearned /\ SteadyIsRepeated

\* The ring of remembered addresses, written at history_idx, holds the last
\* two addresses of the instruction where detect_stride looks for them.
HistoryCurrent ==
  \A i \in Entries, n \in 1 .. 2 :
    Len(recent[i]) >= n =>
      PLT[i].addr_history[(PLT[i].history_idx - n + HISTORY_BITS)
                            % HISTORY_BITS] = recent[i][n]

\* Four equal strides in a row always bring the open-ended prefetcher to
\* prefetch along them, however little it trusted the instruction before.
RepeatedIsPrefetched ==
  \A i \in Entries :
    Steady(i, 4) /\ Stride(i, 0) # 0 =>
      PLT[i].confidence >= THETA /\ PLT[i].stride = Stride(i, 0)

\* Four equal strides in a row bring the open-ended prefetcher to prefetch
\* along them, from a ring of addresses that holds the latest ones.
StreamIsPrefetched == HistoryCurrent /\ RepeatedIsPrefetched

\* A stream that goes on keeps its largest degree of prefetching, though the
\* confidence falls back from 7 to 6 (open_ended_prefetcher).
DegreeKept ==
  [][\A i \in Entries :
       /\ calculate_degree(PLT[i].confidence) = MAX_PREFETCH_DEGREE
       /\ owner'[i] = owner[i] /\ recent'[i] # recent[i]
       /\ recent'[i][1] - recent[i][1] = PLT[i].stride
       /\ Stride(i, 0) = PLT[i].stride
       => calculate_degree(PLT'[i].confidence) = MAX_PREFETCH_DEGREE]_vars_prefetch
=============================================================================
