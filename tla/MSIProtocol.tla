----------------------------- MODULE MSIProtocol -----------------------------
(***************************************************************************)
(* The MSI protocol of lab5 for one block: the L1 controllers of all cores *)
(* (L1Cache), the block's home directory (MSIDirectory), the network and   *)
(* the sequencers, composed by interleaving their transitions.             *)
(***************************************************************************)
EXTENDS L1Cache, MSIDirectory

vars == <<netVars, seqVars, cacheVars, dirVars>>

Init ==
  /\ NetInit /\ SeqInit /\ CacheInit /\ DirInit
  /\ latest = dirDataBlk

\* One transition of the controller (or of the core) of cache c.
CacheStep(c) ==
  /\ \/ CoreRequest(c) \/ MandatoryPort(c) \/ Replacement(c)
     \/ ForwardPort(c) \/ ResponsePort(c)
  /\ UNCHANGED dirVars

DirRequestStep(r) == RequestPort(r) /\ UNCHANGED <<cacheVars, seqVars>>
DirMemoryStep == MemoryPort /\ UNCHANGED <<cacheVars, seqVars>>
DirResponseStep == DirResponsePort /\ UNCHANGED <<cacheVars, seqVars>>

DirStep ==
  (\E r \in Cache : DirRequestStep(r)) \/ DirMemoryStep \/ DirResponseStep

Next == (\E c \in Cache : CacheStep(c)) \/ DirStep

Spec == Init /\ [][Next]_vars

(***************************************************************************)
(* Fairness.  A controller is woken for every message that arrives and,    *)
(* while messages are stalled, after every transition, so a port whose     *)
(* head has a transition is served.  The requests of all caches arrive in  *)
(* one FIFO buffer at the directory (requestToDir), so a request that is   *)
(* stalled now and then is not overtaken for ever: strong fairness.  Cores *)
(* and replacements are not fair.                                          *)
(***************************************************************************)
Fairness ==
  /\ \A c \in Cache :
       /\ WF_vars(MandatoryPort(c) /\ UNCHANGED dirVars)
       /\ WF_vars(ForwardPort(c) /\ UNCHANGED dirVars)
       /\ WF_vars(ResponsePort(c) /\ UNCHANGED dirVars)
       /\ SF_vars(DirRequestStep(c))
  /\ WF_vars(DirMemoryStep)
  /\ WF_vars(DirResponseStep)

FairSpec == Spec /\ Fairness

-----------------------------------------------------------------------------
(* The state tables of the two controllers: where an event has a           *)
(* transition, a stall included.                                           *)

StoreMissState == {"IM_AD", "IM_A", "SM_AD", "SM_A"}

L1Transitions ==
  [Fwd_GetS |-> StoreMissState \cup {"M", "MI_A"},
   Fwd_GetM |-> StoreMissState \cup {"M", "MI_A"},
   Inv |-> {"IS_D", "S", "SM_AD", "SI_A"},
   WB_Ack |-> {"MI_A", "SI_A", "II_A"},
   Data_from_Dir_No_Acks |-> {"IS_D", "IM_AD", "SM_AD"},
   Data_from_Owner |-> {"IS_D", "IM_AD"},
   Data_from_Dir_Ack_Cnt_Last |-> {"IM_AD", "SM_AD"},
   Data_from_Dir_Ack_Cnt |-> {"IM_AD", "SM_AD"},
   Inv_Ack |-> StoreMissState,
   Inv_Ack_all |-> {"IM_A", "SM_A"},
   error |-> {}]

DirTransitions ==
  [GETS |-> DirState,
   GETM |-> DirState,
   PUTS_Last |-> DirState,
   PUTS_NotLast |-> DirState,
   PUTM_NotOwner |-> DirState,
   PUTM_Owner |-> {"M"},
   Data |-> {"M_SD"},
   MEMORY_READ |-> {"IS_D", "IM_D"},
   MEMORY_WB |-> {"MI_D", "SD_S"}]

-----------------------------------------------------------------------------
(* Properties *)

\* Every variable has its type; no message carries a block nobody wrote.
TypeOK == NetTypeOK /\ SeqTypeOK /\ CacheTypeOK /\ DirTypeOK

\* Single writer or many readers: while one core may write the block (M), no
\* other core's loads hit on it.  The states whose loads hit are those of
\* LoadHit; SM_AD and SM_A still serve loads of the old copy.
ReadableState == {"S", "SM_AD", "SM_A", "M"}

SWMR ==
  \A c, d \in Cache :
    (c # d /\ getState(c) = "M") => getState(d) \notin ReadableState

\* A load that hits, and a write that hits, finds the last value stored by any
\* core in the cache entry.
CopiesCurrent ==
  \A c \in Cache : getState(c) \in ReadableState => DataBlk[c] = latest

\* While the directory answers requests itself (or is fetching the block to do
\* so), its copy of the block is the last value stored: no write-back is lost.
MemoryCurrent ==
  DirectoryState \in {"I", "S", "IS_D", "IM_D", "MI_D", "SD_S"}
    => dirDataBlk = latest

\* No load that hits reads a stale copy, and the directory never hands one out.
DataCurrent == CopiesCurrent /\ MemoryCurrent

\* No message ever meets an L1 controller in a state that has no transition for
\* it (SLICC would abort the simulation).
L1EventHandled ==
  \A c \in Cache :
    /\ forwardNet[c] # << >>
         => getState(c) \in L1Transitions[ForwardEvent[Head(forwardNet[c]).Type]]
    /\ \A m \in responseNet :
         m.Destination = c => getState(c) \in L1Transitions[ResponseEvent(c, m)]

\* Nor does one meet the directory controller in such a state.
DirEventHandled ==
  /\ \A r \in Cache : requestNet[r] # << >>
                        => DirectoryState \in DirTransitions[RequestEvent(r)]
  /\ memQueue # << >> => DirectoryState \in DirTransitions[Head(memQueue).Type]
  /\ \A m \in responseNet :
       m.Destination = Dir => DirectoryState \in DirTransitions.Data

\* The assertions of the directory's setState: a block in M has exactly one
\* owner and no sharer, a block in I has neither.
DirAsserts ==
  /\ DirectoryState = "M" => Cardinality(Owner) = 1 /\ Sharers = {}
  /\ DirectoryState = "I" => Owner = {} /\ Sharers = {}

\* Neither controller ever aborts the simulation: no message meets a state
\* without a transition for it, and no assertion of setState fails.
EventsHandled == L1EventHandled /\ DirEventHandled /\ DirAsserts

\* A cache has an entry exactly when the block is not I and a TBE exactly when
\* its state is transient: every is_valid assertion of the actions holds, no
\* TBE or entry leaks, none is allocated twice.
StructuresMatch ==
  \A c \in Cache : /\ c \in entries <=> CacheState[c] # "I"
                   /\ c \in TBEs <=> CacheState[c] \in TransientState

\* A block is gone from a cache only after the core was told
\* (forward_eviction_to_cpu) that it lost what it had been given.
EvictionTold == exposed \subseteq entries

\* What a cache may have to hand on was written by someone: the entry of a
\* stable copy and the TBE of a block being written back hold a value.
HeldDataWritten ==
  \A c \in Cache : /\ CacheState[c] \in {"S", "M"} => DataBlk[c] \in Value
                   /\ CacheState[c] = "MI_A" => tbeDataBlk[c] \in Value

\* What Owner and Sharers are in each state of the directory; in particular a
\* directory that is not in S (or about to be) has no sharers, and none but one
\* in M (or about to be) has an owner.
DirBookkeeping ==
  /\ DirectoryState \in {"M", "IM_D"}
       => Sharers = {} /\ \E r \in Cache : Owner = {r}
  /\ DirectoryState \in {"I", "IS_D", "MI_D"} => Sharers = {} /\ Owner = {}
  /\ DirectoryState \in {"S", "M_SD", "SD_S"} => Owner = {}

\* The inductive invariant of the controllers' own bookkeeping: every conjunct
\* but the last two is a property of its own, and needs the others.
LocalInv ==
  /\ TypeOK
  /\ StructuresMatch
  /\ EvictionTold
  /\ HeldDataWritten
  /\ DirBookkeeping

\* The caches that still owe c an acknowledgement: the INV or the answer to it
\* is on its way.
OwesAck(c) ==
  {d \in Cache :
     \/ \E i \in DOMAIN forwardNet[d] :
          forwardNet[d][i] = [Type |-> "INV", Requestor |-> c]
     \/ InvAck(d, c) \in responseNet}

\* The acknowledgements that c counts are those still to come, whatever the
\* order in which they and the data arrive: with its data a cache waits for
\* pendingAcks of them, and a positive number; before, pendingAcks is minus the
\* number it has seen, so that the directory's AckCount makes up the difference.
AckAccounting ==
  \A c \in Cache :
    /\ CacheState[c] \in {"IM_A", "SM_A"}
         => pendingAcks[c] = Cardinality(OwesAck(c)) /\ pendingAcks[c] > 0
    /\ \A m \in responseNet :
         (m.Destination = c /\ m.Type = "DATA_FROM_DIR")
           => pendingAcks[c] - m.AckCount = Cardinality(OwesAck(c))

\* A core that has been given the block is told that the cache lost it before
\* another core's store to it completes: every invalidation is forwarded by
\* forward_eviction_to_cpu in time for the core to squash what it has read.
ToldBeforeOverwritten ==
  \A c \in Cache : getState(c) = "M" => exposed \subseteq {c}

\* A cache has one request in the network at most, and two forwarded messages:
\* the buffers of the controllers are unbounded in the code, but need not be.
ForwardBound == 2   \* an INV, and then a forwarded GETS or GETM or a WB_ACK
BufferBounds ==
  /\ \A c \in Cache : Len(requestNet[c]) <= 1 /\ Len(forwardNet[c]) <= ForwardBound
  /\ Len(memQueue) <= 1

\* While a message that will be answered is on its way, the same answer to an
\* earlier message is not: no two responses of one type with the same source
\* and destination are ever in flight, so that responses may be kept in a set.
NoDuplicateResponse ==
  /\ \A c \in Cache : \A i \in DOMAIN forwardNet[c] :
       LET f == forwardNet[c][i] IN
       \A m \in responseNet : m.Sender = c =>
         /\ f.Type = "INV" => m.Type # "ACK" \/ m.Destination # f.Requestor
         /\ f.Type \in {"GETS", "GETM"}
              => m.Type # "DATA_FROM_OWNER" \/ m.Destination # f.Requestor
         /\ f.Type = "GETS" => m.Type # "DATA"
  /\ \A m \in responseNet : m.Sender = Dir =>
       /\ requestNet[m.Destination] = << >>
       /\ \A i \in DOMAIN memQueue :
            memQueue[i].Type = "MEMORY_READ"
              => memQueue[i].OriginalRequestorMachId # m.Destination

\* A fixed number of slots is enough for every buffer.
MessagesBounded == BufferBounds /\ NoDuplicateResponse

\* The protocol implements one memory block: every load returns what the last
\* store left, every request is answered once, by the callback of its own type.
Memory == INSTANCE AtomicMemory
            WITH Core <- Cache, mem <- latest, request <- outstanding,
                 result <- loaded
ImplementsAtomicMemory == Memory!Spec

\* Every load and store of a core is performed some time, however many other
\* requests, forwarded messages and replacements get in its way.
RequestsComplete ==
  \A c \in Cache : outstanding[c] # "none" ~> outstanding[c] = "none"

\* Every replacement and every miss ends: the TBE is given back.
TBEsFreed == \A c \in Cache : c \in TBEs ~> c \notin TBEs

\* The directory is not busy with a transaction for ever.
DirectoryRecovers ==
  DirectoryState \notin {"I", "S", "M"} ~> DirectoryState \in {"I", "S", "M"}

\* Neither controller stays in a transient state.
TransactionsEnd == TBEsFreed /\ DirectoryRecovers
=============================================================================
