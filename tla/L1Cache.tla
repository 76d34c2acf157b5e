------------------------------- MODULE L1Cache -------------------------------
(***************************************************************************)
(* The L1 cache controller of lab5/MSI-cache.sm: one action per transition *)
(* of the controller, for the cache block the specification is about.      *)
(*                                                                         *)
(* An in_port takes the message at the head of its buffer, turns it into   *)
(* an event, and the transition of (getState(), event) runs to completion. *)
(* A stalled message (z_stall) stays at the head of its buffer, so a stall *)
(* is a handler whose guard is false.  An event without a transition       *)
(* aborts the simulator: see L1EventHandled in MSIProtocol.                *)
(*                                                                         *)
(* setState writes the new state into the TBE and into the cache entry,    *)
(* whichever of them are valid, so the two never differ and one variable   *)
(* stands for both.  The contents of an entry or TBE that is not allocated *)
(* are given the values of a fresh one.                                    *)
(***************************************************************************)
EXTENDS Sequencer

VARIABLES CacheState,    \* CacheState of the entry and TBEState of the TBE
          entries,       \* the caches that have an entry for the block
          DataBlk,       \* DataBlk of the cache entry
          TBEs,          \* the caches that have a TBE for the block
          tbeDataBlk,    \* DataBlk of the TBE
          pendingAcks    \* pendingAcks of the TBE

cacheVars == <<CacheState, entries, DataBlk, TBEs, tbeDataBlk, pendingAcks>>

StableState == {"I", "S", "M"}
TransientState ==
  {"IS_D", "IM_AD", "IM_A", "II_A", "SM_AD", "SM_A", "SI_A", "MI_A"}
L1State == StableState \cup TransientState

CacheTypeOK ==
  /\ CacheState \in [Cache -> L1State]
  /\ entries \in SUBSET Cache
  /\ DataBlk \in [Cache -> Data]
  /\ TBEs \in SUBSET Cache
  /\ tbeDataBlk \in [Cache -> Data]
  /\ pendingAcks \in [Cache -> Int]

CacheInit ==
  /\ CacheState = [c \in Cache |-> "I"]
  /\ entries = {}
  /\ DataBlk = [c \in Cache |-> NoData]
  /\ TBEs = {}
  /\ tbeDataBlk = [c \in Cache |-> NoData]
  /\ pendingAcks = [c \in Cache |-> 0]

getState(c) == IF c \in TBEs \cup entries THEN CacheState[c] ELSE "I"

setState(c, s) == CacheState' = [CacheState EXCEPT ![c] = s]

-----------------------------------------------------------------------------
(* The actions of the controller that several transitions share. *)

v_allocateTBE(c) ==
  /\ TBEs' = TBEs \cup {c}
  /\ pendingAcks' = [pendingAcks EXCEPT ![c] = 0]

w_deallocateTBE(c) ==
  /\ TBEs' = TBEs \ {c}
  /\ tbeDataBlk' = [tbeDataBlk EXCEPT ![c] = NoData]
  /\ pendingAcks' = [pendingAcks EXCEPT ![c] = 0]

i_allocateL1CacheBlock(c) == entries' = entries \cup {c}

h_deallocateL1CacheBlock(c) ==
  /\ entries' = entries \ {c}
  /\ DataBlk' = [DataBlk EXCEPT ![c] = NoData]

writeDataToCache(c, d) == DataBlk' = [DataBlk EXCEPT ![c] = d]

\* Mutant: the copy is forgotten.
x_copyDataFromCacheToTBE_Forgotten(c) == UNCHANGED tbeDataBlk

x_copyDataFromCacheToTBE(c) ==
  tbeDataBlk' = [tbeDataBlk EXCEPT ![c] = DataBlk[c]]

\* Mutant: the sign of the directory's AckCount is not taken into account.
q_updateAckCount_Added(c, m) ==
  pendingAcks' = [pendingAcks EXCEPT ![c] = @ + m.AckCount]

q_updateAckCount(c, m) ==
  pendingAcks' = [pendingAcks EXCEPT ![c] = @ - m.AckCount]

\* With the controller's default parameter send_evictions = true.
forward_eviction_to_cpu(c) == evictionCallback(c)

\* e_sendDataFromCacheToRequestor (and, of the TBE's data, ee_): the code
\* leaves AckCount at its default.
DataFromOwner(c, requestor, d) ==
  [Type |-> "DATA_FROM_OWNER", Sender |-> c, Destination |-> requestor,
   DataBlk |-> d, AckCount |-> 0]

\* de_sendDataFromCacheToDir, dee_sendDataFromTBEToDir
DataToDir(c, d) ==
  [Type |-> "DATA", Sender |-> c, Destination |-> Dir, DataBlk |-> d,
   AckCount |-> 0]

\* fi_sendInvAck: to the cache whose GETM caused the INV.
InvAck(c, requestor) ==
  [Type |-> "ACK", Sender |-> c, Destination |-> requestor, AckCount |-> 1]

-----------------------------------------------------------------------------
(* mandatoryQueue_in: requests of the core *)

Issue(c, s, m) ==
  /\ getState(c) = "I"
  /\ setState(c, s)
  /\ v_allocateTBE(c)
  /\ i_allocateL1CacheBlock(c)
  /\ SendRequest(c, m)
  /\ popMandatoryQueue(c)
  /\ UNCHANGED <<DataBlk, tbeDataBlk, forwardNet, responseNet,
                 outstanding, latest, loaded, exposed>>

LoadMiss(c)  == mandatoryQueue[c] = "LD" /\ Issue(c, "IS_D", [Type |-> "GETS"])
StoreMiss(c) == mandatoryQueue[c] = "ST" /\ Issue(c, "IM_AD", [Type |-> "GETM"])

\* Mutant: a load hits while a lost block waits for its WB_ACK.
LoadHitState_WaitingForAck == {"S", "SM_AD", "SM_A", "M", "II_A"}

LoadHitState == {"S", "SM_AD", "SM_A", "M"}

LoadHit(c) ==
  /\ mandatoryQueue[c] = "LD"
  /\ getState(c) \in LoadHitState
  /\ readCallback(c, DataBlk[c])
  /\ popMandatoryQueue(c)
  /\ UNCHANGED <<cacheVars, netVars>>

\* Mutant: a store stalls in S until the block is gone.
StoreUpgrade_Stalled(c) == FALSE

StoreUpgrade(c) ==
  /\ mandatoryQueue[c] = "ST"
  /\ getState(c) = "S"
  /\ setState(c, "SM_AD")
  /\ v_allocateTBE(c)
  /\ x_copyDataFromCacheToTBE(c)
  /\ SendRequest(c, [Type |-> "GETM"])
  /\ popMandatoryQueue(c)
  /\ UNCHANGED <<entries, DataBlk, forwardNet, responseNet,
                 outstanding, latest, loaded, exposed>>

StoreHit(c) ==
  /\ mandatoryQueue[c] = "ST"
  /\ getState(c) = "M"
  /\ \E v \in Value : writeDataToCache(c, v) /\ writeCallback(c, v)
  /\ popMandatoryQueue(c)
  /\ UNCHANGED <<CacheState, entries, TBEs, tbeDataBlk, pendingAcks, netVars>>

\* The request at the head of the mandatory queue is for another block, which
\* is not in the full cache, and this block is the victim.
Replace(c, s, type) ==
  /\ setState(c, s)
  /\ v_allocateTBE(c)
  /\ SendRequest(c, [Type |-> type, DataBlk |-> DataBlk[c]])
  /\ x_copyDataFromCacheToTBE(c)
  /\ UNCHANGED <<entries, DataBlk, forwardNet, responseNet, seqVars>>

ReplaceShared(c)   == getState(c) = "S" /\ Replace(c, "SI_A", "PUTS")
ReplaceModified(c) == getState(c) = "M" /\ Replace(c, "MI_A", "PUTM")

-----------------------------------------------------------------------------
(* forwardRequestNetwork_in *)

ForwardEvent == [GETM |-> "Fwd_GetM", GETS |-> "Fwd_GetS", INV |-> "Inv",
                 WB_ACK |-> "WB_Ack"]

\* The message at the head of the port triggers event e in a state of S.
OnForward(c, e, S) ==
  /\ forwardNet[c] # << >>
  /\ ForwardEvent[Head(forwardNet[c]).Type] = e
  /\ getState(c) \in S

ForwardRequestor(c) == Head(forwardNet[c]).Requestor

InvShared(c) ==
  /\ OnForward(c, "Inv", {"S"})
  /\ SendResponse({InvAck(c, ForwardRequestor(c))})
  /\ forward_eviction_to_cpu(c)
  /\ h_deallocateL1CacheBlock(c)
  /\ PopForward(c)
  /\ setState(c, "I")
  /\ UNCHANGED <<TBEs, tbeDataBlk, pendingAcks, requestNet>>

\* The block is lost while an upgrade (SM_AD) or a PUTS (SI_A) of the cache is
\* on its way to the directory.
AckInv(c, s) ==
  /\ SendResponse({InvAck(c, ForwardRequestor(c))})
  /\ PopForward(c)
  /\ setState(c, s)
  /\ UNCHANGED <<entries, DataBlk, TBEs, tbeDataBlk, pendingAcks, requestNet,
                 seqVars>>

InvUpgrade(c)     == OnForward(c, "Inv", {"SM_AD"}) /\ AckInv(c, "IM_AD")
InvReplacement(c) == OnForward(c, "Inv", {"SI_A"}) /\ AckInv(c, "II_A")

FwdGetSModified(c) ==
  /\ OnForward(c, "Fwd_GetS", {"M"})
  /\ SendResponse({DataFromOwner(c, ForwardRequestor(c), DataBlk[c]),
                   DataToDir(c, DataBlk[c])})
  /\ PopForward(c)
  /\ setState(c, "S")
  /\ UNCHANGED <<entries, DataBlk, TBEs, tbeDataBlk, pendingAcks, requestNet,
                 seqVars>>

FwdGetSReplacement(c) ==
  /\ OnForward(c, "Fwd_GetS", {"MI_A"})
  /\ SendResponse({DataFromOwner(c, ForwardRequestor(c), tbeDataBlk[c]),
                   DataToDir(c, tbeDataBlk[c])})
  /\ PopForward(c)
  /\ setState(c, "SI_A")
  /\ UNCHANGED <<entries, DataBlk, TBEs, tbeDataBlk, pendingAcks, requestNet,
                 seqVars>>

FwdGetMModified(c) ==
  /\ OnForward(c, "Fwd_GetM", {"M"})
  /\ forward_eviction_to_cpu(c)
  /\ SendResponse({DataFromOwner(c, ForwardRequestor(c), DataBlk[c])})
  /\ h_deallocateL1CacheBlock(c)
  /\ PopForward(c)
  /\ setState(c, "I")
  /\ UNCHANGED <<TBEs, tbeDataBlk, pendingAcks, requestNet>>

FwdGetMReplacement(c) ==
  /\ OnForward(c, "Fwd_GetM", {"MI_A"})
  /\ SendResponse({DataFromOwner(c, ForwardRequestor(c), tbeDataBlk[c])})
  /\ PopForward(c)
  /\ setState(c, "II_A")
  /\ UNCHANGED <<entries, DataBlk, TBEs, tbeDataBlk, pendingAcks, requestNet,
                 seqVars>>

WBAck(c) ==
  /\ OnForward(c, "WB_Ack", {"MI_A", "SI_A", "II_A"})
  /\ forward_eviction_to_cpu(c)
  /\ w_deallocateTBE(c)
  /\ h_deallocateL1CacheBlock(c)
  /\ PopForward(c)
  /\ setState(c, "I")
  /\ UNCHANGED <<requestNet, responseNet>>

-----------------------------------------------------------------------------
(* responseNetwork_in *)

IsLastAck(c, m) == pendingAcks[c] - m.AckCount = 0

DataEvent(c, m) ==
  IF m.AckCount = 0 THEN "Data_from_Dir_No_Acks"
  ELSE IF IsLastAck(c, m) THEN "Data_from_Dir_Ack_Cnt_Last"
  ELSE "Data_from_Dir_Ack_Cnt"

AckEvent(c, m) == IF IsLastAck(c, m) THEN "Inv_Ack_all" ELSE "Inv_Ack"

ResponseEvent(c, m) ==
  IF m.Type = "DATA_FROM_DIR" THEN DataEvent(c, m)
  ELSE IF m.Type = "DATA_FROM_OWNER" THEN "Data_from_Owner"
  ELSE IF m.Type = "ACK" THEN AckEvent(c, m)
  ELSE "error"

OnResponse(c, m, E, S) ==
  /\ m.Destination = c
  /\ ResponseEvent(c, m) \in E
  /\ getState(c) \in S

LoadData(c, m) ==
  /\ OnResponse(c, m, {"Data_from_Dir_No_Acks", "Data_from_Owner"}, {"IS_D"})
  /\ writeDataToCache(c, m.DataBlk)
  /\ w_deallocateTBE(c)
  /\ readCallback(c, m.DataBlk)
  /\ PopResponse(m)
  /\ setState(c, "S")
  /\ UNCHANGED <<entries, mandatoryQueue, requestNet, forwardNet>>

\* The miss of a store is over: the cache owns the block and the sequencer
\* writes it (sx_store_hit) before anything else can happen to it.
StoreDone(c, m) ==
  /\ \E v \in Value : writeDataToCache(c, v) /\ writeCallback(c, v)
  /\ w_deallocateTBE(c)
  /\ PopResponse(m)
  /\ setState(c, "M")
  /\ UNCHANGED <<entries, mandatoryQueue, requestNet, forwardNet>>

StoreData(c, m) ==
  /\ \/ OnResponse(c, m, {"Data_from_Dir_No_Acks", "Data_from_Owner",
                          "Data_from_Dir_Ack_Cnt_Last"}, {"IM_AD"})
     \/ OnResponse(c, m, {"Data_from_Dir_No_Acks",
                          "Data_from_Dir_Ack_Cnt_Last"}, {"SM_AD"})
  /\ StoreDone(c, m)

LastInvAck(c, m) ==
  /\ OnResponse(c, m, {"Inv_Ack_all"}, {"IM_A", "SM_A"})
  /\ StoreDone(c, m)

StoreDataAckCnt(c, m) ==
  /\ OnResponse(c, m, {"Data_from_Dir_Ack_Cnt"}, {"IM_AD", "SM_AD"})
  /\ writeDataToCache(c, m.DataBlk)
  /\ q_updateAckCount(c, m)
  /\ PopResponse(m)
  /\ setState(c, IF getState(c) = "IM_AD" THEN "IM_A" ELSE "SM_A")
  /\ UNCHANGED <<entries, TBEs, tbeDataBlk, requestNet, forwardNet, seqVars>>

CountInvAck(c, m) ==
  /\ OnResponse(c, m, {"Inv_Ack"}, {"IM_AD", "IM_A", "SM_AD", "SM_A"})
  /\ q_updateAckCount(c, m)
  /\ PopResponse(m)
  /\ UNCHANGED <<CacheState, entries, DataBlk, TBEs, tbeDataBlk, requestNet,
                 forwardNet, seqVars>>

-----------------------------------------------------------------------------
(* The controller of cache c, by in_port. *)

CoreRequest(c) ==
  /\ \E type \in {"LD", "ST"} : makeRequest(c, type)
  /\ UNCHANGED <<cacheVars, netVars>>

MandatoryPort(c) ==
  LoadMiss(c) \/ StoreMiss(c) \/ LoadHit(c) \/ StoreUpgrade(c) \/ StoreHit(c)

Replacement(c) == ReplaceShared(c) \/ ReplaceModified(c)

ForwardPort(c) ==
  \/ InvShared(c) \/ InvUpgrade(c) \/ InvReplacement(c)
  \/ FwdGetSModified(c) \/ FwdGetSReplacement(c)
  \/ FwdGetMModified(c) \/ FwdGetMReplacement(c)
  \/ WBAck(c)

ResponsePort(c) ==
  \E m \in responseNet :
    \/ LoadData(c, m) \/ StoreData(c, m) \/ LastInvAck(c, m)
    \/ StoreDataAckCnt(c, m) \/ CountInvAck(c, m)
=============================================================================
