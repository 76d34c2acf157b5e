---------------------------- MODULE MSIDirectory ----------------------------
(***************************************************************************)
(* The directory controller of lab5/MSI-dir.sm, one action per transition, *)
(* for the block the specification is about.                               *)
(*                                                                         *)
(* The controller never allocates a TBE: its state is the directory entry. *)
(* The entry's DataBlk is main memory's copy of the block: the memory      *)
(* controller, which is not in the repository, only delays a request that  *)
(* carries the data to and fro (memQueue).                                 *)
(***************************************************************************)
EXTENDS MSINetwork

VARIABLES DirectoryState, dirDataBlk, Sharers, Owner,
          memQueue    \* requests handed to the memory controller (memBuffer)

dirVars == <<DirectoryState, dirDataBlk, Sharers, Owner, memQueue>>

DirState == {"I", "S", "M", "M_SD", "SD_S", "IS_D", "IM_D", "MI_D"}

MemoryMsg == [Type : {"MEMORY_READ", "MEMORY_WB"},
              OriginalRequestorMachId : Cache, DataBlk : Value]

DirTypeOK ==
  /\ DirectoryState \in DirState
  /\ dirDataBlk \in Value
  /\ Sharers \in SUBSET Cache
  /\ Owner \in SUBSET Cache
  /\ memQueue \in Seq(MemoryMsg)

DirInit ==
  /\ DirectoryState = "I"
  /\ dirDataBlk \in Value
  /\ Sharers = {}
  /\ Owner = {}
  /\ memQueue = << >>

-----------------------------------------------------------------------------
(* Actions of the controller.  r is the Requestor of the request at the    *)
(* head of requestQueue_in.                                                *)

Request(r) == Head(requestNet[r])

\* d_sendData, ds_sendSharedData, ds2_sendSharedData
DataFromDir(r, d, ackCount) ==
  [Type |-> "DATA_FROM_DIR", Sender |-> Dir, Destination |-> r,
   DataBlk |-> d, AckCount |-> ackCount]

\* Mutant: the requestor is taken for a sharer even when it is not.
AckCount_AlwaysSharer(r) == 1 - Cardinality(Sharers)

\* ds2_sendSharedData counts the sharers other than the requestor, negated.
AckCount(r) ==
  IF r \in Sharers THEN 1 - Cardinality(Sharers) ELSE 0 - Cardinality(Sharers)

\* fwm_sendFwdInvToSharersMinusRequestor
InvDestination(r) == Sharers \ {r}

\* a_sendWriteBackAck: on the forward network, so that it does not overtake
\* a request forwarded to r before.
a_sendWriteBackAck(r) ==
  /\ SendForward({r}, [Type |-> "WB_ACK", Requestor |-> Dir])
  /\ UNCHANGED responseNet

\* f_forwardRequest
f_forwardRequest(r) ==
  SendForward(Owner, [Type |-> Request(r).Type, Requestor |-> r])

queueMemory(type, r, d) ==
  memQueue' = Append(memQueue, [Type |-> type, OriginalRequestorMachId |-> r,
                                DataBlk |-> d])

\* ars2_addRequestorToSharers and aos_addOwnertoSharers
SharersAndOwner(r) == Sharers \cup {r} \cup Owner

\* Mutant: the data are handed to memory but the entry is not updated.
writeDataToDirectory_Forgotten(m) == UNCHANGED dirDataBlk

writeDataToDirectory(m) == dirDataBlk' = m.DataBlk

setDirState(s) == DirectoryState' = s

-----------------------------------------------------------------------------
(* requestQueue_in *)

\* Mutant: every PUTM is taken for the owner's.
PUTMEvent_AnyOwner(r) == "PUTM_Owner"

PUTMEvent(r) == IF r \in Owner THEN "PUTM_Owner" ELSE "PUTM_NotOwner"

PUTSEvent(r) ==
  IF Cardinality(Sharers) < 2 /\ r \in Sharers THEN "PUTS_Last"
                                               ELSE "PUTS_NotLast"

RequestEvent(r) ==
  IF Request(r).Type = "PUTM" THEN PUTMEvent(r)
  ELSE IF Request(r).Type = "PUTS" THEN PUTSEvent(r)
  ELSE Request(r).Type

OnRequest(r, E, S) ==
  /\ requestNet[r] # << >>
  /\ RequestEvent(r) \in E
  /\ DirectoryState \in S

\* The owner is the directory: fetch the block from memory.
Fetch(r, s) ==
  /\ queueMemory("MEMORY_READ", r, dirDataBlk)
  /\ PopRequest(r)
  /\ setDirState(s)
  /\ UNCHANGED <<dirDataBlk, Sharers, forwardNet, responseNet>>

GetSInvalid(r) ==
  OnRequest(r, {"GETS"}, {"I"}) /\ Fetch(r, "IS_D") /\ UNCHANGED Owner

GetMInvalid(r) ==
  OnRequest(r, {"GETM"}, {"I"}) /\ Fetch(r, "IM_D") /\ Owner' = {r}

GetSShared(r) ==
  /\ OnRequest(r, {"GETS"}, {"S"})
  /\ SendResponse({DataFromDir(r, dirDataBlk, 0)})
  /\ Sharers' = Sharers \cup {r}
  /\ PopRequest(r)
  /\ UNCHANGED <<DirectoryState, dirDataBlk, Owner, memQueue, forwardNet>>

GetMShared(r) ==
  /\ OnRequest(r, {"GETM"}, {"S"})
  /\ SendResponse({DataFromDir(r, dirDataBlk, AckCount(r))})
  /\ SendForward(InvDestination(r), [Type |-> "INV", Requestor |-> r])
  /\ Sharers' = {}
  /\ Owner' = {r}
  /\ PopRequest(r)
  /\ setDirState("M")
  /\ UNCHANGED <<dirDataBlk, memQueue>>

GetSModified(r) ==
  /\ OnRequest(r, {"GETS"}, {"M"})
  /\ f_forwardRequest(r)
  /\ Sharers' = SharersAndOwner(r)
  /\ Owner' = {}
  /\ PopRequest(r)
  /\ setDirState("M_SD")
  /\ UNCHANGED <<dirDataBlk, memQueue, responseNet>>

\* Mutant: the requestor of a forwarded GETM does not become the owner.
GetMModified_OldOwner(r) ==
  /\ OnRequest(r, {"GETM"}, {"M"})
  /\ f_forwardRequest(r)
  /\ PopRequest(r)
  /\ UNCHANGED <<DirectoryState, dirDataBlk, Sharers, Owner, memQueue,
                 responseNet>>

GetMModified(r) ==
  /\ OnRequest(r, {"GETM"}, {"M"})
  /\ f_forwardRequest(r)
  /\ Owner' = {r}
  /\ PopRequest(r)
  /\ UNCHANGED <<DirectoryState, dirDataBlk, Sharers, memQueue, responseNet>>

\* Mutant: a stale PUT stalls while no cache has the block.
PutStale_StalledInI(r) ==
  /\ OnRequest(r, {"PUTS_NotLast", "PUTS_Last", "PUTM_NotOwner"}, {"M"})
  /\ a_sendWriteBackAck(r)
  /\ PopRequest(r)
  /\ UNCHANGED dirVars

\* A PUT of a cache that has lost the block to a GETM handled before: the
\* directory only acknowledges it.
PutStale(r) ==
  /\ OnRequest(r, {"PUTS_NotLast", "PUTS_Last", "PUTM_NotOwner"}, {"I", "M"})
  /\ a_sendWriteBackAck(r)
  /\ PopRequest(r)
  /\ UNCHANGED dirVars

\* A PUT of a sharer; an owner whose PUTM was overtaken by a GETS has become one.
RemoveSharer(r, s) ==
  /\ Sharers' = Sharers \ {r}
  /\ a_sendWriteBackAck(r)
  /\ PopRequest(r)
  /\ setDirState(s)
  /\ UNCHANGED <<dirDataBlk, Owner, memQueue>>

PutShared(r) ==
  OnRequest(r, {"PUTS_NotLast", "PUTM_NotOwner"}, {"S"}) /\ RemoveSharer(r, "S")

PutSharedLast(r) ==
  OnRequest(r, {"PUTS_Last"}, {"S"}) /\ RemoveSharer(r, "I")

PutBusy(r) ==
  /\ OnRequest(r, {"PUTS_Last", "PUTS_NotLast", "PUTM_NotOwner"},
               {"M_SD", "SD_S", "MI_D"})
  /\ RemoveSharer(r, DirectoryState)

PutMOwner(r) ==
  /\ OnRequest(r, {"PUTM_Owner"}, {"M"})
  /\ queueMemory("MEMORY_WB", r, Request(r).DataBlk)
  /\ writeDataToDirectory(Request(r))
  /\ Owner' = {}
  /\ PopRequest(r)
  /\ setDirState("MI_D")
  /\ UNCHANGED <<Sharers, forwardNet, responseNet>>

-----------------------------------------------------------------------------
(* memQueue_in: the memory controller has served the request at the head *)

MemoryRequestor == Head(memQueue).OriginalRequestorMachId

OnMemory(type, s) ==
  memQueue # << >> /\ Head(memQueue).Type = type /\ DirectoryState = s

MemoryDataShared ==
  /\ OnMemory("MEMORY_READ", "IS_D")
  /\ SendResponse({DataFromDir(MemoryRequestor, Head(memQueue).DataBlk, 0)})
  /\ Sharers' = Sharers \cup {MemoryRequestor}
  /\ memQueue' = Tail(memQueue)
  /\ setDirState("S")
  /\ UNCHANGED <<dirDataBlk, Owner, requestNet, forwardNet>>

MemoryDataModified ==
  /\ OnMemory("MEMORY_READ", "IM_D")
  /\ SendResponse({DataFromDir(MemoryRequestor, Head(memQueue).DataBlk, 0)})
  /\ memQueue' = Tail(memQueue)
  /\ setDirState("M")
  /\ UNCHANGED <<dirDataBlk, Sharers, Owner, requestNet, forwardNet>>

MemoryAckInvalid ==
  /\ OnMemory("MEMORY_WB", "MI_D")
  /\ SendForward({MemoryRequestor},
                 [Type |-> "WB_ACK", Requestor |-> MemoryRequestor])
  /\ memQueue' = Tail(memQueue)
  /\ setDirState("I")
  /\ UNCHANGED <<dirDataBlk, Sharers, Owner, requestNet, responseNet>>

MemoryAckShared ==
  /\ OnMemory("MEMORY_WB", "SD_S")
  /\ memQueue' = Tail(memQueue)
  /\ setDirState("S")
  /\ UNCHANGED <<dirDataBlk, Sharers, Owner, netVars>>

-----------------------------------------------------------------------------
(* responseQueue_in: the owner sends the block back after a forwarded GETS *)

OwnerData(m) ==
  /\ m.Destination = Dir
  /\ m.Type = "DATA"
  /\ DirectoryState = "M_SD"
  /\ queueMemory("MEMORY_WB", m.Sender, m.DataBlk)
  /\ writeDataToDirectory(m)
  /\ PopResponse(m)
  /\ setDirState("SD_S")
  /\ UNCHANGED <<Sharers, Owner, requestNet, forwardNet>>

-----------------------------------------------------------------------------
(* The directory controller, by in_port. *)

RequestPort(r) ==
  \/ GetSInvalid(r) \/ GetMInvalid(r)
  \/ GetSShared(r) \/ GetMShared(r)
  \/ GetSModified(r) \/ GetMModified(r)
  \/ PutStale(r) \/ PutShared(r) \/ PutSharedLast(r) \/ PutBusy(r)
  \/ PutMOwner(r)

MemoryPort ==
  MemoryDataShared \/ MemoryDataModified \/ MemoryAckInvalid \/ MemoryAckShared

DirResponsePort == \E m \in responseNet : OwnerData(m)
=============================================================================
