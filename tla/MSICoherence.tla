---------------------------- MODULE MSICoherence ----------------------------
(***************************************************************************)
(* Why the MSI protocol is coherent: the inductive invariant from which    *)
(* the safety properties of MSIProtocol follow.  It says, of every message *)
(* that may be in flight, which states of its receiver and of the          *)
(* directory it can coexist with, and it keeps track of one thing: who has *)
(* the exclusive right to the block, or the means to get it alone.         *)
(***************************************************************************)
EXTENDS MSIProtocol

\* The messages in a channel, without their order.
Asked(c) == {requestNet[c][i] : i \in DOMAIN requestNet[c]}
Inbox(c) == {forwardNet[c][i] : i \in DOMAIN forwardNet[c]}
AtMemory == {memQueue[i] : i \in DOMAIN memQueue}

\* c has been forwarded, and has not yet handled, a message of a type in T.
Forwarded(c, T) == \E f \in Inbox(c) : f.Type \in T

\* The directory's order to c to invalidate its copy, for the store of r.
Inv(r) == [Type |-> "INV", Requestor |-> r]

\* The block is on its way to n, a cache or the directory.
DataComing(n) == \E m \in responseNet : m.Destination = n /\ m.Type # "ACK"

\* The data for c will be sent by the memory; by the cache that a GETS or GETM
\* of c has been forwarded to.
FromMemory(c) ==
  \E q \in AtMemory : q.Type = "MEMORY_READ" /\ q.OriginalRequestorMachId = c
FromOwner(c) ==
  \E d \in Cache : \E f \in Inbox(d) :
    f.Type \in {"GETS", "GETM"} /\ f.Requestor = c

\* c waits for nothing but its data and acknowledgements to write the block.
AwaitsAcks(c) ==
  \/ CacheState[c] \in {"IM_A", "SM_A"}
  \/ CacheState[c] \in {"IM_AD", "SM_AD"}
       /\ \E m \in responseNet : m.Destination = c /\ m.Type = "DATA_FROM_DIR"

\* The exclusive right to the block is c's: it may write it, or has written it
\* and not handed it on yet, or the last data are on their way to it.
Exclusive(c) ==
  \/ CacheState[c] \in {"M", "IM_A", "SM_A"}
  \/ CacheState[c] = "MI_A" /\ (Asked(c) # {} \/ Forwarded(c, {"GETS", "GETM"}))
  \/ CacheState[c] \in {"IM_AD", "SM_AD"} /\ DataComing(c)

\* Nobody has the exclusive right: the directory's copy, or the one the last
\* owner is sending to it, is the block.
AtDirectory == DirectoryState \notin {"M", "M_SD"} \/ DataComing(Dir)

\* c has a copy that serves loads, or the data for one are on their way.
Reader(c) ==
  \/ CacheState[c] \in {"S", "SM_AD"}
  \/ CacheState[c] = "IS_D" /\ DataComing(c)

-----------------------------------------------------------------------------
(* The parts of the invariant *)

MemState == {"IS_D", "IM_D", "MI_D", "SD_S"}

\* The channels are short, and what follows what in them: a WB_ACK is the last
\* message to a cache, an INV the first.
ChannelsShort ==
  /\ \A c \in Cache :
       /\ Len(requestNet[c]) \in {0, 1}
       /\ Len(forwardNet[c]) \in {0, 1, 2}
       /\ Len(forwardNet[c]) = 2 =>
            \/ /\ forwardNet[c][1].Type = "INV"
               /\ forwardNet[c][2].Type \in {"GETS", "GETM", "WB_ACK"}
            \/ /\ forwardNet[c][1].Type \in {"GETS", "GETM"}
               /\ forwardNet[c][2].Type = "WB_ACK"
  /\ Len(memQueue) = IF DirectoryState \in MemState THEN 1 ELSE 0

\* A request comes from a cache in a state that waits for the answer to it.
RequestsExpected ==
  \A c \in Cache : \A q \in Asked(c) :
    /\ q.Type = "GETS" => CacheState[c] = "IS_D"
    /\ q.Type = "GETM" => CacheState[c] \in {"IM_AD", "SM_AD"}
    /\ q.Type = "PUTS" => CacheState[c] \in {"SI_A", "II_A"}
    /\ q.Type = "PUTM" => CacheState[c] \in {"MI_A", "SI_A", "II_A"}

\* A forwarded message meets, or waits for, a state that can handle it.
ForwardsExpected ==
  \A c \in Cache : \A f \in Inbox(c) :
    /\ f.Type = "INV" =>
         /\ CacheState[c] \in {"IS_D", "S", "SM_AD", "SI_A"}
         /\ CacheState[c] = "IS_D" => Asked(c) = {}
    /\ f.Type \in {"GETS", "GETM"} =>
         /\ CacheState[c] \in StoreMissState \cup {"M", "MI_A"}
         /\ CacheState[c] # "MI_A" => Asked(c) = {}
         /\ f.Requestor \in Cache
    /\ f.Type = "GETS" =>
         /\ CacheState[f.Requestor] = "IS_D"
         /\ f.Requestor \in Sharers
         /\ CacheState[c] # "MI_A" => c \in Sharers
    /\ f.Type = "GETM" =>
         /\ CacheState[f.Requestor] \in {"IM_AD", "SM_AD"}
         /\ CacheState[f.Requestor] = "SM_AD" => Forwarded(f.Requestor, {"INV"})
    /\ f.Type = "WB_ACK" =>
         CacheState[c] \in {"MI_A", "SI_A", "II_A"} /\ Asked(c) = {}

\* The data a cache has asked for come from one place: the memory, the owner
\* or, when they have been sent, the network; and a cache that waits for them
\* has no request on its way.
OneSource ==
  \A c \in Cache :
    /\ FromMemory(c) \/ FromOwner(c) \/ DataComing(c)
         => Asked(c) = {} /\ CacheState[c] \in {"IS_D", "IM_AD", "SM_AD"}
    /\ FromMemory(c) => ~ FromOwner(c) /\ ~ DataComing(c)
    /\ FromOwner(c) => ~ DataComing(c)
    /\ \A d, e \in Cache : \A f \in Inbox(d), g \in Inbox(e) :
         ( /\ f.Type \in {"GETS", "GETM"} /\ f.Requestor = c
           /\ g.Type \in {"GETS", "GETM"} /\ g.Requestor = c ) => d = e /\ f = g
    /\ \A m, n \in responseNet :
         ( /\ m.Type # "ACK" /\ m.Destination = c
           /\ n.Type # "ACK" /\ n.Destination = c ) => m = n

\* A response meets the state that waits for it.
ResponsesExpected ==
  \A m \in responseNet : m.Destination \in Cache =>
    /\ m.Type = "ACK" => m.AckCount = 1
    /\ m.Type = "DATA_FROM_OWNER" =>
         m.AckCount = 0 /\ CacheState[m.Destination] \in {"IS_D", "IM_AD"}
    /\ m.Type = "DATA_FROM_DIR" /\ CacheState[m.Destination] = "IS_D" =>
         m.AckCount = 0

\* What waits for the memory: a fetch for the cache that asked, a write-back of
\* the block that the directory has.
MemoryExpected ==
  \A q \in AtMemory : \A c \in Cache : q.OriginalRequestorMachId = c =>
    /\ q.Type = "MEMORY_READ" <=> DirectoryState \in {"IS_D", "IM_D"}
    /\ DirectoryState \in {"IS_D", "IM_D", "MI_D"} => Inbox(c) = {}
    /\ DirectoryState = "IS_D" => CacheState[c] = "IS_D"
    /\ DirectoryState = "IM_D" => CacheState[c] = "IM_AD" /\ Owner = {c}
    /\ DirectoryState = "MI_D" => CacheState[c] = "MI_A" /\ Asked(c) = {}

\* An acknowledgement is owed once, and only to a cache that has been sent the
\* number of them; pendingAcks counts down from nothing until then.
AcksExpected ==
  \A c \in Cache :
    /\ OwesAck(c) # {} => AwaitsAcks(c) /\ c \notin OwesAck(c)
    /\ \A d \in Cache : Inv(c) \in Inbox(d) => InvAck(d, c) \notin responseNet
    /\ CacheState[c] \in {"IS_D", "IM_AD", "SM_AD"} =>
         pendingAcks[c] <= 0 /\ (AwaitsAcks(c) \/ pendingAcks[c] = 0)

\* The exclusive right is in one place, and a GETS that will bring the block
\* back to the directory, or the block itself, is on its way only once.
OneHolder ==
  /\ \A c, d \in Cache : Exclusive(c) /\ Exclusive(d) => c = d
  /\ AtDirectory => \A c \in Cache : ~ Exclusive(c)
  /\ DataComing(Dir) =>
       DirectoryState = "M_SD" /\ \A c \in Cache : ~ Forwarded(c, {"GETS"})
  /\ \A m, n \in responseNet : m.Destination = Dir /\ n.Destination = Dir => m = n
  /\ \A c \in Cache : Forwarded(c, {"GETS"}) => DirectoryState = "M_SD"
  /\ \A c, d \in Cache : Forwarded(c, {"GETS"}) /\ Forwarded(d, {"GETS"}) => c = d

\* The cache the directory takes for the owner is, or is about to be, and has
\* not been asked for the block since.
OwnerExpected ==
  \A c \in Owner :
    /\ \/ CacheState[c] \in StoreMissState \cup {"M"} /\ Asked(c) = {}
       \/ CacheState[c] = "MI_A" /\ Asked(c) # {}
    /\ ~ Forwarded(c, {"GETS", "GETM", "WB_ACK"})

\* The caches the directory takes for sharers may have to be told of a store.
SharersExpected ==
  \A c \in Sharers :
    /\ \/ CacheState[c] = "S"
       \/ CacheState[c] = "IS_D" /\ Asked(c) = {}
       \/ CacheState[c] \in {"SM_AD", "SI_A"} /\ Asked(c) # {}
       \/ Forwarded(c, {"GETS"}) /\ (CacheState[c] = "MI_A" => Asked(c) # {})
    /\ ~ Forwarded(c, {"GETM", "WB_ACK"})
    /\ Forwarded(c, {"INV"}) => Forwarded(c, {"GETS"})

\* A copy that serves loads is the writer's own old one, or is about to be
\* invalidated, or is known to the directory while nobody may write the block.
ReadersKnown ==
  \A c \in Cache : Reader(c) =>
    Exclusive(c) \/ Forwarded(c, {"INV"}) \/ (c \in Sharers /\ AtDirectory)

\* Every copy that is used again is the last one stored: those that serve
\* loads, the one the exclusive holder writes back, those in flight, and the
\* directory's when it has the block.
DataLatest ==
  /\ \A c \in Cache :
       /\ CacheState[c] \in {"S", "SM_AD", "SM_A", "M"} => DataBlk[c] = latest
       /\ CacheState[c] = "MI_A" /\ Exclusive(c) =>
            tbeDataBlk[c] = latest /\ \A q \in Asked(c) : q.DataBlk = latest
  /\ \A m \in responseNet : m.Type # "ACK" => m.DataBlk = latest
  /\ DirectoryState \notin {"M", "M_SD"} => dirDataBlk = latest
  /\ \A q \in AtMemory : q.Type = "MEMORY_READ" => q.DataBlk = latest

\* The core of a cache waits for what its controller is doing.
CoreWaits ==
  \A c \in Cache :
    /\ mandatoryQueue[c] \in {"none", outstanding[c]}
    /\ CacheState[c] = "IS_D" => outstanding[c] = "LD" /\ mandatoryQueue[c] = "none"
    /\ CacheState[c] \in StoreMissState =>
         outstanding[c] = "ST" /\ mandatoryQueue[c] = "none"

\* The messages in flight and the states of the controllers fit together.
Expected ==
  /\ ChannelsShort /\ RequestsExpected /\ ForwardsExpected /\ OneSource
  /\ ResponsesExpected /\ MemoryExpected /\ AcksExpected /\ AckAccounting
  /\ OneHolder /\ OwnerExpected /\ SharersExpected /\ ReadersKnown

\* The inductive invariant of the protocol.
CoherenceInv == LocalInv /\ Expected /\ DataLatest /\ CoreWaits
=============================================================================
