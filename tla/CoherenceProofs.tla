-------------------------- MODULE CoherenceProofs --------------------------
(* Theorems about MSIProtocol, for any number of caches and any values.      *)
(* First what each controller keeps of its own, LocalInv; then that the      *)
(* steps of the caches, and those of the directory, keep the protocol        *)
(* coherent, so CoherenceInv is an invariant of it (MSICoherence); and what  *)
(* follows: coherence, and that the protocol implements an atomic memory.    *)
EXTENDS MSICoherence, SequenceTheorems, FiniteSetTheorems, TLAPS

-----------------------------------------------------------------------------
(* The operators of the network keep the types of its channels. *)

LEMMA SendRequestType ==
  ASSUME NetTypeOK, NEW c \in Cache, NEW m \in RequestMsg, SendRequest(c, m)
  PROVE  requestNet' \in [Cache -> Seq(RequestMsg)]
BY AppendProperties DEF NetTypeOK, SendRequest

LEMMA SendForwardType ==
  ASSUME NetTypeOK, NEW dests, NEW m \in ForwardMsg, SendForward(dests, m)
  PROVE  forwardNet' \in [Cache -> Seq(ForwardMsg)]
BY AppendProperties DEF NetTypeOK, SendForward

LEMMA SendResponseType ==
  ASSUME NetTypeOK, NEW ms \in SUBSET ResponseMsg, SendResponse(ms)
  PROVE  responseNet' \in SUBSET ResponseMsg
BY DEF NetTypeOK, SendResponse

\* What a controller reads in a response, and what it puts into one.
LEMMA ResponseFields ==
  ASSUME NEW m \in ResponseMsg
  PROVE  /\ m.AckCount \in Int
         /\ m.Type = "DATA" => m.Sender \in Cache
         /\ m.Type # "ACK" => m.DataBlk \in Value
BY DEF ResponseMsg

LEMMA CacheResponses ==
  ASSUME NEW c \in Cache, NEW r \in Cache
  PROVE  /\ \A d \in Value : /\ DataFromOwner(c, r, d) \in ResponseMsg
                            /\ DataToDir(c, d) \in ResponseMsg
         /\ InvAck(c, r) \in ResponseMsg
BY DEF DataFromOwner, DataToDir, InvAck, ResponseMsg

LEMMA ForwardFields ==
  ASSUME NetTypeOK, NEW c \in Cache, forwardNet[c] # << >>,
         Head(forwardNet[c]).Type # "WB_ACK"
  PROVE  ForwardRequestor(c) \in Cache
<1>1. Head(forwardNet[c]) \in ForwardMsg
  BY HeadTailProperties DEF NetTypeOK
<1>. QED  BY <1>1 DEF ForwardRequestor, ForwardMsg

LEMMA PopRequestType ==
  ASSUME NetTypeOK, NEW c \in Cache, requestNet[c] # << >>
  PROVE  /\ Head(requestNet[c]) \in RequestMsg
         /\ PopRequest(c) => requestNet' \in [Cache -> Seq(RequestMsg)]
<1>1. requestNet[c] \in Seq(RequestMsg)
  BY DEF NetTypeOK
<1>2. /\ Head(requestNet[c]) \in RequestMsg
      /\ Tail(requestNet[c]) \in Seq(RequestMsg)
  BY <1>1, HeadTailProperties
<1>. QED  BY <1>2 DEF NetTypeOK, PopRequest

LEMMA PopForwardType ==
  ASSUME NetTypeOK, NEW c \in Cache, forwardNet[c] # << >>
  PROVE  /\ Head(forwardNet[c]) \in ForwardMsg
         /\ PopForward(c) => forwardNet' \in [Cache -> Seq(ForwardMsg)]
<1>1. forwardNet[c] \in Seq(ForwardMsg)
  BY DEF NetTypeOK
<1>2. /\ Head(forwardNet[c]) \in ForwardMsg
      /\ Tail(forwardNet[c]) \in Seq(ForwardMsg)
  BY <1>1, HeadTailProperties
<1>. QED  BY <1>2 DEF NetTypeOK, PopForward

LEMMA PopResponseType ==
  ASSUME NetTypeOK, NEW m, PopResponse(m)
  PROVE  responseNet' \in SUBSET ResponseMsg
BY DEF NetTypeOK, PopResponse

-----------------------------------------------------------------------------
(* The part of the invariant that the transitions of a cache can disturb,     *)
(* beside the network, and the part that those of the directory can.          *)

CacheSide == /\ SeqTypeOK /\ CacheTypeOK
             /\ StructuresMatch /\ EvictionTold /\ HeldDataWritten

DirSide == DirTypeOK /\ DirBookkeeping

LEMMA Sides == LocalInv <=> NetTypeOK /\ CacheSide /\ DirSide
BY DEF LocalInv, TypeOK, CacheSide, DirSide

\* A step of a cache leaves the directory's side of the invariant alone.
LEMMA CacheStepFrame ==
  ASSUME NetTypeOK', CacheSide', DirSide, UNCHANGED dirVars
  PROVE  LocalInv'
<1>1. DirSide'
  BY DEF DirSide, DirTypeOK, DirBookkeeping, dirVars
<1>. QED  BY <1>1, Sides DEF LocalInv, TypeOK, CacheSide, DirSide

\* A step of the directory leaves the caches' side alone.
LEMMA DirStepFrame ==
  ASSUME NetTypeOK', DirSide', CacheSide, UNCHANGED <<cacheVars, seqVars>>
  PROVE  LocalInv'
<1>1. CacheSide'
  BY DEF CacheSide, SeqTypeOK, CacheTypeOK, StructuresMatch, EvictionTold,
     HeldDataWritten, cacheVars, seqVars
<1>. QED  BY <1>1 DEF LocalInv, TypeOK, CacheSide, DirSide

\* The requests of the core.
LEMMA MandatoryPreserves ==
  ASSUME NetTypeOK, CacheSide, NEW c \in Cache, CoreRequest(c) \/ MandatoryPort(c)
  PROVE  NetTypeOK' /\ CacheSide'
<1>. USE DEF CacheSide, SeqTypeOK, CacheTypeOK, StructuresMatch, EvictionTold, HeldDataWritten,
             RequestType, L1State, StableState, TransientState, Data,
             getState, setState
<1>1. CASE CoreRequest(c)
  <2>1. NetTypeOK'
    BY <1>1 DEF CoreRequest, NetTypeOK, netVars
  <2>2. CacheSide'
    BY <1>1 DEF CoreRequest, makeRequest, cacheVars
  <2>. QED  BY <2>1, <2>2
<1>2. CASE LoadMiss(c)
  <2>1. NetTypeOK'
    BY <1>2, SendRequestType DEF LoadMiss, Issue, RequestMsg, NetTypeOK
  <2>2. CacheSide'
    BY <1>2 DEF LoadMiss, Issue, v_allocateTBE, i_allocateL1CacheBlock, popMandatoryQueue
  <2>. QED  BY <2>1, <2>2
<1>3. CASE StoreMiss(c)
  <2>1. NetTypeOK'
    BY <1>3, SendRequestType DEF StoreMiss, Issue, RequestMsg, NetTypeOK
  <2>2. CacheSide'
    BY <1>3 DEF StoreMiss, Issue, v_allocateTBE, i_allocateL1CacheBlock, popMandatoryQueue
  <2>. QED  BY <2>1, <2>2
<1>4. CASE LoadHit(c)
  <2>1. NetTypeOK'
    BY <1>4 DEF LoadHit, NetTypeOK, netVars
  <2>2. CacheSide'
    BY <1>4 DEF LoadHit, LoadHitState, readCallback, popMandatoryQueue, cacheVars
  <2>. QED  BY <2>1, <2>2
<1>5. CASE StoreUpgrade(c)
  <2>1. NetTypeOK'
    BY <1>5, SendRequestType DEF StoreUpgrade, RequestMsg, NetTypeOK
  <2>2. CacheSide'
    BY <1>5 DEF StoreUpgrade, v_allocateTBE, x_copyDataFromCacheToTBE, popMandatoryQueue
  <2>. QED  BY <2>1, <2>2
<1>6. CASE StoreHit(c)
  <2>1. NetTypeOK'
    BY <1>6 DEF StoreHit, NetTypeOK, netVars
  <2>2. CacheSide'
    BY <1>6 DEF StoreHit, writeDataToCache, writeCallback, popMandatoryQueue
  <2>. QED  BY <2>1, <2>2
<1>. QED  BY <1>1, <1>2, <1>3, <1>4, <1>5, <1>6 DEF MandatoryPort

\* The replacements: what is written back has been written.
LEMMA ReplacementPreserves ==
  ASSUME NetTypeOK, CacheSide, NEW c \in Cache, Replacement(c)
  PROVE  NetTypeOK' /\ CacheSide'
<1>. USE DEF CacheSide, SeqTypeOK, CacheTypeOK, StructuresMatch, EvictionTold, HeldDataWritten,
             RequestType, L1State, StableState, TransientState, Data,
             getState, setState
<1>1. CASE ReplaceShared(c)
  <2>1. NetTypeOK'
    BY <1>1, SendRequestType DEF ReplaceShared, Replace, RequestMsg, NetTypeOK
  <2>2. CacheSide'
    BY <1>1 DEF ReplaceShared, Replace, v_allocateTBE, x_copyDataFromCacheToTBE, seqVars
  <2>. QED  BY <2>1, <2>2
<1>2. CASE ReplaceModified(c)
  <2>1. NetTypeOK'
    BY <1>2, SendRequestType DEF ReplaceModified, Replace, RequestMsg, NetTypeOK
  <2>2. CacheSide'
    BY <1>2 DEF ReplaceModified, Replace, v_allocateTBE, x_copyDataFromCacheToTBE, seqVars
  <2>. QED  BY <2>1, <2>2
<1>. QED  BY <1>1, <1>2 DEF Replacement

\* The forwarded messages: what the owner sends has been written.
LEMMA ForwardPreserves ==
  ASSUME NetTypeOK, CacheSide, NEW c \in Cache, ForwardPort(c)
  PROVE  NetTypeOK' /\ CacheSide'
<1>. USE DEF CacheSide, SeqTypeOK, CacheTypeOK, StructuresMatch, EvictionTold, HeldDataWritten,
             RequestType, L1State, StableState, TransientState, Data,
             getState, setState
<1>1. CASE InvShared(c)
  <2>a. forwardNet[c] # << >> /\ Head(forwardNet[c]).Type # "WB_ACK"
    BY <1>1 DEF InvShared, OnForward, ForwardEvent
  <2>b. {InvAck(c, ForwardRequestor(c))} \in SUBSET ResponseMsg
    BY <2>a, CacheResponses, ForwardFields
  <2>1. NetTypeOK'
    BY <1>1, <2>a, <2>b, PopForwardType, SendResponseType
       DEF InvShared, NetTypeOK
  <2>2. CacheSide'
    BY <1>1 DEF InvShared, forward_eviction_to_cpu, evictionCallback, h_deallocateL1CacheBlock, OnForward
  <2>. QED  BY <2>1, <2>2
<1>2. CASE InvUpgrade(c)
  <2>a. forwardNet[c] # << >> /\ Head(forwardNet[c]).Type # "WB_ACK"
    BY <1>2 DEF InvUpgrade, OnForward, ForwardEvent
  <2>b. {InvAck(c, ForwardRequestor(c))} \in SUBSET ResponseMsg
    BY <2>a, CacheResponses, ForwardFields
  <2>1. NetTypeOK'
    BY <1>2, <2>a, <2>b, PopForwardType, SendResponseType
       DEF InvUpgrade, AckInv, NetTypeOK
  <2>2. CacheSide'
    BY <1>2 DEF InvUpgrade, AckInv, seqVars, OnForward
  <2>. QED  BY <2>1, <2>2
<1>3. CASE InvReplacement(c)
  <2>a. forwardNet[c] # << >> /\ Head(forwardNet[c]).Type # "WB_ACK"
    BY <1>3 DEF InvReplacement, OnForward, ForwardEvent
  <2>b. {InvAck(c, ForwardRequestor(c))} \in SUBSET ResponseMsg
    BY <2>a, CacheResponses, ForwardFields
  <2>1. NetTypeOK'
    BY <1>3, <2>a, <2>b, PopForwardType, SendResponseType
       DEF InvReplacement, AckInv, NetTypeOK
  <2>2. CacheSide'
    BY <1>3 DEF InvReplacement, AckInv, seqVars, OnForward
  <2>. QED  BY <2>1, <2>2
<1>4. CASE FwdGetSModified(c)
  <2>a. forwardNet[c] # << >> /\ Head(forwardNet[c]).Type # "WB_ACK"
    BY <1>4 DEF FwdGetSModified, OnForward, ForwardEvent
  <2>c. DataBlk[c] \in Value
    BY <1>4 DEF FwdGetSModified, OnForward
  <2>b. {DataFromOwner(c, ForwardRequestor(c), DataBlk[c]), DataToDir(c, DataBlk[c])}
          \in SUBSET ResponseMsg
    BY <2>a, <2>c, CacheResponses, ForwardFields
  <2>1. NetTypeOK'
    BY <1>4, <2>a, <2>b, PopForwardType, SendResponseType
       DEF FwdGetSModified, NetTypeOK
  <2>2. CacheSide'
    BY <1>4 DEF FwdGetSModified, seqVars, OnForward
  <2>. QED  BY <2>1, <2>2
<1>5. CASE FwdGetSReplacement(c)
  <2>a. forwardNet[c] # << >> /\ Head(forwardNet[c]).Type # "WB_ACK"
    BY <1>5 DEF FwdGetSReplacement, OnForward, ForwardEvent
  <2>c. tbeDataBlk[c] \in Value
    BY <1>5 DEF FwdGetSReplacement, OnForward
  <2>b. {DataFromOwner(c, ForwardRequestor(c), tbeDataBlk[c]), DataToDir(c, tbeDataBlk[c])}
          \in SUBSET ResponseMsg
    BY <2>a, <2>c, CacheResponses, ForwardFields
  <2>1. NetTypeOK'
    BY <1>5, <2>a, <2>b, PopForwardType, SendResponseType
       DEF FwdGetSReplacement, NetTypeOK
  <2>2. CacheSide'
    BY <1>5 DEF FwdGetSReplacement, seqVars, OnForward
  <2>. QED  BY <2>1, <2>2
<1>6. CASE FwdGetMModified(c)
  <2>a. forwardNet[c] # << >> /\ Head(forwardNet[c]).Type # "WB_ACK"
    BY <1>6 DEF FwdGetMModified, OnForward, ForwardEvent
  <2>c. DataBlk[c] \in Value
    BY <1>6 DEF FwdGetMModified, OnForward
  <2>b. {DataFromOwner(c, ForwardRequestor(c), DataBlk[c])}
          \in SUBSET ResponseMsg
    BY <2>a, <2>c, CacheResponses, ForwardFields
  <2>1. NetTypeOK'
    BY <1>6, <2>a, <2>b, PopForwardType, SendResponseType
       DEF FwdGetMModified, NetTypeOK
  <2>2. CacheSide'
    BY <1>6 DEF FwdGetMModified, forward_eviction_to_cpu, evictionCallback, h_deallocateL1CacheBlock, OnForward
  <2>. QED  BY <2>1, <2>2
<1>7. CASE FwdGetMReplacement(c)
  <2>a. forwardNet[c] # << >> /\ Head(forwardNet[c]).Type # "WB_ACK"
    BY <1>7 DEF FwdGetMReplacement, OnForward, ForwardEvent
  <2>c. tbeDataBlk[c] \in Value
    BY <1>7 DEF FwdGetMReplacement, OnForward
  <2>b. {DataFromOwner(c, ForwardRequestor(c), tbeDataBlk[c])}
          \in SUBSET ResponseMsg
    BY <2>a, <2>c, CacheResponses, ForwardFields
  <2>1. NetTypeOK'
    BY <1>7, <2>a, <2>b, PopForwardType, SendResponseType
       DEF FwdGetMReplacement, NetTypeOK
  <2>2. CacheSide'
    BY <1>7 DEF FwdGetMReplacement, seqVars, OnForward
  <2>. QED  BY <2>1, <2>2
<1>8. CASE WBAck(c)
  <2>1. NetTypeOK'
    BY <1>8, PopForwardType DEF WBAck, OnForward, ForwardRequestor, NetTypeOK
  <2>2. CacheSide'
    BY <1>8 DEF WBAck, forward_eviction_to_cpu, evictionCallback, w_deallocateTBE, h_deallocateL1CacheBlock, OnForward
  <2>. QED  BY <2>1, <2>2
<1>. QED  BY <1>1, <1>2, <1>3, <1>4, <1>5, <1>6, <1>7, <1>8 DEF ForwardPort

\* The responses: only a message that carries data fills an entry.
LEMMA ResponsePreserves ==
  ASSUME NetTypeOK, CacheSide, NEW c \in Cache, NEW m \in responseNet,
         \/ LoadData(c, m) \/ StoreData(c, m) \/ LastInvAck(c, m)
         \/ StoreDataAckCnt(c, m) \/ CountInvAck(c, m)
  PROVE  NetTypeOK' /\ CacheSide'
<1>. USE DEF CacheSide, SeqTypeOK, CacheTypeOK, StructuresMatch, EvictionTold, HeldDataWritten,
             RequestType, L1State, StableState, TransientState, Data,
             getState, setState
<1>1. CASE LoadData(c, m)
  <2>1. NetTypeOK'
    BY <1>1, PopResponseType DEF LoadData, NetTypeOK
  <2>2. CacheSide'
    BY <1>1, ResponseFields DEF LoadData, NetTypeOK, ResponseEvent, DataEvent, AckEvent, writeDataToCache, w_deallocateTBE, readCallback, OnResponse
  <2>. QED  BY <2>1, <2>2
<1>2. CASE StoreData(c, m)
  <2>1. NetTypeOK'
    BY <1>2, PopResponseType DEF StoreData, StoreDone, NetTypeOK
  <2>2. CacheSide'
    BY <1>2 DEF StoreData, StoreDone, writeDataToCache, w_deallocateTBE, writeCallback, OnResponse
  <2>. QED  BY <2>1, <2>2
<1>3. CASE LastInvAck(c, m)
  <2>1. NetTypeOK'
    BY <1>3, PopResponseType DEF LastInvAck, StoreDone, NetTypeOK
  <2>2. CacheSide'
    BY <1>3 DEF LastInvAck, StoreDone, writeDataToCache, w_deallocateTBE, writeCallback, OnResponse
  <2>. QED  BY <2>1, <2>2
<1>4. CASE StoreDataAckCnt(c, m)
  <2>1. NetTypeOK'
    BY <1>4, PopResponseType DEF StoreDataAckCnt, NetTypeOK
  <2>2. m.DataBlk \in Value /\ pendingAcks' \in [Cache -> Int]
    BY <1>4, ResponseFields
       DEF StoreDataAckCnt, q_updateAckCount, OnResponse, ResponseEvent,
           AckEvent, NetTypeOK
  <2>3. CacheSide'
    BY <1>4, <2>2 DEF StoreDataAckCnt, OnResponse, writeDataToCache, seqVars
  <2>. QED  BY <2>1, <2>3
<1>5. CASE CountInvAck(c, m)
  <2>1. NetTypeOK'
    BY <1>5, PopResponseType DEF CountInvAck, NetTypeOK
  <2>2. pendingAcks' \in [Cache -> Int]
    BY <1>5, ResponseFields DEF CountInvAck, q_updateAckCount, NetTypeOK
  <2>3. CacheSide'
    BY <1>5, <2>2 DEF CountInvAck, seqVars
  <2>. QED  BY <2>1, <2>3
<1>. QED  BY <1>1, <1>2, <1>3, <1>4, <1>5

-----------------------------------------------------------------------------
(* The directory. *)

LEMMA SharersFinite ==
  ASSUME DirTypeOK
  PROVE  /\ IsFiniteSet(Sharers)
         /\ Cardinality(Sharers) \in Nat
         /\ \A r : AckCount(r) \in Int
<1>1. IsFiniteSet(Sharers)
  BY CacheAssumption, FS_Subset DEF DirTypeOK
<1>2. Cardinality(Sharers) \in Nat
  BY <1>1, FS_CardinalityType
<1>. QED  BY <1>1, <1>2 DEF AckCount

\* A PUTS is the last one only if the requestor is the one sharer left.
LEMMA LastSharer ==
  ASSUME DirTypeOK, NEW r \in Cache, PUTSEvent(r) = "PUTS_Last"
  PROVE  Sharers \ {r} = {}
<1>1. Cardinality(Sharers) < 2 /\ r \in Sharers
  BY DEF PUTSEvent
<1>2. IsFiniteSet(Sharers \ {r}) /\ Cardinality(Sharers \ {r}) = Cardinality(Sharers) - 1
  BY <1>1, SharersFinite, FS_RemoveElement
<1>3. Cardinality(Sharers \ {r}) = 0
  BY <1>1, <1>2, SharersFinite, FS_CardinalityType
<1>. QED  BY <1>2, <1>3, FS_EmptySet

LEMMA DirResponses ==
  ASSUME NEW r \in Cache, NEW d \in Value, NEW n \in Int
  PROVE  {DataFromDir(r, d, n)} \in SUBSET ResponseMsg
BY DEF DataFromDir, ResponseMsg

\* The request at the head of a channel and what the directory does with it.
LEMMA RequestFields ==
  ASSUME NetTypeOK, NEW r \in Cache, requestNet[r] # << >>
  PROVE  /\ Request(r) \in RequestMsg
         /\ RequestEvent(r) \in {"GETS", "GETM"}
              => [Type |-> Request(r).Type, Requestor |-> r] \in ForwardMsg
         /\ RequestEvent(r) = "PUTM_Owner" => Request(r).DataBlk \in Value
         /\ RequestEvent(r) = "PUTS_Last" => PUTSEvent(r) = "PUTS_Last"
<1>1. Request(r) \in RequestMsg
  BY PopRequestType DEF Request
<1>. QED  BY <1>1 DEF RequestEvent, PUTMEvent, PUTSEvent, RequestMsg, ForwardMsg,
                      Node

LEMMA queueMemoryType ==
  ASSUME DirTypeOK, NEW type \in {"MEMORY_READ", "MEMORY_WB"}, NEW r \in Cache,
         NEW d \in Value, queueMemory(type, r, d)
  PROVE  memQueue' \in Seq(MemoryMsg)
BY AppendProperties DEF DirTypeOK, queueMemory, MemoryMsg

LEMMA MemoryFields ==
  ASSUME DirTypeOK, memQueue # << >>
  PROVE  /\ MemoryRequestor \in Cache
         /\ Head(memQueue).DataBlk \in Value
         /\ Tail(memQueue) \in Seq(MemoryMsg)
<1>1. Head(memQueue) \in MemoryMsg /\ Tail(memQueue) \in Seq(MemoryMsg)
  BY HeadTailProperties DEF DirTypeOK
<1>. QED  BY <1>1 DEF MemoryRequestor, MemoryMsg

LEMMA DirRequestPreserves ==
  ASSUME NetTypeOK, DirSide, NEW r \in Cache, RequestPort(r)
  PROVE  NetTypeOK' /\ DirSide'
<1>. USE DEF DirSide, DirTypeOK, DirBookkeeping, DirState, setDirState, OnRequest
<1>1. CASE GetSInvalid(r)
  <2>1. NetTypeOK'
    BY <1>1, PopRequestType
       DEF GetSInvalid, Fetch, NetTypeOK
  <2>2. DirSide'
    BY <1>1, queueMemoryType DEF GetSInvalid, Fetch
  <2>. QED  BY <2>1, <2>2
<1>2. CASE GetMInvalid(r)
  <2>1. NetTypeOK'
    BY <1>2, PopRequestType
       DEF GetMInvalid, Fetch, NetTypeOK
  <2>2. DirSide'
    BY <1>2, queueMemoryType DEF GetMInvalid, Fetch
  <2>. QED  BY <2>1, <2>2
<1>3. CASE GetSShared(r)
  <2>a. {DataFromDir(r, dirDataBlk, 0)} \in SUBSET ResponseMsg
    BY DirResponses
  <2>1. NetTypeOK'
    BY <1>3, <2>a, PopRequestType, SendResponseType DEF GetSShared, NetTypeOK
  <2>2. DirSide'
    BY <1>3 DEF GetSShared
  <2>. QED  BY <2>1, <2>2
<1>4. CASE GetMShared(r)
  <2>1. NetTypeOK'
    BY <1>4, PopRequestType, SendResponseType, DirResponses, SharersFinite,
       SendForwardType
       DEF GetMShared, Node, ForwardMsg, NetTypeOK
  <2>2. DirSide'
    BY <1>4 DEF GetMShared
  <2>. QED  BY <2>1, <2>2
<1>5. CASE GetSModified(r)
  <2>1. NetTypeOK'
    BY <1>5, PopRequestType, SendForwardType, RequestFields
       DEF GetSModified, f_forwardRequest, NetTypeOK
  <2>2. DirSide'
    BY <1>5 DEF GetSModified, SharersAndOwner
  <2>. QED  BY <2>1, <2>2
<1>6. CASE GetMModified(r)
  <2>1. NetTypeOK'
    BY <1>6, PopRequestType, SendForwardType, RequestFields
       DEF GetMModified, f_forwardRequest, NetTypeOK
  <2>2. DirSide'
    BY <1>6 DEF GetMModified
  <2>. QED  BY <2>1, <2>2
<1>7. CASE PutStale(r)
  <2>1. NetTypeOK'
    BY <1>7, PopRequestType, SendForwardType
       DEF PutStale, a_sendWriteBackAck, ForwardMsg, Node, NetTypeOK
  <2>2. DirSide'
    BY <1>7 DEF PutStale, dirVars
  <2>. QED  BY <2>1, <2>2
<1>8. CASE PutShared(r)
  <2>1. NetTypeOK'
    BY <1>8, PopRequestType, SendForwardType
       DEF PutShared, RemoveSharer, a_sendWriteBackAck, ForwardMsg, Node, NetTypeOK
  <2>2. DirSide'
    BY <1>8 DEF PutShared, RemoveSharer
  <2>. QED  BY <2>1, <2>2
<1>9. CASE PutSharedLast(r)
  <2>1. NetTypeOK'
    BY <1>9, PopRequestType, SendForwardType
       DEF PutSharedLast, RemoveSharer, a_sendWriteBackAck, ForwardMsg, Node, NetTypeOK
  <2>2. DirSide'
    BY <1>9, LastSharer, RequestFields DEF PutSharedLast, RemoveSharer
  <2>. QED  BY <2>1, <2>2
<1>10. CASE PutBusy(r)
  <2>1. NetTypeOK'
    BY <1>10, PopRequestType, SendForwardType
       DEF PutBusy, RemoveSharer, a_sendWriteBackAck, ForwardMsg, Node, NetTypeOK
  <2>2. DirSide'
    BY <1>10 DEF PutBusy, RemoveSharer
  <2>. QED  BY <2>1, <2>2
<1>11. CASE PutMOwner(r)
  <2>1. NetTypeOK'
    BY <1>11, PopRequestType
       DEF PutMOwner, NetTypeOK
  <2>2. DirSide'
    BY <1>11, queueMemoryType, RequestFields DEF PutMOwner, writeDataToDirectory
  <2>. QED  BY <2>1, <2>2
<1>. QED  BY <1>1, <1>2, <1>3, <1>4, <1>5, <1>6, <1>7, <1>8, <1>9, <1>10, <1>11 DEF RequestPort

LEMMA DirMemoryPreserves ==
  ASSUME NetTypeOK, DirSide, MemoryPort
  PROVE  NetTypeOK' /\ DirSide'
<1>. USE DEF DirSide, DirTypeOK, DirBookkeeping, DirState, setDirState, OnMemory
<1>0. memQueue # << >>
  BY DEF MemoryPort, MemoryDataShared, MemoryDataModified, MemoryAckInvalid,
         MemoryAckShared
<1>1. CASE MemoryDataShared
  <2>a. {DataFromDir(MemoryRequestor, Head(memQueue).DataBlk, 0)}
          \in SUBSET ResponseMsg
    BY <1>0, MemoryFields, DirResponses
  <2>1. NetTypeOK'
    BY <1>1, <2>a, SendResponseType DEF MemoryDataShared, NetTypeOK
  <2>2. DirSide'
    BY <1>0, <1>1, MemoryFields DEF MemoryDataShared
  <2>. QED  BY <2>1, <2>2
<1>2. CASE MemoryDataModified
  <2>a. {DataFromDir(MemoryRequestor, Head(memQueue).DataBlk, 0)}
          \in SUBSET ResponseMsg
    BY <1>0, MemoryFields, DirResponses
  <2>1. NetTypeOK'
    BY <1>2, <2>a, SendResponseType DEF MemoryDataModified, NetTypeOK
  <2>2. DirSide'
    BY <1>0, <1>2, MemoryFields DEF MemoryDataModified
  <2>. QED  BY <2>1, <2>2
<1>3. CASE MemoryAckInvalid
  <2>1. NetTypeOK'
    BY <1>0, <1>3, MemoryFields, SendForwardType
       DEF MemoryAckInvalid, NetTypeOK, ForwardMsg, Node
  <2>2. DirSide'
    BY <1>0, <1>3, MemoryFields DEF MemoryAckInvalid
  <2>. QED  BY <2>1, <2>2
<1>4. CASE MemoryAckShared
  <2>1. NetTypeOK'
    BY <1>0, <1>4, MemoryFields
       DEF MemoryAckShared, NetTypeOK, netVars
  <2>2. DirSide'
    BY <1>0, <1>4, MemoryFields DEF MemoryAckShared
  <2>. QED  BY <2>1, <2>2
<1>. QED  BY <1>1, <1>2, <1>3, <1>4 DEF MemoryPort

LEMMA DirResponsePreserves ==
  ASSUME NetTypeOK, DirSide, NEW m \in responseNet, OwnerData(m)
  PROVE  NetTypeOK' /\ DirSide'
<1>1. m.DataBlk \in Value /\ m.Sender \in Cache
  BY ResponseFields DEF NetTypeOK, OwnerData
<1>2. NetTypeOK'
  BY PopResponseType DEF OwnerData, NetTypeOK
<1>3. DirSide'
  BY <1>1, queueMemoryType DEF OwnerData, writeDataToDirectory, setDirState, DirSide,
     DirTypeOK, DirBookkeeping, DirState
<1>. QED  BY <1>2, <1>3

-----------------------------------------------------------------------------
(* The theorems. *)

LEMMA LocalInvInit == Init => LocalInv
<1>. SUFFICES ASSUME Init PROVE LocalInv
  OBVIOUS
<1>1. NetTypeOK
  BY EmptySeq DEF Init, NetInit, NetTypeOK
<1>2. CacheSide
  BY DEF Init, SeqInit, CacheInit, CacheSide, SeqTypeOK, CacheTypeOK,
     StructuresMatch, EvictionTold, HeldDataWritten, RequestType, L1State,
     StableState, TransientState, Data
<1>3. DirSide
  BY EmptySeq DEF Init, DirInit, DirSide, DirTypeOK, DirBookkeeping, DirState
<1>. QED  BY <1>1, <1>2, <1>3, Sides

LEMMA LocalInvStep == LocalInv /\ [Next]_vars => LocalInv'
<1>. SUFFICES ASSUME LocalInv, [Next]_vars PROVE LocalInv'
  OBVIOUS
<1>0. NetTypeOK /\ CacheSide /\ DirSide
  BY Sides
<1>1. ASSUME NEW c \in Cache, CacheStep(c) PROVE LocalInv'
  <2>1. UNCHANGED dirVars
    BY <1>1 DEF CacheStep
  <2>2. NetTypeOK' /\ CacheSide'
    BY <1>0, <1>1, MandatoryPreserves, ReplacementPreserves, ForwardPreserves,
       ResponsePreserves DEF CacheStep, ResponsePort
  <2>. QED  BY <1>0, <2>1, <2>2, CacheStepFrame
<1>2. ASSUME DirStep PROVE LocalInv'
  <2>1. UNCHANGED <<cacheVars, seqVars>>
    BY <1>2 DEF DirStep, DirRequestStep, DirMemoryStep, DirResponseStep
  <2>2. NetTypeOK' /\ DirSide'
    BY <1>0, <1>2, DirRequestPreserves, DirMemoryPreserves, DirResponsePreserves
       DEF DirStep, DirRequestStep, DirMemoryStep, DirResponseStep, DirResponsePort
  <2>. QED  BY <1>0, <2>1, <2>2, DirStepFrame
<1>3. ASSUME UNCHANGED vars PROVE LocalInv'
  BY <1>3 DEF vars, netVars, seqVars, cacheVars, dirVars, LocalInv, TypeOK,
     NetTypeOK, SeqTypeOK, CacheTypeOK, DirTypeOK, StructuresMatch, EvictionTold,
     HeldDataWritten, DirBookkeeping
<1>. QED  BY <1>1, <1>2, <1>3 DEF Next

\* The bookkeeping of the controllers is consistent in every reachable state.
THEOREM LocalInvariance == Spec => []LocalInv
<1>. QED  BY LocalInvInit, LocalInvStep, PTL DEF Spec

\* Every variable keeps its type, and no message ever carries a block that
\* nobody wrote (the DataBlk of a fresh entry or TBE).
THEOREM TypeCorrect == Spec => []TypeOK
<1>1. LocalInv => TypeOK
  BY DEF LocalInv
<1>. QED  BY <1>1, LocalInvariance, PTL

\* Entries and TBEs are allocated exactly when the state of the block needs
\* them: the is_valid assertions of MSI-cache.sm never fail.
THEOREM StructuresAlwaysMatch == Spec => []StructuresMatch
<1>1. LocalInv => StructuresMatch
  BY DEF LocalInv
<1>. QED  BY <1>1, LocalInvariance, PTL

\* A block never leaves a cache without its core being told.
THEOREM EvictionAlwaysTold == Spec => []EvictionTold
<1>1. LocalInv => EvictionTold
  BY DEF LocalInv
<1>. QED  BY <1>1, LocalInvariance, PTL

\* The assertions on Owner and Sharers in the directory's setState never fail.
THEOREM DirAssertsHold == Spec => []DirAsserts
<1>1. LocalInv => DirAsserts
  BY FS_Singleton DEF LocalInv, DirBookkeeping, DirAsserts
<1>. QED  BY <1>1, LocalInvariance, PTL

-----------------------------------------------------------------------------
(* Sequences of no more than two elements. *)

LEMMA ShortSeq ==
  ASSUME NEW S, NEW s \in Seq(S)
  PROVE  /\ s # << >> => Len(s) # 0
         /\ Len(s) = 1 => DOMAIN s = {1} /\ Head(s) = s[1] /\ Tail(s) = << >>
         /\ Len(s) = 2 => /\ DOMAIN s = {1, 2} /\ Head(s) = s[1]
                          /\ Len(Tail(s)) = 1 /\ DOMAIN Tail(s) = {1}
                          /\ Tail(s)[1] = s[2]
<1>0. \A t \in Seq(S) : Len(t) = 1 => DOMAIN t = {1}
  BY LenProperties
<1>1. s # << >> => Len(s) # 0
  BY EmptySeq
<1>2. ASSUME Len(s) = 1
      PROVE  DOMAIN s = {1} /\ Head(s) = s[1] /\ Tail(s) = << >>
  <2>1. s # << >>
    BY <1>2, EmptySeq
  <2>2. DOMAIN s = {1} /\ Head(s) = s[1]
    BY <1>2, <2>1, LenProperties
  <2>3. Tail(s) \in Seq(S) /\ Len(Tail(s)) = 0
    <3>1. PICK n \in Nat : n = Len(s)
      BY <1>2
    <3>2. Tail(s) \in Seq(S) /\ Len(Tail(s)) = n - 1
      BY <2>1, <3>1, HeadTailProperties
    <3>. QED  BY <1>2, <3>1, <3>2
  <2>. QED  BY <2>2, <2>3, EmptySeq
<1>3. ASSUME Len(s) = 2
      PROVE  /\ DOMAIN s = {1, 2} /\ Head(s) = s[1]
             /\ Len(Tail(s)) = 1 /\ DOMAIN Tail(s) = {1}
             /\ Tail(s)[1] = s[2]
  <2>1. s # << >>
    BY <1>3, EmptySeq
  <2>2. DOMAIN s = {1, 2} /\ Head(s) = s[1]
    BY <1>3, <2>1, LenProperties
  <2>3. Tail(s) \in Seq(S)
    BY <2>1, HeadTailProperties
  <2>4. Len(Tail(s)) = 1
    <3>1. PICK n \in Nat : n = Len(s)
      BY <1>3
    <3>2. Len(Tail(s)) = n - 1
      BY <2>1, <3>1, HeadTailProperties
    <3>3. n - 1 = 1
      BY <1>3, <3>1
    <3>. QED  BY <3>2, <3>3, Zenon
  <2>5. DOMAIN Tail(s) = {1}
    BY <1>0, <2>3, <2>4
  <2>6. Tail(s)[1] = s[2]
    <3>1. PICK t : t = Tail(s)
      OBVIOUS
    <3>2. \A i \in 1 .. Len(t) : t[i] = s[i + 1]
      BY <2>1, <3>1, HeadTailProperties
    <3>3. Len(t) = 1
      BY <2>4, <3>1, Zenon
    <3>4. t[1] = s[2]
      BY <3>2, <3>3
    <3>. QED  BY <3>1, <3>4, Zenon
  <2>. QED  BY <2>2, <2>4, <2>5, <2>6
<1>. QED  BY <1>1, <1>2, <1>3

LEMMA ShortAppend ==
  ASSUME NEW S, NEW s \in Seq(S), NEW m \in S
  PROVE  /\ Len(s) = 0 => Append(s, m) = <<m>>
         /\ Len(s) = 1 => /\ Len(Append(s, m)) = 2
                          /\ Append(s, m)[1] = s[1] /\ Append(s, m)[2] = m
<1>1. Len(s) = 0 => Append(s, m) = <<m>>
  BY EmptySeq
<1>2. ASSUME Len(s) = 1
      PROVE  /\ Len(Append(s, m)) = 2
             /\ Append(s, m)[1] = s[1] /\ Append(s, m)[2] = m
  <2>1. PICK n \in Nat : n = Len(s)
    BY <1>2
  <2>2. /\ Len(Append(s, m)) = n + 1
        /\ Append(s, m)[n + 1] = m
        /\ \A i \in 1 .. n : Append(s, m)[i] = s[i]
    BY <2>1, AppendProperties
  <2>. QED  BY <1>2, <2>1, <2>2
<1>. QED  BY <1>1, <1>2

-----------------------------------------------------------------------------
(* The channels as sets of messages. *)

LEMMA AskedHead ==
  ASSUME NetTypeOK, ChannelsShort, NEW c \in Cache
  PROVE  /\ requestNet[c] = << >> <=> Asked(c) = {}
         /\ requestNet[c] # << >> => Asked(c) = {Request(c)}
<1>1. requestNet[c] \in Seq(RequestMsg) /\ Len(requestNet[c]) \in {0, 1}
  BY DEF NetTypeOK, ChannelsShort
<1>2. CASE requestNet[c] = << >>
  BY <1>2 DEF Asked
<1>3. CASE requestNet[c] # << >>
  <2>1. Len(requestNet[c]) = 1
    BY <1>1, <1>3, ShortSeq
  <2>2. DOMAIN requestNet[c] = {1} /\ Head(requestNet[c]) = requestNet[c][1]
    BY <1>1, <2>1, ShortSeq
  <2>. QED  BY <1>3, <2>2 DEF Asked, Request
<1>. QED  BY <1>2, <1>3

LEMMA SendRequestAsked ==
  ASSUME NetTypeOK, ChannelsShort, NEW c \in Cache, Asked(c) = {},
         NEW m \in RequestMsg, SendRequest(c, m)
  PROVE  /\ Asked(c)' = {m}
         /\ \A d \in Cache \ {c} : Asked(d)' = Asked(d)
         /\ \A d \in Cache : Len(requestNet[d])' \in {0, 1}
<1>1. requestNet[c] = << >>
  BY AskedHead
<1>2. requestNet'[c] = <<m>>
  BY <1>1 DEF NetTypeOK, SendRequest
<1>3. \A d \in Cache \ {c} : requestNet'[d] = requestNet[d]
  BY DEF NetTypeOK, SendRequest
<1>4. Asked(c)' = {m}
  BY <1>2 DEF Asked
<1>5. \A d \in Cache \ {c} : Asked(d)' = Asked(d)
  BY <1>3 DEF Asked
<1>6. \A d \in Cache : Len(requestNet[d]) \in {0, 1}
  BY DEF ChannelsShort
<1>7. Len(requestNet'[c]) = 1
  BY <1>2
<1>. QED  BY <1>3, <1>4, <1>5, <1>6, <1>7

LEMMA PopRequestAsked ==
  ASSUME NetTypeOK, ChannelsShort, NEW c \in Cache, requestNet[c] # << >>,
         PopRequest(c)
  PROVE  /\ Asked(c) = {Request(c)}
         /\ Asked(c)' = {}
         /\ \A d \in Cache \ {c} : Asked(d)' = Asked(d)
         /\ \A d \in Cache : Len(requestNet[d])' \in {0, 1}
<1>1. requestNet[c] \in Seq(RequestMsg) /\ Len(requestNet[c]) = 1
  BY ShortSeq DEF NetTypeOK, ChannelsShort
<1>2. requestNet'[c] = << >>
  BY <1>1, ShortSeq DEF NetTypeOK, PopRequest
<1>3. \A d \in Cache \ {c} : requestNet'[d] = requestNet[d]
  BY DEF NetTypeOK, PopRequest
<1>4. Asked(c)' = {}
  BY <1>2 DEF Asked
<1>5. \A d \in Cache \ {c} : Asked(d)' = Asked(d)
  BY <1>3 DEF Asked
<1>. QED  BY <1>2, <1>3, <1>4, <1>5, AskedHead DEF ChannelsShort

LEMMA InboxHead ==
  ASSUME NetTypeOK, ChannelsShort, NEW c \in Cache
  PROVE  /\ Inbox(c) \subseteq ForwardMsg
         /\ forwardNet[c] = << >> <=> Inbox(c) = {}
         /\ forwardNet[c] # << >> => Head(forwardNet[c]) \in Inbox(c)
<1>1. forwardNet[c] \in Seq(ForwardMsg) /\ Len(forwardNet[c]) \in {0, 1, 2}
  BY DEF NetTypeOK, ChannelsShort
<1>2. Inbox(c) \subseteq ForwardMsg
  BY <1>1 DEF Inbox
<1>3. forwardNet[c] = << >> => Inbox(c) = {}
  BY DEF Inbox
<1>4. ASSUME forwardNet[c] # << >> PROVE Head(forwardNet[c]) \in Inbox(c)
  <2>1. 1 \in DOMAIN forwardNet[c] /\ Head(forwardNet[c]) = forwardNet[c][1]
    BY <1>1, <1>4, ShortSeq
  <2>. QED  BY <2>1 DEF Inbox
<1>. QED  BY <1>2, <1>3, <1>4

\* What follows what in a channel to a cache.
ForwardOrder(c) ==
  /\ Len(forwardNet[c]) \in {0, 1, 2}
  /\ Len(forwardNet[c]) = 2 =>
       \/ /\ forwardNet[c][1].Type = "INV"
          /\ forwardNet[c][2].Type \in {"GETS", "GETM", "WB_ACK"}
       \/ /\ forwardNet[c][1].Type \in {"GETS", "GETM"}
          /\ forwardNet[c][2].Type = "WB_ACK"

LEMMA PopForwardInbox ==
  ASSUME NetTypeOK, ChannelsShort, NEW c \in Cache, forwardNet[c] # << >>,
         PopForward(c)
  PROVE  /\ Inbox(c)' = Inbox(c) \ {Head(forwardNet[c])}
         /\ \A f \in Inbox(c)' : f.Type # Head(forwardNet[c]).Type
         /\ Head(forwardNet[c]).Type \in {"GETS", "GETM"}
              => \A f \in Inbox(c)' : f.Type = "WB_ACK"
         /\ Head(forwardNet[c]).Type = "WB_ACK" => Inbox(c)' = {}
         /\ \A d \in Cache \ {c} : Inbox(d)' = Inbox(d)
         /\ \A d \in Cache : ForwardOrder(d)'
<1>1. forwardNet[c] \in Seq(ForwardMsg)
  BY DEF NetTypeOK
<1>2. forwardNet'[c] = Tail(forwardNet[c])
  BY DEF NetTypeOK, PopForward
<1>3. \A d \in Cache \ {c} : Inbox(d)' = Inbox(d) /\ ForwardOrder(d)'
  BY DEF NetTypeOK, PopForward, Inbox, ForwardOrder, ChannelsShort
<1>4. CASE Len(forwardNet[c]) = 1
  <2>1. /\ DOMAIN forwardNet[c] = {1} /\ Head(forwardNet[c]) = forwardNet[c][1]
        /\ Tail(forwardNet[c]) = << >>
    BY <1>1, <1>4, ShortSeq
  <2>2. Inbox(c) = {Head(forwardNet[c])} /\ Inbox(c)' = {}
    BY <1>2, <2>1 DEF Inbox
  <2>3. Len(forwardNet[c])' = 0
    <3>1. Len(<< >>) = 0
      OBVIOUS
    <3>. QED  BY <1>2, <2>1, <3>1, Zenon
  <2>4. ForwardOrder(c)'
    BY <2>3 DEF ForwardOrder
  <2>. QED  BY <1>3, <2>2, <2>4
<1>5. CASE Len(forwardNet[c]) = 2
  <2>1. /\ DOMAIN forwardNet[c] = {1, 2}
        /\ Head(forwardNet[c]) = forwardNet[c][1]
        /\ DOMAIN Tail(forwardNet[c]) = {1}
        /\ Tail(forwardNet[c])[1] = forwardNet[c][2]
        /\ Len(Tail(forwardNet[c])) = 1
    BY <1>1, <1>5, ShortSeq
  <2>2. /\ Inbox(c) = {forwardNet[c][1], forwardNet[c][2]}
        /\ Inbox(c)' = {forwardNet[c][2]}
    BY <1>2, <2>1 DEF Inbox
  <2>3. /\ forwardNet[c][1].Type # forwardNet[c][2].Type
        /\ forwardNet[c][1].Type # "WB_ACK"
        /\ forwardNet[c][1].Type \in {"GETS", "GETM"}
             => forwardNet[c][2].Type = "WB_ACK"
    BY <1>5 DEF ChannelsShort
  <2>4. ForwardOrder(c)'
    <3>1. forwardNet'[c] = Tail(forwardNet[c])
      BY <1>2
    <3>2. Len(forwardNet'[c]) = 1
      BY <2>1, <3>1, Zenon
    <3>. QED  BY <3>2 DEF ForwardOrder
  <2>. QED  BY <1>3, <2>1, <2>2, <2>3, <2>4
<1>6. Len(forwardNet[c]) \in {1, 2}
  BY <1>1, ShortSeq DEF ChannelsShort
<1>. QED  BY <1>4, <1>5, <1>6

\* Sending keeps the order if the message may follow what the channel holds.
LEMMA SendForwardInbox ==
  ASSUME NetTypeOK, ChannelsShort, NEW dests, NEW m \in ForwardMsg,
         SendForward(dests, m),
         \A d \in Cache \cap dests :
           /\ ~ Forwarded(d, {"WB_ACK"})
           /\ m.Type = "INV" => Inbox(d) = {}
           /\ m.Type \in {"GETS", "GETM"} => ~ Forwarded(d, {"GETS", "GETM"})
           /\ m.Type = "WB_ACK" =>
                ~ (Forwarded(d, {"INV"}) /\ Forwarded(d, {"GETS", "GETM"}))
  PROVE  \A d \in Cache :
           /\ Inbox(d)' = IF d \in dests THEN Inbox(d) \cup {m} ELSE Inbox(d)
           /\ ForwardOrder(d)'
<1>. SUFFICES ASSUME NEW d \in Cache
              PROVE  /\ Inbox(d)' = IF d \in dests THEN Inbox(d) \cup {m}
                                                   ELSE Inbox(d)
                     /\ ForwardOrder(d)'
  OBVIOUS
<1>1. forwardNet[d] \in Seq(ForwardMsg) /\ ForwardOrder(d)
  BY DEF NetTypeOK, ChannelsShort, ForwardOrder
<1>2. CASE d \in dests
  <2>1. forwardNet'[d] = Append(forwardNet[d], m)
    BY <1>2 DEF SendForward
  <2>2. CASE Len(forwardNet[d]) = 0
    <3>1. forwardNet'[d] = <<m>> /\ forwardNet[d] = << >>
      BY <1>1, <2>1, <2>2, ShortAppend, EmptySeq
    <3>. QED  BY <1>2, <3>1 DEF Inbox, ForwardOrder
  <2>3. CASE Len(forwardNet[d]) = 1
    <3>1. /\ DOMAIN forwardNet[d] = {1}
          /\ Len(forwardNet'[d]) = 2
          /\ forwardNet'[d][1] = forwardNet[d][1] /\ forwardNet'[d][2] = m
      BY <1>1, <2>1, <2>3, ShortSeq, ShortAppend
    <3>2. forwardNet'[d] \in Seq(ForwardMsg)
      BY <1>1, <2>1, AppendProperties
    <3>3. DOMAIN forwardNet'[d] = {1, 2}
      BY <3>1, <3>2, ShortSeq
    <3>4. Inbox(d) = {forwardNet[d][1]} /\ Inbox(d)' = {forwardNet[d][1], m}
      BY <3>1, <3>3 DEF Inbox
    <3>5. forwardNet[d][1].Type # "WB_ACK" /\ m.Type # "INV"
      BY <1>2, <3>4 DEF Forwarded
    <3>6. m.Type \in {"GETS", "GETM"} => forwardNet[d][1].Type \notin {"GETS", "GETM"}
      BY <1>2, <3>4 DEF Forwarded
    <3>7. /\ forwardNet[d][1].Type \in {"GETS", "GETM", "INV", "WB_ACK"}
          /\ m.Type \in {"GETS", "GETM", "INV", "WB_ACK"}
      BY <1>1, <3>4, InboxHead DEF ForwardMsg
    <3>8. ForwardOrder(d)'
      BY <3>1, <3>5, <3>6, <3>7 DEF ForwardOrder
    <3>. QED  BY <1>2, <3>4, <3>8
  <2>4. CASE Len(forwardNet[d]) = 2
    <3>1. DOMAIN forwardNet[d] = {1, 2}
      BY <1>1, <2>4, ShortSeq
    <3>2. forwardNet[d][1] \in Inbox(d) /\ forwardNet[d][2] \in Inbox(d)
      BY <3>1 DEF Inbox
    <3>3. /\ forwardNet[d][1].Type = "INV"
          /\ forwardNet[d][2].Type \in {"GETS", "GETM"}
      BY <1>1, <1>2, <2>4, <3>2 DEF ForwardOrder, Forwarded
    <3>. QED  BY <1>2, <3>2, <3>3 DEF Forwarded, ForwardMsg
  <2>. QED  BY <1>1, <2>2, <2>3, <2>4 DEF ForwardOrder
<1>3. CASE d \notin dests
  BY <1>1, <1>3 DEF SendForward, Inbox, ForwardOrder
<1>. QED  BY <1>2, <1>3

-----------------------------------------------------------------------------
(* Which facts about the rest of the system a state or a message implies. *)

LEMMA OwesInbox ==
  ASSUME NEW c \in Cache
  PROVE  /\ OwesAck(c) =
              {d \in Cache : Inv(c) \in Inbox(d) \/ InvAck(d, c) \in responseNet}
         /\ OwesAck(c)' =
              {d \in Cache : Inv(c) \in Inbox(d)' \/ InvAck(d, c) \in responseNet'}
BY DEF OwesAck, Inbox, Inv, InvAck

\* A cache in a stable state waits for nothing.
LEMMA IdleCache ==
  ASSUME NetTypeOK, Expected, NEW c \in Cache, CacheState[c] \in {"I", "S", "M"}
  PROVE  /\ Asked(c) = {}
         /\ ~ FromMemory(c) /\ ~ FromOwner(c) /\ ~ DataComing(c)
         /\ OwesAck(c) = {}
<1>1. Asked(c) \subseteq RequestMsg
  BY DEF Asked, NetTypeOK
<1>2. Asked(c) = {}
  BY <1>1 DEF Expected, RequestsExpected, RequestMsg
<1>3. ~ FromMemory(c) /\ ~ FromOwner(c) /\ ~ DataComing(c)
  BY DEF Expected, OneSource
<1>4. OwesAck(c) = {}
  BY DEF Expected, AcksExpected, AwaitsAcks
<1>. QED  BY <1>2, <1>3, <1>4

LEMMA OwesFinite ==
  ASSUME NEW c
  PROVE  IsFiniteSet(OwesAck(c)) /\ Cardinality(OwesAck(c)) \in Nat
<1>1. IsFiniteSet(OwesAck(c))
  BY CacheAssumption, FS_Subset DEF OwesAck
<1>. QED  BY <1>1, FS_CardinalityType

\* Only data are sent to the directory, and only data of an owner.
LEMMA ResponseDir ==
  ASSUME NetTypeOK, NEW m \in responseNet
  PROVE  /\ m.Destination = Dir <=> m.Type = "DATA"
         /\ m.Destination # Dir => m.Destination \in Cache
         /\ m.Type = "DATA" => m.Sender \in Cache
BY CacheAssumption DEF NetTypeOK, ResponseMsg

\* The store for which a cache is told to invalidate its copy is not done.
LEMMA InvWaits ==
  ASSUME NetTypeOK, Expected, NEW d \in Cache, Forwarded(d, {"INV"})
  PROVE  \E r \in Cache : d \in OwesAck(r) /\ AwaitsAcks(r) /\ Exclusive(r)
<1>1. PICK f \in Inbox(d) : f.Type = "INV"
  BY DEF Forwarded
<1>2. f.Requestor \in Cache /\ f = Inv(f.Requestor)
  BY <1>1, InboxHead DEF Expected, ForwardMsg, Inv
<1>3. d \in OwesAck(f.Requestor)
  BY <1>1, <1>2, OwesInbox
<1>4. AwaitsAcks(f.Requestor)
  BY <1>2, <1>3 DEF Expected, AcksExpected
<1>5. Exclusive(f.Requestor)
  BY <1>4 DEF AwaitsAcks, Exclusive, DataComing
<1>. QED  BY <1>2, <1>3, <1>4, <1>5

-----------------------------------------------------------------------------
(* Expected under the transitions of a cache.  Transitions that differ only   *)
(* in the states they lead from and to, and in what happens to the data, are  *)
(* taken together.                                                            *)

\* A cache that waits for nothing sends a request.
LEMMA AskKeeps ==
  ASSUME NetTypeOK, DirTypeOK, CacheTypeOK, Expected,
         NEW c \in Cache, NEW q \in RequestMsg, NEW s \in L1State,
         \/ CacheState[c] = "I" /\ q.Type = "GETS" /\ s = "IS_D"
         \/ CacheState[c] = "I" /\ q.Type = "GETM" /\ s = "IM_AD"
         \/ CacheState[c] = "S" /\ q.Type = "GETM" /\ s = "SM_AD"
         \/ CacheState[c] = "S" /\ q.Type = "PUTS" /\ s = "SI_A"
         \/ CacheState[c] = "M" /\ q.Type = "PUTM" /\ s = "MI_A",
         setState(c, s), SendRequest(c, q),
         pendingAcks' = [pendingAcks EXCEPT ![c] = 0],
         UNCHANGED <<forwardNet, responseNet, dirVars>>
  PROVE  Expected'
<1>1. /\ Asked(c) = {} /\ ~ FromMemory(c) /\ ~ FromOwner(c) /\ ~ DataComing(c)
      /\ OwesAck(c) = {}
  BY IdleCache
<1>2. /\ ChannelsShort /\ RequestsExpected /\ ForwardsExpected /\ OneSource
      /\ ResponsesExpected /\ MemoryExpected /\ AcksExpected /\ AckAccounting
      /\ OneHolder /\ OwnerExpected /\ SharersExpected /\ ReadersKnown
  BY DEF Expected
<1>3. /\ Asked(c)' = {q}
      /\ \A d \in Cache \ {c} : Asked(d)' = Asked(d)
      /\ \A d \in Cache : Len(requestNet[d])' \in {0, 1}
  BY <1>1, <1>2, SendRequestAsked
<1>4. /\ \A d \in Cache : Inbox(d)' = Inbox(d)
      /\ responseNet' = responseNet
      /\ AtMemory' = AtMemory
      /\ \A d \in Cache : OwesAck(d)' = OwesAck(d)
      /\ UNCHANGED <<DirectoryState, Sharers, Owner>>
      /\ Sharers \subseteq Cache /\ Owner \subseteq Cache
  BY DEF Inbox, AtMemory, dirVars, OwesAck, DirTypeOK
<1>5. /\ CacheState' \in [Cache -> L1State] /\ CacheState'[c] = s
      /\ \A d \in Cache \ {c} : CacheState'[d] = CacheState[d]
  BY DEF setState, CacheTypeOK
<1>6. /\ pendingAcks'[c] = 0
      /\ \A d \in Cache \ {c} : pendingAcks'[d] = pendingAcks[d]
  BY DEF CacheTypeOK
<1>7. ChannelsShort'
  BY <1>2, <1>3 DEF ChannelsShort, dirVars
<1>8. RequestsExpected'
  BY <1>1, <1>2, <1>3, <1>4, <1>5, <1>6 DEF RequestsExpected
<1>9. ForwardsExpected'
  BY <1>1, <1>2, <1>3, <1>4, <1>5, <1>6
     DEF ForwardsExpected, Forwarded, StoreMissState
<1>10. OneSource'
  BY <1>1, <1>2, <1>3, <1>4, <1>5, <1>6
     DEF OneSource, FromOwner, FromMemory, DataComing
<1>11. ResponsesExpected'
  BY <1>1, <1>2, <1>3, <1>4, <1>5, <1>6
     DEF ResponsesExpected, OneSource, DataComing
<1>12. MemoryExpected'
  BY <1>1, <1>2, <1>3, <1>4, <1>5, <1>6 DEF MemoryExpected
<1>13. AcksExpected'
  BY <1>1, <1>2, <1>3, <1>4, <1>5, <1>6
     DEF AcksExpected, AwaitsAcks, DataComing
<1>14. AckAccounting'
  BY <1>1, <1>2, <1>3, <1>4, <1>5, <1>6 DEF AckAccounting, DataComing
<1>15. OneHolder'
  BY <1>1, <1>2, <1>3, <1>4, <1>5, <1>6
     DEF OneHolder, Exclusive, AtDirectory, DataComing, Forwarded
<1>16. OwnerExpected'
  BY <1>1, <1>2, <1>3, <1>4, <1>5, <1>6
     DEF OwnerExpected, Forwarded, StoreMissState
<1>17. SharersExpected'
  BY <1>1, <1>2, <1>3, <1>4, <1>5, <1>6 DEF SharersExpected, Forwarded
<1>18. ReadersKnown'
  BY <1>1, <1>2, <1>3, <1>4, <1>5, <1>6
     DEF ReadersKnown, Reader, Exclusive, AtDirectory, DataComing, Forwarded
<1>. QED
  BY <1>7, <1>8, <1>9, <1>10, <1>11, <1>12,
     <1>13, <1>14, <1>15, <1>16, <1>17, <1>18 DEF Expected

\* A cache acknowledges an invalidation.
LEMMA InvAckKeeps ==
  ASSUME NetTypeOK, DirTypeOK, CacheTypeOK, Expected,
         NEW c \in Cache, NEW f, NEW s \in L1State,
         forwardNet[c] # << >>, f = Head(forwardNet[c]), f.Type = "INV",
         \/ CacheState[c] = "S" /\ s = "I"
         \/ CacheState[c] = "SM_AD" /\ s = "IM_AD"
         \/ CacheState[c] = "SI_A" /\ s = "II_A",
         setState(c, s), PopForward(c), SendResponse({InvAck(c, f.Requestor)}),
         UNCHANGED <<requestNet, pendingAcks, dirVars>>
  PROVE  Expected'
<1>1. /\ Inbox(c)' = Inbox(c) \ {f}
      /\ \A g \in Inbox(c)' : g.Type # f.Type
      /\ f.Type \in {"GETS", "GETM"} => \A g \in Inbox(c)' : g.Type = "WB_ACK"
      /\ f.Type = "WB_ACK" => Inbox(c)' = {}
      /\ \A d \in Cache \ {c} : Inbox(d)' = Inbox(d)
      /\ \A d \in Cache : ForwardOrder(d)'
  BY PopForwardInbox DEF Expected
<1>2. /\ ChannelsShort /\ RequestsExpected /\ ForwardsExpected /\ OneSource
      /\ ResponsesExpected /\ MemoryExpected /\ AcksExpected /\ AckAccounting
      /\ OneHolder /\ OwnerExpected /\ SharersExpected /\ ReadersKnown
  BY DEF Expected
<1>3. /\ f \in Inbox(c) /\ f \in ForwardMsg /\ Inbox(c) \subseteq ForwardMsg
      /\ f.Type # "WB_ACK" => f.Requestor \in Cache
  BY <1>2, InboxHead DEF ForwardMsg
<1>4. /\ \A d \in Cache : Asked(d)' = Asked(d)
      /\ \A d \in Cache : Asked(d) \subseteq RequestMsg
      /\ AtMemory' = AtMemory
      /\ UNCHANGED <<DirectoryState, Sharers, Owner>>
      /\ Sharers \subseteq Cache /\ Owner \subseteq Cache
  BY DEF Asked, AtMemory, dirVars, DirTypeOK, NetTypeOK
<1>5. /\ CacheState' \in [Cache -> L1State] /\ CacheState'[c] = s
      /\ \A d \in Cache \ {c} : CacheState'[d] = CacheState[d]
  BY DEF setState, CacheTypeOK
<1>6. /\ f = Inv(f.Requestor)
      /\ responseNet' = responseNet \cup {InvAck(c, f.Requestor)}
      /\ pendingAcks' = pendingAcks
      /\ InvAck(c, f.Requestor).Type = "ACK"
      /\ InvAck(c, f.Requestor).AckCount = 1
      /\ InvAck(c, f.Requestor).Destination = f.Requestor
  BY <1>3 DEF ForwardMsg, Inv, SendResponse, InvAck
<1>7. \A d \in Cache : OwesAck(d)' = OwesAck(d)
  <2>. SUFFICES ASSUME NEW d \in Cache PROVE OwesAck(d)' = OwesAck(d)
    OBVIOUS
  <2>1. \A e \in Cache : InvAck(e, d) = InvAck(c, f.Requestor)
                           => e = c /\ d = f.Requestor
    BY DEF InvAck
  <2>2. Inv(d) = f => d = f.Requestor
    BY DEF Inv
  <2>3. \A e \in Cache : (Inv(d) \in Inbox(e)' \/ InvAck(e, d) \in responseNet')
                     <=> (Inv(d) \in Inbox(e) \/ InvAck(e, d) \in responseNet)
    BY <1>1, <1>3, <1>6, <2>1, <2>2
  <2>. QED  BY <2>3, OwesInbox
<1>8. \A n : DataComing(n)' <=> DataComing(n)
  BY <1>6 DEF DataComing
<1>9. \A d \in Cache : FromOwner(d)' <=> FromOwner(d)
  BY <1>1, <1>6 DEF FromOwner
<1>10. ChannelsShort'
  BY <1>1, <1>2 DEF ChannelsShort, ForwardOrder, dirVars
<1>11. RequestsExpected'
  BY <1>1, <1>2, <1>3, <1>4, <1>5, <1>6 DEF RequestsExpected
<1>12. ForwardsExpected'
  BY <1>1, <1>2, <1>3, <1>4, <1>5, <1>6
     DEF ForwardsExpected, Forwarded, StoreMissState
<1>13. OneSource'
  BY <1>1, <1>2, <1>3, <1>4, <1>5, <1>6, <1>8, <1>9 DEF OneSource, FromMemory
<1>14. ResponsesExpected'
  BY <1>1, <1>2, <1>3, <1>4, <1>5, <1>6
     DEF ResponsesExpected, OneSource, DataComing
<1>15. MemoryExpected'
  <2>1. \A d \in Cache : Inbox(d) = {} =>
          Inbox(d)' = {} /\ CacheState'[d] = CacheState[d] /\ Asked(d)' = Asked(d)
    BY <1>1, <1>3, <1>4, <1>5
  <2>2. AtMemory' = AtMemory /\ DirectoryState' = DirectoryState /\ Owner' = Owner
    BY <1>4
  <2>3. MemoryExpected
    BY <1>2
  <2>. QED  BY <2>1, <2>2, <2>3 DEF MemoryExpected
<1>16. AcksExpected'
  BY <1>1, <1>2, <1>3, <1>4, <1>5, <1>6, <1>7
     DEF AcksExpected, AwaitsAcks, DataComing, InvAck, Inv
<1>17. AckAccounting'
  BY <1>1, <1>2, <1>3, <1>4, <1>5, <1>6, <1>7 DEF AckAccounting, DataComing
<1>18. OneHolder'
  BY <1>1, <1>2, <1>3, <1>4, <1>5, <1>6, <1>8, CacheAssumption
     DEF OneHolder, Exclusive, AtDirectory, Forwarded
<1>19. OwnerExpected'
  BY <1>1, <1>2, <1>3, <1>4, <1>5, <1>6
     DEF OwnerExpected, Forwarded, StoreMissState
<1>20. SharersExpected'
  BY <1>1, <1>2, <1>3, <1>4, <1>5, <1>6 DEF SharersExpected, Forwarded
<1>21. ReadersKnown'
  BY <1>1, <1>2, <1>3, <1>4, <1>5, <1>6, <1>8
     DEF ReadersKnown, Reader, Exclusive, AtDirectory, Forwarded
<1>. QED
  BY <1>10, <1>11, <1>12, <1>13, <1>14, <1>15,
     <1>16, <1>17, <1>18, <1>19, <1>20, <1>21 DEF Expected

\* The owner sends the block to the cache that wants to read it, and back to the
\* directory.
LEMMA FwdGetSKeeps ==
  ASSUME NetTypeOK, DirTypeOK, CacheTypeOK, Expected,
         NEW c \in Cache, NEW f, NEW s \in L1State, NEW b,
         forwardNet[c] # << >>, f = Head(forwardNet[c]), f.Type = "GETS",
         \/ CacheState[c] = "M" /\ s = "S"
         \/ CacheState[c] = "MI_A" /\ s = "SI_A",
         setState(c, s), PopForward(c),
         SendResponse({DataFromOwner(c, f.Requestor, b), DataToDir(c, b)}),
         UNCHANGED <<requestNet, pendingAcks, dirVars>>
  PROVE  Expected'
<1>1. /\ Inbox(c)' = Inbox(c) \ {f}
      /\ \A g \in Inbox(c)' : g.Type # f.Type
      /\ f.Type \in {"GETS", "GETM"} => \A g \in Inbox(c)' : g.Type = "WB_ACK"
      /\ f.Type = "WB_ACK" => Inbox(c)' = {}
      /\ \A d \in Cache \ {c} : Inbox(d)' = Inbox(d)
      /\ \A d \in Cache : ForwardOrder(d)'
  BY PopForwardInbox DEF Expected
<1>2. /\ ChannelsShort /\ RequestsExpected /\ ForwardsExpected /\ OneSource
      /\ ResponsesExpected /\ MemoryExpected /\ AcksExpected /\ AckAccounting
      /\ OneHolder /\ OwnerExpected /\ SharersExpected /\ ReadersKnown
  BY DEF Expected
<1>3. /\ f \in Inbox(c) /\ f \in ForwardMsg /\ Inbox(c) \subseteq ForwardMsg
      /\ f.Type # "WB_ACK" => f.Requestor \in Cache
  BY <1>2, InboxHead DEF ForwardMsg
<1>4. /\ \A d \in Cache : Asked(d)' = Asked(d)
      /\ \A d \in Cache : Asked(d) \subseteq RequestMsg
      /\ AtMemory' = AtMemory
      /\ UNCHANGED <<DirectoryState, Sharers, Owner>>
      /\ Sharers \subseteq Cache /\ Owner \subseteq Cache
  BY DEF Asked, AtMemory, dirVars, DirTypeOK, NetTypeOK
<1>5. /\ CacheState' \in [Cache -> L1State] /\ CacheState'[c] = s
      /\ \A d \in Cache \ {c} : CacheState'[d] = CacheState[d]
  BY DEF setState, CacheTypeOK
<1>6. /\ responseNet' = responseNet \cup
             {DataFromOwner(c, f.Requestor, b), DataToDir(c, b)}
      /\ pendingAcks' = pendingAcks
      /\ DataFromOwner(c, f.Requestor, b).Type = "DATA_FROM_OWNER"
      /\ DataFromOwner(c, f.Requestor, b).AckCount = 0
      /\ DataFromOwner(c, f.Requestor, b).Destination = f.Requestor
      /\ DataToDir(c, b).Type = "DATA"
      /\ DataToDir(c, b).Destination = Dir
      /\ Dir \notin Cache
  BY CacheAssumption DEF SendResponse, DataFromOwner, DataToDir
<1>7. \A d \in Cache : OwesAck(d)' = OwesAck(d)
  <2>. SUFFICES ASSUME NEW d \in Cache PROVE OwesAck(d)' = OwesAck(d)
    OBVIOUS
  <2>1. Inv(d).Type = "INV" /\ \A e \in Cache : InvAck(e, d).Type = "ACK"
    BY DEF Inv, InvAck
  <2>2. \A e \in Cache : (Inv(d) \in Inbox(e)' \/ InvAck(e, d) \in responseNet')
                     <=> (Inv(d) \in Inbox(e) \/ InvAck(e, d) \in responseNet)
    BY <1>1, <1>3, <1>6, <2>1
  <2>. QED  BY <2>2, OwesInbox
<1>8. /\ \A d \in Cache : DataComing(d)' <=> DataComing(d) \/ d = f.Requestor
      /\ DataComing(Dir)'
  BY <1>6 DEF DataComing
<1>9. /\ FromOwner(f.Requestor)
      /\ \A d \in Cache : FromOwner(d)' <=> FromOwner(d) /\ d # f.Requestor
  BY <1>1, <1>2, <1>3 DEF FromOwner, OneSource
<1>10. /\ CacheState[f.Requestor] = "IS_D" /\ f.Requestor \in Sharers
       /\ f.Requestor # c /\ (CacheState[c] = "M" => c \in Sharers)
       /\ DirectoryState = "M_SD" /\ ~ DataComing(Dir)
       /\ \A d \in Cache : Exclusive(d) <=> d = c
       /\ \A d \in Cache : Forwarded(d, {"GETS"}) => d = c
  BY <1>2, <1>3 DEF ForwardsExpected, OneHolder, Forwarded, Exclusive
<1>11. AtDirectory' /\ \A d \in Cache : ~ Exclusive(d)'
  <2>1. AtDirectory'
    BY <1>8 DEF AtDirectory
  <2>2. ~ Exclusive(c)'
    BY <1>5 DEF Exclusive
  <2>3. ASSUME NEW d \in Cache \ {c} PROVE ~ Exclusive(d)'
    <3>1. ~ Exclusive(d)
      BY <1>10
    <3>2. CASE d = f.Requestor
      BY <1>5, <1>10, <3>2 DEF Exclusive
    <3>3. CASE d # f.Requestor
      BY <1>1, <1>4, <1>5, <1>8, <3>1, <3>3 DEF Exclusive, Forwarded
    <3>. QED  BY <3>2, <3>3
  <2>. QED  BY <2>1, <2>2, <2>3
<1>12. /\ \A d \in Cache : ~ Forwarded(d, {"GETS"})'
       /\ \A d \in Cache : Forwarded(d, {"INV"})' <=> Forwarded(d, {"INV"})
  BY <1>1, <1>3, <1>10 DEF Forwarded
<1>13. \A m, n \in responseNet' : m.Destination = Dir /\ n.Destination = Dir => m = n
  BY <1>3, <1>6, <1>10, ResponseDir DEF DataComing
<1>14. ChannelsShort'
  BY <1>1, <1>2 DEF ChannelsShort, ForwardOrder, dirVars
<1>15. RequestsExpected'
  BY <1>1, <1>2, <1>3, <1>4, <1>5, <1>6 DEF RequestsExpected
<1>16. ForwardsExpected'
  BY <1>1, <1>2, <1>3, <1>4, <1>5, <1>6
     DEF ForwardsExpected, Forwarded, StoreMissState
<1>17. OneSource'
  BY <1>1, <1>2, <1>3, <1>4, <1>5, <1>6, <1>8, <1>9, <1>10
     DEF OneSource, FromMemory, DataComing
<1>18. ResponsesExpected'
  BY <1>1, <1>2, <1>3, <1>4, <1>5, <1>6, <1>10
     DEF ResponsesExpected, OneSource, DataComing
<1>19. MemoryExpected'
  <2>1. \A d \in Cache : Inbox(d) = {} =>
          Inbox(d)' = {} /\ CacheState'[d] = CacheState[d] /\ Asked(d)' = Asked(d)
    BY <1>1, <1>3, <1>4, <1>5
  <2>2. AtMemory' = AtMemory /\ DirectoryState' = DirectoryState /\ Owner' = Owner
    BY <1>4
  <2>3. MemoryExpected
    BY <1>2
  <2>. QED  BY <2>1, <2>2, <2>3 DEF MemoryExpected
<1>20. AcksExpected'
  BY <1>1, <1>2, <1>3, <1>4, <1>5, <1>6, <1>7
     DEF AcksExpected, AwaitsAcks, DataComing, InvAck, Inv
<1>21. AckAccounting'
  BY <1>1, <1>2, <1>3, <1>4, <1>5, <1>6, <1>7 DEF AckAccounting, DataComing
<1>22. OneHolder'
  BY <1>4, <1>10, <1>11, <1>12, <1>13 DEF OneHolder, DataComing
<1>23. OwnerExpected'
  BY <1>1, <1>2, <1>3, <1>4, <1>5, <1>6
     DEF OwnerExpected, Forwarded, StoreMissState
<1>24. SharersExpected'
  BY <1>1, <1>2, <1>3, <1>4, <1>5, <1>6, <1>10 DEF SharersExpected, Forwarded
<1>25. ReadersKnown'
  BY <1>2, <1>3, <1>4, <1>5, <1>8, <1>10, <1>11, <1>12
     DEF ReadersKnown, Reader
<1>. QED
  BY <1>13, <1>14, <1>15, <1>16, <1>17, <1>18, <1>19,
     <1>20, <1>21, <1>22, <1>23, <1>24, <1>25 DEF Expected

\* The owner hands the block on to the next one.
LEMMA FwdGetMKeeps ==
  ASSUME NetTypeOK, DirTypeOK, CacheTypeOK, Expected,
         NEW c \in Cache, NEW f, NEW s \in L1State, NEW b,
         forwardNet[c] # << >>, f = Head(forwardNet[c]), f.Type = "GETM",
         \/ CacheState[c] = "M" /\ s = "I"
         \/ CacheState[c] = "MI_A" /\ s = "II_A",
         setState(c, s), PopForward(c),
         SendResponse({DataFromOwner(c, f.Requestor, b)}),
         UNCHANGED <<requestNet, pendingAcks, dirVars>>
  PROVE  /\ Expected'
         /\ CacheState[f.Requestor] = "IM_AD"
<1>1. /\ Inbox(c)' = Inbox(c) \ {f}
      /\ \A g \in Inbox(c)' : g.Type # f.Type
      /\ f.Type \in {"GETS", "GETM"} => \A g \in Inbox(c)' : g.Type = "WB_ACK"
      /\ f.Type = "WB_ACK" => Inbox(c)' = {}
      /\ \A d \in Cache \ {c} : Inbox(d)' = Inbox(d)
      /\ \A d \in Cache : ForwardOrder(d)'
  BY PopForwardInbox DEF Expected
<1>2. /\ ChannelsShort /\ RequestsExpected /\ ForwardsExpected /\ OneSource
      /\ ResponsesExpected /\ MemoryExpected /\ AcksExpected /\ AckAccounting
      /\ OneHolder /\ OwnerExpected /\ SharersExpected /\ ReadersKnown
  BY DEF Expected
<1>3. /\ f \in Inbox(c) /\ f \in ForwardMsg /\ Inbox(c) \subseteq ForwardMsg
      /\ f.Type # "WB_ACK" => f.Requestor \in Cache
  BY <1>2, InboxHead DEF ForwardMsg
<1>4. /\ \A d \in Cache : Asked(d)' = Asked(d)
      /\ \A d \in Cache : Asked(d) \subseteq RequestMsg
      /\ AtMemory' = AtMemory
      /\ UNCHANGED <<DirectoryState, Sharers, Owner>>
      /\ Sharers \subseteq Cache /\ Owner \subseteq Cache
  BY DEF Asked, AtMemory, dirVars, DirTypeOK, NetTypeOK
<1>5. /\ CacheState' \in [Cache -> L1State] /\ CacheState'[c] = s
      /\ \A d \in Cache \ {c} : CacheState'[d] = CacheState[d]
  BY DEF setState, CacheTypeOK
<1>6. /\ responseNet' = responseNet \cup {DataFromOwner(c, f.Requestor, b)}
      /\ pendingAcks' = pendingAcks
      /\ DataFromOwner(c, f.Requestor, b).Type = "DATA_FROM_OWNER"
      /\ DataFromOwner(c, f.Requestor, b).AckCount = 0
      /\ DataFromOwner(c, f.Requestor, b).Destination = f.Requestor
      /\ f.Requestor # Dir
  BY <1>3, CacheAssumption DEF SendResponse, DataFromOwner
<1>7. \A d \in Cache : OwesAck(d)' = OwesAck(d)
  <2>. SUFFICES ASSUME NEW d \in Cache PROVE OwesAck(d)' = OwesAck(d)
    OBVIOUS
  <2>1. Inv(d).Type = "INV" /\ \A e \in Cache : InvAck(e, d).Type = "ACK"
    BY DEF Inv, InvAck
  <2>2. \A e \in Cache : (Inv(d) \in Inbox(e)' \/ InvAck(e, d) \in responseNet')
                     <=> (Inv(d) \in Inbox(e) \/ InvAck(e, d) \in responseNet)
    BY <1>1, <1>3, <1>6, <2>1
  <2>. QED  BY <2>2, OwesInbox
<1>8. /\ \A d \in Cache : DataComing(d)' <=> DataComing(d) \/ d = f.Requestor
      /\ DataComing(Dir)' <=> DataComing(Dir)
  BY <1>6 DEF DataComing
<1>9. /\ FromOwner(f.Requestor)
      /\ \A d \in Cache : FromOwner(d)' <=> FromOwner(d) /\ d # f.Requestor
  BY <1>1, <1>2, <1>3 DEF FromOwner, OneSource
<1>10. /\ f.Requestor # c
       /\ \A d \in Cache : Exclusive(d) <=> d = c
       /\ ~ AtDirectory /\ ~ AtDirectory'
       /\ c \notin Owner /\ c \notin Sharers
  <2>1. Exclusive(c) /\ f.Requestor # c
    BY <1>2, <1>3 DEF ForwardsExpected, Forwarded, Exclusive
  <2>2. (\A d \in Cache : Exclusive(d) <=> d = c) /\ ~ AtDirectory
    BY <1>2, <2>1 DEF OneHolder
  <2>3. AtDirectory' <=> AtDirectory
    BY <1>4, <1>8 DEF AtDirectory
  <2>4. c \notin Owner /\ c \notin Sharers
    BY <1>2, <1>3 DEF OwnerExpected, SharersExpected, Forwarded
  <2>. QED  BY <2>1, <2>2, <2>3, <2>4
<1>11. CacheState[f.Requestor] = "IM_AD"
  <2>1. CacheState[f.Requestor] = "IM_AD" \/ Forwarded(f.Requestor, {"INV"})
    BY <1>2, <1>3 DEF ForwardsExpected
  <2>2. ~ Forwarded(f.Requestor, {"INV"})
    BY <1>3, <1>10, InvWaits DEF AwaitsAcks
  <2>. QED  BY <2>1, <2>2
<1>12. \A d \in Cache : Exclusive(d)' <=> d = f.Requestor
  <2>1. ~ Exclusive(c)'
    BY <1>5 DEF Exclusive
  <2>2. Exclusive(f.Requestor)'
    BY <1>3, <1>5, <1>8, <1>10, <1>11 DEF Exclusive
  <2>3. ASSUME NEW d \in Cache \ {c, f.Requestor} PROVE ~ Exclusive(d)'
    BY <1>1, <1>4, <1>5, <1>8, <1>10 DEF Exclusive, Forwarded
  <2>. QED  BY <1>10, <2>1, <2>2, <2>3
<1>13. /\ \A d \in Cache : Forwarded(d, {"GETS"})' => Forwarded(d, {"GETS"})
       /\ \A d \in Cache : Forwarded(d, {"INV"})' <=> Forwarded(d, {"INV"})
       /\ \A d \in Cache \ {c} : \A t : Forwarded(d, t)' <=> Forwarded(d, t)
  BY <1>1, <1>3 DEF Forwarded
<1>14. \A m, n \in responseNet' : m.Destination = Dir /\ n.Destination = Dir => m = n
  BY <1>2, <1>6 DEF OneHolder
<1>15. ChannelsShort'
  BY <1>1, <1>2 DEF ChannelsShort, ForwardOrder, dirVars
<1>16. RequestsExpected'
  BY <1>1, <1>2, <1>3, <1>4, <1>5, <1>6 DEF RequestsExpected
<1>17. ForwardsExpected'
  BY <1>1, <1>2, <1>3, <1>4, <1>5, <1>6
     DEF ForwardsExpected, Forwarded, StoreMissState
<1>18. OneSource'
  BY <1>1, <1>2, <1>3, <1>4, <1>5, <1>6, <1>8, <1>9, <1>11
     DEF OneSource, FromMemory, DataComing
<1>19. ResponsesExpected'
  BY <1>1, <1>2, <1>3, <1>4, <1>5, <1>6, <1>11
     DEF ResponsesExpected, OneSource, DataComing
<1>20. MemoryExpected'
  BY <1>2, <1>4, <1>10 DEF MemoryExpected, AtDirectory
<1>21. AcksExpected'
  BY <1>1, <1>2, <1>3, <1>4, <1>5, <1>6, <1>7
     DEF AcksExpected, AwaitsAcks, DataComing, InvAck, Inv
<1>22. AckAccounting'
  BY <1>1, <1>2, <1>3, <1>4, <1>5, <1>6, <1>7 DEF AckAccounting, DataComing
<1>23. OneHolder'
  BY <1>2, <1>4, <1>8, <1>10, <1>12, <1>13, <1>14 DEF OneHolder
<1>24. OwnerExpected'
  BY <1>1, <1>2, <1>3, <1>4, <1>5, <1>6, <1>10
     DEF OwnerExpected, Forwarded, StoreMissState
<1>25. SharersExpected'
  BY <1>1, <1>2, <1>3, <1>4, <1>5, <1>6, <1>10 DEF SharersExpected, Forwarded
<1>26. ReadersKnown'
  BY <1>2, <1>3, <1>4, <1>5, <1>8, <1>10, <1>11, <1>12, <1>13
     DEF ReadersKnown, Reader
<1>. QED
  BY <1>15, <1>16, <1>17, <1>18, <1>19, <1>20,
     <1>11, <1>21, <1>22, <1>23, <1>24, <1>25, <1>26 DEF Expected

\* The directory has taken note that the cache does not have the block any more.
LEMMA WBAckKeeps ==
  ASSUME NetTypeOK, DirTypeOK, CacheTypeOK, Expected,
         NEW c \in Cache, NEW f, NEW s \in L1State,
         forwardNet[c] # << >>, f = Head(forwardNet[c]), f.Type = "WB_ACK",
         CacheState[c] \in {"MI_A", "SI_A", "II_A"}, s = "I",
         setState(c, s), PopForward(c),
         pendingAcks' = [pendingAcks EXCEPT ![c] = 0],
         UNCHANGED <<requestNet, responseNet, dirVars>>
  PROVE  Expected'
<1>1. /\ Inbox(c)' = Inbox(c) \ {f}
      /\ \A g \in Inbox(c)' : g.Type # f.Type
      /\ f.Type \in {"GETS", "GETM"} => \A g \in Inbox(c)' : g.Type = "WB_ACK"
      /\ f.Type = "WB_ACK" => Inbox(c)' = {}
      /\ \A d \in Cache \ {c} : Inbox(d)' = Inbox(d)
      /\ \A d \in Cache : ForwardOrder(d)'
  BY PopForwardInbox DEF Expected
<1>2. /\ ChannelsShort /\ RequestsExpected /\ ForwardsExpected /\ OneSource
      /\ ResponsesExpected /\ MemoryExpected /\ AcksExpected /\ AckAccounting
      /\ OneHolder /\ OwnerExpected /\ SharersExpected /\ ReadersKnown
  BY DEF Expected
<1>3. /\ f \in Inbox(c) /\ f \in ForwardMsg /\ Inbox(c) \subseteq ForwardMsg
      /\ f.Type # "WB_ACK" => f.Requestor \in Cache
  BY <1>2, InboxHead DEF ForwardMsg
<1>4. /\ \A d \in Cache : Asked(d)' = Asked(d)
      /\ \A d \in Cache : Asked(d) \subseteq RequestMsg
      /\ AtMemory' = AtMemory
      /\ UNCHANGED <<DirectoryState, Sharers, Owner>>
      /\ Sharers \subseteq Cache /\ Owner \subseteq Cache
  BY DEF Asked, AtMemory, dirVars, DirTypeOK, NetTypeOK
<1>5. /\ CacheState' \in [Cache -> L1State] /\ CacheState'[c] = s
      /\ \A d \in Cache \ {c} : CacheState'[d] = CacheState[d]
  BY DEF setState, CacheTypeOK
<1>6. /\ pendingAcks'[c] = 0
      /\ \A d \in Cache \ {c} : pendingAcks'[d] = pendingAcks[d]
  BY DEF CacheTypeOK
<1>7. responseNet' = responseNet /\ \A n : DataComing(n)' <=> DataComing(n)
  BY DEF DataComing
<1>8. /\ Inbox(c)' = {} /\ Inbox(c) = {f} /\ Asked(c) = {}
      /\ ~ FromMemory(c) /\ ~ FromOwner(c) /\ ~ DataComing(c)
      /\ c \notin Owner /\ c \notin Sharers
  BY <1>1, <1>2, <1>3
     DEF ForwardsExpected, OneSource, OwnerExpected, SharersExpected, Forwarded
<1>9. \A d \in Cache : OwesAck(d)' = OwesAck(d)
  <2>. SUFFICES ASSUME NEW d \in Cache PROVE OwesAck(d)' = OwesAck(d)
    OBVIOUS
  <2>1. Inv(d).Type = "INV"
    BY DEF Inv
  <2>2. \A e \in Cache : (Inv(d) \in Inbox(e)' \/ InvAck(e, d) \in responseNet')
                     <=> (Inv(d) \in Inbox(e) \/ InvAck(e, d) \in responseNet)
    BY <1>1, <1>3, <1>7, <2>1
  <2>. QED  BY <2>2, OwesInbox
<1>10. ChannelsShort'
  BY <1>1, <1>2 DEF ChannelsShort, ForwardOrder, dirVars
<1>11. RequestsExpected'
  BY <1>1, <1>2, <1>3, <1>4, <1>5, <1>7, <1>8 DEF RequestsExpected
<1>12. ForwardsExpected'
  BY <1>1, <1>2, <1>3, <1>4, <1>5, <1>7, <1>8
     DEF ForwardsExpected, Forwarded, StoreMissState
<1>13. OneSource'
  BY <1>1, <1>2, <1>3, <1>4, <1>5, <1>7, <1>8
     DEF OneSource, FromMemory, FromOwner
<1>14. ResponsesExpected'
  BY <1>1, <1>2, <1>3, <1>4, <1>5, <1>7, <1>8
     DEF ResponsesExpected, OneSource, DataComing
<1>15. MemoryExpected'
  <2>1. ASSUME NEW q \in AtMemory, NEW d \in Cache, q.OriginalRequestorMachId = d
        PROVE  /\ q.Type = "MEMORY_READ" <=> DirectoryState \in {"IS_D", "IM_D"}
               /\ DirectoryState \in {"IS_D", "IM_D", "MI_D"} => d # c
               /\ DirectoryState \in {"IS_D", "IM_D", "MI_D"} => Inbox(d) = {}
               /\ DirectoryState = "IS_D" => CacheState[d] = "IS_D"
               /\ DirectoryState = "IM_D" => CacheState[d] = "IM_AD" /\ Owner = {d}
               /\ DirectoryState = "MI_D" => CacheState[d] = "MI_A" /\ Asked(d) = {}
    BY <1>2, <1>8, <2>1 DEF MemoryExpected
  <2>2. /\ AtMemory' = AtMemory /\ DirectoryState' = DirectoryState
        /\ Owner' = Owner /\ \A d \in Cache : Asked(d)' = Asked(d)
        /\ \A d \in Cache \ {c} : Inbox(d)' = Inbox(d)
                                 /\ CacheState'[d] = CacheState[d]
    BY <1>1, <1>4, <1>5
  <2>3. ASSUME NEW q \in AtMemory', NEW d \in Cache,
               q.OriginalRequestorMachId = d
        PROVE  /\ q.Type = "MEMORY_READ" <=> DirectoryState' \in {"IS_D", "IM_D"}
               /\ DirectoryState' \in {"IS_D", "IM_D", "MI_D"} => Inbox(d)' = {}
               /\ DirectoryState' = "IS_D" => CacheState'[d] = "IS_D"
               /\ DirectoryState' = "IM_D" =>
                     CacheState'[d] = "IM_AD" /\ Owner' = {d}
               /\ DirectoryState' = "MI_D" =>
                     CacheState'[d] = "MI_A" /\ Asked(d)' = {}
    BY <2>1, <2>2, <2>3
  <2>. QED  BY <2>3, Zenon DEF MemoryExpected
<1>16. AcksExpected'
  BY <1>1, <1>2, <1>3, <1>4, <1>5, <1>7, <1>8, <1>6, <1>9
     DEF AcksExpected, AwaitsAcks, DataComing
<1>17. AckAccounting'
  BY <1>1, <1>2, <1>3, <1>4, <1>5, <1>7, <1>8, <1>6, <1>9
     DEF AckAccounting, DataComing
<1>18. OneHolder'
  BY <1>1, <1>2, <1>3, <1>4, <1>5, <1>7, <1>8
     DEF OneHolder, Exclusive, AtDirectory, Forwarded
<1>19. OwnerExpected'
  BY <1>1, <1>2, <1>3, <1>4, <1>5, <1>7, <1>8
     DEF OwnerExpected, Forwarded, StoreMissState
<1>20. SharersExpected'
  BY <1>1, <1>2, <1>3, <1>4, <1>5, <1>7, <1>8 DEF SharersExpected, Forwarded
<1>21. ReadersKnown'
  BY <1>1, <1>2, <1>3, <1>4, <1>5, <1>7, <1>8
     DEF ReadersKnown, Reader, Exclusive, AtDirectory, Forwarded
<1>. QED
  BY <1>10, <1>11, <1>12, <1>13, <1>14, <1>15,
     <1>16, <1>17, <1>18, <1>19, <1>20, <1>21 DEF Expected

\* A cache gets its data.
LEMMA TakeDataKeeps ==
  ASSUME NetTypeOK, DirTypeOK, CacheTypeOK, Expected,
         NEW c \in Cache, NEW m \in responseNet, NEW s \in L1State, NEW p \in Int,
         m.Destination = c, m.Type # "ACK",
         \/ CacheState[c] = "IS_D" /\ s = "S"
         \/ /\ CacheState[c] \in {"IM_AD", "SM_AD"} /\ s = "M"
            /\ OwesAck(c) = {}
         \/ /\ \/ CacheState[c] = "IM_AD" /\ s = "IM_A"
               \/ CacheState[c] = "SM_AD" /\ s = "SM_A"
            /\ p = Cardinality(OwesAck(c)) /\ p > 0,
         setState(c, s), PopResponse(m),
         pendingAcks' = [pendingAcks EXCEPT ![c] = p],
         UNCHANGED <<requestNet, forwardNet, dirVars>>
  PROVE  Expected'
<1>1. /\ \A d \in Cache : Asked(d)' = Asked(d) /\ Inbox(d)' = Inbox(d)
      /\ AtMemory' = AtMemory
      /\ UNCHANGED <<DirectoryState, Sharers, Owner>>
      /\ Sharers \subseteq Cache /\ Owner \subseteq Cache
  BY DEF Asked, Inbox, AtMemory, dirVars, DirTypeOK
<1>2. /\ ChannelsShort /\ RequestsExpected /\ ForwardsExpected /\ OneSource
      /\ ResponsesExpected /\ MemoryExpected /\ AcksExpected /\ AckAccounting
      /\ OneHolder /\ OwnerExpected /\ SharersExpected /\ ReadersKnown
  BY DEF Expected
<1>3. responseNet' = responseNet \ {m} /\ c # Dir
  BY CacheAssumption DEF PopResponse
<1>4. /\ CacheState' \in [Cache -> L1State] /\ CacheState'[c] = s
      /\ \A d \in Cache \ {c} : CacheState'[d] = CacheState[d]
  BY DEF setState, CacheTypeOK
<1>5. /\ pendingAcks'[c] = p
      /\ \A d \in Cache \ {c} : pendingAcks'[d] = pendingAcks[d]
  BY DEF CacheTypeOK
<1>6. \A d \in Cache : OwesAck(d)' = OwesAck(d)
  <2>. SUFFICES ASSUME NEW d \in Cache PROVE OwesAck(d)' = OwesAck(d)
    OBVIOUS
  <2>1. \A e \in Cache : InvAck(e, d).Type = "ACK"
    BY DEF InvAck
  <2>2. \A e \in Cache : (Inv(d) \in Inbox(e)' \/ InvAck(e, d) \in responseNet')
                     <=> (Inv(d) \in Inbox(e) \/ InvAck(e, d) \in responseNet)
    BY <1>1, <1>3, <2>1
  <2>. QED  BY <2>2, OwesInbox
<1>7. /\ DataComing(c) /\ ~ DataComing(c)'
      /\ \A d \in Cache \ {c} : DataComing(d)' <=> DataComing(d)
      /\ DataComing(Dir)' <=> DataComing(Dir)
  BY <1>2, <1>3 DEF DataComing, OneSource
<1>8. Asked(c) = {} /\ ~ FromMemory(c) /\ ~ FromOwner(c)
  BY <1>2, <1>7 DEF OneSource
<1>9. \A d \in Cache : FromOwner(d)' <=> FromOwner(d)
  BY <1>1 DEF FromOwner
<1>10. /\ \A d \in Cache : Exclusive(d)' <=> Exclusive(d)
       /\ AtDirectory' <=> AtDirectory
  BY <1>1, <1>4, <1>7 DEF Exclusive, AtDirectory, Forwarded
<1>11. \A d \in Cache : \A t : Forwarded(d, t)' <=> Forwarded(d, t)
  BY <1>1 DEF Forwarded
<1>12. s # "S" => \A f \in Inbox(c) : f.Type # "INV"
  <2>. SUFFICES ASSUME Forwarded(c, {"INV"}), s # "S" PROVE FALSE
    BY DEF Forwarded
  <2>1. Exclusive(c)
    BY <1>7 DEF Exclusive
  <2>2. PICK r \in Cache : c \in OwesAck(r) /\ Exclusive(r)
    BY InvWaits
  <2>3. c \in OwesAck(c)
    BY <1>2, <2>1, <2>2 DEF OneHolder
  <2>. QED  BY <1>2, <2>3 DEF AcksExpected
<1>13. ChannelsShort'
  BY <1>2 DEF ChannelsShort, dirVars
<1>14. RequestsExpected'
  BY <1>1, <1>2, <1>3, <1>4, <1>5, <1>8 DEF RequestsExpected
<1>15. ForwardsExpected'
  BY <1>1, <1>2, <1>3, <1>4, <1>5, <1>8, <1>11, <1>12
     DEF ForwardsExpected, FromOwner, StoreMissState
<1>16. OneSource'
  BY <1>1, <1>2, <1>3, <1>4, <1>5, <1>7, <1>8, <1>9
     DEF OneSource, FromMemory, DataComing
<1>17. ResponsesExpected'
  BY <1>1, <1>2, <1>3, <1>4, <1>5 DEF ResponsesExpected, OneSource, DataComing
<1>18. MemoryExpected'
  BY <1>1, <1>2, <1>3, <1>4, <1>5, <1>8 DEF MemoryExpected, FromMemory
<1>19. AcksExpected'
  BY <1>1, <1>2, <1>3, <1>4, <1>5, <1>6
     DEF AcksExpected, AwaitsAcks, DataComing
<1>20. AckAccounting'
  BY <1>1, <1>2, <1>3, <1>4, <1>5, <1>6, <1>7 DEF AckAccounting, DataComing
<1>21. OneHolder'
  BY <1>1, <1>2, <1>3, <1>4, <1>5, <1>7, <1>10, <1>11 DEF OneHolder
<1>22. OwnerExpected'
  BY <1>1, <1>2, <1>3, <1>4, <1>5, <1>8
     DEF OwnerExpected, Forwarded, StoreMissState
<1>23. SharersExpected'
  BY <1>1, <1>2, <1>3, <1>4, <1>5, <1>8 DEF SharersExpected, Forwarded
<1>24. ReadersKnown'
  BY <1>1, <1>2, <1>3, <1>4, <1>5, <1>7, <1>10, <1>11 DEF ReadersKnown, Reader
<1>. QED
  BY <1>13, <1>14, <1>15, <1>16, <1>17, <1>18,
     <1>19, <1>20, <1>21, <1>22, <1>23, <1>24 DEF Expected

\* A cache counts an acknowledgement; with the last one it may write.
LEMMA TakeAckKeeps ==
  ASSUME NetTypeOK, DirTypeOK, CacheTypeOK, Expected,
         NEW c \in Cache, NEW m \in responseNet, NEW s \in L1State, NEW p \in Int,
         m.Destination = c, m.Type = "ACK",
         \/ /\ CacheState[c] \in {"IM_A", "SM_A"} /\ s = "M"
            /\ pendingAcks[c] = 1
         \/ /\ CacheState[c] \in StoreMissState /\ s = CacheState[c]
            /\ p = pendingAcks[c] - 1 /\ p # 0,
         setState(c, s), PopResponse(m),
         pendingAcks' = [pendingAcks EXCEPT ![c] = p],
         UNCHANGED <<requestNet, forwardNet, dirVars>>
  PROVE  /\ Expected'
         /\ s = "M" => OwesAck(c)' = {}
<1>1. /\ \A d \in Cache : Asked(d)' = Asked(d) /\ Inbox(d)' = Inbox(d)
      /\ AtMemory' = AtMemory
      /\ UNCHANGED <<DirectoryState, Sharers, Owner>>
      /\ Sharers \subseteq Cache /\ Owner \subseteq Cache
  BY DEF Asked, Inbox, AtMemory, dirVars, DirTypeOK
<1>2. /\ ChannelsShort /\ RequestsExpected /\ ForwardsExpected /\ OneSource
      /\ ResponsesExpected /\ MemoryExpected /\ AcksExpected /\ AckAccounting
      /\ OneHolder /\ OwnerExpected /\ SharersExpected /\ ReadersKnown
  BY DEF Expected
<1>3. responseNet' = responseNet \ {m} /\ c # Dir
  BY CacheAssumption DEF PopResponse
<1>4. /\ CacheState' \in [Cache -> L1State] /\ CacheState'[c] = s
      /\ \A d \in Cache \ {c} : CacheState'[d] = CacheState[d]
  BY DEF setState, CacheTypeOK
<1>5. /\ pendingAcks'[c] = p
      /\ \A d \in Cache \ {c} : pendingAcks'[d] = pendingAcks[d]
      /\ pendingAcks[c] \in Int
  BY DEF CacheTypeOK
<1>6. m.Sender \in Cache /\ m = InvAck(m.Sender, c)
  <2>1. m \in ResponseMsg /\ m.AckCount = 1
    BY <1>2 DEF NetTypeOK, ResponsesExpected
  <2>. QED  BY <2>1 DEF ResponseMsg, InvAck
<1>7. /\ OwesAck(c)' = OwesAck(c) \ {m.Sender} /\ m.Sender \in OwesAck(c)
      /\ \A d \in Cache \ {c} : OwesAck(d)' = OwesAck(d)
  <2>1. \A d, e \in Cache : InvAck(e, d) = m <=> e = m.Sender /\ d = c
    BY <1>6 DEF InvAck
  <2>2. Inv(c) \notin Inbox(m.Sender) /\ m.Sender \in OwesAck(c)
    BY <1>2, <1>6, OwesInbox DEF AcksExpected
  <2>3. \A e \in Cache : (Inv(c) \in Inbox(e)' \/ InvAck(e, c) \in responseNet')
                     <=> /\ Inv(c) \in Inbox(e) \/ InvAck(e, c) \in responseNet
                         /\ e # m.Sender
    BY <1>1, <1>3, <2>1, <2>2
  <2>4. OwesAck(c)' = OwesAck(c) \ {m.Sender}
    BY <2>3, OwesInbox
  <2>5. ASSUME NEW d \in Cache \ {c} PROVE OwesAck(d)' = OwesAck(d)
    <3>1. \A e \in Cache : (Inv(d) \in Inbox(e)' \/ InvAck(e, d) \in responseNet')
                       <=> (Inv(d) \in Inbox(e) \/ InvAck(e, d) \in responseNet)
      BY <1>1, <1>3, <2>1
    <3>. QED  BY <3>1, OwesInbox
  <2>. QED  BY <2>2, <2>4, <2>5
<1>8. /\ Cardinality(OwesAck(c)') = Cardinality(OwesAck(c)) - 1
      /\ Cardinality(OwesAck(c)) \in Nat
      /\ Cardinality(OwesAck(c)) = 1 => OwesAck(c)' = {}
  <2>1. IsFiniteSet(OwesAck(c)) /\ Cardinality(OwesAck(c)) \in Nat
    BY OwesFinite
  <2>2. /\ IsFiniteSet(OwesAck(c)')
        /\ Cardinality(OwesAck(c)') = Cardinality(OwesAck(c)) - 1
    BY <1>7, <2>1, FS_RemoveElement
  <2>3. Cardinality(OwesAck(c)) = 1 => OwesAck(c)' = {}
    BY <2>2, FS_EmptySet
  <2>. QED  BY <2>1, <2>2, <2>3
<1>9. AwaitsAcks(c) /\ Exclusive(c)
  BY <1>2, <1>7 DEF AcksExpected, AwaitsAcks, Exclusive, DataComing
<1>10. \A n : DataComing(n)' <=> DataComing(n)
  BY <1>3 DEF DataComing
<1>11. \A d \in Cache : AwaitsAcks(d)' <=> AwaitsAcks(d) /\ (d = c => s # "M")
  BY <1>3, <1>4 DEF AwaitsAcks, StoreMissState
<1>12. /\ \A d \in Cache : Exclusive(d)' <=> Exclusive(d)
       /\ AtDirectory' <=> AtDirectory
       /\ \A d \in Cache : FromOwner(d)' <=> FromOwner(d)
       /\ \A d \in Cache : \A t : Forwarded(d, t)' <=> Forwarded(d, t)
  <2>1. Exclusive(c)'
    BY <1>4, <1>9, <1>10 DEF Exclusive, StoreMissState
  <2>2. \A d \in Cache \ {c} : Exclusive(d)' <=> Exclusive(d)
    BY <1>1, <1>4, <1>10 DEF Exclusive, Forwarded
  <2>3. AtDirectory' <=> AtDirectory
    BY <1>1, <1>10 DEF AtDirectory
  <2>. QED  BY <1>1, <1>9, <2>1, <2>2, <2>3 DEF FromOwner, Forwarded
<1>13. s = "M" => OwesAck(c)' = {}
  BY <1>2, <1>8 DEF AckAccounting, StoreMissState
<1>14. ChannelsShort'
  BY <1>2 DEF ChannelsShort, dirVars
<1>15. RequestsExpected'
  BY <1>1, <1>2, <1>3, <1>4 DEF RequestsExpected, StoreMissState
<1>16. ForwardsExpected'
  BY <1>1, <1>2, <1>3, <1>4, <1>12 DEF ForwardsExpected, StoreMissState
<1>17. OneSource'
  BY <1>1, <1>2, <1>3, <1>4, <1>10, <1>12 DEF OneSource, FromMemory
<1>18. ResponsesExpected'
  BY <1>1, <1>2, <1>3, <1>4 DEF ResponsesExpected, StoreMissState
<1>19. MemoryExpected'
  BY <1>1, <1>2, <1>3, <1>4 DEF MemoryExpected, StoreMissState
<1>20. AcksExpected'
  BY <1>1, <1>2, <1>3, <1>4, <1>5, <1>7, <1>11, <1>13
     DEF AcksExpected, StoreMissState
<1>21. AckAccounting'
  <2>1. \A n \in responseNet : n.AckCount \in Int
    BY ResponseFields DEF NetTypeOK
  <2>2. ASSUME CacheState'[c] \in {"IM_A", "SM_A"}
        PROVE  pendingAcks'[c] = Cardinality(OwesAck(c)') /\ pendingAcks'[c] > 0
    <3>1. /\ CacheState[c] \in {"IM_A", "SM_A"}
          /\ p = pendingAcks[c] - 1 /\ p # 0
      BY <1>4, <2>2
    <3>2. pendingAcks[c] = Cardinality(OwesAck(c)) /\ pendingAcks[c] > 0
      BY <1>2, <3>1 DEF AckAccounting
    <3>. QED  BY <1>5, <1>8, <3>1, <3>2
  <2>3. ASSUME NEW n \in responseNet', n.Destination = c, n.Type = "DATA_FROM_DIR"
        PROVE  pendingAcks'[c] - n.AckCount = Cardinality(OwesAck(c)')
    <3>1. pendingAcks[c] - n.AckCount = Cardinality(OwesAck(c))
      BY <1>2, <1>3, <2>3 DEF AckAccounting
    <3>2. p = pendingAcks[c] - 1
      BY <1>2, <1>3, <2>3 DEF OneSource, DataComing
    <3>. QED  BY <1>3, <1>5, <1>8, <2>1, <3>1, <3>2
  <2>4. ASSUME NEW d \in Cache \ {c}
        PROVE  /\ CacheState'[d] \in {"IM_A", "SM_A"}
                    => pendingAcks'[d] = Cardinality(OwesAck(d)') /\ pendingAcks'[d] > 0
               /\ \A n \in responseNet' :
                    n.Destination = d /\ n.Type = "DATA_FROM_DIR"
                      => pendingAcks'[d] - n.AckCount = Cardinality(OwesAck(d)')
    BY <1>2, <1>3, <1>4, <1>5, <1>7 DEF AckAccounting
  <2>. QED  BY <2>2, <2>3, <2>4 DEF AckAccounting
<1>22. OneHolder'
  BY <1>1, <1>2, <1>3, <1>10, <1>12 DEF OneHolder
<1>23. OwnerExpected'
  BY <1>1, <1>2, <1>3, <1>4, <1>12 DEF OwnerExpected, StoreMissState
<1>24. SharersExpected'
  BY <1>1, <1>2, <1>3, <1>4, <1>12 DEF SharersExpected, StoreMissState
<1>25. ReadersKnown'
  BY <1>1, <1>2, <1>4, <1>10, <1>12 DEF ReadersKnown, Reader, StoreMissState
<1>. QED
  BY <1>13, <1>14, <1>15, <1>16, <1>17, <1>18, <1>19,
     <1>20, <1>21, <1>22, <1>23, <1>24, <1>25 DEF Expected

\* Expected does not speak of the cores, nor of the contents of the block.
LEMMA ExpectedFrame ==
  ASSUME Expected,
         UNCHANGED <<netVars, CacheState, pendingAcks, DirectoryState, Sharers,
                     Owner, memQueue>>
  PROVE  Expected'
<1>1. /\ \A c \in Cache : Asked(c)' = Asked(c) /\ Inbox(c)' = Inbox(c)
      /\ AtMemory' = AtMemory
      /\ \A c \in Cache : OwesAck(c)' = OwesAck(c)
      /\ UNCHANGED <<requestNet, forwardNet, responseNet, CacheState, pendingAcks,
                     DirectoryState, Sharers, Owner, memQueue>>
  BY DEF netVars, Asked, Inbox, AtMemory, OwesAck
<1>2. /\ \A c \in Cache : \A t : Forwarded(c, t)' <=> Forwarded(c, t)
      /\ \A n : DataComing(n)' <=> DataComing(n)
      /\ \A c \in Cache : /\ FromMemory(c)' <=> FromMemory(c)
                          /\ FromOwner(c)' <=> FromOwner(c)
                          /\ AwaitsAcks(c)' <=> AwaitsAcks(c)
  BY <1>1 DEF Forwarded, DataComing, FromMemory, FromOwner, AwaitsAcks
<1>3. /\ \A c \in Cache : Exclusive(c)' <=> Exclusive(c)
      /\ AtDirectory' <=> AtDirectory
      /\ \A c \in Cache : Reader(c)' <=> Reader(c)
  BY <1>1, <1>2 DEF Exclusive, AtDirectory, Reader
<1>4. ChannelsShort' /\ RequestsExpected' /\ ForwardsExpected'
  BY <1>1, <1>2 DEF Expected, ChannelsShort, RequestsExpected, ForwardsExpected
<1>5. OneSource' /\ ResponsesExpected' /\ MemoryExpected'
  BY <1>1, <1>2 DEF Expected, OneSource, ResponsesExpected, MemoryExpected
<1>6. AcksExpected' /\ AckAccounting'
  BY <1>1, <1>2 DEF Expected, AcksExpected, AckAccounting
<1>7. OneHolder'
  <2>1. OneHolder
    BY DEF Expected
  <2>. QED  BY <1>1, <1>2, <1>3, <2>1 DEF OneHolder
<1>8. OwnerExpected' /\ SharersExpected'
  <2>1. \A c : Asked(c)' = Asked(c) /\ Inbox(c)' = Inbox(c)
    BY <1>1 DEF Asked, Inbox
  <2>2. OwnerExpected'
    BY <1>1, <2>1 DEF Expected, OwnerExpected, Forwarded
  <2>3. SharersExpected'
    BY <1>1, <2>1 DEF Expected, SharersExpected, Forwarded
  <2>. QED  BY <2>2, <2>3
<1>9. ReadersKnown'
  BY <1>1, <1>2, <1>3 DEF Expected, ReadersKnown
<1>. QED  BY <1>4, <1>5, <1>6, <1>7, <1>8, <1>9 DEF Expected

\* The state that setState has written is the one that getState reads.
LEMMA StateRead ==
  ASSUME LocalInv
  PROVE  \A c \in Cache : getState(c) = CacheState[c]
BY DEF LocalInv, TypeOK, CacheTypeOK, StructuresMatch, getState, TransientState,
       L1State, StableState

LEMMA MandatoryKeeps ==
  ASSUME LocalInv, Expected, NEW c \in Cache,
         CoreRequest(c) \/ MandatoryPort(c) \/ Replacement(c), UNCHANGED dirVars
  PROVE  Expected'
<1>0. NetTypeOK /\ DirTypeOK /\ CacheTypeOK
  BY DEF LocalInv, TypeOK
<1>1. CASE CoreRequest(c) \/ LoadHit(c) \/ StoreHit(c)
  BY <1>1, ExpectedFrame DEF CoreRequest, LoadHit, StoreHit, cacheVars, dirVars
<1>2. CASE LoadMiss(c)
  BY <1>0, <1>2, StateRead, AskKeeps
     DEF LoadMiss, Issue, v_allocateTBE, RequestMsg, L1State, TransientState
<1>3. CASE StoreMiss(c)
  BY <1>0, <1>3, StateRead, AskKeeps
     DEF StoreMiss, Issue, v_allocateTBE, RequestMsg, L1State, TransientState
<1>4. CASE StoreUpgrade(c)
  BY <1>0, <1>4, StateRead, AskKeeps
     DEF StoreUpgrade, v_allocateTBE, RequestMsg, L1State, TransientState
<1>5. CASE ReplaceShared(c)
  <2>1. DataBlk[c] \in Value /\ CacheState[c] = "S"
    BY <1>5, StateRead DEF ReplaceShared, LocalInv, HeldDataWritten
  <2>. QED  BY <1>0, <1>5, <2>1, AskKeeps
            DEF ReplaceShared, Replace, v_allocateTBE, RequestMsg, L1State,
                TransientState
<1>6. CASE ReplaceModified(c)
  <2>1. DataBlk[c] \in Value /\ CacheState[c] = "M"
    BY <1>6, StateRead DEF ReplaceModified, LocalInv, HeldDataWritten
  <2>. QED  BY <1>0, <1>6, <2>1, AskKeeps
            DEF ReplaceModified, Replace, v_allocateTBE, RequestMsg, L1State,
                TransientState
<1>. QED  BY <1>1, <1>2, <1>3, <1>4, <1>5, <1>6 DEF MandatoryPort, Replacement

\* The event of the message at the head of the port is that of its type.
LEMMA ForwardHead ==
  ASSUME LocalInv, Expected, NEW c \in Cache, NEW e, NEW S, OnForward(c, e, S)
  PROVE  /\ forwardNet[c] # << >> /\ CacheState[c] \in S
         /\ e = "Inv" => Head(forwardNet[c]).Type = "INV"
         /\ e = "Fwd_GetS" => Head(forwardNet[c]).Type = "GETS"
         /\ e = "Fwd_GetM" => Head(forwardNet[c]).Type = "GETM"
         /\ e = "WB_Ack" => Head(forwardNet[c]).Type = "WB_ACK"
<1>1. forwardNet[c] # << >> /\ CacheState[c] \in S
  BY StateRead DEF OnForward
<1>2. Head(forwardNet[c]).Type \in {"INV", "GETS", "GETM", "WB_ACK"}
  BY <1>1, PopForwardType DEF LocalInv, TypeOK, ForwardMsg
<1>. QED  BY <1>1, <1>2 DEF OnForward, ForwardEvent

LEMMA ForwardKeeps ==
  ASSUME LocalInv, Expected, NEW c \in Cache, ForwardPort(c), UNCHANGED dirVars
  PROVE  Expected'
<1>0. NetTypeOK /\ DirTypeOK /\ CacheTypeOK
  BY DEF LocalInv, TypeOK
<1>1. CASE InvShared(c)
  BY <1>0, <1>1, ForwardHead, InvAckKeeps
     DEF InvShared, ForwardRequestor, L1State, StableState
<1>2. CASE InvUpgrade(c)
  BY <1>0, <1>2, ForwardHead, InvAckKeeps
     DEF InvUpgrade, AckInv, ForwardRequestor, L1State, TransientState
<1>3. CASE InvReplacement(c)
  BY <1>0, <1>3, ForwardHead, InvAckKeeps
     DEF InvReplacement, AckInv, ForwardRequestor, L1State, TransientState
<1>4. CASE FwdGetSModified(c)
  <2>. DEFINE f == Head(forwardNet[c])
  <2>1. /\ forwardNet[c] # << >> /\ f.Type = "GETS"
        /\ CacheState[c] = "M" /\ "S" \in L1State
    BY <1>4, ForwardHead DEF FwdGetSModified, L1State, StableState
  <2>2. /\ setState(c, "S") /\ PopForward(c)
        /\ SendResponse({DataFromOwner(c, f.Requestor, DataBlk[c]), DataToDir(c, DataBlk[c])})
        /\ UNCHANGED <<requestNet, pendingAcks, dirVars>>
    BY <1>4 DEF FwdGetSModified, ForwardRequestor
  <2>. QED  BY <1>0, <2>1, <2>2, FwdGetSKeeps
<1>5. CASE FwdGetSReplacement(c)
  <2>. DEFINE f == Head(forwardNet[c])
  <2>1. /\ forwardNet[c] # << >> /\ f.Type = "GETS"
        /\ CacheState[c] = "MI_A" /\ "SI_A" \in L1State
    BY <1>5, ForwardHead DEF FwdGetSReplacement, L1State, TransientState
  <2>2. /\ setState(c, "SI_A") /\ PopForward(c)
        /\ SendResponse({DataFromOwner(c, f.Requestor, tbeDataBlk[c]), DataToDir(c, tbeDataBlk[c])})
        /\ UNCHANGED <<requestNet, pendingAcks, dirVars>>
    BY <1>5 DEF FwdGetSReplacement, ForwardRequestor
  <2>. QED  BY <1>0, <2>1, <2>2, FwdGetSKeeps
<1>6. CASE FwdGetMModified(c)
  <2>. DEFINE f == Head(forwardNet[c])
  <2>1. /\ forwardNet[c] # << >> /\ f.Type = "GETM"
        /\ CacheState[c] = "M" /\ "I" \in L1State
    BY <1>6, ForwardHead DEF FwdGetMModified, L1State, StableState
  <2>2. /\ setState(c, "I") /\ PopForward(c)
        /\ SendResponse({DataFromOwner(c, f.Requestor, DataBlk[c])})
        /\ UNCHANGED <<requestNet, pendingAcks, dirVars>>
    BY <1>6 DEF FwdGetMModified, ForwardRequestor
  <2>. QED  BY <1>0, <2>1, <2>2, FwdGetMKeeps
<1>7. CASE FwdGetMReplacement(c)
  <2>. DEFINE f == Head(forwardNet[c])
  <2>1. /\ forwardNet[c] # << >> /\ f.Type = "GETM"
        /\ CacheState[c] = "MI_A" /\ "II_A" \in L1State
    BY <1>7, ForwardHead DEF FwdGetMReplacement, L1State, TransientState
  <2>2. /\ setState(c, "II_A") /\ PopForward(c)
        /\ SendResponse({DataFromOwner(c, f.Requestor, tbeDataBlk[c])})
        /\ UNCHANGED <<requestNet, pendingAcks, dirVars>>
    BY <1>7 DEF FwdGetMReplacement, ForwardRequestor
  <2>. QED  BY <1>0, <2>1, <2>2, FwdGetMKeeps
<1>8. CASE WBAck(c)
  BY <1>0, <1>8, ForwardHead, WBAckKeeps
     DEF WBAck, w_deallocateTBE, L1State, StableState
<1>. QED  BY <1>1, <1>2, <1>3, <1>4, <1>5, <1>6, <1>7, <1>8 DEF ForwardPort

\* What the events of responseNetwork_in say of the message and of what the
\* cache has counted.  A cache that writes the block is owed nothing any more.
LEMMA ResponseHead ==
  ASSUME LocalInv, Expected, NEW c \in Cache, NEW m \in responseNet,
         m.Destination = c
  PROVE  /\ m.Type \in {"DATA_FROM_DIR", "DATA_FROM_OWNER", "ACK"}
         /\ m.AckCount \in Int /\ pendingAcks[c] \in Int
         /\ m.Type = "ACK" => m.AckCount = 1
         /\ m.Type = "DATA_FROM_OWNER" =>
              m.AckCount = 0 /\ CacheState[c] \in {"IS_D", "IM_AD"}
         /\ m.Type = "DATA_FROM_DIR" =>
              /\ CacheState[c] \in {"IS_D", "IM_AD", "SM_AD"}
              /\ CacheState[c] = "IS_D" => m.AckCount = 0
              /\ pendingAcks[c] - m.AckCount = Cardinality(OwesAck(c))
         /\ ( /\ m.Type # "ACK" /\ CacheState[c] \in {"IM_AD", "SM_AD"}
              /\ m.AckCount = 0 \/ pendingAcks[c] - m.AckCount = 0 )
              => OwesAck(c) = {}
<1>1. m \in ResponseMsg /\ m.Destination # Dir /\ pendingAcks[c] \in Int
  BY CacheAssumption DEF LocalInv, TypeOK, NetTypeOK, CacheTypeOK
<1>2. m.Type \in {"DATA_FROM_DIR", "DATA_FROM_OWNER", "ACK"} /\ m.AckCount \in Int
  BY <1>1 DEF ResponseMsg
<1>3. /\ m.Type = "ACK" => m.AckCount = 1
      /\ m.Type = "DATA_FROM_OWNER" =>
           m.AckCount = 0 /\ CacheState[c] \in {"IS_D", "IM_AD"}
      /\ m.Type = "DATA_FROM_DIR" /\ CacheState[c] = "IS_D" => m.AckCount = 0
  BY DEF Expected, ResponsesExpected
<1>4. m.Type # "ACK" => CacheState[c] \in {"IS_D", "IM_AD", "SM_AD"}
  BY DEF Expected, OneSource, DataComing
<1>5. m.Type = "DATA_FROM_DIR" =>
        pendingAcks[c] - m.AckCount = Cardinality(OwesAck(c))
  BY DEF Expected, AckAccounting
<1>6. ASSUME m.Type # "ACK", CacheState[c] \in {"IM_AD", "SM_AD"},
             m.AckCount = 0 \/ pendingAcks[c] - m.AckCount = 0
      PROVE  OwesAck(c) = {}
  <2>1. CASE m.Type = "DATA_FROM_DIR"
    <3>1. pendingAcks[c] <= 0
      BY <1>6 DEF Expected, AcksExpected
    <3>2. IsFiniteSet(OwesAck(c)) /\ Cardinality(OwesAck(c)) \in Nat
      BY OwesFinite
    <3>3. Cardinality(OwesAck(c)) = 0
      BY <1>1, <1>2, <1>5, <1>6, <2>1, <3>1, <3>2
    <3>. QED  BY <3>2, <3>3, FS_EmptySet
  <2>2. CASE m.Type = "DATA_FROM_OWNER"
    BY <1>6, <2>2 DEF Expected, AcksExpected, AwaitsAcks, OneSource
  <2>. QED  BY <1>2, <1>6, <2>1, <2>2
<1>. QED  BY <1>1, <1>2, <1>3, <1>4, <1>5, <1>6

LEMMA ResponseKeeps ==
  ASSUME LocalInv, Expected, NEW c \in Cache, NEW m \in responseNet,
         \/ LoadData(c, m) \/ StoreData(c, m) \/ LastInvAck(c, m)
         \/ StoreDataAckCnt(c, m) \/ CountInvAck(c, m),
         UNCHANGED dirVars
  PROVE  Expected'
<1>0. NetTypeOK /\ DirTypeOK /\ CacheTypeOK
  BY DEF LocalInv, TypeOK
<1>1. CASE LoadData(c, m)
  <2>1. m.Destination = c /\ CacheState[c] = "IS_D" /\ m.Type # "ACK"
    BY <1>1, StateRead
       DEF LoadData, OnResponse, ResponseEvent, DataEvent, AckEvent
  <2>2. /\ setState(c, "S") /\ PopResponse(m)
        /\ pendingAcks' = [pendingAcks EXCEPT ![c] = 0]
        /\ UNCHANGED <<requestNet, forwardNet, dirVars>>
        /\ 0 \in Int /\ "S" \in L1State
    BY <1>1 DEF LoadData, w_deallocateTBE, L1State, StableState
  <2>. QED  BY <1>0, <2>1, <2>2, TakeDataKeeps
<1>2. CASE StoreData(c, m)
  <2>1. /\ m.Destination = c /\ CacheState[c] \in {"IM_AD", "SM_AD"}
        /\ m.Type # "ACK"
    BY <1>2, StateRead
       DEF StoreData, OnResponse, ResponseEvent, DataEvent, AckEvent
  <2>2. m.AckCount = 0 \/ pendingAcks[c] - m.AckCount = 0
    BY <1>2, <2>1, ResponseHead
       DEF StoreData, OnResponse, ResponseEvent, DataEvent, IsLastAck
  <2>3. OwesAck(c) = {}
    BY <2>1, <2>2, ResponseHead
  <2>4. /\ setState(c, "M") /\ PopResponse(m)
        /\ pendingAcks' = [pendingAcks EXCEPT ![c] = 0]
        /\ UNCHANGED <<requestNet, forwardNet, dirVars>>
        /\ 0 \in Int /\ "M" \in L1State
    BY <1>2 DEF StoreData, StoreDone, w_deallocateTBE, L1State, StableState
  <2>. QED  BY <1>0, <2>1, <2>3, <2>4, TakeDataKeeps
<1>3. CASE LastInvAck(c, m)
  <2>1. /\ m.Destination = c /\ CacheState[c] \in {"IM_A", "SM_A"}
        /\ m.Type = "ACK" /\ pendingAcks[c] - m.AckCount = 0
    BY <1>3, StateRead
       DEF LastInvAck, OnResponse, ResponseEvent, DataEvent, AckEvent, IsLastAck
  <2>2. pendingAcks[c] = 1
    BY <2>1, ResponseHead
  <2>3. /\ setState(c, "M") /\ PopResponse(m)
        /\ pendingAcks' = [pendingAcks EXCEPT ![c] = 0]
        /\ UNCHANGED <<requestNet, forwardNet, dirVars>>
        /\ 0 \in Int /\ "M" \in L1State
    BY <1>3 DEF LastInvAck, StoreDone, w_deallocateTBE, L1State, StableState
  <2>. QED  BY <1>0, <2>1, <2>2, <2>3, TakeAckKeeps
<1>4. CASE StoreDataAckCnt(c, m)
  <2>1. /\ m.Destination = c /\ CacheState[c] \in {"IM_AD", "SM_AD"}
        /\ m.Type = "DATA_FROM_DIR"
        /\ pendingAcks[c] - m.AckCount # 0
    BY <1>4, StateRead, ResponseHead
       DEF StoreDataAckCnt, OnResponse, ResponseEvent, DataEvent, AckEvent,
           IsLastAck
  <2>2. /\ pendingAcks[c] - m.AckCount = Cardinality(OwesAck(c))
        /\ Cardinality(OwesAck(c)) \in Nat
    BY <2>1, ResponseHead, OwesFinite
  <2>3. pendingAcks' = [pendingAcks EXCEPT ![c] = Cardinality(OwesAck(c))]
    BY <1>4, <2>2 DEF StoreDataAckCnt, q_updateAckCount
  <2>4. Cardinality(OwesAck(c)) \in Int /\ Cardinality(OwesAck(c)) > 0
    BY <2>1, <2>2
  <2>5. setState(c, IF CacheState[c] = "IM_AD" THEN "IM_A" ELSE "SM_A")
    BY <1>4, StateRead DEF StoreDataAckCnt
  <2>. QED  BY <1>0, <1>4, <2>1, <2>3, <2>4, <2>5, TakeDataKeeps
            DEF StoreDataAckCnt, L1State, TransientState
<1>5. CASE CountInvAck(c, m)
  <2>1. /\ m.Destination = c /\ CacheState[c] \in StoreMissState
        /\ m.Type = "ACK" /\ pendingAcks[c] - m.AckCount # 0
    BY <1>5, StateRead
       DEF CountInvAck, OnResponse, ResponseEvent, DataEvent, AckEvent, IsLastAck,
           StoreMissState
  <2>2. m.AckCount = 1 /\ pendingAcks[c] \in Int
    BY <2>1, ResponseHead
  <2>3. /\ pendingAcks' = [pendingAcks EXCEPT ![c] = pendingAcks[c] - 1]
        /\ pendingAcks[c] - 1 \in Int /\ pendingAcks[c] - 1 # 0
    BY <1>5, <2>1, <2>2 DEF CountInvAck, q_updateAckCount
  <2>4. setState(c, CacheState[c]) /\ CacheState[c] \in L1State
    BY <1>0, <1>5 DEF CountInvAck, setState, CacheTypeOK
  <2>. QED  BY <1>0, <1>5, <2>1, <2>3, <2>4, TakeAckKeeps DEF CountInvAck
<1>. QED  BY <1>1, <1>2, <1>3, <1>4, <1>5

\* No transition of a cache breaks what is expected.
LEMMA CacheStepKeeps ==
  ASSUME LocalInv, Expected, NEW c \in Cache, CacheStep(c)
  PROVE  Expected'
<1>1. CASE CoreRequest(c) \/ MandatoryPort(c) \/ Replacement(c)
  BY <1>1, MandatoryKeeps DEF CacheStep
<1>2. CASE ForwardPort(c)
  BY <1>2, ForwardKeeps DEF CacheStep
<1>3. CASE ResponsePort(c)
  BY <1>3, ResponseKeeps DEF CacheStep, ResponsePort
<1>. QED  BY <1>1, <1>2, <1>3 DEF CacheStep

-----------------------------------------------------------------------------
(* The memory queue, and what is known of the sender of a request. *)

LEMMA MemoryHead ==
  ASSUME DirTypeOK, ChannelsShort
  PROVE  /\ DirectoryState \notin MemState => memQueue = << >>
         /\ memQueue = << >> => AtMemory = {}
         /\ memQueue # << >> =>
              /\ Head(memQueue) \in MemoryMsg /\ AtMemory = {Head(memQueue)}
              /\ Tail(memQueue) = << >>
<1>1. memQueue \in Seq(MemoryMsg)
  BY DEF DirTypeOK
<1>2. memQueue # << >> => Len(memQueue) = 1
  BY <1>1, ShortSeq DEF ChannelsShort
<1>3. DirectoryState \notin MemState => memQueue = << >>
  BY <1>1, EmptySeq DEF ChannelsShort
<1>4. memQueue = << >> => AtMemory = {}
  BY DEF AtMemory
<1>5. ASSUME memQueue # << >>
      PROVE  /\ Head(memQueue) \in MemoryMsg /\ AtMemory = {Head(memQueue)}
             /\ Tail(memQueue) = << >>
  <2>1. /\ DOMAIN memQueue = {1} /\ Head(memQueue) = memQueue[1]
        /\ Tail(memQueue) = << >>
    BY <1>1, <1>2, <1>5, ShortSeq
  <2>2. Head(memQueue) \in MemoryMsg
    BY <1>1, <1>5, HeadTailProperties
  <2>. QED  BY <2>1, <2>2 DEF AtMemory
<1>. QED  BY <1>3, <1>4, <1>5

\* A request to the memory is the only one.
LEMMA QueueMemoryAlone ==
  ASSUME DirTypeOK, ChannelsShort, DirectoryState \notin MemState,
         NEW type \in {"MEMORY_READ", "MEMORY_WB"}, NEW r \in Cache,
         NEW d \in Value, queueMemory(type, r, d)
  PROVE  /\ AtMemory' = {[Type |-> type, OriginalRequestorMachId |-> r,
                          DataBlk |-> d]}
         /\ Len(memQueue') = 1
         /\ AtMemory = {}
<1>1. memQueue = << >> /\ AtMemory = {}
  BY MemoryHead
<1>2. memQueue' = <<[Type |-> type, OriginalRequestorMachId |-> r, DataBlk |-> d]>>
  BY <1>1 DEF queueMemory
<1>. QED  BY <1>1, <1>2 DEF AtMemory

\* Whoever asks for the block has nothing of it under way, and is not the owner.
LEMMA Asker ==
  ASSUME LocalInv, Expected, NEW r \in Cache, requestNet[r] # << >>,
         Request(r).Type \in {"GETS", "GETM"}
  PROVE  /\ Request(r).Type = "GETS" => CacheState[r] = "IS_D"
         /\ Request(r).Type = "GETM" => CacheState[r] \in {"IM_AD", "SM_AD"}
         /\ ~ FromMemory(r) /\ ~ FromOwner(r) /\ ~ DataComing(r)
         /\ ~ Forwarded(r, {"GETS", "GETM", "WB_ACK"})
         /\ CacheState[r] = "IS_D" => Inbox(r) = {}
         /\ OwesAck(r) = {} /\ pendingAcks[r] = 0
         /\ ~ Exclusive(r) /\ r \notin Owner
<1>0. NetTypeOK /\ DirTypeOK /\ Owner \subseteq Cache
  BY DEF LocalInv, TypeOK, DirTypeOK
<1>1. Asked(r) = {Request(r)}
  BY <1>0, AskedHead DEF Expected
<1>2. /\ Request(r).Type = "GETS" => CacheState[r] = "IS_D"
      /\ Request(r).Type = "GETM" => CacheState[r] \in {"IM_AD", "SM_AD"}
  BY <1>1 DEF Expected, RequestsExpected
<1>3. ~ FromMemory(r) /\ ~ FromOwner(r) /\ ~ DataComing(r)
  BY <1>1 DEF Expected, OneSource
<1>4. ~ AwaitsAcks(r) /\ ~ Exclusive(r)
  BY <1>2, <1>3 DEF AwaitsAcks, Exclusive, DataComing
<1>5. ~ Forwarded(r, {"GETS", "GETM", "WB_ACK"})
  BY <1>1, <1>2 DEF Expected, ForwardsExpected, Forwarded
<1>6. CacheState[r] = "IS_D" => Inbox(r) = {}
  <2>1. Inbox(r) \subseteq ForwardMsg
    BY <1>0, InboxHead DEF Expected
  <2>2. CacheState[r] = "IS_D" => ~ Forwarded(r, {"INV"})
    BY <1>1 DEF Expected, ForwardsExpected, Forwarded
  <2>. QED  BY <1>5, <2>1, <2>2 DEF Forwarded, ForwardMsg
<1>7. OwesAck(r) = {} /\ pendingAcks[r] = 0
  BY <1>2, <1>4 DEF Expected, AcksExpected
<1>8. r \notin Owner
  BY <1>1, <1>2 DEF Expected, OwnerExpected
<1>. QED  BY <1>2, <1>3, <1>4, <1>5, <1>6, <1>7, <1>8

\* While nobody has the exclusive right, no cache is told to invalidate.
LEMMA NoInvalidation ==
  ASSUME NetTypeOK, Expected, AtDirectory
  PROVE  /\ \A d \in Cache : ~ Exclusive(d) /\ ~ Forwarded(d, {"INV"})
         /\ \A d \in Cache : Reader(d) => d \in Sharers
<1>1. \A d \in Cache : ~ Exclusive(d)
  BY DEF Expected, OneHolder
<1>2. \A d \in Cache : ~ Forwarded(d, {"INV"})
  BY <1>1, InvWaits
<1>3. \A d \in Cache : Reader(d) => d \in Sharers
  BY <1>1, <1>2 DEF Expected, ReadersKnown
<1>. QED  BY <1>1, <1>2, <1>3

-----------------------------------------------------------------------------
(* Expected under the transitions of the directory. *)

\* The directory fetches the block for a cache that wants to read or write it.
LEMMA FetchKeeps ==
  ASSUME LocalInv, Expected, NEW r \in Cache, NEW s,
         requestNet[r] # << >>, DirectoryState = "I",
         \/ Request(r).Type = "GETS" /\ s = "IS_D" /\ UNCHANGED Owner
         \/ Request(r).Type = "GETM" /\ s = "IM_D" /\ Owner' = {r},
         Fetch(r, s), UNCHANGED <<cacheVars, seqVars>>
  PROVE  Expected'
<1>0. NetTypeOK /\ DirTypeOK /\ CacheTypeOK /\ DirBookkeeping
  BY DEF LocalInv, TypeOK
<1>1. /\ ChannelsShort /\ RequestsExpected /\ ForwardsExpected /\ OneSource
      /\ ResponsesExpected /\ MemoryExpected /\ AcksExpected /\ AckAccounting
      /\ OneHolder /\ OwnerExpected /\ SharersExpected /\ ReadersKnown
  BY DEF Expected
<1>2. /\ \A d \in Cache : Inbox(d)' = Inbox(d)
      /\ \A d \in Cache : OwesAck(d)' = OwesAck(d)
      /\ UNCHANGED <<forwardNet, responseNet, Sharers>>
      /\ CacheState' = CacheState /\ pendingAcks' = pendingAcks
      /\ DirectoryState' = s
  BY DEF Fetch, setDirState, Inbox, OwesAck, cacheVars
<1>3. /\ Asked(r)' = {}
      /\ \A d \in Cache \ {r} : Asked(d)' = Asked(d)
      /\ \A d \in Cache : Asked(d)' \subseteq Asked(d)
      /\ \A d \in Cache : Len(requestNet[d])' \in {0, 1}
  BY <1>0, <1>1, PopRequestAsked DEF Fetch
<1>4. /\ AtMemory' = {[Type |-> "MEMORY_READ", OriginalRequestorMachId |-> r,
                       DataBlk |-> dirDataBlk]}
      /\ Len(memQueue') = 1 /\ AtMemory = {}
  BY <1>0, <1>1, QueueMemoryAlone DEF Fetch, DirTypeOK, MemState
<1>5. /\ ~ FromMemory(r) /\ ~ FromOwner(r) /\ ~ DataComing(r)
      /\ ~ Forwarded(r, {"GETS", "GETM", "WB_ACK"})
      /\ CacheState[r] \in {"IS_D", "IM_AD", "SM_AD"}
      /\ s = "IS_D" => CacheState[r] = "IS_D"
  BY Asker
<1>6. /\ AtDirectory /\ AtDirectory' /\ Sharers = {} /\ Owner = {}
      /\ ~ DataComing(Dir) /\ ~ DataComing(Dir)'
      /\ \A d \in Cache : ~ Exclusive(d) /\ ~ Forwarded(d, {"INV"})
      /\ \A d \in Cache : ~ Reader(d)
  <2>1. AtDirectory /\ Sharers = {} /\ Owner = {} /\ AtDirectory'
    BY <1>0, <1>2 DEF AtDirectory, DirBookkeeping
  <2>2. ~ DataComing(Dir) /\ ~ DataComing(Dir)'
    BY <1>1, <1>2 DEF OneHolder, DataComing
  <2>. QED  BY <1>0, <2>1, <2>2, NoInvalidation
<1>7. Inbox(r) = {} /\ (s = "IM_D" => CacheState[r] = "IM_AD")
  <2>1. Inbox(r) \subseteq ForwardMsg
    BY <1>0, <1>1, InboxHead
  <2>2. Inbox(r) = {}
    BY <1>5, <1>6, <2>1 DEF Forwarded, ForwardMsg
  <2>3. s = "IM_D" => CacheState[r] \in {"IM_AD", "SM_AD"}
    BY Asker
  <2>. QED  BY <1>6, <2>2, <2>3 DEF Reader
<1>8. \A d \in Cache : /\ FromOwner(d)' <=> FromOwner(d)
                       /\ FromMemory(d)' <=> d = r
                       /\ DataComing(d)' <=> DataComing(d)
                       /\ ~ Exclusive(d)' /\ ~ Reader(d)'
  <2>1. \A d \in Cache : /\ FromOwner(d)' <=> FromOwner(d)
                         /\ DataComing(d)' <=> DataComing(d)
    BY <1>2 DEF FromOwner, DataComing
  <2>2. \A d \in Cache : FromMemory(d)' <=> d = r
    BY <1>4 DEF FromMemory
  <2>3. \A d \in Cache : ~ Exclusive(d)'
    BY <1>2, <1>3, <1>6, <2>1 DEF Exclusive, Forwarded
  <2>4. \A d \in Cache : ~ Reader(d)'
    BY <1>2, <1>6, <2>1 DEF Reader
  <2>. QED  BY <2>1, <2>2, <2>3, <2>4
<1>9. /\ ~ FromMemory(r) /\ \A d \in Cache : ~ Forwarded(d, {"GETS"})
      /\ \A d \in Cache : ~ Forwarded(d, {"GETS"})'
  BY <1>1, <1>2, <1>5 DEF OneHolder, Forwarded
<1>10. ChannelsShort'
  BY <1>1, <1>2, <1>3, <1>4 DEF ChannelsShort, MemState
<1>11. RequestsExpected'
  BY <1>1, <1>2, <1>3 DEF RequestsExpected
<1>12. ForwardsExpected'
  BY <1>1, <1>2, <1>3 DEF ForwardsExpected, Forwarded, StoreMissState
<1>13. OneSource'
  BY <1>1, <1>2, <1>3, <1>5, <1>8 DEF OneSource
<1>14. ResponsesExpected'
  BY <1>1, <1>2, <1>3 DEF ResponsesExpected, OneSource, DataComing
<1>15. MemoryExpected'
  BY <1>2, <1>3, <1>4, <1>5, <1>7 DEF MemoryExpected
<1>16. AcksExpected'
  BY <1>1, <1>2, <1>3 DEF AcksExpected, AwaitsAcks, DataComing
<1>17. AckAccounting'
  BY <1>1, <1>2, <1>3 DEF AckAccounting, DataComing
<1>18. OneHolder'
  BY <1>1, <1>2, <1>6, <1>8, <1>9 DEF OneHolder
<1>19. OwnerExpected'
  BY <1>2, <1>3, <1>5, <1>6, <1>7 DEF OwnerExpected, Forwarded, StoreMissState
<1>20. SharersExpected'
  BY <1>2, <1>6 DEF SharersExpected
<1>21. ReadersKnown'
  BY <1>8 DEF ReadersKnown
<1>. QED
  BY <1>10, <1>11, <1>12, <1>13, <1>14, <1>15,
     <1>16, <1>17, <1>18, <1>19, <1>20, <1>21 DEF Expected

\* The event that the head of the request port triggers.
LEMMA RequestHead ==
  ASSUME NetTypeOK, NEW r \in Cache, NEW E, NEW S, OnRequest(r, E, S)
  PROVE  /\ requestNet[r] # << >> /\ DirectoryState \in S
         /\ Request(r) \in RequestMsg
         /\ E = {"GETS"} => Request(r).Type = "GETS"
         /\ E = {"GETM"} => Request(r).Type = "GETM"
         /\ E = {"PUTM_Owner"} => Request(r).Type = "PUTM" /\ r \in Owner
         /\ E \subseteq {"PUTS_Last", "PUTS_NotLast", "PUTM_NotOwner"} =>
              \/ Request(r).Type = "PUTS"
              \/ Request(r).Type = "PUTM" /\ r \notin Owner
<1>1. requestNet[r] # << >> /\ DirectoryState \in S /\ RequestEvent(r) \in E
  BY DEF OnRequest
<1>2. Request(r) \in RequestMsg
  BY <1>1, PopRequestType DEF Request
<1>3. Request(r).Type \in {"GETS", "GETM", "PUTS", "PUTM"}
  BY <1>2 DEF RequestMsg
<1>. QED  BY <1>1, <1>2, <1>3 DEF RequestEvent, PUTMEvent, PUTSEvent

\* The directory sends its copy to a cache that wants to read it.
LEMMA SendSharedKeeps ==
  ASSUME NetTypeOK, DirTypeOK, CacheTypeOK, Expected, AtDirectory,
         NEW r \in Cache, NEW b,
         CacheState[r] = "IS_D", Inbox(r) = {}, ~ FromOwner(r), ~ DataComing(r),
         Owner = {}, DirectoryState \in {"S", "IS_D"},
         SendResponse({DataFromDir(r, b, 0)}), Sharers' = Sharers \cup {r},
         DirectoryState' = "S", Asked(r)' = {}, AtMemory' = {}, Len(memQueue') = 0,
         \A d \in Cache \ {r} : Asked(d)' = Asked(d),
         \A d \in Cache : Len(requestNet[d])' \in {0, 1},
         UNCHANGED <<forwardNet, Owner, CacheState, pendingAcks>>
  PROVE  Expected'
<1>1. /\ ChannelsShort /\ RequestsExpected /\ ForwardsExpected /\ OneSource
      /\ ResponsesExpected /\ MemoryExpected /\ AcksExpected /\ AckAccounting
      /\ OneHolder /\ OwnerExpected /\ SharersExpected /\ ReadersKnown
  BY DEF Expected
<1>2. /\ \A d \in Cache : Inbox(d)' = Inbox(d)
      /\ Sharers \subseteq Cache
  BY DEF Inbox, DirTypeOK
<1>3. /\ responseNet' = responseNet \cup {DataFromDir(r, b, 0)}
      /\ DataFromDir(r, b, 0).Type = "DATA_FROM_DIR"
      /\ DataFromDir(r, b, 0).AckCount = 0
      /\ DataFromDir(r, b, 0).Destination = r
      /\ r # Dir
  BY CacheAssumption DEF SendResponse, DataFromDir
<1>4. \A d \in Cache : OwesAck(d)' = OwesAck(d)
  <2>. SUFFICES ASSUME NEW d \in Cache PROVE OwesAck(d)' = OwesAck(d)
    OBVIOUS
  <2>1. \A e \in Cache : InvAck(e, d).Type = "ACK"
    BY DEF InvAck
  <2>2. \A e \in Cache : (Inv(d) \in Inbox(e)' \/ InvAck(e, d) \in responseNet')
                     <=> (Inv(d) \in Inbox(e) \/ InvAck(e, d) \in responseNet)
    BY <1>2, <1>3, <2>1
  <2>. QED  BY <2>2, OwesInbox
<1>5. /\ pendingAcks[r] = 0 /\ OwesAck(r) = {} /\ Cardinality(OwesAck(r)) = 0
  <2>1. pendingAcks[r] = 0 /\ OwesAck(r) = {}
    BY <1>1 DEF AcksExpected, AwaitsAcks
  <2>. QED  BY <2>1, FS_EmptySet
<1>6. /\ AtDirectory' /\ ~ DataComing(Dir) /\ ~ DataComing(Dir)'
      /\ \A d \in Cache : DataComing(d)' <=> DataComing(d) \/ d = r
      /\ \A d \in Cache : FromOwner(d)' <=> FromOwner(d)
      /\ \A d \in Cache : ~ FromMemory(d)'
  <2>1. AtDirectory'
    BY DEF AtDirectory
  <2>2. ~ DataComing(Dir)
    BY <1>1 DEF OneHolder
  <2>3. ~ DataComing(Dir)' /\ \A d \in Cache : DataComing(d)' <=> DataComing(d) \/ d = r
    BY <1>3, <2>2 DEF DataComing
  <2>. QED  BY <1>2, <2>1, <2>2, <2>3 DEF FromOwner, FromMemory
<1>7. /\ \A d \in Cache : ~ Exclusive(d)' /\ ~ Forwarded(d, {"INV"})
      /\ \A d \in Cache : Reader(d) => d \in Sharers
  <2>1. /\ \A d \in Cache : ~ Exclusive(d) /\ ~ Forwarded(d, {"INV"})
        /\ \A d \in Cache : Reader(d) => d \in Sharers
    BY NoInvalidation
  <2>2. \A d \in Cache : ~ Exclusive(d)'
    BY <1>2, <1>6, <2>1 DEF Exclusive, Forwarded
  <2>. QED  BY <2>1, <2>2
<1>8. /\ \A d \in Cache : ~ Forwarded(d, {"GETS"})
      /\ \A d \in Cache : ~ Forwarded(d, {"GETS"})'
      /\ \A m, n \in responseNet' : m.Destination = Dir /\ n.Destination = Dir => m = n
  <2>1. \A d \in Cache : ~ Forwarded(d, {"GETS"})
    BY <1>1 DEF OneHolder
  <2>2. \A m, n \in responseNet' : m.Destination = Dir /\ n.Destination = Dir => m = n
    BY <1>1, <1>3 DEF OneHolder
  <2>. QED  BY <1>2, <2>1, <2>2 DEF Forwarded
<1>9. ChannelsShort'
  BY <1>1, <1>2, <1>3 DEF ChannelsShort, MemState
<1>10. RequestsExpected'
  BY <1>1, <1>2, <1>3 DEF RequestsExpected
<1>11. ForwardsExpected'
  BY <1>1, <1>2, <1>3 DEF ForwardsExpected, Forwarded, StoreMissState
<1>12. OneSource'
  BY <1>1, <1>2, <1>3, <1>6 DEF OneSource, DataComing
<1>13. ResponsesExpected'
  BY <1>1, <1>2, <1>3 DEF ResponsesExpected, OneSource, DataComing
<1>14. MemoryExpected'
  BY DEF MemoryExpected
<1>15. AcksExpected'
  BY <1>1, <1>2, <1>3, <1>4, <1>5 DEF AcksExpected, AwaitsAcks, InvAck
<1>16. AckAccounting'
  <2>1. DataFromDir(r, b, 0).AckCount = 0 /\ pendingAcks[r] - 0 = 0
    BY <1>3, <1>5
  <2>2. \A m \in responseNet : m.Destination = r => m.Type # "DATA_FROM_DIR"
    BY DEF DataComing
  <2>. QED  BY <1>1, <1>3, <1>4, <1>5, <2>1, <2>2 DEF AckAccounting
<1>17. OneHolder'
  BY <1>6, <1>7, <1>8 DEF OneHolder
<1>18. OwnerExpected'
  BY DEF OwnerExpected, Forwarded, StoreMissState
<1>19. SharersExpected'
  BY <1>1, <1>2, <1>3 DEF SharersExpected, Forwarded
<1>20. ReadersKnown'
  BY <1>6, <1>7 DEF ReadersKnown, Reader
<1>. QED
  BY <1>9, <1>10, <1>11, <1>12, <1>13, <1>14,
     <1>15, <1>16, <1>17, <1>18, <1>19, <1>20 DEF Expected

LEMMA GetSSharedKeeps ==
  ASSUME LocalInv, Expected, NEW r \in Cache, GetSShared(r),
         UNCHANGED <<cacheVars, seqVars>>
  PROVE  Expected'
<1>0. NetTypeOK /\ DirTypeOK /\ CacheTypeOK /\ DirBookkeeping /\ ChannelsShort
  BY DEF LocalInv, TypeOK, Expected
<1>1. /\ requestNet[r] # << >> /\ Request(r).Type = "GETS"
      /\ DirectoryState = "S" /\ Owner = {}
  BY <1>0, RequestHead DEF GetSShared, DirBookkeeping
<1>2. CacheState[r] = "IS_D" /\ Inbox(r) = {} /\ ~ FromOwner(r) /\ ~ DataComing(r)
  BY <1>1, Asker
<1>3. memQueue = << >> /\ AtMemory = {} /\ AtDirectory
  BY <1>0, <1>1, MemoryHead DEF MemState, AtDirectory
<1>4. /\ Asked(r)' = {} /\ \A d \in Cache \ {r} : Asked(d)' = Asked(d)
      /\ \A d \in Cache : Len(requestNet[d])' \in {0, 1}
  BY <1>0, <1>1, PopRequestAsked DEF GetSShared
<1>5. /\ SendResponse({DataFromDir(r, dirDataBlk, 0)}) /\ Sharers' = Sharers \cup {r}
      /\ DirectoryState' = "S" /\ AtMemory' = {} /\ memQueue' = << >>
      /\ UNCHANGED <<forwardNet, Owner, CacheState, pendingAcks>>
  BY <1>1, <1>3 DEF GetSShared, AtMemory, cacheVars
<1>6. Len(memQueue') = 0
  BY <1>5
<1>. QED  BY <1>0, <1>1, <1>2, <1>3, <1>4, <1>5, <1>6, SendSharedKeeps

LEMMA MemoryDataSharedKeeps ==
  ASSUME LocalInv, Expected, MemoryDataShared, UNCHANGED <<cacheVars, seqVars>>
  PROVE  Expected'
<1>0. NetTypeOK /\ DirTypeOK /\ CacheTypeOK /\ DirBookkeeping /\ ChannelsShort
  BY DEF LocalInv, TypeOK, Expected
<1>. DEFINE q == Head(memQueue)
            r == MemoryRequestor
<1>1. /\ memQueue # << >> /\ q.Type = "MEMORY_READ" /\ DirectoryState = "IS_D"
      /\ q \in MemoryMsg /\ AtMemory = {q} /\ Tail(memQueue) = << >> /\ r \in Cache
      /\ Owner = {} /\ AtDirectory
  BY <1>0, MemoryHead
     DEF MemoryDataShared, OnMemory, MemoryRequestor, MemoryMsg, DirBookkeeping,
         AtDirectory
<1>2. CacheState[r] = "IS_D" /\ Inbox(r) = {}
  BY <1>1 DEF Expected, MemoryExpected, MemoryRequestor
<1>3. ~ FromOwner(r) /\ ~ DataComing(r) /\ Asked(r) = {}
  <2>1. FromMemory(r)
    BY <1>1 DEF FromMemory, MemoryRequestor
  <2>. QED  BY <1>1, <2>1 DEF Expected, OneSource
<1>4. /\ \A d \in Cache : Asked(d)' = Asked(d)
      /\ \A d \in Cache : Len(requestNet[d])' \in {0, 1}
  BY <1>0 DEF MemoryDataShared, Asked, ChannelsShort
<1>5. /\ SendResponse({DataFromDir(r, q.DataBlk, 0)}) /\ Sharers' = Sharers \cup {r}
      /\ DirectoryState' = "S" /\ AtMemory' = {} /\ memQueue' = << >>
      /\ UNCHANGED <<forwardNet, Owner, CacheState, pendingAcks>>
  BY <1>1 DEF MemoryDataShared, AtMemory, cacheVars, setDirState
<1>6. Len(memQueue') = 0
  BY <1>5
<1>. QED  BY <1>0, <1>1, <1>2, <1>3, <1>4, <1>5, <1>6, SendSharedKeeps

\* The directory sends its copy to a cache that wants to write it, after having
\* told the other sharers.
LEMMA SendModifiedKeeps ==
  ASSUME NetTypeOK, DirTypeOK, CacheTypeOK, Expected, AtDirectory,
         NEW r \in Cache, NEW b, NEW n \in Int,
         CacheState[r] \in {"IM_AD", "SM_AD"}, Inbox(r) = {},
         ~ FromOwner(r), ~ DataComing(r),
         DirectoryState \in {"S", "IM_D"}, n = 0 - Cardinality(Sharers \ {r}),
         SendResponse({DataFromDir(r, b, n)}), SendForward(Sharers \ {r}, Inv(r)),
         Sharers' = {}, Owner' = {r}, DirectoryState' = "M",
         Asked(r)' = {}, AtMemory' = {}, Len(memQueue') = 0,
         \A d \in Cache \ {r} : Asked(d)' = Asked(d),
         \A d \in Cache : Len(requestNet[d])' \in {0, 1},
         UNCHANGED <<CacheState, pendingAcks>>
  PROVE  Expected'
<1>1. /\ ChannelsShort /\ RequestsExpected /\ ForwardsExpected /\ OneSource
      /\ ResponsesExpected /\ MemoryExpected /\ AcksExpected /\ AckAccounting
      /\ OneHolder /\ OwnerExpected /\ SharersExpected /\ ReadersKnown
  BY DEF Expected
<1>2. /\ Sharers \subseteq Cache /\ Inv(r).Type = "INV" /\ Inv(r).Requestor = r
      /\ Inv(r) \in ForwardMsg /\ IsFiniteSet(Sharers \ {r})
  BY SharersFinite, FS_Subset DEF DirTypeOK, Inv, ForwardMsg
<1>3. /\ \A d \in Cache : ~ Exclusive(d) /\ ~ Forwarded(d, {"INV", "GETS"})
      /\ \A d \in Cache : Reader(d) => d \in Sharers
      /\ ~ DataComing(Dir)
      /\ \A d \in Sharers : Inbox(d) = {}
  <2>1. /\ \A d \in Cache : ~ Exclusive(d) /\ ~ Forwarded(d, {"INV"})
        /\ \A d \in Cache : Reader(d) => d \in Sharers
    BY NoInvalidation
  <2>2. ~ DataComing(Dir) /\ \A d \in Cache : ~ Forwarded(d, {"GETS"})
    BY <1>1 DEF OneHolder
  <2>3. \A d \in Cache : ~ Forwarded(d, {"INV", "GETS"})
    BY <2>1, <2>2 DEF Forwarded
  <2>4. ASSUME NEW d \in Sharers PROVE Inbox(d) = {}
    <3>1. d \in Cache /\ ~ Forwarded(d, {"GETM", "WB_ACK"})
      BY <1>1, <1>2 DEF SharersExpected
    <3>2. Inbox(d) \subseteq ForwardMsg
      BY <1>1, <3>1, InboxHead
    <3>. QED  BY <2>3, <3>1, <3>2 DEF Forwarded, ForwardMsg
  <2>. QED  BY <2>1, <2>2, <2>3, <2>4
<1>4. /\ \A d \in Cache \ (Sharers \ {r}) : Inbox(d)' = Inbox(d)
      /\ \A d \in Sharers \ {r} : Inbox(d)' = {Inv(r)}
      /\ \A d \in Cache : ForwardOrder(d)'
  <2>1. \A d \in Cache :
          /\ Inbox(d)' = IF d \in Sharers \ {r} THEN Inbox(d) \cup {Inv(r)}
                                                ELSE Inbox(d)
          /\ ForwardOrder(d)'
    <3>1. \A d \in Cache \cap (Sharers \ {r}) : Inbox(d) = {}
      BY <1>3
    <3>. QED  BY <1>1, <1>2, <3>1, SendForwardInbox DEF Forwarded
  <2>. QED  BY <1>2, <1>3, <2>1
<1>5. /\ responseNet' = responseNet \cup {DataFromDir(r, b, n)}
      /\ DataFromDir(r, b, n).Type = "DATA_FROM_DIR"
      /\ DataFromDir(r, b, n).AckCount = n
      /\ DataFromDir(r, b, n).Destination = r
      /\ r # Dir
  BY CacheAssumption DEF SendResponse, DataFromDir
<1>6. pendingAcks[r] = 0 /\ OwesAck(r) = {}
  BY <1>1 DEF AcksExpected, AwaitsAcks, DataComing
<1>7. /\ OwesAck(r)' = Sharers \ {r}
      /\ \A d \in Cache \ {r} : OwesAck(d)' = OwesAck(d)
      /\ \A d \in Cache : InvAck(d, r) \notin responseNet'
  <2>1. \A d, e \in Cache : InvAck(e, d).Type = "ACK"
    BY DEF InvAck
  <2>2. \A d \in Cache : Inv(d) = Inv(r) => d = r
    BY DEF Inv
  <2>3. \A d \in Cache : Inv(r) \notin Inbox(d) /\ InvAck(d, r) \notin responseNet
    BY <1>6, OwesInbox
  <2>4. \A d \in Cache : InvAck(d, r) \notin responseNet'
    BY <1>5, <2>1, <2>3
  <2>5. \A e \in Cache : (Inv(r) \in Inbox(e)' \/ InvAck(e, r) \in responseNet')
                       <=> e \in Sharers \ {r}
    BY <1>4, <2>3, <2>4
  <2>6. OwesAck(r)' = Sharers \ {r}
    BY <1>2, <2>5, OwesInbox
  <2>7. ASSUME NEW d \in Cache \ {r} PROVE OwesAck(d)' = OwesAck(d)
    <3>1. \A e \in Cache : (Inv(d) \in Inbox(e)' \/ InvAck(e, d) \in responseNet')
                       <=> (Inv(d) \in Inbox(e) \/ InvAck(e, d) \in responseNet)
      <4>. SUFFICES ASSUME NEW e \in Cache
                    PROVE  (Inv(d) \in Inbox(e)' \/ InvAck(e, d) \in responseNet')
                       <=> (Inv(d) \in Inbox(e) \/ InvAck(e, d) \in responseNet)
        OBVIOUS
      <4>1. InvAck(e, d) \in responseNet' <=> InvAck(e, d) \in responseNet
        BY <1>5, <2>1
      <4>2. Inv(d) \in Inbox(e)' <=> Inv(d) \in Inbox(e)
        BY <1>3, <1>4, <2>2
      <4>. QED  BY <4>1, <4>2
    <3>. QED  BY <3>1, OwesInbox
  <2>. QED  BY <2>4, <2>6, <2>7
<1>8. /\ ~ DataComing(Dir)'
      /\ \A d \in Cache : DataComing(d)' <=> DataComing(d) \/ d = r
      /\ \A d \in Cache : ~ FromMemory(d)'
  BY <1>3, <1>5 DEF DataComing, FromMemory
<1>9. \A d \in Cache : FromOwner(d)' <=> FromOwner(d)
  BY <1>2, <1>3, <1>4 DEF FromOwner
<1>10. /\ \A d \in Cache : Exclusive(d)' <=> d = r
       /\ ~ AtDirectory'
       /\ \A d \in Cache : ~ Forwarded(d, {"GETS"})'
       /\ \A d \in Sharers \ {r} : Forwarded(d, {"INV"})'
  <2>1. ~ AtDirectory'
    BY <1>8 DEF AtDirectory
  <2>2. Exclusive(r)'
    BY <1>8 DEF Exclusive
  <2>3. ASSUME NEW d \in Cache \ {r} PROVE ~ Exclusive(d)'
    <3>1. Forwarded(d, {"GETS", "GETM"})' => Forwarded(d, {"GETS", "GETM"})
      BY <1>2, <1>4 DEF Forwarded
    <3>. QED  BY <1>3, <1>8, <3>1 DEF Exclusive
  <2>4. \A d \in Cache : ~ Forwarded(d, {"GETS"})'
    BY <1>2, <1>3, <1>4 DEF Forwarded
  <2>5. \A d \in Sharers \ {r} : Forwarded(d, {"INV"})'
    BY <1>2, <1>4 DEF Forwarded
  <2>. QED  BY <2>1, <2>2, <2>3, <2>4, <2>5
<1>11. \A d \in Sharers \ {r} :
         /\ CacheState[d] \in {"IS_D", "S", "SM_AD", "SI_A"}
         /\ CacheState[d] = "IS_D" => Asked(d)' = {}
  BY <1>1, <1>2, <1>3 DEF SharersExpected, Forwarded
<1>12. /\ \A d \in Cache : AwaitsAcks(d)' <=> AwaitsAcks(d) \/ d = r
       /\ \A m \in responseNet : m.Destination = r => m.Type # "DATA_FROM_DIR"
  BY <1>5 DEF AwaitsAcks, DataComing
<1>25. \A d \in Cache : \A f \in Inbox(d)' :
         f.Type \in {"GETS", "GETM"} => f \in Inbox(d)
  BY <1>2, <1>4
<1>26. \A m, k \in responseNet' : m.Destination = Dir /\ k.Destination = Dir => m = k
  BY <1>1, <1>5 DEF OneHolder
<1>13. ChannelsShort'
  BY <1>4 DEF ChannelsShort, ForwardOrder, MemState
<1>14. RequestsExpected'
  BY <1>1 DEF RequestsExpected
<1>15. ForwardsExpected'
  BY <1>1, <1>2, <1>3, <1>4, <1>5, <1>11
     DEF ForwardsExpected, Forwarded, StoreMissState
<1>16. OneSource'
  <2>1. \A c \in Cache :
          /\ FromMemory(c)' \/ FromOwner(c)' \/ DataComing(c)'
               => Asked(c)' = {} /\ CacheState[c] \in {"IS_D", "IM_AD", "SM_AD"}
          /\ FromMemory(c)' => ~ FromOwner(c)' /\ ~ DataComing(c)'
          /\ FromOwner(c)' => ~ DataComing(c)'
    BY <1>1, <1>8, <1>9 DEF OneSource
  <2>2. ASSUME NEW c \in Cache, NEW d \in Cache, NEW e \in Cache,
               NEW f \in Inbox(d)', NEW g \in Inbox(e)',
               f.Type \in {"GETS", "GETM"}, f.Requestor = c,
               g.Type \in {"GETS", "GETM"}, g.Requestor = c
        PROVE  d = e /\ f = g
    BY <1>1, <1>25, <2>2 DEF OneSource
  <2>3. ASSUME NEW c \in Cache, NEW m \in responseNet', NEW k \in responseNet',
               m.Type # "ACK", m.Destination = c, k.Type # "ACK", k.Destination = c
        PROVE  m = k
    <3>1. \A h \in responseNet : h.Type # "ACK" => h.Destination # r
      BY DEF DataComing
    <3>2. CASE c = r
      BY <1>5, <2>3, <3>1, <3>2
    <3>3. CASE c # r
      BY <1>1, <1>5, <2>3, <3>3 DEF OneSource
    <3>. QED  BY <3>2, <3>3
  <2>. QED  BY <2>1, <2>2, <2>3 DEF OneSource
<1>17. ResponsesExpected'
  BY <1>1, <1>2, <1>3, <1>4, <1>5 DEF ResponsesExpected, OneSource, DataComing
<1>18. MemoryExpected'
  BY DEF MemoryExpected
<1>19. AcksExpected'
  <2>1. OwesAck(r)' # {} => AwaitsAcks(r)' /\ r \notin OwesAck(r)'
    BY <1>7, <1>12
  <2>2. ASSUME NEW d \in Cache, Inv(r) \in Inbox(d)'
        PROVE  InvAck(d, r) \notin responseNet'
    BY <1>7
  <2>3. pendingAcks[r] <= 0 /\ AwaitsAcks(r)'
    BY <1>6, <1>12
  <2>4. ASSUME NEW c \in Cache \ {r}
        PROVE  /\ OwesAck(c)' # {} => AwaitsAcks(c)' /\ c \notin OwesAck(c)'
               /\ CacheState[c] \in {"IS_D", "IM_AD", "SM_AD"} =>
                    pendingAcks[c] <= 0 /\ (AwaitsAcks(c)' \/ pendingAcks[c] = 0)
    BY <1>1, <1>7, <1>12 DEF AcksExpected
  <2>5. ASSUME NEW c \in Cache \ {r}, NEW d \in Cache, Inv(c) \in Inbox(d)'
        PROVE  InvAck(d, c) \notin responseNet'
    <3>1. Inv(c) \in Inbox(d)
      BY <1>4, <2>5 DEF Inv
    <3>2. InvAck(d, c) \notin responseNet
      BY <1>1, <3>1 DEF AcksExpected
    <3>3. InvAck(d, c).Type = "ACK"
      BY DEF InvAck
    <3>. QED  BY <1>5, <3>2, <3>3
  <2>. QED  BY <2>1, <2>2, <2>3, <2>4, <2>5 DEF AcksExpected
<1>20. AckAccounting'
  <2>1. pendingAcks[r] - n = Cardinality(OwesAck(r)')
    <3>1. Cardinality(Sharers \ {r}) \in Nat
      BY <1>2, FS_CardinalityType
    <3>. QED  BY <1>6, <1>7, <3>1
  <2>2. \A m \in responseNet' :
          m.Destination = r /\ m.Type = "DATA_FROM_DIR" => m.AckCount = n
    BY <1>5, <1>12
  <2>3. \A c \in Cache \ {r} : \A m \in responseNet' :
          m.Destination = c => m \in responseNet
    BY <1>5
  <2>4. ASSUME NEW c \in Cache, NEW m \in responseNet',
               m.Destination = c, m.Type = "DATA_FROM_DIR"
        PROVE  pendingAcks[c] - m.AckCount = Cardinality(OwesAck(c)')
    <3>1. CASE c = r
      <4>1. m.AckCount = n
        BY <2>2, <2>4, <3>1
      <4>. QED  BY <2>1, <3>1, <4>1
    <3>2. CASE c # r
      <4>1. m \in responseNet /\ OwesAck(c)' = OwesAck(c)
        BY <1>7, <2>3, <2>4, <3>2
      <4>2. AckAccounting
        BY <1>1
      <4>3. pendingAcks[c] - m.AckCount = Cardinality(OwesAck(c))
        BY <2>4, <4>1, <4>2 DEF AckAccounting
      <4>. QED  BY <4>1, <4>3, Zenon
    <3>. QED  BY <3>1, <3>2
  <2>5. ASSUME NEW c \in Cache, CacheState[c] \in {"IM_A", "SM_A"}
        PROVE  pendingAcks[c] = Cardinality(OwesAck(c)') /\ pendingAcks[c] > 0
    <3>1. c # r
      BY <1>1, <2>5
    <3>2. OwesAck(c)' = OwesAck(c)
      BY <1>7, <3>1
    <3>3. AckAccounting
      BY <1>1
    <3>. QED  BY <2>5, <3>2, <3>3 DEF AckAccounting
  <2>. QED  BY <2>4, <2>5 DEF AckAccounting
<1>21. OneHolder'
  BY <1>8, <1>10, <1>26 DEF OneHolder
<1>22. OwnerExpected'
  BY <1>4 DEF OwnerExpected, Forwarded, StoreMissState
<1>23. SharersExpected'
  BY DEF SharersExpected
<1>24. ReadersKnown'
  BY <1>3, <1>8, <1>10 DEF ReadersKnown, Reader
<1>. QED
  BY <1>13, <1>14, <1>15, <1>16, <1>17, <1>18,
     <1>19, <1>20, <1>21, <1>22, <1>23, <1>24 DEF Expected

LEMMA AckCountSharers ==
  ASSUME DirTypeOK, NEW r \in Cache
  PROVE  AckCount(r) = 0 - Cardinality(Sharers \ {r}) /\ AckCount(r) \in Int
<1>1. IsFiniteSet(Sharers) /\ Cardinality(Sharers) \in Nat /\ AckCount(r) \in Int
  BY SharersFinite
<1>2. CASE r \in Sharers
  <2>1. Cardinality(Sharers \ {r}) = Cardinality(Sharers) - 1
    BY <1>1, <1>2, FS_RemoveElement
  <2>. QED  BY <1>1, <1>2, <2>1 DEF AckCount
<1>3. CASE r \notin Sharers
  <2>1. Sharers \ {r} = Sharers
    BY <1>3
  <2>. QED  BY <1>1, <1>3, <2>1 DEF AckCount
<1>. QED  BY <1>2, <1>3

LEMMA GetMSharedKeeps ==
  ASSUME LocalInv, Expected, NEW r \in Cache, GetMShared(r),
         UNCHANGED <<cacheVars, seqVars>>
  PROVE  Expected'
<1>0. NetTypeOK /\ DirTypeOK /\ CacheTypeOK /\ DirBookkeeping /\ ChannelsShort
  BY DEF LocalInv, TypeOK, Expected
<1>1. /\ requestNet[r] # << >> /\ Request(r).Type = "GETM"
      /\ DirectoryState = "S" /\ Owner = {}
  BY <1>0, RequestHead DEF GetMShared, DirBookkeeping
<1>2. memQueue = << >> /\ AtMemory = {} /\ AtDirectory
  BY <1>0, <1>1, MemoryHead DEF MemState, AtDirectory
<1>3. /\ CacheState[r] \in {"IM_AD", "SM_AD"} /\ ~ FromOwner(r) /\ ~ DataComing(r)
      /\ Inbox(r) = {}
  <2>1. /\ CacheState[r] \in {"IM_AD", "SM_AD"} /\ ~ FromOwner(r) /\ ~ DataComing(r)
        /\ ~ Forwarded(r, {"GETS", "GETM", "WB_ACK"})
    BY <1>1, Asker
  <2>2. ~ Forwarded(r, {"INV"})
    BY <1>0, <1>2, NoInvalidation
  <2>3. Inbox(r) \subseteq ForwardMsg
    BY <1>0, InboxHead
  <2>. QED  BY <2>1, <2>2, <2>3 DEF Forwarded, ForwardMsg
<1>4. /\ Asked(r)' = {} /\ \A d \in Cache \ {r} : Asked(d)' = Asked(d)
      /\ \A d \in Cache : Len(requestNet[d])' \in {0, 1}
  BY <1>0, <1>1, PopRequestAsked DEF GetMShared
<1>5. /\ SendResponse({DataFromDir(r, dirDataBlk, AckCount(r))})
      /\ SendForward(Sharers \ {r}, Inv(r))
      /\ Sharers' = {} /\ Owner' = {r} /\ DirectoryState' = "M"
      /\ AtMemory' = {} /\ memQueue' = << >>
      /\ UNCHANGED <<CacheState, pendingAcks>>
  BY <1>2 DEF GetMShared, InvDestination, Inv, setDirState, AtMemory, cacheVars
<1>6. Len(memQueue') = 0
  BY <1>5
<1>. QED
  BY <1>0, <1>1, <1>2, <1>3, <1>4, <1>5, <1>6, AckCountSharers, SendModifiedKeeps

LEMMA MemoryDataModifiedKeeps ==
  ASSUME LocalInv, Expected, MemoryDataModified, UNCHANGED <<cacheVars, seqVars>>
  PROVE  Expected'
<1>0. NetTypeOK /\ DirTypeOK /\ CacheTypeOK /\ DirBookkeeping /\ ChannelsShort
  BY DEF LocalInv, TypeOK, Expected
<1>. DEFINE q == Head(memQueue)
            r == MemoryRequestor
<1>1. /\ memQueue # << >> /\ q.Type = "MEMORY_READ" /\ DirectoryState = "IM_D"
      /\ q \in MemoryMsg /\ AtMemory = {q} /\ Tail(memQueue) = << >> /\ r \in Cache
      /\ Sharers = {} /\ AtDirectory
  BY <1>0, MemoryHead
     DEF MemoryDataModified, OnMemory, MemoryRequestor, MemoryMsg, DirBookkeeping,
         AtDirectory
<1>2. CacheState[r] = "IM_AD" /\ Owner = {r} /\ Inbox(r) = {}
  BY <1>1 DEF Expected, MemoryExpected, MemoryRequestor
<1>3. ~ FromOwner(r) /\ ~ DataComing(r) /\ Asked(r) = {}
  <2>1. FromMemory(r)
    BY <1>1 DEF FromMemory, MemoryRequestor
  <2>. QED  BY <1>1, <2>1 DEF Expected, OneSource
<1>4. /\ \A d \in Cache : Asked(d)' = Asked(d)
      /\ \A d \in Cache : Len(requestNet[d])' \in {0, 1}
  BY <1>0 DEF MemoryDataModified, Asked, ChannelsShort
<1>5. /\ SendResponse({DataFromDir(r, q.DataBlk, 0)})
      /\ Sharers' = {} /\ Owner' = {r} /\ DirectoryState' = "M"
      /\ AtMemory' = {} /\ memQueue' = << >>
      /\ UNCHANGED <<CacheState, pendingAcks, forwardNet>>
  BY <1>1, <1>2 DEF MemoryDataModified, AtMemory, cacheVars, setDirState
<1>6. Len(memQueue') = 0
  BY <1>5
<1>7. SendForward(Sharers \ {r}, Inv(r))
  BY <1>0, <1>1, <1>5 DEF SendForward, NetTypeOK
<1>8. 0 = 0 - Cardinality(Sharers \ {r})
  <2>1. Sharers \ {r} = {} /\ Cardinality({}) = 0
    BY <1>1, FS_EmptySet
  <2>. QED  BY <2>1
<1>. QED
  BY <1>0, <1>1, <1>2, <1>3, <1>4, <1>5, <1>6, <1>7, <1>8, SendModifiedKeeps

\* The directory forwards a request to the owner of the block.
LEMMA ForwardRequestKeeps ==
  ASSUME LocalInv, Expected, NEW r \in Cache, NEW f,
         requestNet[r] # << >>, DirectoryState = "M", PopRequest(r),
         f = [Type |-> Request(r).Type, Requestor |-> r], SendForward(Owner, f),
         \/ /\ f.Type = "GETS" /\ DirectoryState' = "M_SD"
            /\ Sharers' = {r} \cup Owner /\ Owner' = {}
         \/ /\ f.Type = "GETM" /\ DirectoryState' = "M"
            /\ Sharers' = {} /\ Owner' = {r},
         UNCHANGED <<responseNet, memQueue, cacheVars>>
  PROVE  Expected'
<1>0. /\ NetTypeOK /\ DirTypeOK /\ CacheTypeOK /\ DirBookkeeping
      /\ f.Type \in {"GETS", "GETM"} /\ f.Type = Request(r).Type /\ f.Requestor = r
      /\ f \in ForwardMsg
  BY DEF LocalInv, TypeOK, ForwardMsg
<1>1. /\ ChannelsShort /\ RequestsExpected /\ ForwardsExpected /\ OneSource
      /\ ResponsesExpected /\ MemoryExpected /\ AcksExpected /\ AckAccounting
      /\ OneHolder /\ OwnerExpected /\ SharersExpected /\ ReadersKnown
  BY DEF Expected
<1>2. PICK o \in Cache : Owner = {o} /\ Sharers = {}
  BY <1>0 DEF DirBookkeeping
<1>3. /\ f.Type = "GETS" => CacheState[r] = "IS_D" /\ Inbox(r) = {}
      /\ f.Type = "GETM" => CacheState[r] \in {"IM_AD", "SM_AD"}
      /\ ~ FromMemory(r) /\ ~ FromOwner(r) /\ ~ DataComing(r)
      /\ ~ Forwarded(r, {"GETS", "GETM", "WB_ACK"})
      /\ ~ Exclusive(r) /\ r # o
  BY <1>0, <1>2, Asker
<1>4. /\ \/ CacheState[o] \in StoreMissState \cup {"M"} /\ Asked(o) = {}
         \/ CacheState[o] = "MI_A" /\ Asked(o) # {}
      /\ ~ Forwarded(o, {"GETS", "GETM", "WB_ACK"})
  BY <1>1, <1>2 DEF OwnerExpected
<1>5. /\ Inbox(o)' = Inbox(o) \cup {f}
      /\ \A d \in Cache \ {o} : Inbox(d)' = Inbox(d)
      /\ \A d \in Cache : ForwardOrder(d)'
  <2>1. \A d \in Cache :
          /\ Inbox(d)' = IF d \in Owner THEN Inbox(d) \cup {f} ELSE Inbox(d)
          /\ ForwardOrder(d)'
    <3>1. /\ ~ Forwarded(o, {"WB_ACK"}) /\ ~ Forwarded(o, {"GETS", "GETM"})
          /\ Cache \cap Owner = {o}
      BY <1>2, <1>4 DEF Forwarded
    <3>. QED  BY <1>0, <1>1, <3>1, SendForwardInbox
  <2>. QED  BY <1>2, <2>1
<1>6. /\ Asked(r)' = {}
      /\ \A d \in Cache \ {r} : Asked(d)' = Asked(d)
      /\ \A d \in Cache : Len(requestNet[d])' \in {0, 1}
  BY <1>0, <1>1, PopRequestAsked
<1>7. /\ responseNet' = responseNet /\ AtMemory' = AtMemory /\ AtMemory = {}
      /\ CacheState' = CacheState /\ pendingAcks' = pendingAcks
      /\ memQueue' = memQueue /\ memQueue = << >>
  BY <1>0, <1>1, MemoryHead DEF AtMemory, cacheVars, MemState
<1>8. \A d \in Cache : OwesAck(d)' = OwesAck(d)
  <2>. SUFFICES ASSUME NEW d \in Cache PROVE OwesAck(d)' = OwesAck(d)
    OBVIOUS
  <2>1. Inv(d).Type = "INV"
    BY DEF Inv
  <2>2. \A e \in Cache : (Inv(d) \in Inbox(e)' \/ InvAck(e, d) \in responseNet')
                     <=> (Inv(d) \in Inbox(e) \/ InvAck(e, d) \in responseNet)
    BY <1>0, <1>5, <1>7, <2>1
  <2>. QED  BY <2>2, OwesInbox
<1>9. /\ ~ AtDirectory /\ ~ AtDirectory'
      /\ ~ DataComing(Dir) /\ ~ DataComing(Dir)'
      /\ \A d \in Cache : ~ Forwarded(d, {"GETS"})
      /\ \A d \in Cache : DataComing(d)' <=> DataComing(d)
      /\ \A d \in Cache : ~ FromMemory(d) /\ ~ FromMemory(d)'
      /\ \A d \in Cache : FromOwner(d)' <=> FromOwner(d) \/ d = r
  <2>1. ~ DataComing(Dir) /\ \A d \in Cache : ~ Forwarded(d, {"GETS"})
    BY <1>1 DEF OneHolder
  <2>2. \A n : DataComing(n)' <=> DataComing(n)
    BY <1>7 DEF DataComing
  <2>3. ~ AtDirectory /\ ~ AtDirectory'
    BY <2>1, <2>2 DEF AtDirectory
  <2>4. \A d \in Cache : FromOwner(d)' <=> FromOwner(d) \/ d = r
    BY <1>0, <1>5 DEF FromOwner
  <2>. QED  BY <1>7, <2>1, <2>2, <2>3, <2>4 DEF FromMemory
<1>10. \A d \in Cache : Exclusive(d)' <=> Exclusive(d)
  <2>1. ASSUME NEW d \in Cache \ {o} PROVE Exclusive(d)' <=> Exclusive(d)
    BY <1>3, <1>5, <1>6, <1>7, <1>9, <2>1 DEF Exclusive, Forwarded
  <2>2. Exclusive(o)' <=> Exclusive(o)
    BY <1>3, <1>4, <1>6, <1>7, <1>9 DEF Exclusive, StoreMissState
  <2>. QED  BY <2>1, <2>2
<1>11. CacheState[r] = "SM_AD" => Forwarded(r, {"INV"})
  BY <1>1, <1>2, <1>3 DEF ReadersKnown, Reader
<1>12. /\ \A d \in Cache : Forwarded(d, {"INV"})' <=> Forwarded(d, {"INV"})
       /\ \A d \in Cache : Forwarded(d, {"GETS"})' <=> d = o /\ f.Type = "GETS"
  BY <1>0, <1>5, <1>9 DEF Forwarded
<1>13. ChannelsShort'
  BY <1>5, <1>6, <1>7 DEF ChannelsShort, ForwardOrder, MemState
<1>14. RequestsExpected'
  BY <1>0, <1>1, <1>5, <1>6, <1>7 DEF RequestsExpected
<1>15. ForwardsExpected'
  BY <1>0, <1>1, <1>2, <1>3, <1>4, <1>5, <1>6, <1>7, <1>9, <1>11, <1>12
     DEF ForwardsExpected, Forwarded, StoreMissState
<1>16. OneSource'
  BY <1>0, <1>1, <1>5, <1>6, <1>7, <1>3, <1>9 DEF OneSource, FromOwner
<1>17. ResponsesExpected'
  BY <1>0, <1>1, <1>5, <1>6, <1>7 DEF ResponsesExpected, OneSource, DataComing
<1>18. MemoryExpected'
  BY <1>7 DEF MemoryExpected
<1>19. AcksExpected'
  BY <1>0, <1>1, <1>5, <1>6, <1>7, <1>8
     DEF AcksExpected, AwaitsAcks, DataComing, Inv
<1>20. AckAccounting'
  BY <1>1, <1>7, <1>8 DEF AckAccounting
<1>21. OneHolder'
  BY <1>1, <1>7, <1>9, <1>10, <1>12 DEF OneHolder
<1>22. OwnerExpected'
  BY <1>0, <1>1, <1>5, <1>6, <1>7, <1>3
     DEF OwnerExpected, Forwarded, StoreMissState
<1>23. SharersExpected'
  <2>. SUFFICES ASSUME f.Type = "GETS", Sharers' = {r, o} PROVE SharersExpected'
    BY <1>0, <1>2 DEF SharersExpected
  <2>1. /\ CacheState'[r] = "IS_D" /\ Asked(r)' = {} /\ Inbox(r)' = {}
    BY <1>3, <1>5, <1>6, <1>7
  <2>2. /\ Forwarded(o, {"GETS"})' /\ (CacheState'[o] = "MI_A" => Asked(o)' # {})
        /\ ~ Forwarded(o, {"GETM", "WB_ACK"})'
    BY <1>3, <1>4, <1>5, <1>6, <1>7 DEF Forwarded, StoreMissState
  <2>. QED  BY <2>1, <2>2 DEF SharersExpected, Forwarded
<1>24. ReadersKnown'
  BY <1>0, <1>1, <1>5, <1>6, <1>7, <1>2, <1>9, <1>10, <1>12
     DEF ReadersKnown, Reader
<1>. QED
  BY <1>13, <1>14, <1>15, <1>16, <1>17, <1>18,
     <1>19, <1>20, <1>21, <1>22, <1>23, <1>24 DEF Expected

LEMMA GetModifiedKeeps ==
  ASSUME LocalInv, Expected, NEW r \in Cache, GetSModified(r) \/ GetMModified(r),
         UNCHANGED <<cacheVars, seqVars>>
  PROVE  Expected'
<1>0. NetTypeOK /\ DirBookkeeping
  BY DEF LocalInv, TypeOK
<1>. DEFINE f == [Type |-> Request(r).Type, Requestor |-> r]
<1>1. CASE GetSModified(r)
  <2>1. /\ requestNet[r] # << >> /\ f.Type = "GETS" /\ DirectoryState = "M"
        /\ Sharers = {}
    BY <1>0, <1>1, RequestHead DEF GetSModified, DirBookkeeping
  <2>2. /\ PopRequest(r) /\ SendForward(Owner, f)
        /\ DirectoryState' = "M_SD" /\ Sharers' = {r} \cup Owner /\ Owner' = {}
        /\ UNCHANGED <<responseNet, memQueue, cacheVars>>
    BY <1>1, <2>1
       DEF GetSModified, f_forwardRequest, SharersAndOwner, setDirState
  <2>. QED  BY <2>1, <2>2, ForwardRequestKeeps
<1>2. CASE GetMModified(r)
  <2>1. /\ requestNet[r] # << >> /\ f.Type = "GETM" /\ DirectoryState = "M"
        /\ Sharers = {}
    BY <1>0, <1>2, RequestHead DEF GetMModified, DirBookkeeping
  <2>2. /\ PopRequest(r) /\ SendForward(Owner, f)
        /\ DirectoryState' = "M" /\ Sharers' = {} /\ Owner' = {r}
        /\ UNCHANGED <<responseNet, memQueue, cacheVars>>
    BY <1>2, <2>1 DEF GetMModified, f_forwardRequest
  <2>. QED  BY <2>1, <2>2, ForwardRequestKeeps
<1>. QED  BY <1>1, <1>2

\* The directory acknowledges the PUT of a cache that is not the owner.
LEMMA PutKeeps ==
  ASSUME LocalInv, Expected, NEW r \in Cache,
         requestNet[r] # << >>,
         \/ Request(r).Type = "PUTS"
         \/ Request(r).Type = "PUTM" /\ r \notin Owner,
         \/ DirectoryState \in {"I", "S", "M", "M_SD", "SD_S", "MI_D"}
              /\ DirectoryState' = DirectoryState
         \/ DirectoryState = "S" /\ DirectoryState' = "I",
         a_sendWriteBackAck(r), PopRequest(r), Sharers' = Sharers \ {r},
         UNCHANGED <<Owner, memQueue, cacheVars>>
  PROVE  Expected'
<1>0. NetTypeOK /\ DirTypeOK /\ CacheTypeOK /\ DirBookkeeping
  BY DEF LocalInv, TypeOK
<1>1. /\ ChannelsShort /\ RequestsExpected /\ ForwardsExpected /\ OneSource
      /\ ResponsesExpected /\ MemoryExpected /\ AcksExpected /\ AckAccounting
      /\ OneHolder /\ OwnerExpected /\ SharersExpected /\ ReadersKnown
  BY DEF Expected
<1>. DEFINE w == [Type |-> "WB_ACK", Requestor |-> Dir]
<1>2. /\ Asked(r) = {Request(r)} /\ Asked(r)' = {}
      /\ \A d \in Cache \ {r} : Asked(d)' = Asked(d)
      /\ \A d \in Cache : Asked(d)' \subseteq Asked(d)
      /\ \A d \in Cache : Len(requestNet[d])' \in {0, 1}
  BY <1>0, <1>1, PopRequestAsked
<1>3. /\ CacheState[r] \in {"SI_A", "II_A", "MI_A"}
      /\ r \notin Owner /\ ~ Forwarded(r, {"WB_ACK"})
  <2>1. CacheState[r] \in {"SI_A", "II_A", "MI_A"}
    BY <1>1, <1>2 DEF RequestsExpected
  <2>2. ~ Forwarded(r, {"WB_ACK"})
    BY <1>1, <1>2 DEF ForwardsExpected, Forwarded
  <2>3. CacheState[r] = "MI_A" => Request(r).Type # "PUTS"
    BY <1>1, <1>2 DEF RequestsExpected
  <2>4. r \in Owner => CacheState[r] = "MI_A"
    BY <1>1, <2>1 DEF OwnerExpected, StoreMissState
  <2>. QED  BY <2>1, <2>2, <2>3, <2>4
<1>4. /\ Inbox(r)' = Inbox(r) \cup {w}
      /\ \A d \in Cache \ {r} : Inbox(d)' = Inbox(d)
      /\ \A d \in Cache : ForwardOrder(d)'
      /\ w.Type = "WB_ACK"
  <2>1. w \in ForwardMsg
    BY DEF ForwardMsg, Node
  <2>2. ~ (Forwarded(r, {"INV"}) /\ Forwarded(r, {"GETS", "GETM"}))
    BY <1>1, <1>3 DEF ForwardsExpected, Forwarded, StoreMissState
  <2>3. \A d \in Cache :
          /\ Inbox(d)' = IF d \in {r} THEN Inbox(d) \cup {w} ELSE Inbox(d)
          /\ ForwardOrder(d)'
    BY <1>0, <1>1, <1>3, <2>1, <2>2, SendForwardInbox DEF a_sendWriteBackAck
  <2>. QED  BY <2>3
<1>5. /\ responseNet' = responseNet /\ AtMemory' = AtMemory /\ memQueue' = memQueue
      /\ CacheState' = CacheState /\ pendingAcks' = pendingAcks /\ Owner' = Owner
      /\ Sharers \subseteq Cache /\ Owner \subseteq Cache
  BY <1>0 DEF a_sendWriteBackAck, AtMemory, cacheVars, DirTypeOK
<1>6. \A d \in Cache : OwesAck(d)' = OwesAck(d)
  <2>. SUFFICES ASSUME NEW d \in Cache PROVE OwesAck(d)' = OwesAck(d)
    OBVIOUS
  <2>1. Inv(d).Type = "INV"
    BY DEF Inv
  <2>2. \A e \in Cache : (Inv(d) \in Inbox(e)' \/ InvAck(e, d) \in responseNet')
                     <=> (Inv(d) \in Inbox(e) \/ InvAck(e, d) \in responseNet)
    BY <1>4, <1>5, <2>1
  <2>. QED  BY <2>2, OwesInbox
<1>7. /\ \A n : DataComing(n)' <=> DataComing(n)
      /\ AtDirectory' <=> AtDirectory
      /\ \A d \in Cache : FromMemory(d)' <=> FromMemory(d)
      /\ \A d \in Cache : FromOwner(d)' <=> FromOwner(d)
  <2>1. \A n : DataComing(n)' <=> DataComing(n)
    BY <1>5 DEF DataComing
  <2>2. AtDirectory' <=> AtDirectory
    BY <2>1 DEF AtDirectory
  <2>3. \A d \in Cache : FromOwner(d)' <=> FromOwner(d)
    BY <1>4 DEF FromOwner
  <2>. QED  BY <1>5, <2>1, <2>2, <2>3 DEF FromMemory
<1>8. /\ \A d \in Cache : Exclusive(d)' => Exclusive(d)
      /\ \A d \in Cache \ {r} : Exclusive(d)' <=> Exclusive(d)
      /\ \A d \in Cache : Forwarded(d, {"GETS"})' <=> Forwarded(d, {"GETS"})
      /\ \A d \in Cache : Forwarded(d, {"INV"})' <=> Forwarded(d, {"INV"})
  <2>1. \A d \in Cache : /\ Forwarded(d, {"GETS"})' <=> Forwarded(d, {"GETS"})
                         /\ Forwarded(d, {"INV"})' <=> Forwarded(d, {"INV"})
                         /\ Forwarded(d, {"GETS", "GETM"})'
                              <=> Forwarded(d, {"GETS", "GETM"})
    BY <1>4 DEF Forwarded
  <2>2. \A d \in Cache : Exclusive(d)' => Exclusive(d)
    BY <1>2, <1>5, <1>7, <2>1 DEF Exclusive
  <2>3. \A d \in Cache \ {r} : Exclusive(d)' <=> Exclusive(d)
    BY <1>2, <1>5, <1>7, <2>1 DEF Exclusive
  <2>. QED  BY <2>1, <2>2, <2>3
<1>9. ChannelsShort'
  BY <1>1, <1>2, <1>3, <1>4, <1>5 DEF ChannelsShort, ForwardOrder, MemState
<1>10. RequestsExpected'
  BY <1>1, <1>2, <1>3, <1>4, <1>5 DEF RequestsExpected
<1>11. ForwardsExpected'
  BY <1>1, <1>2, <1>3, <1>4, <1>5
     DEF ForwardsExpected, Forwarded, StoreMissState
<1>12. OneSource'
  BY <1>1, <1>2, <1>3, <1>4, <1>5, <1>7 DEF OneSource
<1>13. ResponsesExpected'
  BY <1>1, <1>2, <1>3, <1>4, <1>5 DEF ResponsesExpected, OneSource, DataComing
<1>14. MemoryExpected'
  BY <1>1, <1>2, <1>3, <1>4, <1>5, <1>0 DEF MemoryExpected
<1>15. AcksExpected'
  BY <1>1, <1>2, <1>3, <1>4, <1>5, <1>6 DEF AcksExpected, AwaitsAcks, Inv
<1>16. AckAccounting'
  BY <1>1, <1>2, <1>3, <1>4, <1>5, <1>6 DEF AckAccounting
<1>17. OneHolder'
  BY <1>1, <1>2, <1>3, <1>4, <1>5, <1>7, <1>8 DEF OneHolder
<1>18. OwnerExpected'
  BY <1>1, <1>2, <1>3, <1>4, <1>5 DEF OwnerExpected, Forwarded, StoreMissState
<1>19. SharersExpected'
  BY <1>1, <1>2, <1>3, <1>4, <1>5 DEF SharersExpected, Forwarded
<1>20. ReadersKnown'
  BY <1>1, <1>2, <1>3, <1>4, <1>5, <1>7, <1>8 DEF ReadersKnown, Reader
<1>. QED
  BY <1>9, <1>10, <1>11, <1>12, <1>13, <1>14,
     <1>15, <1>16, <1>17, <1>18, <1>19, <1>20 DEF Expected

\* The directory writes the owner's block to memory.
LEMMA PutMOwnerKeeps ==
  ASSUME LocalInv, Expected, NEW r \in Cache, PutMOwner(r),
         UNCHANGED <<cacheVars, seqVars>>
  PROVE  Expected'
<1>0. NetTypeOK /\ DirTypeOK /\ CacheTypeOK /\ DirBookkeeping
  BY DEF LocalInv, TypeOK
<1>1. /\ ChannelsShort /\ RequestsExpected /\ ForwardsExpected /\ OneSource
      /\ ResponsesExpected /\ MemoryExpected /\ AcksExpected /\ AckAccounting
      /\ OneHolder /\ OwnerExpected /\ SharersExpected /\ ReadersKnown
  BY DEF Expected
<1>2. /\ requestNet[r] # << >> /\ Request(r).Type = "PUTM" /\ r \in Owner
      /\ DirectoryState = "M" /\ Owner = {r} /\ Sharers = {}
      /\ Request(r).DataBlk \in Value
  <2>1. /\ requestNet[r] # << >> /\ Request(r).Type = "PUTM" /\ r \in Owner
        /\ DirectoryState = "M" /\ Request(r) \in RequestMsg
    BY <1>0, RequestHead DEF PutMOwner
  <2>. QED  BY <1>0, <2>1 DEF DirBookkeeping, RequestMsg
<1>3. /\ Asked(r) = {Request(r)} /\ Asked(r)' = {}
      /\ \A d \in Cache \ {r} : Asked(d)' = Asked(d)
      /\ \A d \in Cache : Asked(d)' \subseteq Asked(d)
      /\ \A d \in Cache : Len(requestNet[d])' \in {0, 1}
  BY <1>0, <1>1, <1>2, PopRequestAsked DEF PutMOwner
<1>4. CacheState[r] = "MI_A" /\ Inbox(r) = {} /\ Exclusive(r)
  <2>1. CacheState[r] = "MI_A" /\ ~ Forwarded(r, {"GETS", "GETM", "WB_ACK"})
    BY <1>1, <1>2, <1>3 DEF OwnerExpected
  <2>2. Inbox(r) \subseteq ForwardMsg
    BY <1>0, <1>1, InboxHead
  <2>3. \A f \in Inbox(r) : f.Type # "INV"
    BY <1>1, <2>1 DEF ForwardsExpected
  <2>4. Inbox(r) = {}
    BY <2>1, <2>2, <2>3 DEF Forwarded, ForwardMsg
  <2>. QED  BY <1>3, <2>1, <2>4 DEF Exclusive
<1>5. /\ forwardNet' = forwardNet /\ responseNet' = responseNet
      /\ \A d \in Cache : Inbox(d)' = Inbox(d)
      /\ \A d \in Cache : OwesAck(d)' = OwesAck(d)
      /\ CacheState' = CacheState /\ pendingAcks' = pendingAcks
      /\ DirectoryState' = "MI_D" /\ Sharers' = {} /\ Owner' = {}
  BY <1>2 DEF PutMOwner, Inbox, OwesAck, cacheVars, setDirState
<1>6. /\ AtMemory' = {[Type |-> "MEMORY_WB", OriginalRequestorMachId |-> r,
                       DataBlk |-> Request(r).DataBlk]}
      /\ Len(memQueue') = 1 /\ AtMemory = {}
  BY <1>0, <1>1, <1>2, QueueMemoryAlone DEF PutMOwner, MemState
<1>7. /\ AtDirectory' /\ ~ DataComing(Dir) /\ ~ DataComing(Dir)' /\ ~ AtDirectory
      /\ \A d \in Cache : ~ Forwarded(d, {"GETS"})
      /\ \A d \in Cache : DataComing(d)' <=> DataComing(d)
      /\ \A d \in Cache : ~ FromMemory(d)'
      /\ \A d \in Cache : FromOwner(d)' <=> FromOwner(d)
  <2>1. ~ DataComing(Dir) /\ \A d \in Cache : ~ Forwarded(d, {"GETS"})
    BY <1>1, <1>2 DEF OneHolder
  <2>2. \A n : DataComing(n)' <=> DataComing(n)
    BY <1>5 DEF DataComing
  <2>3. AtDirectory' /\ ~ AtDirectory
    BY <1>2, <1>5, <2>1 DEF AtDirectory
  <2>4. \A d \in Cache : FromOwner(d)' <=> FromOwner(d)
    BY <1>5 DEF FromOwner
  <2>5. \A d \in Cache : ~ FromMemory(d)'
    BY <1>6 DEF FromMemory
  <2>. QED  BY <2>1, <2>2, <2>3, <2>4, <2>5
<1>8. /\ \A d \in Cache : ~ Exclusive(d)'
      /\ \A d \in Cache : Exclusive(d) => d = r
      /\ \A d \in Cache : \A t : Forwarded(d, t)' <=> Forwarded(d, t)
  <2>1. \A d \in Cache : Exclusive(d) => d = r
    BY <1>1, <1>4 DEF OneHolder
  <2>2. \A d \in Cache : \A t : Forwarded(d, t)' <=> Forwarded(d, t)
    BY <1>5 DEF Forwarded
  <2>3. ASSUME NEW d \in Cache \ {r} PROVE ~ Exclusive(d)'
    BY <1>3, <1>5, <1>7, <2>1, <2>2, <2>3 DEF Exclusive
  <2>4. ~ Exclusive(r)'
    BY <1>3, <1>4, <1>5 DEF Exclusive, Forwarded
  <2>. QED  BY <2>1, <2>2, <2>3, <2>4
<1>9. ChannelsShort'
  BY <1>1, <1>2, <1>3, <1>4, <1>5, <1>6 DEF ChannelsShort, MemState
<1>10. RequestsExpected'
  BY <1>1, <1>2, <1>3, <1>4, <1>5 DEF RequestsExpected
<1>11. ForwardsExpected'
  BY <1>1, <1>2, <1>3, <1>4, <1>5
     DEF ForwardsExpected, Forwarded, StoreMissState
<1>12. OneSource'
  BY <1>1, <1>2, <1>3, <1>4, <1>5, <1>7 DEF OneSource
<1>13. ResponsesExpected'
  BY <1>1, <1>2, <1>3, <1>4, <1>5 DEF ResponsesExpected, OneSource, DataComing
<1>14. MemoryExpected'
  BY <1>1, <1>2, <1>3, <1>4, <1>5, <1>6 DEF MemoryExpected
<1>15. AcksExpected'
  BY <1>1, <1>2, <1>3, <1>4, <1>5 DEF AcksExpected, AwaitsAcks
<1>16. AckAccounting'
  BY <1>1, <1>2, <1>3, <1>4, <1>5 DEF AckAccounting
<1>17. OneHolder'
  BY <1>1, <1>5, <1>7, <1>8 DEF OneHolder
<1>18. OwnerExpected'
  BY <1>5 DEF OwnerExpected
<1>19. SharersExpected'
  BY <1>5 DEF SharersExpected
<1>20. ReadersKnown'
  BY <1>1, <1>4, <1>5, <1>7, <1>8 DEF ReadersKnown, Reader
<1>. QED
  BY <1>9, <1>10, <1>11, <1>12, <1>13, <1>14,
     <1>15, <1>16, <1>17, <1>18, <1>19, <1>20 DEF Expected

\* The memory has written the block: the directory acknowledges the write-back.
LEMMA MemoryAckInvalidKeeps ==
  ASSUME LocalInv, Expected, MemoryAckInvalid, UNCHANGED <<cacheVars, seqVars>>
  PROVE  Expected'
<1>0. NetTypeOK /\ DirTypeOK /\ CacheTypeOK /\ DirBookkeeping
  BY DEF LocalInv, TypeOK
<1>1. /\ ChannelsShort /\ RequestsExpected /\ ForwardsExpected /\ OneSource
      /\ ResponsesExpected /\ MemoryExpected /\ AcksExpected /\ AckAccounting
      /\ OneHolder /\ OwnerExpected /\ SharersExpected /\ ReadersKnown
  BY DEF Expected
<1>. DEFINE q == Head(memQueue)
<1>2. /\ q.Type = "MEMORY_WB" /\ DirectoryState = "MI_D" /\ AtMemory = {q}
      /\ Tail(memQueue) = << >> /\ MemoryRequestor \in Cache
      /\ Sharers = {} /\ Owner = {}
  BY <1>0, <1>1, MemoryHead
     DEF MemoryAckInvalid, OnMemory, MemoryRequestor, MemoryMsg, DirBookkeeping
<1>3. PICK r \in Cache : r = MemoryRequestor
  BY <1>2
<1>. DEFINE w == [Type |-> "WB_ACK", Requestor |-> r]
<1>4. CacheState[r] = "MI_A" /\ Inbox(r) = {} /\ Asked(r) = {}
  BY <1>1, <1>2, <1>3 DEF MemoryExpected, MemoryRequestor
<1>5. /\ \A d \in Cache : Asked(d)' = Asked(d)
      /\ requestNet' = requestNet /\ responseNet' = responseNet
      /\ CacheState' = CacheState /\ pendingAcks' = pendingAcks
      /\ DirectoryState' = "I" /\ Sharers' = {} /\ Owner' = {}
      /\ AtMemory' = {} /\ memQueue' = << >>
  BY <1>2 DEF MemoryAckInvalid, Asked, AtMemory, cacheVars, setDirState
<1>6. /\ Inbox(r)' = {w} /\ w.Type = "WB_ACK"
      /\ \A d \in Cache \ {r} : Inbox(d)' = Inbox(d)
      /\ \A d \in Cache : ForwardOrder(d)'
  <2>1. w \in ForwardMsg
    BY <1>3 DEF ForwardMsg, Node
  <2>2. \A d \in Cache :
          /\ Inbox(d)' = IF d \in {r} THEN Inbox(d) \cup {w} ELSE Inbox(d)
          /\ ForwardOrder(d)'
    <3>1. SendForward({r}, w) /\ \A t : ~ Forwarded(r, t)
      BY <1>3, <1>4 DEF MemoryAckInvalid, Forwarded
    <3>. QED  BY <1>0, <1>1, <2>1, <3>1, SendForwardInbox
  <2>. QED  BY <1>2, <1>3, <1>4, <2>2
<1>7. \A d \in Cache : OwesAck(d)' = OwesAck(d)
  <2>. SUFFICES ASSUME NEW d \in Cache PROVE OwesAck(d)' = OwesAck(d)
    OBVIOUS
  <2>1. Inv(d).Type = "INV"
    BY DEF Inv
  <2>2. \A e \in Cache : (Inv(d) \in Inbox(e)' \/ InvAck(e, d) \in responseNet')
                     <=> (Inv(d) \in Inbox(e) \/ InvAck(e, d) \in responseNet)
    BY <1>4, <1>5, <1>6, <2>1
  <2>. QED  BY <2>2, OwesInbox
<1>8. /\ AtDirectory /\ AtDirectory' /\ ~ DataComing(Dir) /\ ~ DataComing(Dir)'
      /\ \A d \in Cache : DataComing(d)' <=> DataComing(d)
      /\ \A d \in Cache : ~ FromMemory(d)'
      /\ \A d \in Cache : FromOwner(d)' <=> FromOwner(d)
  <2>1. ~ DataComing(Dir)
    BY <1>1, <1>2 DEF OneHolder
  <2>2. \A n : DataComing(n)' <=> DataComing(n)
    BY <1>5 DEF DataComing
  <2>3. \A d \in Cache : FromOwner(d)' <=> FromOwner(d)
    BY <1>2, <1>3, <1>4, <1>6 DEF FromOwner
  <2>4. AtDirectory /\ AtDirectory'
    BY <1>2, <1>3, <1>5 DEF AtDirectory
  <2>. QED  BY <1>5, <2>1, <2>2, <2>3, <2>4 DEF FromMemory
<1>9. /\ \A d \in Cache : ~ Exclusive(d) /\ ~ Exclusive(d)'
      /\ \A d \in Cache : ~ Reader(d) /\ ~ Reader(d)'
      /\ \A d \in Cache : ~ Forwarded(d, {"GETS"})'
  <2>1. \A d \in Cache : ~ Exclusive(d) /\ ~ Reader(d)
    BY <1>0, <1>2, <1>3, <1>8, NoInvalidation
  <2>2. \A d \in Cache : ~ Forwarded(d, {"GETS"})'
    BY <1>1, <1>2, <1>3, <1>4, <1>6 DEF OneHolder, Forwarded
  <2>3. \A d \in Cache : ~ Reader(d)'
    BY <1>5, <1>8, <2>1 DEF Reader
  <2>4. ASSUME NEW d \in Cache \ {r} PROVE ~ Exclusive(d)'
    BY <1>5, <1>6, <1>8, <2>1 DEF Exclusive, Forwarded
  <2>5. ~ Exclusive(r)'
    BY <1>4, <1>5, <1>6 DEF Exclusive, Forwarded
  <2>. QED  BY <2>1, <2>2, <2>3, <2>4, <2>5
<1>10. ChannelsShort'
  BY <1>1, <1>2, <1>3, <1>4, <1>5, <1>6 DEF ChannelsShort, ForwardOrder, MemState
<1>11. RequestsExpected'
  BY <1>1, <1>2, <1>3, <1>4, <1>5, <1>6 DEF RequestsExpected
<1>12. ForwardsExpected'
  BY <1>1, <1>2, <1>3, <1>4, <1>5, <1>6
     DEF ForwardsExpected, Forwarded, StoreMissState
<1>13. OneSource'
  BY <1>1, <1>4, <1>5, <1>6, <1>8 DEF OneSource
<1>14. ResponsesExpected'
  BY <1>1, <1>2, <1>3, <1>4, <1>5, <1>6 DEF ResponsesExpected, OneSource, DataComing
<1>15. MemoryExpected'
  BY <1>5 DEF MemoryExpected
<1>16. AcksExpected'
  BY <1>1, <1>2, <1>3, <1>4, <1>5, <1>6, <1>7 DEF AcksExpected, AwaitsAcks, Inv
<1>17. AckAccounting'
  BY <1>1, <1>2, <1>3, <1>4, <1>5, <1>6, <1>7 DEF AckAccounting
<1>18. OneHolder'
  BY <1>1, <1>5, <1>8, <1>9 DEF OneHolder
<1>19. OwnerExpected'
  BY <1>5 DEF OwnerExpected
<1>20. SharersExpected'
  BY <1>5 DEF SharersExpected
<1>21. ReadersKnown'
  BY <1>9 DEF ReadersKnown
<1>. QED
  BY <1>10, <1>11, <1>12, <1>13, <1>14, <1>15,
     <1>16, <1>17, <1>18, <1>19, <1>20, <1>21 DEF Expected

\* The memory has written the block, or is about to, for the directory itself.
LEMMA WriteBackKeeps ==
  ASSUME LocalInv, Expected,
         \/ MemoryAckShared
         \/ \E m \in responseNet : OwnerData(m),
         UNCHANGED <<cacheVars, seqVars>>
  PROVE  Expected'
<1>0. NetTypeOK /\ DirTypeOK /\ CacheTypeOK /\ DirBookkeeping
  BY DEF LocalInv, TypeOK
<1>1. /\ ChannelsShort /\ RequestsExpected /\ ForwardsExpected /\ OneSource
      /\ ResponsesExpected /\ MemoryExpected /\ AcksExpected /\ AckAccounting
      /\ OneHolder /\ OwnerExpected /\ SharersExpected /\ ReadersKnown
  BY DEF Expected
<1>2. /\ \A d \in Cache : Asked(d)' = Asked(d) /\ Inbox(d)' = Inbox(d)
      /\ UNCHANGED <<requestNet, forwardNet, CacheState, pendingAcks, Sharers, Owner>>
      /\ Sharers \subseteq Cache /\ Owner = {}
  <2>1. UNCHANGED <<requestNet, forwardNet, CacheState, pendingAcks, Sharers, Owner>>
    BY DEF MemoryAckShared, OwnerData, netVars, cacheVars
  <2>2. Sharers \subseteq Cache /\ Owner = {}
    BY <1>0 DEF DirTypeOK, DirBookkeeping, MemoryAckShared, OnMemory, OwnerData
  <2>. QED  BY <2>1, <2>2 DEF Asked, Inbox
<1>3. /\ \A d \in Cache : ~ FromMemory(d)'
      /\ \A q \in AtMemory' : q.Type = "MEMORY_WB"
      /\ Len(memQueue') = IF DirectoryState' \in MemState THEN 1 ELSE 0
      /\ DirectoryState' \in {"S", "SD_S"} /\ AtDirectory /\ AtDirectory'
      /\ ~ DataComing(Dir)'
      /\ \A m \in responseNet' : m \in responseNet /\ m.Destination # Dir
      /\ \A m \in responseNet : m.Destination # Dir => m \in responseNet'
  <2>1. CASE MemoryAckShared
    <3>1. DirectoryState = "SD_S" /\ DirectoryState' = "S" /\ responseNet' = responseNet
      BY <2>1 DEF MemoryAckShared, OnMemory, setDirState, netVars
    <3>2. memQueue' = << >> /\ AtMemory' = {}
      <4>1. memQueue' = << >>
        BY <1>0, <1>1, <2>1, MemoryHead DEF MemoryAckShared, OnMemory
      <4>. QED  BY <4>1 DEF AtMemory
    <3>3. Len(memQueue') = 0 /\ \A d \in Cache : ~ FromMemory(d)'
      BY <3>2 DEF FromMemory
    <3>4. ~ DataComing(Dir)
      BY <1>1, <3>1 DEF OneHolder
    <3>5. \A m \in responseNet : m.Destination # Dir
      BY <1>0, <3>4, ResponseDir DEF DataComing
    <3>6. AtDirectory /\ AtDirectory' /\ ~ DataComing(Dir)'
      BY <3>1, <3>5 DEF AtDirectory, DataComing
    <3>. QED  BY <3>1, <3>2, <3>3, <3>5, <3>6 DEF MemState
  <2>2. ASSUME NEW m \in responseNet, OwnerData(m)
        PROVE  /\ \A d \in Cache : ~ FromMemory(d)'
               /\ \A q \in AtMemory' : q.Type = "MEMORY_WB"
               /\ Len(memQueue') = IF DirectoryState' \in MemState THEN 1 ELSE 0
               /\ DirectoryState' \in {"S", "SD_S"} /\ AtDirectory /\ AtDirectory'
               /\ ~ DataComing(Dir)'
               /\ \A x \in responseNet' : x \in responseNet /\ x.Destination # Dir
               /\ \A x \in responseNet : x.Destination # Dir => x \in responseNet'
    <3>1. /\ DirectoryState = "M_SD" /\ DirectoryState' = "SD_S"
          /\ responseNet' = responseNet \ {m} /\ m.Destination = Dir /\ m.Type = "DATA"
          /\ m.Sender \in Cache /\ m.DataBlk \in Value
      BY <1>0, <2>2, ResponseDir, ResponseFields
         DEF OwnerData, setDirState, PopResponse, NetTypeOK
    <3>2. /\ AtMemory' = {[Type |-> "MEMORY_WB", OriginalRequestorMachId |-> m.Sender,
                           DataBlk |-> m.DataBlk]}
          /\ Len(memQueue') = 1
      BY <1>0, <1>1, <2>2, <3>1, QueueMemoryAlone DEF OwnerData, MemState
    <3>3. \A d \in Cache : ~ FromMemory(d)'
      BY <3>2 DEF FromMemory
    <3>4. \A k \in responseNet' : k.Destination # Dir
      BY <1>1, <3>1 DEF OneHolder
    <3>5. AtDirectory /\ AtDirectory' /\ ~ DataComing(Dir)'
      BY <3>1, <3>4 DEF AtDirectory, DataComing
    <3>. QED  BY <3>1, <3>2, <3>3, <3>4, <3>5 DEF MemState
  <2>. QED  BY <2>1, <2>2
<1>4. \A d \in Cache : OwesAck(d)' = OwesAck(d)
  <2>. SUFFICES ASSUME NEW d \in Cache PROVE OwesAck(d)' = OwesAck(d)
    OBVIOUS
  <2>1. \A e \in Cache : InvAck(e, d).Destination # Dir
    BY CacheAssumption DEF InvAck
  <2>2. \A e \in Cache : (Inv(d) \in Inbox(e)' \/ InvAck(e, d) \in responseNet')
                     <=> (Inv(d) \in Inbox(e) \/ InvAck(e, d) \in responseNet)
    BY <1>2, <1>3, <2>1
  <2>. QED  BY <2>2, OwesInbox
<1>5. /\ \A d \in Cache : DataComing(d)' <=> DataComing(d)
      /\ \A d \in Cache : AwaitsAcks(d)' <=> AwaitsAcks(d)
  <2>1. ASSUME NEW d \in Cache PROVE DataComing(d)' <=> DataComing(d)
    BY <1>3, CacheAssumption DEF DataComing
  <2>2. ASSUME NEW d \in Cache PROVE AwaitsAcks(d)' <=> AwaitsAcks(d)
    BY <1>2, <1>3, CacheAssumption DEF AwaitsAcks
  <2>. QED  BY <2>1, <2>2
<1>6. /\ \A d \in Cache : FromOwner(d)' <=> FromOwner(d)
      /\ \A d \in Cache : ~ Exclusive(d) /\ ~ Exclusive(d)'
      /\ \A d \in Cache : ~ Forwarded(d, {"GETS"})'
      /\ \A d \in Cache : Reader(d)' => d \in Sharers
  <2>1. /\ \A d \in Cache : ~ Exclusive(d)
        /\ \A d \in Cache : Reader(d) => d \in Sharers
    BY <1>0, <1>3, NoInvalidation
  <2>2. \A d \in Cache : ~ Exclusive(d)'
    BY <1>2, <1>5, <2>1 DEF Exclusive, Forwarded
  <2>3. \A d \in Cache : ~ Forwarded(d, {"GETS"})
    <3>1. DirectoryState = "M_SD" => DataComing(Dir)
      BY <1>3 DEF AtDirectory
    <3>. QED  BY <1>1, <3>1 DEF OneHolder
  <2>4. \A d \in Cache : ~ Forwarded(d, {"GETS"})'
    BY <1>2, <2>3 DEF Forwarded
  <2>5. \A d \in Cache : Reader(d)' => d \in Sharers
    BY <1>2, <1>5, <2>1 DEF Reader
  <2>6. \A d \in Cache : FromOwner(d)' <=> FromOwner(d)
    BY <1>2 DEF FromOwner
  <2>. QED  BY <2>1, <2>2, <2>4, <2>5, <2>6
<1>7. ChannelsShort'
  BY <1>1, <1>2, <1>3 DEF ChannelsShort
<1>8. RequestsExpected'
  BY <1>1, <1>2, <1>3 DEF RequestsExpected
<1>9. ForwardsExpected'
  BY <1>1, <1>2, <1>3 DEF ForwardsExpected, Forwarded, StoreMissState
<1>10. OneSource'
  BY <1>1, <1>2, <1>3, <1>5, <1>6 DEF OneSource
<1>11. ResponsesExpected'
  BY <1>1, <1>2, <1>3 DEF ResponsesExpected, OneSource, DataComing
<1>12. MemoryExpected'
  BY <1>3 DEF MemoryExpected
<1>13. AcksExpected'
  BY <1>1, <1>2, <1>3, <1>4, <1>5 DEF AcksExpected
<1>14. AckAccounting'
  BY <1>1, <1>2, <1>3, <1>4 DEF AckAccounting
<1>15. OneHolder'
  BY <1>1, <1>2, <1>3, <1>6 DEF OneHolder
<1>16. OwnerExpected'
  BY <1>2 DEF OwnerExpected
<1>17. SharersExpected'
  BY <1>1, <1>2, <1>3 DEF SharersExpected, Forwarded
<1>18. ReadersKnown'
  BY <1>2, <1>3, <1>6 DEF ReadersKnown
<1>. QED
  BY <1>7, <1>8, <1>9, <1>10, <1>11, <1>12,
     <1>13, <1>14, <1>15, <1>16, <1>17, <1>18 DEF Expected

LEMMA PutsKeep ==
  ASSUME LocalInv, Expected, NEW r \in Cache,
         PutStale(r) \/ PutShared(r) \/ PutSharedLast(r) \/ PutBusy(r),
         UNCHANGED <<cacheVars, seqVars>>
  PROVE  Expected'
<1>0. NetTypeOK /\ DirTypeOK /\ DirBookkeeping
  BY DEF LocalInv, TypeOK
<1>1. CASE PutStale(r)
  <2>1. /\ requestNet[r] # << >> /\ DirectoryState \in {"I", "M"}
        /\ \/ Request(r).Type = "PUTS"
           \/ Request(r).Type = "PUTM" /\ r \notin Owner
    BY <1>0, <1>1, RequestHead DEF PutStale
  <2>2. /\ a_sendWriteBackAck(r) /\ PopRequest(r)
        /\ UNCHANGED <<DirectoryState, Sharers, Owner, memQueue, cacheVars>>
    BY <1>1 DEF PutStale, dirVars
  <2>3. Sharers' = Sharers \ {r}
    BY <1>0, <2>1, <2>2 DEF DirBookkeeping
  <2>. QED  BY <2>1, <2>2, <2>3, PutKeeps
<1>2. CASE PutShared(r) \/ PutSharedLast(r)
  <2>1. /\ requestNet[r] # << >> /\ DirectoryState = "S"
        /\ \/ Request(r).Type = "PUTS"
           \/ Request(r).Type = "PUTM" /\ r \notin Owner
    BY <1>0, <1>2, RequestHead DEF PutShared, PutSharedLast
  <2>2. /\ a_sendWriteBackAck(r) /\ PopRequest(r) /\ Sharers' = Sharers \ {r}
        /\ DirectoryState' = "S" \/ DirectoryState' = "I"
        /\ UNCHANGED <<Owner, memQueue, cacheVars>>
    BY <1>2 DEF PutShared, PutSharedLast, RemoveSharer, setDirState
  <2>. QED  BY <2>1, <2>2, PutKeeps
<1>3. CASE PutBusy(r)
  <2>1. /\ requestNet[r] # << >> /\ DirectoryState \in {"M_SD", "SD_S", "MI_D"}
        /\ \/ Request(r).Type = "PUTS"
           \/ Request(r).Type = "PUTM" /\ r \notin Owner
    BY <1>0, <1>3, RequestHead DEF PutBusy
  <2>2. /\ a_sendWriteBackAck(r) /\ PopRequest(r) /\ Sharers' = Sharers \ {r}
        /\ DirectoryState' = DirectoryState
        /\ UNCHANGED <<Owner, memQueue, cacheVars>>
    BY <1>3 DEF PutBusy, RemoveSharer, setDirState
  <2>. QED  BY <2>1, <2>2, PutKeeps
<1>. QED  BY <1>1, <1>2, <1>3

\* No transition of the directory breaks what is expected.
LEMMA DirStepKeeps ==
  ASSUME LocalInv, Expected, DirStep
  PROVE  Expected'
<1>0. NetTypeOK
  BY DEF LocalInv, TypeOK
<1>1. ASSUME NEW r \in Cache, DirRequestStep(r) PROVE Expected'
  <2>0. UNCHANGED <<cacheVars, seqVars>> /\ RequestPort(r)
    BY <1>1 DEF DirRequestStep
  <2>1. CASE GetSInvalid(r)
    <3>1. requestNet[r] # << >> /\ DirectoryState = "I" /\ Request(r).Type = "GETS"
      BY <1>0, <2>1, RequestHead DEF GetSInvalid
    <3>. QED  BY <2>0, <2>1, <3>1, FetchKeeps DEF GetSInvalid
  <2>2. CASE GetMInvalid(r)
    <3>1. requestNet[r] # << >> /\ DirectoryState = "I" /\ Request(r).Type = "GETM"
      BY <1>0, <2>2, RequestHead DEF GetMInvalid
    <3>. QED  BY <2>0, <2>2, <3>1, FetchKeeps DEF GetMInvalid
  <2>3. CASE GetSShared(r) \/ GetMShared(r)
    BY <2>0, <2>3, GetSSharedKeeps, GetMSharedKeeps
  <2>4. CASE GetSModified(r) \/ GetMModified(r)
    BY <2>0, <2>4, GetModifiedKeeps
  <2>5. CASE PutStale(r) \/ PutShared(r) \/ PutSharedLast(r) \/ PutBusy(r)
    BY <2>0, <2>5, PutsKeep
  <2>6. CASE PutMOwner(r)
    BY <2>0, <2>6, PutMOwnerKeeps
  <2>. QED  BY <2>0, <2>1, <2>2, <2>3, <2>4, <2>5, <2>6 DEF RequestPort
<1>2. CASE DirMemoryStep
  <2>0. UNCHANGED <<cacheVars, seqVars>> /\ MemoryPort
    BY <1>2 DEF DirMemoryStep
  <2>. QED
    BY <2>0, MemoryDataSharedKeeps, MemoryDataModifiedKeeps,
       MemoryAckInvalidKeeps, WriteBackKeeps DEF MemoryPort
<1>3. CASE DirResponseStep
  BY <1>3, WriteBackKeeps DEF DirResponseStep, DirResponsePort
<1>. QED  BY <1>1, <1>2, <1>3 DEF DirStep

LEMMA InitExpected == Init => Expected
<1>. SUFFICES ASSUME Init PROVE Expected
  OBVIOUS
<1>1. /\ \A c \in Cache : requestNet[c] = << >> /\ forwardNet[c] = << >>
      /\ responseNet = {} /\ memQueue = << >> /\ DirectoryState = "I"
      /\ Sharers = {} /\ Owner = {}
      /\ \A c \in Cache : CacheState[c] = "I"
  BY DEF Init, NetInit, CacheInit, DirInit
<1>2. /\ \A c \in Cache : Asked(c) = {} /\ Inbox(c) = {} /\ AtMemory = {}
      /\ \A c \in Cache : Len(requestNet[c]) = 0 /\ Len(forwardNet[c]) = 0
      /\ Len(memQueue) = 0
  <2>1. Len(<< >>) = 0
    OBVIOUS
  <2>. QED  BY <1>1, <2>1 DEF Asked, Inbox, AtMemory
<1>3. /\ \A n : ~ DataComing(n)
      /\ \A c \in Cache : ~ FromMemory(c) /\ ~ FromOwner(c)
      /\ \A c \in Cache : ~ Exclusive(c) /\ ~ Reader(c)
      /\ \A c \in Cache : OwesAck(c) = {}
  <2>1. \A c \in Cache : OwesAck(c) = {}
    BY <1>1, <1>2, OwesInbox
  <2>. QED
    BY <1>1, <1>2, <2>1
       DEF DataComing, FromMemory, FromOwner, Exclusive, Reader, Forwarded
<1>4. ChannelsShort /\ RequestsExpected /\ ForwardsExpected /\ OneSource
  BY <1>1, <1>2, <1>3
     DEF ChannelsShort, RequestsExpected, ForwardsExpected, OneSource, MemState
<1>5. ResponsesExpected /\ MemoryExpected /\ AcksExpected /\ AckAccounting
  BY <1>1, <1>2, <1>3
     DEF ResponsesExpected, MemoryExpected, AcksExpected, AckAccounting
<1>6. OneHolder /\ OwnerExpected /\ SharersExpected /\ ReadersKnown
  BY <1>1, <1>2, <1>3
     DEF OneHolder, OwnerExpected, SharersExpected, ReadersKnown, Forwarded
<1>. QED  BY <1>4, <1>5, <1>6 DEF Expected

-----------------------------------------------------------------------------
(* Every copy in use is the last one stored. *)

\* The cache that may write the block has written it.
LastWritten == \E c \in Cache : CacheState[c] = "M" /\ DataBlk[c] = latest

\* Besides the copy of a cache that may write the block there is none in use.
LEMMA OnlyCopy ==
  NetTypeOK /\ DirTypeOK /\ Expected /\ LastWritten => DataLatest
<1>. SUFFICES ASSUME NetTypeOK, DirTypeOK, Expected, LastWritten
              PROVE  DataLatest
  OBVIOUS
<1>1. PICK c \in Cache : CacheState[c] = "M" /\ DataBlk[c] = latest
  BY DEF LastWritten
<1>2. /\ \A d \in Cache : Exclusive(d) => d = c
      /\ DirectoryState \in {"M", "M_SD"} /\ ~ DataComing(Dir)
  BY <1>1 DEF Expected, OneHolder, Exclusive, AtDirectory
<1>3. \A d \in Cache : ~ Reader(d)
  <2>1. \A d \in Cache : ~ Forwarded(d, {"INV"})
    BY <1>1, <1>2, InvWaits DEF AwaitsAcks
  <2>2. ~ Reader(c) /\ ~ AtDirectory
    BY <1>1, <1>2 DEF Reader, AtDirectory
  <2>. QED  BY <1>2, <2>1, <2>2 DEF Expected, ReadersKnown
<1>4. \A d \in Cache :
        /\ CacheState[d] \in {"S", "SM_AD", "SM_A", "M"} => DataBlk[d] = latest
        /\ ~ (CacheState[d] = "MI_A" /\ Exclusive(d))
  BY <1>1, <1>2, <1>3 DEF Exclusive, Reader
<1>5. \A m \in responseNet : m.Type = "ACK"
  <2>1. SUFFICES ASSUME NEW m \in responseNet, m.Type # "ACK" PROVE FALSE
    OBVIOUS
  <2>2. m.Destination \in Cache /\ DataComing(m.Destination)
    BY <1>2, <2>1, ResponseDir DEF DataComing
  <2>3. CacheState[m.Destination] \in {"IS_D", "IM_AD", "SM_AD"}
    BY <2>2 DEF Expected, OneSource
  <2>. QED  BY <1>1, <1>2, <1>3, <2>2, <2>3 DEF Exclusive, Reader
<1>6. \A q \in AtMemory : q.Type # "MEMORY_READ"
  <2>1. \A q \in AtMemory : q.OriginalRequestorMachId \in Cache
    BY MemoryHead DEF Expected, MemoryMsg
  <2>. QED  BY <1>2, <2>1 DEF Expected, MemoryExpected
<1>. QED  BY <1>2, <1>4, <1>5, <1>6 DEF DataLatest

\* A step of a cache that writes nothing new: what it now holds or sends is the
\* last value stored.
LEMMA CacheCopies ==
  ASSUME DataLatest, NEW c \in Cache, UNCHANGED <<latest, dirVars>>,
         \A d \in Cache \ {c} :
           /\ CacheState'[d] = CacheState[d] /\ DataBlk'[d] = DataBlk[d]
           /\ tbeDataBlk'[d] = tbeDataBlk[d]
           /\ requestNet'[d] = requestNet[d] /\ forwardNet'[d] = forwardNet[d],
         CacheState'[c] \in {"S", "SM_AD", "SM_A", "M"} => DataBlk'[c] = latest,
         CacheState'[c] = "MI_A" /\ Exclusive(c)' =>
           tbeDataBlk'[c] = latest /\ \A q \in Asked(c)' : q.DataBlk = latest,
         \A m \in responseNet' \ responseNet : m.Type # "ACK" => m.DataBlk = latest
  PROVE  DataLatest'
<1>1. /\ UNCHANGED <<latest, DirectoryState, dirDataBlk, memQueue>>
      /\ AtMemory' = AtMemory
  BY DEF dirVars, AtMemory
<1>2. \A d \in Cache \ {c} : Asked(d)' = Asked(d) /\ Inbox(d)' = Inbox(d)
  BY DEF Asked, Inbox
<1>3. \A d \in Cache \ {c} :
        CacheState'[d] = "MI_A" /\ Exclusive(d)' => Exclusive(d)
  BY <1>2 DEF Exclusive, Forwarded
<1>4. \A d \in Cache :
        /\ CacheState'[d] \in {"S", "SM_AD", "SM_A", "M"} => DataBlk'[d] = latest
        /\ CacheState'[d] = "MI_A" /\ Exclusive(d)' =>
             tbeDataBlk'[d] = latest /\ \A q \in Asked(d)' : q.DataBlk = latest
  BY <1>2, <1>3 DEF DataLatest
<1>5. \A m \in responseNet' : m.Type # "ACK" => m.DataBlk = latest
  BY DEF DataLatest
<1>6. /\ DirectoryState' \notin {"M", "M_SD"} => dirDataBlk' = latest
      /\ \A q \in AtMemory' : q.Type = "MEMORY_READ" => q.DataBlk = latest
  BY <1>1 DEF DataLatest
<1>. QED  BY <1>1, <1>4, <1>5, <1>6 DEF DataLatest

\* A step of the directory: so is what it now sends, or has.
LEMMA DirectoryCopies ==
  ASSUME DataLatest, UNCHANGED <<cacheVars, seqVars>>,
         \A c \in Cache : Asked(c)' \subseteq Asked(c),
         \A c \in Cache :
           CacheState[c] = "MI_A" /\ Forwarded(c, {"GETS", "GETM"})' => Exclusive(c),
         \A m \in responseNet' \ responseNet : m.Type # "ACK" => m.DataBlk = latest,
         DirectoryState' \notin {"M", "M_SD"} => dirDataBlk' = latest,
         \A q \in AtMemory' : q.Type = "MEMORY_READ" => q.DataBlk = latest
  PROVE  DataLatest'
<1>1. UNCHANGED <<CacheState, DataBlk, tbeDataBlk, latest>>
  BY DEF cacheVars, seqVars
<1>2. \A c \in Cache : CacheState[c] = "MI_A" /\ Exclusive(c)' => Exclusive(c)
  BY <1>1 DEF Exclusive
<1>3. \A m \in responseNet' : m.Type # "ACK" => m.DataBlk = latest
  BY DEF DataLatest
<1>4. \A c \in Cache :
        /\ CacheState'[c] \in {"S", "SM_AD", "SM_A", "M"} => DataBlk'[c] = latest
        /\ CacheState'[c] = "MI_A" /\ Exclusive(c)' =>
             tbeDataBlk'[c] = latest /\ \A q \in Asked(c)' : q.DataBlk = latest
  BY <1>1, <1>2 DEF DataLatest
<1>. QED  BY <1>1, <1>3, <1>4 DEF DataLatest

-----------------------------------------------------------------------------
(* DataLatest and CoreWaits under the transitions of a cache. *)

LEMMA MandatoryCopies ==
  ASSUME LocalInv, LocalInv', Expected, Expected', DataLatest, NEW c \in Cache,
         CoreRequest(c) \/ MandatoryPort(c) \/ Replacement(c), UNCHANGED dirVars
  PROVE  DataLatest'
<1>0. NetTypeOK /\ SeqTypeOK /\ CacheTypeOK
  BY DEF LocalInv, TypeOK
<1>1. CASE CoreRequest(c) \/ LoadHit(c)
  <2>1. UNCHANGED <<cacheVars, netVars, latest, dirVars>>
    BY <1>1 DEF CoreRequest, makeRequest, LoadHit, readCallback
  <2>2. Asked(c)' = Asked(c) /\ Inbox(c)' = Inbox(c)
    BY <2>1 DEF netVars, Asked, Inbox
  <2>3. Exclusive(c)' <=> Exclusive(c)
    BY <2>1, <2>2 DEF Exclusive, Forwarded, DataComing, cacheVars, netVars
  <2>. QED  BY <2>1, <2>2, <2>3, CacheCopies DEF cacheVars, netVars, DataLatest
<1>2. CASE LoadMiss(c) \/ StoreMiss(c)
  <2>1. /\ UNCHANGED <<latest, responseNet, forwardNet, DataBlk, tbeDataBlk>>
        /\ CacheState'[c] \in {"IS_D", "IM_AD"}
        /\ \A d \in Cache \ {c} : /\ CacheState'[d] = CacheState[d]
                                  /\ requestNet'[d] = requestNet[d]
    BY <1>0, <1>2
       DEF LoadMiss, StoreMiss, Issue, setState, SendRequest, NetTypeOK, CacheTypeOK
  <2>. QED  BY <2>1, CacheCopies
<1>3. CASE StoreUpgrade(c)
  <2>1. CacheState[c] = "S"
    BY <1>3, StateRead DEF StoreUpgrade
  <2>2. /\ UNCHANGED <<latest, responseNet, forwardNet, DataBlk>>
        /\ CacheState'[c] = "SM_AD"
        /\ \A d \in Cache \ {c} : /\ CacheState'[d] = CacheState[d]
                                  /\ requestNet'[d] = requestNet[d]
                                  /\ tbeDataBlk'[d] = tbeDataBlk[d]
    BY <1>0, <1>3
       DEF StoreUpgrade, setState, SendRequest, x_copyDataFromCacheToTBE,
           NetTypeOK, CacheTypeOK
  <2>3. DataBlk[c] = latest
    BY <2>1 DEF DataLatest
  <2>. QED  BY <2>2, <2>3, CacheCopies
<1>4. CASE ReplaceShared(c)
  <2>1. /\ UNCHANGED <<latest, responseNet, forwardNet, DataBlk>>
        /\ CacheState'[c] = "SI_A"
        /\ \A d \in Cache \ {c} : /\ CacheState'[d] = CacheState[d]
                                  /\ requestNet'[d] = requestNet[d]
                                  /\ tbeDataBlk'[d] = tbeDataBlk[d]
    BY <1>0, <1>4
       DEF ReplaceShared, Replace, setState, SendRequest, x_copyDataFromCacheToTBE,
           NetTypeOK, CacheTypeOK, seqVars
  <2>. QED  BY <2>1, CacheCopies
<1>5. CASE ReplaceModified(c)
  <2>. DEFINE q == [Type |-> "PUTM", DataBlk |-> DataBlk[c]]
  <2>1. CacheState[c] = "M" /\ DataBlk[c] = latest /\ Asked(c) = {}
    BY <1>0, <1>5, StateRead, IdleCache DEF ReplaceModified, DataLatest
  <2>2. q \in RequestMsg /\ q.DataBlk = latest
    BY <2>1 DEF LocalInv, HeldDataWritten, RequestMsg
  <2>3. Asked(c)' = {q}
    BY <1>0, <1>5, <2>1, <2>2, SendRequestAsked
       DEF ReplaceModified, Replace, Expected
  <2>4. /\ UNCHANGED <<latest, responseNet, forwardNet, DataBlk>>
        /\ CacheState'[c] = "MI_A" /\ tbeDataBlk'[c] = DataBlk[c]
        /\ \A d \in Cache \ {c} : /\ CacheState'[d] = CacheState[d]
                                  /\ requestNet'[d] = requestNet[d]
                                  /\ tbeDataBlk'[d] = tbeDataBlk[d]
    BY <1>0, <1>5
       DEF ReplaceModified, Replace, setState, SendRequest,
           x_copyDataFromCacheToTBE, NetTypeOK, CacheTypeOK, seqVars
  <2>. QED  BY <2>1, <2>2, <2>3, <2>4, CacheCopies
<1>6. CASE StoreHit(c)
  <2>1. LastWritten'
    BY <1>0, <1>6, StateRead
       DEF StoreHit, writeDataToCache, writeCallback, LastWritten, CacheTypeOK
  <2>2. NetTypeOK' /\ DirTypeOK'
    BY DEF LocalInv, TypeOK
  <2>. QED  BY <2>1, <2>2, OnlyCopy, PTL
<1>. QED  BY <1>1, <1>2, <1>3, <1>4, <1>5, <1>6 DEF MandatoryPort, Replacement

\* What the handlers of forwarded messages leave alone.
LEMMA ForwardFrame ==
  ASSUME LocalInv, NEW c \in Cache, ForwardPort(c)
  PROVE  /\ \A d \in Cache \ {c} :
              /\ CacheState'[d] = CacheState[d] /\ DataBlk'[d] = DataBlk[d]
              /\ tbeDataBlk'[d] = tbeDataBlk[d] /\ forwardNet'[d] = forwardNet[d]
         /\ UNCHANGED <<requestNet, outstanding, mandatoryQueue, latest, loaded>>
<1>0. NetTypeOK /\ CacheTypeOK
  BY DEF LocalInv, TypeOK
<1>. USE <1>0 DEF NetTypeOK, CacheTypeOK, setState, PopForward, seqVars
<1>1. CASE InvShared(c)
  BY <1>1 DEF InvShared, forward_eviction_to_cpu, evictionCallback,
              h_deallocateL1CacheBlock
<1>2. CASE InvUpgrade(c) \/ InvReplacement(c)
  BY <1>2 DEF InvUpgrade, InvReplacement, AckInv
<1>3. CASE FwdGetSModified(c) \/ FwdGetSReplacement(c)
  BY <1>3 DEF FwdGetSModified, FwdGetSReplacement
<1>4. CASE FwdGetMModified(c) \/ FwdGetMReplacement(c)
  BY <1>4 DEF FwdGetMModified, FwdGetMReplacement, forward_eviction_to_cpu,
              evictionCallback, h_deallocateL1CacheBlock
<1>5. CASE WBAck(c)
  BY <1>5 DEF WBAck, forward_eviction_to_cpu, evictionCallback, w_deallocateTBE,
              h_deallocateL1CacheBlock
<1>. QED  BY <1>1, <1>2, <1>3, <1>4, <1>5 DEF ForwardPort

LEMMA ForwardCopies ==
  ASSUME LocalInv, Expected, DataLatest, NEW c \in Cache,
         ForwardPort(c), UNCHANGED dirVars
  PROVE  DataLatest'
<1>0. NetTypeOK /\ CacheTypeOK
  BY DEF LocalInv, TypeOK
<1>1. \A d \in Cache \ {c} :
        /\ CacheState'[d] = CacheState[d] /\ DataBlk'[d] = DataBlk[d]
        /\ tbeDataBlk'[d] = tbeDataBlk[d]
        /\ requestNet'[d] = requestNet[d] /\ forwardNet'[d] = forwardNet[d]
  BY ForwardFrame
<1>2. latest' = latest
  BY ForwardFrame
<1>3. CASE InvShared(c) \/ InvUpgrade(c) \/ InvReplacement(c) \/ WBAck(c)
  <2>1. /\ CacheState'[c] \in {"I", "IM_AD", "II_A"}
        /\ \A m \in responseNet' \ responseNet : m.Type = "ACK"
    BY <1>0, <1>3
       DEF InvShared, InvUpgrade, InvReplacement, AckInv, WBAck, setState,
           SendResponse, InvAck, CacheTypeOK
  <2>. QED  BY <1>1, <1>2, <2>1, CacheCopies
<1>4. CASE FwdGetSModified(c) \/ FwdGetMModified(c)
  <2>1. CacheState[c] = "M" /\ DataBlk[c] = latest
    BY <1>4, ForwardHead DEF FwdGetSModified, FwdGetMModified, DataLatest
  <2>2. \/ CacheState'[c] = "I"
        \/ CacheState'[c] = "S" /\ DataBlk'[c] = DataBlk[c]
    BY <1>0, <1>4 DEF FwdGetSModified, FwdGetMModified, setState, CacheTypeOK
  <2>3. \A m \in responseNet' \ responseNet : m.DataBlk = DataBlk[c]
    BY <1>4
       DEF FwdGetSModified, FwdGetMModified, SendResponse, DataFromOwner, DataToDir
  <2>. QED  BY <1>1, <1>2, <2>1, <2>2, <2>3, CacheCopies
<1>5. CASE FwdGetSReplacement(c) \/ FwdGetMReplacement(c)
  <2>1. /\ CacheState[c] = "MI_A" /\ forwardNet[c] # << >>
        /\ Head(forwardNet[c]).Type \in {"GETS", "GETM"}
    BY <1>5, ForwardHead DEF FwdGetSReplacement, FwdGetMReplacement
  <2>2. Exclusive(c)
    BY <1>0, <2>1, InboxHead DEF Exclusive, Forwarded, Expected
  <2>3. tbeDataBlk[c] = latest
    BY <2>1, <2>2 DEF DataLatest
  <2>4. /\ CacheState'[c] \in {"SI_A", "II_A"}
        /\ \A m \in responseNet' \ responseNet : m.DataBlk = tbeDataBlk[c]
    BY <1>0, <1>5
       DEF FwdGetSReplacement, FwdGetMReplacement, setState, SendResponse,
           DataFromOwner, DataToDir, CacheTypeOK
  <2>. QED  BY <1>1, <1>2, <2>3, <2>4, CacheCopies
<1>. QED  BY <1>3, <1>4, <1>5 DEF ForwardPort

LEMMA ResponseCopies ==
  ASSUME LocalInv, LocalInv', Expected, Expected', DataLatest,
         NEW c \in Cache, NEW m \in responseNet,
         \/ LoadData(c, m) \/ StoreData(c, m) \/ LastInvAck(c, m)
         \/ StoreDataAckCnt(c, m) \/ CountInvAck(c, m),
         UNCHANGED dirVars
  PROVE  DataLatest'
<1>0. NetTypeOK /\ CacheTypeOK
  BY DEF LocalInv, TypeOK
<1>1. CASE LoadData(c, m)
  <2>1. m.Type # "ACK" /\ m.DataBlk = latest
    BY <1>1 DEF LoadData, OnResponse, ResponseEvent, AckEvent, DataLatest
  <2>2. /\ CacheState'[c] = "S" /\ DataBlk'[c] = m.DataBlk /\ latest' = latest
        /\ responseNet' \subseteq responseNet /\ UNCHANGED <<requestNet, forwardNet>>
        /\ \A d \in Cache \ {c} :
             /\ CacheState'[d] = CacheState[d] /\ DataBlk'[d] = DataBlk[d]
             /\ tbeDataBlk'[d] = tbeDataBlk[d]
    BY <1>0, <1>1
       DEF LoadData, setState, writeDataToCache, readCallback, w_deallocateTBE,
           PopResponse, CacheTypeOK
  <2>. QED  BY <2>1, <2>2, CacheCopies
<1>2. CASE StoreData(c, m) \/ LastInvAck(c, m)
  <2>1. LastWritten'
    BY <1>0, <1>2
       DEF StoreData, LastInvAck, StoreDone, setState, writeDataToCache,
           writeCallback, LastWritten, CacheTypeOK
  <2>2. NetTypeOK' /\ DirTypeOK'
    BY DEF LocalInv, TypeOK
  <2>. QED  BY <2>1, <2>2, OnlyCopy, PTL
<1>3. CASE StoreDataAckCnt(c, m)
  <2>1. m.Type # "ACK" /\ m.DataBlk = latest
    BY <1>3
       DEF StoreDataAckCnt, OnResponse, ResponseEvent, AckEvent, DataLatest
  <2>2. /\ CacheState'[c] \in {"IM_A", "SM_A"} /\ DataBlk'[c] = m.DataBlk
        /\ latest' = latest
        /\ responseNet' \subseteq responseNet
        /\ UNCHANGED <<requestNet, forwardNet, tbeDataBlk>>
        /\ \A d \in Cache \ {c} :
             CacheState'[d] = CacheState[d] /\ DataBlk'[d] = DataBlk[d]
    BY <1>0, <1>3
       DEF StoreDataAckCnt, setState, writeDataToCache, PopResponse, CacheTypeOK,
           seqVars
  <2>. QED  BY <2>1, <2>2, CacheCopies
<1>4. CASE CountInvAck(c, m)
  <2>1. /\ UNCHANGED <<CacheState, DataBlk, tbeDataBlk, latest, requestNet, forwardNet>>
        /\ responseNet' \subseteq responseNet
    BY <1>4 DEF CountInvAck, PopResponse, seqVars
  <2>2. CacheState[c] # "MI_A"
    BY <1>4, StateRead DEF CountInvAck, OnResponse
  <2>. QED  BY <2>1, <2>2, CacheCopies DEF DataLatest
<1>. QED  BY <1>1, <1>2, <1>3, <1>4

\* The core waits for its cache, whatever the cache does meanwhile.
LEMMA CacheWaits ==
  ASSUME LocalInv, CoreWaits, NEW c \in Cache, CacheStep(c)
  PROVE  CoreWaits'
<1>0. SeqTypeOK /\ CacheTypeOK
  BY DEF LocalInv, TypeOK
<1>1. ASSUME \A d \in Cache \ {c} :
               /\ CacheState'[d] = CacheState[d]
               /\ outstanding'[d] = outstanding[d]
               /\ mandatoryQueue'[d] = mandatoryQueue[d],
             mandatoryQueue'[c] \in {"none", outstanding'[c]},
             CacheState'[c] = "IS_D" =>
               outstanding'[c] = "LD" /\ mandatoryQueue'[c] = "none",
             CacheState'[c] \in StoreMissState =>
               outstanding'[c] = "ST" /\ mandatoryQueue'[c] = "none"
      PROVE  CoreWaits'
  BY <1>1 DEF CoreWaits
<1>. USE <1>0 DEF SeqTypeOK, CacheTypeOK, setState, popMandatoryQueue, StoreMissState
<1>2. CASE CoreRequest(c)
  BY <1>1, <1>2 DEF CoreRequest, makeRequest, cacheVars, CoreWaits
<1>3. CASE LoadMiss(c) \/ StoreMiss(c) \/ StoreUpgrade(c)
  BY <1>1, <1>3 DEF LoadMiss, StoreMiss, Issue, StoreUpgrade, CoreWaits
<1>4. CASE LoadHit(c) \/ StoreHit(c)
  BY <1>1, <1>4
     DEF LoadHit, StoreHit, readCallback, writeCallback, cacheVars, CoreWaits
<1>5. CASE Replacement(c)
  BY <1>1, <1>5
     DEF Replacement, ReplaceShared, ReplaceModified, Replace, seqVars, CoreWaits
<1>6. CASE ForwardPort(c)
  <2>1. /\ UNCHANGED <<outstanding, mandatoryQueue>>
        /\ \A d \in Cache \ {c} : CacheState'[d] = CacheState[d]
    BY <1>6, ForwardFrame
  <2>2. \/ CacheState'[c] \in {"I", "II_A", "SI_A", "S"}
        \/ CacheState[c] = "SM_AD" /\ CacheState'[c] = "IM_AD"
    BY <1>6, StateRead
       DEF ForwardPort, InvShared, InvUpgrade, InvReplacement, AckInv,
           FwdGetSModified, FwdGetSReplacement, FwdGetMModified,
           FwdGetMReplacement, WBAck, OnForward
  <2>. QED  BY <1>1, <2>1, <2>2 DEF CoreWaits
<1>7. ASSUME NEW m \in responseNet, LoadData(c, m) PROVE CoreWaits'
  <2>1. CacheState[c] = "IS_D"
    BY <1>7, StateRead DEF LoadData, OnResponse
  <2>. QED  BY <1>1, <1>7, <2>1 DEF LoadData, readCallback, CoreWaits
<1>8. ASSUME NEW m \in responseNet, StoreData(c, m) \/ LastInvAck(c, m)
      PROVE  CoreWaits'
  <2>1. CacheState[c] \in StoreMissState /\ StoreDone(c, m)
    BY <1>8, StateRead DEF StoreData, LastInvAck, OnResponse
  <2>. QED  BY <1>1, <2>1 DEF StoreDone, writeCallback, CoreWaits
<1>9. ASSUME NEW m \in responseNet, StoreDataAckCnt(c, m) \/ CountInvAck(c, m)
      PROVE  CoreWaits'
  <2>1. CacheState[c] \in StoreMissState /\ CacheState'[c] \in StoreMissState
    BY <1>9, StateRead DEF StoreDataAckCnt, CountInvAck, OnResponse
  <2>. QED  BY <1>1, <1>9, <2>1 DEF StoreDataAckCnt, CountInvAck, seqVars, CoreWaits
<1>. QED  BY <1>2, <1>3, <1>4, <1>5, <1>6, <1>7, <1>8, <1>9
          DEF CacheStep, MandatoryPort, ResponsePort

-----------------------------------------------------------------------------
(* DataLatest under the transitions of the directory. *)

\* A message that is not forwarded to a cache does not get into its inbox.
LEMMA SendForwardWithin ==
  ASSUME NetTypeOK, NEW dests, NEW m \in ForwardMsg, SendForward(dests, m),
         NEW c \in Cache
  PROVE  /\ Inbox(c)' \subseteq Inbox(c) \cup {m}
         /\ c \notin dests => Inbox(c)' = Inbox(c)
<1>1. CASE c \in dests
  <2>1. forwardNet'[c] = Append(forwardNet[c], m)
    BY <1>1 DEF SendForward
  <2>2. forwardNet[c] \in Seq(ForwardMsg)
    BY DEF NetTypeOK
  <2>3. \A s \in Seq(ForwardMsg) : \A i \in DOMAIN Append(s, m) :
          Append(s, m)[i] = m \/ (i \in DOMAIN s /\ Append(s, m)[i] = s[i])
    <3>1. SUFFICES ASSUME NEW s \in Seq(ForwardMsg), NEW i \in DOMAIN Append(s, m)
                   PROVE  \/ Append(s, m)[i] = m
                          \/ i \in DOMAIN s /\ Append(s, m)[i] = s[i]
      OBVIOUS
    <3>2. PICK n \in Nat : n = Len(s)
      BY LenProperties
    <3>3. Append(s, m) \in Seq(ForwardMsg) /\ Len(Append(s, m)) = n + 1
      BY <3>2, AppendProperties
    <3>4. i \in 1..(n + 1)
      BY <3>1, <3>3, LenProperties
    <3>5. CASE i = n + 1
      <4>1. Append(s, m)[Len(s) + 1] = m
        BY AppendProperties
      <4>2. i = Len(s) + 1
        BY <3>2, <3>5
      <4>. QED  BY <4>1, <4>2, Zenon
    <3>6. CASE i \in 1..n
      BY <3>2, <3>6, AppendProperties, LenProperties
    <3>. QED  BY <3>2, <3>4, <3>5, <3>6
  <2>. QED  BY <1>1, <2>1, <2>2, <2>3 DEF Inbox
<1>2. CASE c \notin dests
  BY <1>2 DEF SendForward, Inbox
<1>. QED  BY <1>1, <1>2

LEMMA PopRequestWithin ==
  ASSUME LocalInv, Expected, NEW r \in Cache, requestNet[r] # << >>, PopRequest(r)
  PROVE  Request(r) \in Asked(r) /\ \A c \in Cache : Asked(c)' \subseteq Asked(c)
<1>1. NetTypeOK /\ ChannelsShort
  BY DEF LocalInv, TypeOK, Expected
<1>2. /\ Asked(r) = {Request(r)} /\ Asked(r)' = {}
      /\ \A c \in Cache \ {r} : Asked(c)' = Asked(c)
  BY <1>1, PopRequestAsked
<1>. QED  BY <1>2

\* A cache that replaces the block and is asked for it has the last value.
LEMMA AskedForData ==
  ASSUME NEW c \in Cache, CacheState[c] = "MI_A", Forwarded(c, {"GETS", "GETM"})
  PROVE  Exclusive(c)
BY DEF Exclusive

LEMMA RequestCopies ==
  ASSUME LocalInv, Expected, DataLatest, NEW r \in Cache, RequestPort(r),
         UNCHANGED <<cacheVars, seqVars>>
  PROVE  DataLatest'
<1>0. NetTypeOK /\ DirTypeOK /\ ChannelsShort
  BY DEF LocalInv, TypeOK, Expected
<1>1. requestNet[r] # << >> /\ PopRequest(r)
  BY DEF RequestPort, GetSInvalid, GetMInvalid, Fetch, GetSShared, GetMShared,
         GetSModified, GetMModified, PutStale, PutShared, PutSharedLast, PutBusy,
         RemoveSharer, PutMOwner, OnRequest
<1>2. /\ Request(r) \in Asked(r) /\ Request(r) \in RequestMsg
      /\ \A c \in Cache : Asked(c)' \subseteq Asked(c)
  BY <1>0, <1>1, PopRequestWithin, PopRequestType DEF Request
<1>3. CASE GetSInvalid(r) \/ GetMInvalid(r)
  <2>1. /\ queueMemory("MEMORY_READ", r, dirDataBlk) /\ DirectoryState = "I"
        /\ UNCHANGED <<dirDataBlk, forwardNet, responseNet>>
    BY <1>3 DEF GetSInvalid, GetMInvalid, Fetch, OnRequest
  <2>2. dirDataBlk = latest /\ dirDataBlk \in Value
    BY <1>0, <2>1 DEF DataLatest, DirTypeOK
  <2>3. \A q \in AtMemory' : q.DataBlk = dirDataBlk
    BY <1>0, <2>1, <2>2, QueueMemoryAlone DEF MemState
  <2>4. \A c \in Cache : Inbox(c)' = Inbox(c)
    BY <2>1 DEF Inbox
  <2>. QED
    BY <1>2, <2>1, <2>2, <2>3, <2>4, AskedForData, DirectoryCopies DEF Forwarded
<1>4. CASE GetSShared(r)
  <2>1. /\ DirectoryState = "S"
        /\ \A m \in responseNet' \ responseNet : m.DataBlk = dirDataBlk
        /\ UNCHANGED <<DirectoryState, dirDataBlk, memQueue, forwardNet>>
    BY <1>4 DEF GetSShared, SendResponse, DataFromDir, OnRequest
  <2>2. dirDataBlk = latest
    BY <2>1 DEF DataLatest
  <2>3. (\A c \in Cache : Inbox(c)' = Inbox(c)) /\ AtMemory' = AtMemory
    BY <2>1 DEF Inbox, AtMemory
  <2>. QED
    BY <1>2, <2>1, <2>2, <2>3, AskedForData, DirectoryCopies
       DEF Forwarded, DataLatest
<1>5. CASE GetMShared(r)
  <2>1. /\ DirectoryState = "S" /\ DirectoryState' = "M"
        /\ \A m \in responseNet' \ responseNet : m.DataBlk = dirDataBlk
        /\ SendForward(InvDestination(r), Inv(r))
        /\ UNCHANGED memQueue
    BY <1>5
       DEF GetMShared, SendResponse, DataFromDir, OnRequest, Inv, setDirState
  <2>2. dirDataBlk = latest
    BY <2>1 DEF DataLatest
  <2>3. \A c \in Cache : Inbox(c)' \subseteq Inbox(c) \cup {Inv(r)}
    BY <1>0, <2>1, SendForwardWithin DEF Inv, ForwardMsg
  <2>4. \A c \in Cache :
          Forwarded(c, {"GETS", "GETM"})' => Forwarded(c, {"GETS", "GETM"})
    BY <2>3 DEF Forwarded, Inv
  <2>5. AtMemory' = AtMemory
    BY <2>1 DEF AtMemory
  <2>. QED
    BY <1>2, <2>1, <2>2, <2>4, <2>5, AskedForData, DirectoryCopies DEF DataLatest
<1>6. CASE GetSModified(r) \/ GetMModified(r)
  <2>. DEFINE f == [Type |-> Request(r).Type, Requestor |-> r]
  <2>1. /\ DirectoryState' \in {"M", "M_SD"} /\ SendForward(Owner, f)
        /\ UNCHANGED <<memQueue, responseNet>> /\ f \in ForwardMsg
    BY <1>0, <1>1, <1>6, RequestFields
       DEF GetSModified, GetMModified, f_forwardRequest, OnRequest, setDirState
  <2>2. \A c \in Cache : c \notin Owner => Inbox(c)' = Inbox(c)
    BY <1>0, <2>1, SendForwardWithin
  <2>3. \A c \in Cache : CacheState[c] = "MI_A" /\ c \in Owner => Exclusive(c)
    BY DEF Expected, OwnerExpected, Exclusive, StoreMissState
  <2>4. \A c \in Cache :
          CacheState[c] = "MI_A" /\ Forwarded(c, {"GETS", "GETM"})' => Exclusive(c)
    BY <2>2, <2>3, AskedForData DEF Forwarded
  <2>5. AtMemory' = AtMemory
    BY <2>1 DEF AtMemory
  <2>. QED  BY <1>2, <2>1, <2>4, <2>5, DirectoryCopies DEF DataLatest
<1>7. CASE PutStale(r) \/ PutShared(r) \/ PutSharedLast(r) \/ PutBusy(r)
  <2>. DEFINE w == [Type |-> "WB_ACK", Requestor |-> Dir]
  <2>1. /\ SendForward({r}, w)
        /\ DirectoryState' \notin {"M", "M_SD"} => DirectoryState \notin {"M", "M_SD"}
        /\ UNCHANGED <<dirDataBlk, memQueue, responseNet>>
    BY <1>7
       DEF PutStale, PutShared, PutSharedLast, PutBusy, RemoveSharer, dirVars,
           a_sendWriteBackAck, OnRequest, setDirState
  <2>2. \A c \in Cache : Inbox(c)' \subseteq Inbox(c) \cup {w}
    BY <1>0, <2>1, SendForwardWithin DEF ForwardMsg, Node
  <2>3. \A c \in Cache :
          Forwarded(c, {"GETS", "GETM"})' => Forwarded(c, {"GETS", "GETM"})
    BY <2>2 DEF Forwarded
  <2>4. AtMemory' = AtMemory
    BY <2>1 DEF AtMemory
  <2>. QED  BY <1>2, <2>1, <2>3, <2>4, AskedForData, DirectoryCopies DEF DataLatest
<1>8. CASE PutMOwner(r)
  <2>1. /\ Request(r).Type = "PUTM" /\ r \in Owner /\ DirectoryState = "M"
        /\ queueMemory("MEMORY_WB", r, Request(r).DataBlk)
        /\ dirDataBlk' = Request(r).DataBlk
        /\ UNCHANGED <<forwardNet, responseNet>>
    BY <1>0, <1>8, RequestHead DEF PutMOwner, writeDataToDirectory
  <2>2. CacheState[r] = "MI_A" /\ Exclusive(r)
    BY <1>2, <2>1 DEF Expected, OwnerExpected, Exclusive
  <2>3. Request(r).DataBlk = latest /\ Request(r).DataBlk \in Value
    BY <1>2, <2>1, <2>2 DEF DataLatest, RequestMsg
  <2>4. \A q \in AtMemory' : q.Type = "MEMORY_WB"
    BY <1>0, <2>1, <2>3, QueueMemoryAlone DEF MemState
  <2>5. \A c \in Cache : Inbox(c)' = Inbox(c)
    BY <2>1 DEF Inbox
  <2>. QED
    BY <1>2, <2>1, <2>3, <2>4, <2>5, AskedForData, DirectoryCopies DEF Forwarded
<1>. QED  BY <1>3, <1>4, <1>5, <1>6, <1>7, <1>8 DEF RequestPort

LEMMA MemoryCopies ==
  ASSUME LocalInv, Expected, DataLatest, MemoryPort, UNCHANGED <<cacheVars, seqVars>>
  PROVE  DataLatest'
<1>0. NetTypeOK /\ DirTypeOK /\ ChannelsShort
  BY DEF LocalInv, TypeOK, Expected
<1>. DEFINE q == Head(memQueue)
<1>1. /\ q \in AtMemory /\ AtMemory' = {} /\ UNCHANGED <<requestNet, dirDataBlk>>
      /\ DirectoryState \notin {"M", "M_SD"}
  <2>1. /\ memQueue # << >> /\ memQueue' = Tail(memQueue)
        /\ UNCHANGED <<requestNet, dirDataBlk>>
        /\ DirectoryState \notin {"M", "M_SD"}
    BY DEF MemoryPort, MemoryDataShared, MemoryDataModified, MemoryAckInvalid,
           MemoryAckShared, OnMemory, netVars
  <2>2. q \in AtMemory /\ memQueue' = << >>
    BY <1>0, <2>1, MemoryHead
  <2>. QED  BY <2>1, <2>2 DEF AtMemory
<1>2. dirDataBlk' = latest /\ \A c \in Cache : Asked(c)' = Asked(c)
  BY <1>1 DEF DataLatest, Asked
<1>3. CASE MemoryDataShared \/ MemoryDataModified
  <2>1. /\ q.Type = "MEMORY_READ" /\ UNCHANGED forwardNet
        /\ \A m \in responseNet' \ responseNet : m.DataBlk = q.DataBlk
    BY <1>3
       DEF MemoryDataShared, MemoryDataModified, OnMemory, SendResponse, DataFromDir
  <2>2. q.DataBlk = latest
    BY <1>1, <2>1 DEF DataLatest
  <2>3. \A c \in Cache : Inbox(c)' = Inbox(c)
    BY <2>1 DEF Inbox
  <2>. QED
    BY <1>1, <1>2, <2>1, <2>2, <2>3, AskedForData, DirectoryCopies DEF Forwarded
<1>4. CASE MemoryAckInvalid
  <2>. DEFINE w == [Type |-> "WB_ACK", Requestor |-> MemoryRequestor]
  <2>1. SendForward({MemoryRequestor}, w) /\ UNCHANGED responseNet
    BY <1>4 DEF MemoryAckInvalid
  <2>. HIDE DEF w
  <2>2. w \in ForwardMsg /\ w.Type = "WB_ACK"
    BY <1>0, <1>4, MemoryFields DEF w, MemoryAckInvalid, OnMemory, ForwardMsg, Node
  <2>9. \A c \in Cache : Inbox(c)' \subseteq Inbox(c) \cup {w}
    BY <1>0, <2>1, <2>2, SendForwardWithin
  <2>3. \A c \in Cache :
          Forwarded(c, {"GETS", "GETM"})' => Forwarded(c, {"GETS", "GETM"})
    BY <2>2, <2>9 DEF Forwarded
  <2>. QED  BY <1>1, <1>2, <2>1, <2>3, AskedForData, DirectoryCopies
<1>5. CASE MemoryAckShared
  <2>1. UNCHANGED <<forwardNet, responseNet>>
    BY <1>5 DEF MemoryAckShared, netVars
  <2>2. \A c \in Cache : Inbox(c)' = Inbox(c)
    BY <2>1 DEF Inbox
  <2>. QED
    BY <1>1, <1>2, <2>1, <2>2, AskedForData, DirectoryCopies DEF Forwarded
<1>. QED  BY <1>3, <1>4, <1>5 DEF MemoryPort

LEMMA OwnerCopies ==
  ASSUME LocalInv, Expected, DataLatest, NEW m \in responseNet, OwnerData(m),
         UNCHANGED <<cacheVars, seqVars>>
  PROVE  DataLatest'
<1>0. NetTypeOK /\ DirTypeOK /\ ChannelsShort
  BY DEF LocalInv, TypeOK, Expected
<1>1. /\ m.Type = "DATA" /\ DirectoryState = "M_SD" /\ dirDataBlk' = m.DataBlk
      /\ queueMemory("MEMORY_WB", m.Sender, m.DataBlk)
      /\ responseNet' \subseteq responseNet /\ UNCHANGED <<requestNet, forwardNet>>
  BY DEF OwnerData, writeDataToDirectory, PopResponse
<1>2. m.DataBlk = latest /\ m.DataBlk \in Value /\ m.Sender \in Cache
  BY <1>0, <1>1, ResponseDir DEF DataLatest, NetTypeOK, ResponseMsg
<1>3. \A q \in AtMemory' : q.Type = "MEMORY_WB"
  BY <1>0, <1>1, <1>2, QueueMemoryAlone DEF MemState
<1>4. \A c \in Cache : Inbox(c)' = Inbox(c) /\ Asked(c)' = Asked(c)
  BY <1>1 DEF Inbox, Asked
<1>. QED  BY <1>1, <1>2, <1>3, <1>4, AskedForData, DirectoryCopies DEF Forwarded

-----------------------------------------------------------------------------
(* The inductive invariant. *)

LEMMA CoherenceInit == Init => CoherenceInv
<1>. SUFFICES ASSUME Init PROVE CoherenceInv
  OBVIOUS
<1>1. LocalInv /\ Expected
  BY LocalInvInit, InitExpected
<1>2. DataLatest
  BY DEF Init, NetInit, CacheInit, DirInit, DataLatest, AtMemory
<1>3. CoreWaits
  BY DEF Init, SeqInit, CacheInit, CoreWaits, StoreMissState
<1>. QED  BY <1>1, <1>2, <1>3 DEF CoherenceInv

LEMMA CoherenceStep == CoherenceInv /\ [Next]_vars => CoherenceInv'
<1>. SUFFICES ASSUME CoherenceInv, [Next]_vars PROVE CoherenceInv'
  OBVIOUS
<1>1. LocalInv /\ Expected /\ DataLatest /\ CoreWaits /\ LocalInv'
  BY LocalInvStep DEF CoherenceInv
<1>2. ASSUME NEW c \in Cache, CacheStep(c) PROVE CoherenceInv'
  <2>1. Expected' /\ CoreWaits' /\ UNCHANGED dirVars
    BY <1>1, <1>2, CacheStepKeeps, CacheWaits DEF CacheStep
  <2>2. DataLatest'
    BY <1>1, <1>2, <2>1, MandatoryCopies, ForwardCopies, ResponseCopies
       DEF CacheStep, ResponsePort
  <2>. QED  BY <1>1, <2>1, <2>2 DEF CoherenceInv
<1>3. CASE DirStep
  <2>1. Expected'
    BY <1>1, <1>3, DirStepKeeps
  <2>2. DataLatest'
    BY <1>1, <1>3, RequestCopies, MemoryCopies, OwnerCopies
       DEF DirStep, DirRequestStep, DirMemoryStep, DirResponseStep, DirResponsePort
  <2>3. UNCHANGED <<cacheVars, seqVars>>
    BY <1>3 DEF DirStep, DirRequestStep, DirMemoryStep, DirResponseStep
  <2>4. CoreWaits'
    BY <1>1, <2>3 DEF CoreWaits, cacheVars, seqVars
  <2>. QED  BY <1>1, <2>1, <2>2, <2>4 DEF CoherenceInv
<1>4. CASE UNCHANGED vars
  <2>1. UNCHANGED <<netVars, seqVars, cacheVars, dirVars>>
    BY <1>4 DEF vars
  <2>2. Expected'
    BY <1>1, <2>1, ExpectedFrame DEF netVars, cacheVars, dirVars
  <2>3. /\ \A c \in Cache : Asked(c)' = Asked(c) /\ Inbox(c)' = Inbox(c)
        /\ AtMemory' = AtMemory
    BY <2>1 DEF netVars, dirVars, Asked, Inbox, AtMemory
  <2>4. DataLatest'
    BY <1>1, <2>1, <2>3, AskedForData, DirectoryCopies
       DEF netVars, dirVars, Forwarded, DataLatest
  <2>5. CoreWaits'
    BY <1>1, <2>1 DEF CoreWaits, cacheVars, seqVars
  <2>. QED  BY <1>1, <2>2, <2>4, <2>5 DEF CoherenceInv
<1>. QED  BY <1>2, <1>3, <1>4 DEF Next

\* The messages in flight always fit the states of the controllers, and every
\* copy of the block that is used again is the last one stored.
THEOREM Coherence == Spec => []CoherenceInv
<1>1. Init => CoherenceInv
  BY CoherenceInit
<1>2. CoherenceInv /\ [Next]_vars => CoherenceInv'
  BY CoherenceStep
<1>. QED  BY <1>1, <1>2, PTL DEF Spec

-----------------------------------------------------------------------------
(* Coherence: what the invariant says of the caches. *)

\* While one core may write the block no other core's loads hit on it.
THEOREM SingleWriter == Spec => []SWMR
<1>1. CoherenceInv => SWMR
  <2>. SUFFICES ASSUME CoherenceInv, NEW c \in Cache, NEW d \in Cache, c # d,
                       getState(c) = "M", getState(d) \in ReadableState
                PROVE  FALSE
    BY DEF SWMR
  <2>1. LocalInv /\ NetTypeOK /\ Expected
    BY DEF CoherenceInv, LocalInv, TypeOK
  <2>2. CacheState[c] = "M" /\ CacheState[d] \in {"S", "SM_AD", "SM_A", "M"}
    BY <2>1, StateRead DEF ReadableState
  <2>3. ~ Exclusive(d) /\ ~ AtDirectory
    BY <2>1, <2>2 DEF Expected, OneHolder, Exclusive
  <2>4. Reader(d)
    BY <2>2, <2>3 DEF Reader, Exclusive
  <2>5. Forwarded(d, {"INV"})
    BY <2>1, <2>3, <2>4 DEF Expected, ReadersKnown
  <2>6. PICK r \in Cache : AwaitsAcks(r) /\ Exclusive(r)
    BY <2>1, <2>5, InvWaits
  <2>7. r = c
    BY <2>1, <2>2, <2>6 DEF Expected, OneHolder, Exclusive
  <2>. QED  BY <2>2, <2>6, <2>7 DEF AwaitsAcks
<1>. QED  BY <1>1, Coherence, PTL

\* What a hit reads, and what the directory hands out, is the last store's.
THEOREM DataAlwaysCurrent == Spec => []DataCurrent
<1>1. CoherenceInv => DataCurrent
  <2>. SUFFICES ASSUME CoherenceInv PROVE DataCurrent
    OBVIOUS
  <2>1. LocalInv /\ DataLatest
    BY DEF CoherenceInv
  <2>2. CopiesCurrent
    BY <2>1, StateRead DEF CopiesCurrent, ReadableState, DataLatest
  <2>3. MemoryCurrent
    BY <2>1 DEF MemoryCurrent, DataLatest
  <2>. QED  BY <2>2, <2>3 DEF DataCurrent
<1>. QED  BY <1>1, Coherence, PTL

\* A cache never counts one acknowledgement too many or too few.
THEOREM AcksAccounted == Spec => []AckAccounting
<1>1. CoherenceInv => AckAccounting
  BY DEF CoherenceInv, Expected
<1>. QED  BY <1>1, Coherence, PTL

-----------------------------------------------------------------------------
(* Every message meets a state with a transition for it. *)

LEMMA ForwardsHandled ==
  ASSUME LocalInv, Expected, NEW c \in Cache, forwardNet[c] # << >>
  PROVE  getState(c) \in L1Transitions[ForwardEvent[Head(forwardNet[c]).Type]]
<1>. DEFINE f == Head(forwardNet[c])
<1>1. NetTypeOK /\ ChannelsShort
  BY DEF LocalInv, TypeOK, Expected
<1>2. f \in Inbox(c) /\ f.Type \in {"GETS", "GETM", "INV", "WB_ACK"}
  BY <1>1, InboxHead DEF ForwardMsg
<1>3. /\ f.Type = "INV" => CacheState[c] \in {"IS_D", "S", "SM_AD", "SI_A"}
      /\ f.Type \in {"GETS", "GETM"} =>
           CacheState[c] \in StoreMissState \cup {"M", "MI_A"}
      /\ f.Type = "WB_ACK" => CacheState[c] \in {"MI_A", "SI_A", "II_A"}
  BY <1>2 DEF Expected, ForwardsExpected
<1>4. getState(c) = CacheState[c]
  BY StateRead
<1>. QED  BY <1>2, <1>3, <1>4 DEF L1Transitions, ForwardEvent

LEMMA ResponsesHandled ==
  ASSUME LocalInv, Expected, NEW c \in Cache, NEW m \in responseNet,
         m.Destination = c
  PROVE  getState(c) \in L1Transitions[ResponseEvent(c, m)]
<1>1. NetTypeOK /\ getState(c) = CacheState[c]
  BY StateRead DEF LocalInv, TypeOK
<1>2. /\ m.Type \in {"DATA_FROM_DIR", "DATA_FROM_OWNER", "ACK"}
      /\ m.AckCount \in Int /\ pendingAcks[c] \in Int
      /\ m.Type = "ACK" => m.AckCount = 1
      /\ m.Type = "DATA_FROM_OWNER" => CacheState[c] \in {"IS_D", "IM_AD"}
      /\ m.Type = "DATA_FROM_DIR" =>
           /\ CacheState[c] \in {"IS_D", "IM_AD", "SM_AD"}
           /\ CacheState[c] = "IS_D" => m.AckCount = 0
  BY ResponseHead
<1>3. CASE m.Type # "ACK"
  BY <1>1, <1>2, <1>3 DEF ResponseEvent, DataEvent, L1Transitions
<1>4. CASE m.Type = "ACK"
  <2>1. m.Sender \in Cache /\ m = InvAck(m.Sender, c)
    BY <1>1, <1>2, <1>4 DEF NetTypeOK, ResponseMsg, InvAck
  <2>2. m.Sender \in OwesAck(c)
    BY <2>1, OwesInbox
  <2>3. CacheState[c] \in StoreMissState
    BY <2>2 DEF Expected, AcksExpected, AwaitsAcks, StoreMissState
  <2>4. IsLastAck(c, m) => CacheState[c] \in {"IM_A", "SM_A"}
    <3>1. IsLastAck(c, m) => pendingAcks[c] = 1
      BY <1>2, <1>4 DEF IsLastAck
    <3>2. CacheState[c] \in {"IM_AD", "SM_AD"} => pendingAcks[c] <= 0
      BY DEF Expected, AcksExpected
    <3>. QED  BY <2>3, <3>1, <3>2 DEF StoreMissState
  <2>5. ResponseEvent(c, m) = IF IsLastAck(c, m) THEN "Inv_Ack_all" ELSE "Inv_Ack"
    BY <1>4 DEF ResponseEvent, AckEvent
  <2>. QED  BY <1>1, <2>3, <2>4, <2>5 DEF L1Transitions
<1>. QED  BY <1>3, <1>4

\* A PUTM of the owner finds the directory in M: while the block is fetched for
\* a store the owner is the cache that waits for it.
LEMMA RequestsHandled ==
  ASSUME LocalInv, Expected, NEW r \in Cache, requestNet[r] # << >>
  PROVE  DirectoryState \in DirTransitions[RequestEvent(r)]
<1>1. NetTypeOK /\ DirTypeOK /\ DirBookkeeping /\ ChannelsShort
  BY DEF LocalInv, TypeOK, Expected
<1>2. Request(r) \in RequestMsg /\ Asked(r) = {Request(r)}
  BY <1>1, AskedHead, PopRequestType DEF Request
<1>3. RequestEvent(r) \in {"GETS", "GETM", "PUTS_Last", "PUTS_NotLast",
                           "PUTM_NotOwner", "PUTM_Owner"}
  BY <1>2 DEF RequestMsg, RequestEvent, PUTMEvent, PUTSEvent
<1>4. RequestEvent(r) = "PUTM_Owner" => DirectoryState = "M"
  <2>1. SUFFICES ASSUME RequestEvent(r) = "PUTM_Owner" PROVE DirectoryState = "M"
    OBVIOUS
  <2>2. r \in Owner
    BY <1>2, <2>1 DEF RequestMsg, RequestEvent, PUTMEvent, PUTSEvent
  <2>3. CacheState[r] = "MI_A"
    BY <1>2, <2>2 DEF Expected, OwnerExpected
  <2>4. DirectoryState \in {"M", "IM_D"}
    BY <1>1, <2>2 DEF DirBookkeeping, DirTypeOK, DirState
  <2>5. ASSUME DirectoryState = "IM_D" PROVE FALSE
    <3>1. Head(memQueue) \in AtMemory /\ Head(memQueue) \in MemoryMsg
      <4>1. memQueue # << >>
        BY <2>5 DEF Expected, ChannelsShort, MemState
      <4>. QED  BY <1>1, <4>1, MemoryHead
    <3>. QED  BY <2>2, <2>3, <2>5, <3>1 DEF Expected, MemoryExpected, MemoryMsg
  <2>. QED  BY <2>4, <2>5
<1>. QED  BY <1>1, <1>3, <1>4 DEF DirTransitions, DirTypeOK

LEMMA MemoryHandled ==
  ASSUME LocalInv, Expected, memQueue # << >>
  PROVE  DirectoryState \in DirTransitions[Head(memQueue).Type]
<1>1. DirTypeOK /\ ChannelsShort
  BY DEF LocalInv, TypeOK, Expected
<1>2. /\ Head(memQueue) \in AtMemory /\ Head(memQueue) \in MemoryMsg
      /\ DirectoryState \in MemState
  BY <1>1, MemoryHead
<1>3. Head(memQueue).Type = "MEMORY_READ" <=> DirectoryState \in {"IS_D", "IM_D"}
  BY <1>2 DEF Expected, MemoryExpected, MemoryMsg
<1>. QED  BY <1>2, <1>3 DEF DirTransitions, MemState, MemoryMsg

\* Neither controller is ever sent a message that it has no transition for,
\* and no assertion of the directory fails: the simulation is not aborted.
THEOREM EventsAlwaysHandled == Spec => []EventsHandled
<1>1. CoherenceInv /\ DirAsserts => EventsHandled
  <2>. SUFFICES ASSUME CoherenceInv, DirAsserts PROVE EventsHandled
    OBVIOUS
  <2>1. LocalInv /\ Expected /\ NetTypeOK
    BY DEF CoherenceInv, LocalInv, TypeOK
  <2>2. L1EventHandled
    BY <2>1, ForwardsHandled, ResponsesHandled DEF L1EventHandled
  <2>3. \A m \in responseNet : m.Destination = Dir => DirectoryState = "M_SD"
    <3>1. SUFFICES ASSUME NEW m \in responseNet, m.Destination = Dir
                   PROVE  DirectoryState = "M_SD"
      OBVIOUS
    <3>2. DataComing(Dir)
      BY <2>1, <3>1, ResponseDir DEF DataComing
    <3>. QED  BY <2>1, <3>2 DEF Expected, OneHolder
  <2>4. DirEventHandled
    BY <2>1, <2>3, RequestsHandled, MemoryHandled DEF DirEventHandled, DirTransitions
  <2>. QED  BY <2>2, <2>4 DEF EventsHandled
<1>. QED  BY <1>1, Coherence, DirAssertsHold, PTL

-----------------------------------------------------------------------------
(* The buffers *)

\* A fixed number of slots is enough for every buffer, and no response is sent
\* while the same one is still in flight.
THEOREM MessagesAlwaysBounded == Spec => []MessagesBounded
<1>1. CoherenceInv => MessagesBounded
  <2>. SUFFICES ASSUME CoherenceInv PROVE MessagesBounded
    OBVIOUS
  <2>1. LocalInv /\ Expected /\ NetTypeOK /\ DirTypeOK /\ ChannelsShort
    BY DEF CoherenceInv, LocalInv, TypeOK, Expected
  <2>2. BufferBounds
    <3>1. /\ \A c \in Cache : /\ Len(requestNet[c]) \in {0, 1}
                              /\ Len(forwardNet[c]) \in {0, 1, 2}
          /\ Len(memQueue) \in {0, 1}
      BY <2>1 DEF ChannelsShort
    <3>2. /\ \A n \in {0, 1} : n <= 1
          /\ \A n \in {0, 1, 2} : n <= 2
      OBVIOUS
    <3>. QED  BY <3>1, <3>2, Zenon DEF BufferBounds, ForwardBound
  <2>3. ASSUME NEW c \in Cache, NEW f \in Inbox(c), NEW m \in responseNet,
               m.Sender = c
        PROVE  /\ f.Type = "INV" => m.Type # "ACK" \/ m.Destination # f.Requestor
               /\ f.Type \in {"GETS", "GETM"}
                    => m.Type # "DATA_FROM_OWNER" \/ m.Destination # f.Requestor
               /\ f.Type = "GETS" => m.Type # "DATA"
    <3>2. ASSUME f.Type = "INV", m.Type = "ACK", m.Destination = f.Requestor
          PROVE  FALSE
      <4>1. m.AckCount = 1 /\ m.Destination \in Cache
        BY <2>1, <3>2, ResponseDir DEF Expected, ResponsesExpected
      <4>2. m = InvAck(c, f.Requestor) /\ f = Inv(f.Requestor)
        BY <2>1, <2>3, <3>2, <4>1, InboxHead
           DEF NetTypeOK, ForwardMsg, ResponseMsg, InvAck, Inv
      <4>. QED  BY <2>1, <3>2, <4>1, <4>2 DEF Expected, AcksExpected
    <3>3. ASSUME f.Type \in {"GETS", "GETM"}, m.Type = "DATA_FROM_OWNER",
                 m.Destination = f.Requestor
          PROVE  FALSE
      <4>1. f.Requestor \in Cache /\ FromOwner(f.Requestor) /\ DataComing(f.Requestor)
        BY <2>1, <3>3, ResponseDir DEF FromOwner, DataComing
      <4>. QED  BY <2>1, <4>1 DEF Expected, OneSource
    <3>4. ASSUME f.Type = "GETS", m.Type = "DATA" PROVE FALSE
      <4>1. DataComing(Dir) /\ Forwarded(c, {"GETS"})
        BY <2>1, <3>4, ResponseDir DEF DataComing, Forwarded
      <4>. QED  BY <2>1, <4>1 DEF Expected, OneHolder
    <3>. QED  BY <3>2, <3>3, <3>4
  <2>4. ASSUME NEW m \in responseNet, m.Sender = Dir
        PROVE  /\ requestNet[m.Destination] = << >>
               /\ \A q \in AtMemory : q.Type = "MEMORY_READ"
                    => q.OriginalRequestorMachId # m.Destination
    <3>1. m.Destination \in Cache /\ m.Type = "DATA_FROM_DIR"
      BY <2>1, <2>4, CacheAssumption DEF NetTypeOK, ResponseMsg
    <3>2. DataComing(m.Destination)
      BY <3>1 DEF DataComing
    <3>3. Asked(m.Destination) = {} /\ ~ FromMemory(m.Destination)
      BY <2>1, <3>1, <3>2 DEF Expected, OneSource
    <3>. QED  BY <2>1, <3>1, <3>3, AskedHead DEF FromMemory
  <2>5. NoDuplicateResponse
    BY <2>3, <2>4 DEF NoDuplicateResponse, Inbox, AtMemory
  <2>. QED  BY <2>2, <2>5 DEF MessagesBounded
<1>. QED  BY <1>1, Coherence, PTL

-----------------------------------------------------------------------------
(* The protocol implements an atomic memory. *)

\* The transitions that answer a core do what the memory does; no other is
\* seen by a core.
LEMMA CacheStepIsMemory ==
  ASSUME CoherenceInv, NEW c \in Cache, CacheStep(c)
  PROVE  Memory!Next \/ UNCHANGED Memory!vars
<1>0. LocalInv /\ DataLatest /\ CoreWaits /\ SeqTypeOK
  BY DEF CoherenceInv, LocalInv, TypeOK
<1>1. CASE CoreRequest(c)
  <2>1. PICK type \in {"LD", "ST"} : makeRequest(c, type)
    BY <1>1 DEF CoreRequest
  <2>2. Memory!Ask(c, type)
    BY <2>1 DEF makeRequest, Memory!Ask
  <2>. QED  BY <2>2 DEF Memory!Next
<1>2. CASE LoadHit(c)
  <2>1. outstanding[c] = "LD"
    BY <1>0, <1>2 DEF LoadHit, CoreWaits
  <2>2. DataBlk[c] = latest
    BY <1>0, <1>2, StateRead DEF LoadHit, LoadHitState, DataLatest
  <2>3. Memory!Load(c)
    BY <1>2, <2>1, <2>2 DEF LoadHit, readCallback, Memory!Load
  <2>. QED  BY <2>3 DEF Memory!Next
<1>3. ASSUME NEW m \in responseNet, LoadData(c, m) PROVE Memory!Next
  <2>1. outstanding[c] = "LD"
    BY <1>0, <1>3, StateRead DEF LoadData, OnResponse, CoreWaits
  <2>2. m.DataBlk = latest
    BY <1>0, <1>3
       DEF LoadData, OnResponse, ResponseEvent, AckEvent, DataLatest
  <2>3. Memory!Load(c)
    BY <1>3, <2>1, <2>2 DEF LoadData, readCallback, Memory!Load
  <2>. QED  BY <2>3 DEF Memory!Next
<1>4. CASE StoreHit(c)
  <2>1. outstanding[c] = "ST"
    BY <1>0, <1>4 DEF StoreHit, CoreWaits
  <2>2. PICK v \in Value : writeCallback(c, v)
    BY <1>4 DEF StoreHit
  <2>3. Memory!Store(c, v)
    BY <2>1, <2>2 DEF writeCallback, Memory!Store
  <2>. QED  BY <2>3 DEF Memory!Next
<1>5. ASSUME NEW m \in responseNet, StoreData(c, m) \/ LastInvAck(c, m)
      PROVE  Memory!Next
  <2>1. outstanding[c] = "ST"
    BY <1>0, <1>5, StateRead
       DEF StoreData, LastInvAck, OnResponse, CoreWaits, StoreMissState
  <2>2. PICK v \in Value : writeCallback(c, v)
    BY <1>5 DEF StoreData, LastInvAck, StoreDone
  <2>3. Memory!Store(c, v)
    BY <2>1, <2>2 DEF writeCallback, Memory!Store
  <2>. QED  BY <2>3 DEF Memory!Next
<1>6. CASE LoadMiss(c) \/ StoreMiss(c) \/ StoreUpgrade(c) \/ Replacement(c)
  BY <1>6
     DEF LoadMiss, StoreMiss, Issue, StoreUpgrade, Replacement, ReplaceShared,
         ReplaceModified, Replace, seqVars, Memory!vars
<1>7. CASE ForwardPort(c)
  BY <1>0, <1>7, ForwardFrame DEF Memory!vars
<1>8. ASSUME NEW m \in responseNet, StoreDataAckCnt(c, m) \/ CountInvAck(c, m)
      PROVE  UNCHANGED Memory!vars
  BY <1>8 DEF StoreDataAckCnt, CountInvAck, seqVars, Memory!vars
<1>. QED  BY <1>1, <1>2, <1>3, <1>4, <1>5, <1>6, <1>7, <1>8
          DEF CacheStep, MandatoryPort, ResponsePort

\* Whatever the network does to their messages, the cores see one memory block:
\* every load returns what the last store left there.
THEOREM CachesImplementMemory == Spec => ImplementsAtomicMemory
<1>1. Init => Memory!Init
  BY DEF Init, SeqInit, Memory!Init
<1>2. CoherenceInv /\ [Next]_vars => [Memory!Next]_(Memory!vars)
  <2>. SUFFICES ASSUME CoherenceInv, [Next]_vars
                PROVE  Memory!Next \/ UNCHANGED Memory!vars
    OBVIOUS
  <2>1. CASE DirStep
    BY <2>1
       DEF DirStep, DirRequestStep, DirMemoryStep, DirResponseStep, seqVars,
           Memory!vars
  <2>2. CASE UNCHANGED vars
    BY <2>2 DEF vars, seqVars, Memory!vars
  <2>. QED  BY <2>1, <2>2, CacheStepIsMemory DEF Next
<1>. QED  BY <1>1, <1>2, Coherence, PTL
          DEF Spec, ImplementsAtomicMemory, Memory!Spec
=============================================================================
