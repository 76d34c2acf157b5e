------------------------------ MODULE HeadOfLine ------------------------------
(***************************************************************************)
(* Two blocks of lab5 with a home directory each ("assuming we have more   *)
(* than one directory controllers", MSI-cache.sm:363-364).  The variables  *)
(* of MSIProtocol are those of the first block, "A", and the ones with a   *)
(* suffix those of the second.                                             *)
(*                                                                         *)
(* What the blocks share is each cache's buffer forwardToCache: messages   *)
(* of one directory arrive in order, those of the two in any order, and a  *)
(* message that stalls at the head (z_stall) stalls all behind it.         *)
(***************************************************************************)
EXTENDS MSIProtocol, TLC

CONSTANT Asked   \* what cores request: LD, ST or both

VARIABLES
  requestNetB, forwardNetB, responseNetB,
  outstandingB, mandatoryQueueB, latestB, loadedB, exposedB,
  CacheStateB, entriesB, DataBlkB, TBEsB, tbeDataBlkB, pendingAcksB,
  DirectoryStateB, dirDataBlkB, SharersB, OwnerB, memQueueB,
  forwardToCache   \* of each cache: the blocks that the messages which have
                   \* arrived are about, in the order of their arrival

B == INSTANCE MSIProtocol WITH
  requestNet <- requestNetB, forwardNet <- forwardNetB,
  responseNet <- responseNetB, outstanding <- outstandingB,
  mandatoryQueue <- mandatoryQueueB, latest <- latestB, loaded <- loadedB,
  exposed <- exposedB, CacheState <- CacheStateB, entries <- entriesB,
  DataBlk <- DataBlkB, TBEs <- TBEsB, tbeDataBlk <- tbeDataBlkB,
  pendingAcks <- pendingAcksB, DirectoryState <- DirectoryStateB,
  dirDataBlk <- dirDataBlkB, Sharers <- SharersB, Owner <- OwnerB,
  memQueue <- memQueueB

varsB ==
  <<requestNetB, forwardNetB, responseNetB, outstandingB, mandatoryQueueB,
    latestB, loadedB, exposedB, CacheStateB, entriesB, DataBlkB, TBEsB,
    tbeDataBlkB, pendingAcksB, DirectoryStateB, dirDataBlkB, SharersB, OwnerB,
    memQueueB>>
varsAB == <<vars, varsB, forwardToCache>>

InitAB == Init /\ B!Init /\ forwardToCache = [c \in Cache |-> <<>>]

\* The block of the message that the controller of c must handle first.
AtHead(c, block) == forwardToCache[c] # <<>> /\ Head(forwardToCache[c]) = block

\* A step about one block, in which the caches of served take a message.
Serve(served, block) ==
  /\ \A c \in served : AtHead(c, block)
  /\ forwardToCache' = [c \in Cache |-> IF c \in served THEN Tail(forwardToCache[c])
                                        ELSE forwardToCache[c]]

StepA ==
  /\ Next /\ UNCHANGED varsB
  /\ \A c \in Cache : outstanding'[c] \in Asked \cup {"none"}
  /\ Serve({c \in Cache : Len(forwardNet'[c]) < Len(forwardNet[c])}, "A")

StepB ==
  /\ B!Next /\ UNCHANGED vars
  /\ \A c \in Cache : outstandingB'[c] \in Asked \cup {"none"}
  /\ Serve({c \in Cache : Len(forwardNetB'[c]) < Len(forwardNetB[c])}, "B")

\* A forwarded message reaches the cache.
Arrived(c, block) == Cardinality({i \in DOMAIN forwardToCache[c] :
                                    forwardToCache[c][i] = block})
Arrive(c, block, net) ==
  /\ Arrived(c, block) < Len(net[c])
  /\ forwardToCache' = [forwardToCache EXCEPT ![c] = Append(@, block)]
  /\ UNCHANGED <<vars, varsB>>

NextAB ==
  \/ StepA \/ StepB
  \/ \E c \in Cache : Arrive(c, "A", forwardNet) \/ Arrive(c, "B", forwardNetB)

SpecAB == InitAB /\ [][NextAB]_varsAB

-----------------------------------------------------------------------------
(* Properties *)

\* c has stalled a forwarded request for a block until it gets the block's
\* data, which d is to send but cannot: the request that asks d for them is
\* behind one for the other block, which d has stalled.
WaitsFor(c, d, block, state, net) ==
  /\ AtHead(c, block) /\ state[c] \in {"IM_AD", "SM_AD"}
  /\ Head(net[c]).Type \in {"GETS", "GETM"}
  /\ \E i \in DOMAIN net[d] :
       net[d][i].Type \in {"GETS", "GETM"} /\ net[d][i].Requestor = c
  /\ forwardToCache[d] # <<>> /\ ~AtHead(d, block)

\* No two caches wait for each other for ever, each with a request for one
\* block at the head of its buffer, and one for the other block behind it.
NoCircularWait ==
  \A c, d \in Cache :
    ~ ( /\ WaitsFor(c, d, "A", CacheState, forwardNet)
        /\ WaitsFor(d, c, "B", CacheStateB, forwardNetB) )

CacheSymmetryAB == Permutations(Cache)
=============================================================================
