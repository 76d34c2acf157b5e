------------------------------ MODULE Sequencer ------------------------------
(***************************************************************************)
(* The cores and their sequencers, which are outside the repository: what  *)
(* the L1 controller of lab5/MSI-cache.sm relies on.  A sequencer has at   *)
(* most one request outstanding for the block; it puts it in the           *)
(* mandatoryQueue and is called back when the request has been performed   *)
(* (readCallback, writeCallback, which accesses the data block it is       *)
(* given) and when the cache loses the block (evictionCallback).           *)
(*                                                                         *)
(* latest, loaded and exposed record what the cores have observed; no      *)
(* action's guard reads them.                                              *)
(***************************************************************************)
EXTENDS MSINetwork

VARIABLES outstanding,     \* the request the core of c waits for
          mandatoryQueue,  \* the request the L1 controller has not taken yet
          latest,          \* what the last completed store wrote
          loaded,          \* what the last completed load of a core returned
          exposed          \* cores given the block, not told of its eviction

seqVars == <<outstanding, mandatoryQueue, latest, loaded, exposed>>

RequestType == {"none", "LD", "ST"}

SeqTypeOK ==
  /\ outstanding \in [Cache -> RequestType]
  /\ mandatoryQueue \in [Cache -> RequestType]
  /\ latest \in Value
  /\ loaded \in [Cache -> Data]
  /\ exposed \in SUBSET Cache

SeqInit ==
  /\ outstanding = [c \in Cache |-> "none"]
  /\ mandatoryQueue = [c \in Cache |-> "none"]
  /\ latest \in Value
  /\ loaded = [c \in Cache |-> NoData]
  /\ exposed = {}

\* The core issues a load (LD or IFETCH) or a store (ST or ATOMIC).
makeRequest(c, type) ==
  /\ outstanding[c] = "none"
  /\ outstanding' = [outstanding EXCEPT ![c] = type]
  /\ mandatoryQueue' = [mandatoryQueue EXCEPT ![c] = type]
  /\ loaded' = [loaded EXCEPT ![c] = NoData]
  /\ UNCHANGED <<latest, exposed>>

popMandatoryQueue(c) ==
  mandatoryQueue' = [mandatoryQueue EXCEPT ![c] = "none"]

\* The load of c is done, with block contents d.
readCallback(c, d) ==
  /\ outstanding' = [outstanding EXCEPT ![c] = "none"]
  /\ loaded' = [loaded EXCEPT ![c] = d]
  /\ exposed' = exposed \cup {c}
  /\ UNCHANGED latest

\* The store of c is done; it has left v in the block.
writeCallback(c, v) ==
  /\ outstanding' = [outstanding EXCEPT ![c] = "none"]
  /\ latest' = v
  /\ exposed' = exposed \cup {c}
  /\ UNCHANGED loaded

evictionCallback(c) ==
  /\ exposed' = exposed \ {c}
  /\ UNCHANGED <<outstanding, mandatoryQueue, latest, loaded>>
=============================================================================
