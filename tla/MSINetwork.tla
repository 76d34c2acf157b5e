----------------------------- MODULE MSINetwork -----------------------------
(***************************************************************************)
(* The interconnect of the MSI protocol of lab5, seen by one cache block.  *)
(*                                                                         *)
(* Three virtual networks carry the coherence messages:                    *)
(*   vnet 2  requests   cache -> directory           (ordered)             *)
(*   vnet 3  forwards   directory -> cache           (ordered)             *)
(*   vnet 4  responses  cache or directory -> cache or directory           *)
(*                                                                         *)
(* The network itself (Ruby) is not in the repository; it is modelled from *)
(* the buffer declarations of the two controllers.  A message may stay in  *)
(* the network for ever so long, and messages of different sources or      *)
(* different virtual networks overtake one another; on vnets 2 and 3 two   *)
(* messages with the same source and destination do not.  Responses are    *)
(* kept as a set, which allows every order: the protocol turns out not to  *)
(* need the "ordered" flag of vnet 4 (see NoDuplicateResponse in           *)
(* MSIProtocol, which also shows that a set loses no message).             *)
(***************************************************************************)
EXTENDS Integers, Sequences, FiniteSets

CONSTANTS Cache,    \* the machine IDs of the L1 cache controllers
          Dir,      \* the machine ID of the block's home directory
          Value,    \* the contents a data block can have
          NoData    \* a DataBlk nothing has been written to

ASSUME CacheAssumption == IsFiniteSet(Cache) /\ Dir \notin Cache
ASSUME ValueAssumption == Value # {} /\ NoData \notin Value

VARIABLES requestNet,   \* requestNet[c]: vnet 2, from c to the directory
          forwardNet,   \* forwardNet[c]: vnet 3, from the directory to c
          responseNet   \* vnet 4: the responses in flight

netVars == <<requestNet, forwardNet, responseNet>>

Node == Cache \cup {Dir}
Data == Value \cup {NoData}

-----------------------------------------------------------------------------
(* The messages.  A request's Requestor is the cache whose channel it is in. *)

RequestMsg == [Type : {"GETS", "GETM"}]
              \cup [Type : {"PUTS", "PUTM"}, DataBlk : Value]

ForwardMsg == [Type : {"GETS", "GETM", "INV"}, Requestor : Cache]
              \cup [Type : {"WB_ACK"}, Requestor : Node]

ResponseMsg ==
  [Type : {"DATA_FROM_DIR"}, Sender : {Dir}, Destination : Cache,
   DataBlk : Value, AckCount : Int]
  \cup [Type : {"DATA_FROM_OWNER"}, Sender : Cache, Destination : Cache,
        DataBlk : Value, AckCount : Int]
  \cup [Type : {"DATA"}, Sender : Cache, Destination : {Dir},
        DataBlk : Value, AckCount : Int]
  \cup [Type : {"ACK"}, Sender : Cache, Destination : Cache, AckCount : Int]

NetTypeOK ==
  /\ requestNet \in [Cache -> Seq(RequestMsg)]
  /\ forwardNet \in [Cache -> Seq(ForwardMsg)]
  /\ responseNet \in SUBSET ResponseMsg

NetInit ==
  /\ requestNet = [c \in Cache |-> << >>]
  /\ forwardNet = [c \in Cache |-> << >>]
  /\ responseNet = {}

-----------------------------------------------------------------------------
(* Enqueueing on the out_ports and dequeueing from the in_ports. *)

SendRequest(c, m) == requestNet' = [requestNet EXCEPT ![c] = Append(@, m)]

\* One copy of m for every member of the message's Destination.
SendForward(dests, m) ==
  forwardNet' = [c \in Cache |-> IF c \in dests THEN Append(forwardNet[c], m)
                                                ELSE forwardNet[c]]

PopRequest(c) == requestNet' = [requestNet EXCEPT ![c] = Tail(@)]
PopForward(c) == forwardNet' = [forwardNet EXCEPT ![c] = Tail(@)]

SendResponse(ms) == responseNet' = responseNet \cup ms
PopResponse(m) == responseNet' = responseNet \ {m}
=============================================================================
