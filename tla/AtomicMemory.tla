---------------------------- MODULE AtomicMemory ----------------------------
(***************************************************************************)
(* What the cores are promised: one memory block.  A core asks for a load  *)
(* or a store; some time later the load returns the block's contents of    *)
(* that moment, or the store overwrites them.  There are no caches.        *)
(***************************************************************************)
CONSTANTS Core, Value, NoData

VARIABLES mem,       \* the contents of the block
          request,   \* request[c]: what core c waits for
          result     \* result[c]: what the last load of c returned

vars == <<mem, request, result>>

Init == /\ mem \in Value
        /\ request = [c \in Core |-> "none"]
        /\ result = [c \in Core |-> NoData]

Ask(c, type) ==
  /\ request[c] = "none"
  /\ request' = [request EXCEPT ![c] = type]
  /\ result' = [result EXCEPT ![c] = NoData]
  /\ UNCHANGED mem

Load(c) ==
  /\ request[c] = "LD"
  /\ request' = [request EXCEPT ![c] = "none"]
  /\ result' = [result EXCEPT ![c] = mem]
  /\ UNCHANGED mem

Store(c, v) ==
  /\ request[c] = "ST"
  /\ request' = [request EXCEPT ![c] = "none"]
  /\ mem' = v
  /\ UNCHANGED result

Next == \E c \in Core : \/ \E type \in {"LD", "ST"} : Ask(c, type)
                        \/ Load(c)
                        \/ \E v \in Value : Store(c, v)

Spec == Init /\ [][Next]_vars
=============================================================================
