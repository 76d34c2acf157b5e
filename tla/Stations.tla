------------------------------ MODULE Stations ------------------------------
(***************************************************************************)
(* The reservation stations of lab4/sim-outorder.c and the three kinds of  *)
(* lists of RS_links: a station's consumers, the event queue and the ready *)
(* queue.  A link to a station is valid while its tag is the station's.    *)
(*                                                                         *)
(* c is a record of the stations st, the ready queue, the event queue      *)
(* (times counted from the present cycle), the number of free links and    *)
(* whether the code has called panic.                                      *)
(***************************************************************************)
EXTENDS Integers, SequencesExt

CONSTANTS RUU_size, LSQ_size, MAX_RS_LINKS

Stations == ({"RUU"} \X (0 .. RUU_size - 1)) \cup ({"LSQ"} \X (0 .. LSQ_size - 1))
in_LSQ(rs) == rs[1] = "LSQ"

NULL == <<>>
NA == "NA"                       \* no register, and no functional unit
AGEN == [flags |-> {}, class |-> "IntALU"]

\* calloc's station.  Stations have one output: MAX_ODEPS is 1 here.
NewStation ==
  [op |-> AGEN, pc |-> 0, ea_comp |-> FALSE, recover_inst |-> FALSE,
   spec_mode |-> FALSE, addr |-> 0, tag |-> 0, seq |-> 0, queued |-> FALSE,
   issued |-> FALSE, completed |-> FALSE, oname |-> NA, odep_list |-> <<>>,
   idep_ready |-> [i \in 0 .. 2 |-> FALSE]]

OPERANDS_READY(s) == \A i \in 0 .. 2 : s.idep_ready[i]
STORE_ADDR_READY(s) == s.idep_ready[1]
IsStore(st, rs) == in_LSQ(rs) /\ "STORE" \in st[rs].op.flags
IsLoad(st, rs) == in_LSQ(rs) /\ "LOAD" \in st[rs].op.flags

\* x is the link's union: the time, the age or the number of an operand.
RSLINK(st, rs, x) == [rs |-> rs, tag |-> st[rs].tag, x |-> x]
RSLINK_VALID(st, link) == link.tag = st[link.rs].tag

\* Taking a link when there is none is a panic.
Linked(c) == [c EXCEPT !.free = @ - 1, !.panic = @ \/ c.free = 0]
RSLINK_FREE(c) == [c EXCEPT !.free = @ + 1]
Panic(c, if) == [c EXCEPT !.panic = @ \/ if]

\* How many nodes of a list a new node passes: all up to the first of the
\* positions at which it must stop.
Passed(list, stops) == IF stops = {} THEN Len(list) ELSE Min(stops) - 1

-----------------------------------------------------------------------------

eventq_queue_event(c, rs, lat) ==
  LET k == Passed(c.events, {i \in DOMAIN c.events : c.events[i].x >= lat})
  IN Panic(Linked([c EXCEPT !.events = InsertAt(@, k + 1, RSLINK(c.st, rs, lat))]),
           c.st[rs].completed \/ lat <= 0)

\* Memory and long latency operations and branches go to the head, the others
\* before the first node that is not older.
readyq_enqueue(c, rs) ==
  LET s == c.st[rs]
      k == IF in_LSQ(rs) \/ s.op.flags \cap {"LONGLAT", "CTRL"} # {} THEN 0
           ELSE Passed(c.ready, {i \in DOMAIN c.ready : c.ready[i].x >= s.seq})
  IN Panic(Linked([c EXCEPT !.ready = InsertAt(@, k + 1, RSLINK(c.st, rs, s.seq)),
                            !.st[rs].queued = TRUE]),
           s.queued)

\* The station's operand comes from the station that creates it, or is ready.
ruu_link_idep(c, rs, num, creator) ==
  IF creator = NULL THEN [c EXCEPT !.st[rs].idep_ready[num] = TRUE]
  ELSE Linked([c EXCEPT !.st[rs].idep_ready[num] = FALSE,
                        !.st[creator].odep_list = <<RSLINK(c.st, rs, num)>> \o @])

\* One consumer of a completed operation: stores are queued when they have
\* their operands, loads wait for lsq_refresh.
Wake(c, link) ==
  LET rs == link.rs
      given == Panic([c EXCEPT !.st[rs].idep_ready[link.x] = TRUE],
                     c.st[rs].idep_ready[link.x])
  IN RSLINK_FREE(IF ~RSLINK_VALID(c.st, link) THEN c
                 ELSE IF OPERANDS_READY(given.st[rs]) /\ ~IsLoad(c.st, rs)
                      THEN readyq_enqueue(given, rs)
                      ELSE given)

\* The operation completes and its consumers, one after the other, get its
\* result.
Broadcast(c, rs) ==
  LET links == c.st[rs].odep_list
      woken[k \in 0 .. Len(links)] ==
        IF k = 0 THEN [c EXCEPT !.st[rs].completed = TRUE, !.st[rs].odep_list = <<>>]
        ELSE Wake(woken[k - 1], links[k])
  IN woken[Len(links)]

\* The links to the consumers of some stations.
Consumers(st, S) == UNION {{rs} \X DOMAIN st[rs].odep_list : rs \in S}

\* Squashed stations: whatever still refers to them is no longer valid.
Retagged(st, squashed) ==
  [rs \in DOMAIN st |->
     IF rs \in squashed THEN [st[rs] EXCEPT !.tag = @ + 1, !.odep_list = <<>>] ELSE st[rs]]

\* Mutant: the consumers of a squashed operation are forgotten.
Squash_LeavesLinks(c, squashed) == [c EXCEPT !.st = Retagged(@, squashed)]

Squash(c, squashed) ==
  [c EXCEPT !.st = Retagged(@, squashed),
            !.free = @ + Cardinality(Consumers(c.st, squashed))]

\* The operation is no longer queued; the node that was visited for it is freed
\* last, when its event or its new node has been taken (IssueStep).
Unqueue(c, rs) == [c EXCEPT !.st[rs].queued = FALSE]

Requeue(c, rs) == readyq_enqueue(Unqueue(c, rs), rs)
=============================================================================
