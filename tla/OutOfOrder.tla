----------------------------- MODULE OutOfOrder -----------------------------
(***************************************************************************)
(* The main loop of lab4/sim-outorder.c: each cycle commits, writes back,  *)
(* refreshes the load/store queue, issues, dispatches and fetches.  An     *)
(* instruction is executed when it is dispatched; what is simulated out of *)
(* order is its timing.  After a branch that was mispredicted the          *)
(* simulator dispatches the wrong path in spec_mode, until the branch      *)
(* completes and the wrong path is squashed.                               *)
(*                                                                         *)
(* Left out: values, statistics, TLBs, pipetrace and the debugger.         *)
(***************************************************************************)
EXTENDS Stations

CONSTANTS
  Programs,      \* sequences of instructions; PC is a position in one
  Options,       \* records of inorder_issue, include_spec, perfect and bugcompat
  Regs,
  ruu_ifq_size, ruu_decode_width, ruu_issue_width, ruu_commit_width,
  ruu_branch_penalty,
  FUs,           \* of each unit: its classes and their latencies
  LoadLats,      \* latencies of the data cache
  IL1Block,      \* instructions in a block of the instruction cache
  MissLat,       \* latency of a miss in it
  SpecAddrs      \* addresses the wrong path computes; 0 is not a valid one

Sizes == {RUU_size, LSQ_size, MAX_RS_LINKS, ruu_ifq_size, ruu_decode_width,
          ruu_issue_width, ruu_commit_width}
ASSUME CoreAssumption ==
  /\ Sizes \subseteq Nat \ {0} /\ LoadLats \subseteq Nat \ {0} /\ SpecAddrs \subseteq Nat
  /\ {"DTMP", NA} \cap Regs = {}

\* Each class a unit serves takes at least a cycle.
ASSUME UnitsAssumption ==
  /\ DOMAIN FUs \subseteq Nat \ {0}
  /\ \A u \in DOMAIN FUs : \A class \in DOMAIN FUs[u] : FUs[u][class].oplat \in Nat \ {0}

\* The flags that the simulator looks at, and the classes of units.
Flags == {"NOP", "EXIT", "TRAP", "LOAD", "STORE", "CTRL", "DIRJMP", "LONGLAT"}
Classes == {NA, "IntALU"} \cup UNION {DOMAIN FUs[u] : u \in DOMAIN FUs}
Instructions ==
  [flags : SUBSET Flags, class : Classes, ins : [1 .. 3 -> Regs \cup {NA}],
   out : Regs \cup {NA}, addr : Nat, target : Nat, taken : BOOLEAN]

\* What the instruction set gives: an instruction is of one kind, only branches
\* are taken, a store has no output and the call that ends the program is a
\* trap.  The program does not run past its end.
ASSUME ProgramAssumption ==
  \A p \in Programs :
    /\ p \in Seq(Instructions) /\ p # <<>>
    /\ \A pc \in DOMAIN p :
         /\ \A a, b \in {"NOP", "EXIT", "LOAD", "STORE", "CTRL"} :
              {a, b} \subseteq p[pc].flags => a = b
         /\ p[pc].taken => "CTRL" \in p[pc].flags
         /\ "STORE" \in p[pc].flags => p[pc].out = NA
         /\ "EXIT" \in p[pc].flags => "TRAP" \in p[pc].flags
         /\ "EXIT" \notin p[pc].flags =>
              (IF p[pc].taken THEN p[pc].target ELSE pc + 1) \in DOMAIN p

VARIABLES
  prog, opt,                                   \* of this run of the simulator
  station, queue,                              \* RUU and LSQ with head, tail, num
  ready_queue, event_queue, rslink_free,
  create_vector, spec_create_vector, use_spec_cv,
  busy,                                        \* of each functional unit
  fetch_data, fetch_pred_PC, ruu_fetch_issue_delay,
  il1,                                         \* what the last miss brought in
  spec_mode, recover_PC, last_op, inst_seq,
  stage, n, issuing,                           \* where in the loop
  panicked, done,
  executed, retired                            \* history: PCs off the wrong path

frontVars == <<fetch_data, fetch_pred_PC, ruu_fetch_issue_delay, il1>>
vectorVars == <<create_vector, spec_create_vector, use_spec_cv>>
modeVars == <<spec_mode, recover_PC>>
dispatchVars == <<last_op, inst_seq, executed>>
coreVars == <<station, ready_queue, event_queue, rslink_free, panicked>>
runVars == <<prog, opt, done>>
vars == <<coreVars, queue, vectorVars, busy, frontVars, modeVars, dispatchVars,
          stage, n, issuing, retired, runVars>>

Core == [st |-> station, ready |-> ready_queue, events |-> event_queue,
         free |-> rslink_free, panic |-> panicked]
CoreIs(c) ==
  \E d \in {c} :
    /\ station' = d.st /\ ready_queue' = d.ready /\ event_queue' = d.events
    /\ rslink_free' = d.free /\ panicked' = d.panic

Names == Regs \cup {"DTMP"}

Nop == [flags |-> {"NOP"}, class |-> NA, ins |-> <<NA, NA, NA>>, out |-> NA,
        addr |-> 0, target |-> 0, taken |-> FALSE]
Inst(pc) == IF pc \in DOMAIN prog THEN prog[pc] ELSE Nop
Is(flag, pc) == flag \in Inst(pc).flags
NPC(pc) == IF Inst(pc).taken THEN Inst(pc).target ELSE pc + 1

Init ==
  /\ prog \in Programs /\ opt \in Options
  /\ station = [rs \in Stations |-> NewStation]
  /\ queue = [q \in {"RUU", "LSQ"} |-> [head |-> 0, tail |-> 0, num |-> 0]]
  /\ ready_queue = <<>> /\ event_queue = <<>> /\ rslink_free = MAX_RS_LINKS
  /\ create_vector = [r \in Names |-> NULL]
  /\ spec_create_vector = [r \in Names |-> NULL] /\ use_spec_cv = {}
  /\ busy = [u \in DOMAIN FUs |-> 0]
  /\ fetch_data = <<>> /\ fetch_pred_PC = 1 /\ ruu_fetch_issue_delay = 0 /\ il1 = -1
  /\ spec_mode = FALSE /\ recover_PC = 0 /\ last_op = NULL /\ inst_seq = 0
  /\ stage = "commit" /\ n = 0 /\ issuing = <<>>
  /\ panicked = FALSE /\ done = FALSE
  /\ executed = <<>> /\ retired = <<>>

-----------------------------------------------------------------------------
(* Commit *)

size == [RUU |-> RUU_size, LSQ |-> LSQ_size]
HeadOf(q) == <<q, queue[q].head>>
DropHead(q) == [queue[q] EXCEPT !.head = (@ + 1) % size[q], !.num = @ - 1]
AddTail(q) == [queue[q] EXCEPT !.tail = (@ + 1) % size[q], !.num = @ + 1]

\* The first unit of the class that is not busy, 0 if there is none.
res_get(class) ==
  LET units == {u \in DOMAIN FUs : class \in DOMAIN FUs[u] /\ busy[u] = 0}
  IN IF units = {} THEN 0 ELSE Min(units)

HeadIsMem == station[HeadOf("RUU")].ea_comp
HeadIsStore == HeadIsMem /\ IsStore(station, HeadOf("LSQ"))

CanCommit ==
  /\ queue["RUU"].num > 0 /\ n < ruu_commit_width
  /\ station[HeadOf("RUU")].completed
  /\ HeadIsMem => station[HeadOf("LSQ")].completed
  /\ HeadIsStore => res_get("WrPort") # 0

Commit ==
  /\ stage = "commit" /\ CanCommit
  /\ LET retiring == {HeadOf("RUU")} \cup (IF HeadIsMem THEN {HeadOf("LSQ")} ELSE {})
         port == res_get("WrPort")
     IN /\ station' = [rs \in Stations |->
                         IF rs \in retiring THEN [station[rs] EXCEPT !.tag = @ + 1]
                         ELSE station[rs]]
        /\ queue' = [q \in DOMAIN queue |->
                       IF HeadOf(q) \in retiring THEN DropHead(q) ELSE queue[q]]
        /\ busy' = IF HeadIsStore THEN [busy EXCEPT ![port] = FUs[port]["WrPort"].issuelat]
                   ELSE busy
        /\ panicked' = (panicked \/ (HeadIsMem /\ queue["LSQ"].num = 0)
                                 \/ station[HeadOf("RUU")].odep_list # <<>>)
  /\ retired' = Append(retired, station[HeadOf("RUU")].pc)
  /\ n' = n + 1
  /\ UNCHANGED <<ready_queue, event_queue, rslink_free, vectorVars, frontVars,
                 modeVars, dispatchVars, stage, issuing, runVars>>

\* Mutant: a unit's timer stops one short.
ruu_release_fu_Short ==
  /\ stage = "commit" /\ ~CanCommit
  /\ busy' = [u \in DOMAIN busy |-> IF busy[u] > 1 THEN busy[u] - 1 ELSE busy[u]]
  /\ stage' = "writeback" /\ n' = 0
  /\ UNCHANGED <<coreVars, queue, vectorVars, frontVars, modeVars, dispatchVars,
                 issuing, retired, runVars>>

\* The units step their timers before results are written back.
ruu_release_fu ==
  /\ stage = "commit" /\ ~CanCommit
  /\ busy' = [u \in DOMAIN busy |-> IF busy[u] > 0 THEN busy[u] - 1 ELSE 0]
  /\ stage' = "writeback" /\ n' = 0
  /\ UNCHANGED <<coreVars, queue, vectorVars, frontVars, modeVars, dispatchVars,
                 issuing, retired, runVars>>

-----------------------------------------------------------------------------
(* Writeback *)

EventDue == event_queue # <<>> /\ Head(event_queue).x <= 0
NextEvent == RSLINK_FREE([Core EXCEPT !.events = Tail(@)])

WritebackSquashed ==
  /\ stage = "writeback" /\ EventDue
  /\ ~RSLINK_VALID(station, Head(event_queue))
  /\ CoreIs(NextEvent)
  /\ UNCHANGED <<queue, vectorVars, busy, frontVars, modeVars, dispatchVars,
                 stage, n, issuing, retired, runVars>>

\* RUU entries after the branch, and as many of the last LSQ entries as there
\* are address computations among them.
After(b) == {<<"RUU", (b + i) % RUU_size>> : i \in 1 .. (queue["RUU"].tail - 1 - b) % RUU_size}
AccessesAfter(b) == Cardinality({rs \in After(b) : station[rs].ea_comp})
SquashedBy(b) ==
  After(b) \cup {<<"LSQ", (queue["LSQ"].tail - i) % LSQ_size>> : i \in 1 .. AccessesAfter(b)}

\* Mutant: the copy-on-write bits of the create vector stay set.
ruu_recover_KeepsVector(b) ==
  /\ queue' = [RUU |-> [queue["RUU"] EXCEPT !.tail = (b + 1) % RUU_size,
                                            !.num = @ - Cardinality(After(b))],
               LSQ |-> [queue["LSQ"] EXCEPT !.tail = (@ - AccessesAfter(b)) % LSQ_size,
                                            !.num = @ - AccessesAfter(b)]]
  /\ UNCHANGED use_spec_cv

ruu_recover(b) ==
  /\ queue' = [RUU |-> [queue["RUU"] EXCEPT !.tail = (b + 1) % RUU_size,
                                            !.num = @ - Cardinality(After(b))],
               LSQ |-> [queue["LSQ"] EXCEPT !.tail = (@ - AccessesAfter(b)) % LSQ_size,
                                            !.num = @ - AccessesAfter(b)]]
  /\ use_spec_cv' = {}

\* Mutant: what was fetched on the wrong path stays in the queue.
tracer_recover_KeepsFetched ==
  /\ spec_mode' = FALSE
  /\ UNCHANGED fetch_data /\ fetch_pred_PC' = recover_PC

tracer_recover ==
  /\ spec_mode' = FALSE
  /\ fetch_data' = <<>> /\ fetch_pred_PC' = recover_PC

\* The result can now be read from the register file.
CreatorDone(vector, rs) ==
  [r \in Names |-> IF r = station[rs].oname /\ vector[r] = rs THEN NULL ELSE vector[r]]

Writeback ==
  /\ stage = "writeback" /\ EventDue
  /\ RSLINK_VALID(station, Head(event_queue))
  /\ LET rs == Head(event_queue).rs
         s == station[rs]
         c == Panic(NextEvent, ~OPERANDS_READY(s) \/ s.queued \/ ~s.issued \/ s.completed)
     IN /\ IF s.recover_inst
           THEN /\ ruu_recover(rs[2]) /\ tracer_recover
                /\ ruu_fetch_issue_delay' = ruu_branch_penalty
                /\ CoreIs(Broadcast(Panic(Squash(c, SquashedBy(rs[2])),
                                          ~spec_mode \/ AccessesAfter(rs[2]) > queue["LSQ"].num),
                                    rs))
           ELSE /\ CoreIs(Broadcast(c, rs))
                /\ UNCHANGED <<queue, use_spec_cv, spec_mode, fetch_data,
                               fetch_pred_PC, ruu_fetch_issue_delay>>
        /\ IF s.spec_mode
           THEN /\ spec_create_vector' = CreatorDone(spec_create_vector, rs)
                /\ UNCHANGED create_vector
           ELSE /\ create_vector' = CreatorDone(create_vector, rs)
                /\ UNCHANGED spec_create_vector
  /\ UNCHANGED <<busy, il1, recover_PC, dispatchVars, stage, n, issuing, retired, runVars>>

WritebackEnds ==
  /\ stage = "writeback" /\ ~EventDue
  /\ stage' = IF opt.bugcompat THEN "dispatch" ELSE "refresh"
  /\ UNCHANGED <<coreVars, queue, vectorVars, busy, frontVars, modeVars,
                 dispatchVars, n, issuing, retired, runVars>>

-----------------------------------------------------------------------------
(* The load/store queue and issue *)

\* Its entries, oldest first.
LSQEntries == [i \in 1 .. queue["LSQ"].num |-> <<"LSQ", (queue["LSQ"].head + i - 1) % LSQ_size>>]

\* Mutant: a store that has its data hides every older one.
std_unknowns_AllHidden(i) ==
  LET e(j) == station[LSQEntries[j]]
      stores == {j \in 1 .. i - 1 : IsStore(station, LSQEntries[j])}
      hidden(j) == \E k \in stores : k > j /\ OPERANDS_READY(e(k))
  IN {IF hidden(j) THEN 0 ELSE e(j).addr : j \in {j \in stores : ~OPERANDS_READY(e(j))}}

\* The addresses of older stores without their data, from the i-th entry: one
\* that a younger store with its data hides is recorded as 0.
std_unknowns(i) ==
  LET e(j) == station[LSQEntries[j]]
      stores == {j \in 1 .. i - 1 : IsStore(station, LSQEntries[j])}
      hidden(j) == \E k \in stores : k > j /\ OPERANDS_READY(e(k)) /\ e(k).addr = e(j).addr
  IN {IF hidden(j) THEN 0 ELSE e(j).addr : j \in {j \in stores : ~OPERANDS_READY(e(j))}}

LoadReady(i) ==
  LET rs == LSQEntries[i]
      s == station[rs]
  IN /\ IsLoad(station, rs) /\ ~s.queued /\ ~s.issued /\ ~s.completed
     /\ OPERANDS_READY(s)
     /\ \A j \in 1 .. i - 1 : IsStore(station, LSQEntries[j])
                                => STORE_ADDR_READY(station[LSQEntries[j]])
     /\ s.addr \notin std_unknowns(i)

\* The loads that may go are queued.
Refreshed ==
  LET num == queue["LSQ"].num
      scanned[i \in 0 .. num] ==
        IF i = 0 THEN Core
        ELSE IF LoadReady(i) THEN readyq_enqueue(scanned[i - 1], LSQEntries[i])
        ELSE scanned[i - 1]
  IN scanned[num]

\* And the ready list is taken to issue from.
lsq_refresh ==
  /\ stage = "refresh"
  /\ CoreIs([Refreshed EXCEPT !.ready = <<>>]) /\ issuing' = Refreshed.ready
  /\ stage' = "issue" /\ n' = 0
  /\ UNCHANGED <<queue, vectorVars, busy, frontVars, modeVars, dispatchVars, retired, runVars>>

\* What every visit of a node of the list ends with, and what it leaves alone.
IssueStep(c) ==
  /\ CoreIs(RSLINK_FREE(c))
  /\ issuing' = Tail(issuing)
  /\ UNCHANGED <<queue, vectorVars, frontVars, modeVars, dispatchVars, stage, retired, runVars>>

Visiting(rs) ==
  /\ stage = "issue" /\ issuing # <<>>
  /\ RSLINK_VALID(station, Head(issuing)) /\ rs = Head(issuing).rs

Issuable(c, rs) ==
  LET s == station[rs]
  IN Panic(c, ~OPERANDS_READY(s) \/ ~s.queued \/ s.issued \/ s.completed)

IssueSquashed ==
  /\ stage = "issue" /\ issuing # <<>> /\ ~RSLINK_VALID(station, Head(issuing))
  /\ IssueStep(Core) /\ UNCHANGED <<busy, n>>

IssueStore ==
  \E rs \in Stations :
    /\ Visiting(rs) /\ n < ruu_issue_width
    /\ IsStore(station, rs)
    /\ IssueStep([Issuable(Unqueue(Core, rs), rs)
                    EXCEPT !.st[rs].issued = TRUE, !.st[rs].completed = TRUE])
    /\ n' = n + 1 /\ UNCHANGED busy

\* An older store in the LSQ has the load's address.
Forwarded(rs) ==
  \E older \in ToSet(LSQEntries) :
    /\ station[older].seq < station[rs].seq
    /\ IsStore(station, older) /\ station[older].addr = station[rs].addr

Latencies(rs, u) ==
  IF ~IsLoad(station, rs) THEN {FUs[u][station[rs].op.class].oplat}
  ELSE IF Forwarded(rs) THEN {1}
  ELSE IF station[rs].addr = 0 THEN {FUs[u][station[rs].op.class].oplat}
  ELSE LoadLats

Starts(rs, lat) ==
  eventq_queue_event([Issuable(Unqueue(Core, rs), rs) EXCEPT !.st[rs].issued = TRUE], rs, lat)

IssueToUnit ==
  \E rs \in Stations :
    /\ Visiting(rs) /\ n < ruu_issue_width
    /\ ~IsStore(station, rs) /\ station[rs].op.class # NA
    /\ LET class == station[rs].op.class
           u == res_get(class)
       IN /\ u # 0
          /\ \E lat \in Latencies(rs, u) : IssueStep(Starts(rs, lat))
          /\ busy' = [busy EXCEPT ![u] = FUs[u][class].issuelat]
    /\ n' = n + 1

IssueWithoutUnit ==
  \E rs \in Stations :
    /\ Visiting(rs) /\ n < ruu_issue_width
    /\ ~IsStore(station, rs) /\ station[rs].op.class = NA
    /\ IssueStep(Starts(rs, 1))
    /\ n' = n + 1 /\ UNCHANGED busy

\* No unit is free, or the issue width is used up.
NotIssued ==
  \E rs \in Stations :
    /\ Visiting(rs)
    /\ \/ n = ruu_issue_width
       \/ ~IsStore(station, rs) /\ station[rs].op.class # NA
          /\ res_get(station[rs].op.class) = 0
    /\ IssueStep(Requeue(IF n < ruu_issue_width THEN Issuable(Core, rs) ELSE Core, rs))
    /\ UNCHANGED <<busy, n>>

IssueEnds ==
  /\ stage = "issue" /\ issuing = <<>>
  /\ stage' = IF opt.bugcompat THEN "fetch" ELSE "dispatch"
  /\ n' = 0
  /\ UNCHANGED <<coreVars, queue, vectorVars, busy, frontVars, modeVars,
                 dispatchVars, issuing, retired, runVars>>

-----------------------------------------------------------------------------
(* Dispatch *)

CREATE_VECTOR(r) ==
  IF r = NA THEN NULL ELSE IF r \in use_spec_cv THEN spec_create_vector[r] ELSE create_vector[r]

\* ruu_install_odep: rs is now the creator of the registers that out gives it.
Installed(vector, out) == [r \in Names |-> IF r \in DOMAIN out THEN out[r] ELSE vector[r]]
ruu_install_odep(out) ==
  IF spec_mode
  THEN /\ spec_create_vector' = Installed(spec_create_vector, out)
       /\ use_spec_cv' = use_spec_cv \cup DOMAIN out
       /\ UNCHANGED create_vector
  ELSE /\ create_vector' = Installed(create_vector, out)
       /\ UNCHANGED <<spec_create_vector, use_spec_cv>>

FetchedPC == Head(fetch_data).regs_PC

\* The station for a dispatched operation; tag and list are those it had.
Allocate(c, rs, s) ==
  [c EXCEPT !.st[rs] = [s EXCEPT !.tag = c.st[rs].tag, !.odep_list = c.st[rs].odep_list,
                                 !.pc = FetchedPC, !.spec_mode = spec_mode]]

\* All three operands of a station, of which creators are the creators.
Link(c, rs, creators) ==
  LET one == ruu_link_idep(c, rs, 0, creators[1])
      two == ruu_link_idep(one, rs, 1, creators[2])
  IN ruu_link_idep(two, rs, 2, creators[3])

EnqueueIf(c, if, rs) == IF if THEN readyq_enqueue(c, rs) ELSE c

TailOf(q) == <<q, queue[q].tail>>

InorderStall ==
  /\ opt.inorder_issue /\ last_op # NULL
  /\ RSLINK_VALID(station, last_op) /\ ~OPERANDS_READY(station[last_op.rs])

CanDispatch ==
  /\ n < ruu_decode_width
  /\ queue["RUU"].num < RUU_size /\ queue["LSQ"].num < LSQ_size
  /\ fetch_data # <<>>
  /\ opt.include_spec \/ ~spec_mode
  /\ ~InorderStall
  /\ Is("TRAP", FetchedPC) => queue["RUU"].num = 0

\* A perfect predictor, or a direct branch that was predicted taken with a
\* wrong target: fetch goes on from npc.
Redirected(npc) ==
  LET f == Head(fetch_data)
  IN \/ opt.perfect /\ f.pred_PC # npc
     \/ /\ Is("CTRL", f.regs_PC) /\ Is("DIRJMP", f.regs_PC)
        /\ Inst(f.regs_PC).target # f.pred_PC /\ f.pred_PC # f.regs_PC + 1

Mispredicted(npc) ==
  ~spec_mode /\ Head(fetch_data).pred_PC # npc /\ ~Redirected(npc)

\* The instruction is taken from the fetch queue and executed.
Dispatched(npc) ==
  /\ fetch_data' = IF Redirected(npc) THEN <<>> ELSE Tail(fetch_data)
  /\ fetch_pred_PC' = IF Redirected(npc) THEN npc ELSE fetch_pred_PC
  /\ ruu_fetch_issue_delay' = IF Redirected(npc) /\ ~opt.perfect
                              THEN ruu_branch_penalty ELSE ruu_fetch_issue_delay
  /\ spec_mode' = (spec_mode \/ Mispredicted(npc))
  /\ recover_PC' = IF Mispredicted(npc) THEN npc ELSE recover_PC
  /\ executed' = IF spec_mode THEN executed ELSE Append(executed, FetchedPC)
  /\ UNCHANGED <<il1, busy, event_queue, stage, issuing, retired, runVars>>

DispatchNop ==
  /\ stage = "dispatch" /\ CanDispatch
  /\ Is("NOP", FetchedPC)
  /\ Dispatched(FetchedPC + 1)
  /\ UNCHANGED <<station, ready_queue, rslink_free, panicked, queue, vectorVars,
                 last_op, inst_seq, n>>

IsMem(pc) == Is("LOAD", pc) \/ Is("STORE", pc)

\* On the wrong path registers have any value: a branch may go either way.  The
\* next pc of an indirect branch might be any there, but nothing reads it: with
\* perfect prediction there is no wrong path, Mispredicted is FALSE on it, and
\* Redirected concerns direct jumps only.
NPCs == IF spec_mode /\ Is("CTRL", FetchedPC) THEN {FetchedPC + 1, Inst(FetchedPC).target}
        ELSE {NPC(FetchedPC)}

DispatchOp ==
  /\ stage = "dispatch" /\ CanDispatch
  /\ ~Is("NOP", FetchedPC) /\ ~Is("EXIT", FetchedPC) /\ ~IsMem(FetchedPC)
  /\ \E npc \in NPCs :
       LET i == Inst(FetchedPC)
           rs == TailOf("RUU")
           op == [NewStation EXCEPT !.op = [flags |-> i.flags, class |-> i.class],
                                    !.oname = i.out, !.seq = inst_seq + 1,
                                    !.recover_inst = Mispredicted(npc)]
           c == Link(Allocate(Core, rs, op), rs,
                     [k \in 1 .. 3 |-> CREATE_VECTOR(i.ins[k])])
           ready == OPERANDS_READY(c.st[rs])
       IN /\ CoreIs(Panic(EnqueueIf(c, ready, rs), Is("TRAP", FetchedPC) /\ spec_mode))
          /\ last_op' = IF ready THEN NULL ELSE RSLINK(c.st, rs, 0)
          /\ ruu_install_odep([r \in {i.out} \ {NA} |-> rs])
          /\ Dispatched(npc)
  /\ queue' = [queue EXCEPT !["RUU"] = AddTail("RUU")]
  /\ inst_seq' = inst_seq + 1 /\ n' = n + 1

\* A load or store becomes an address computation in the RUU and an access in
\* the LSQ, linked by the register DTMP.
DispatchMem ==
  /\ stage = "dispatch" /\ CanDispatch
  /\ IsMem(FetchedPC)
  /\ \E addr \in (IF spec_mode THEN SpecAddrs ELSE {Inst(FetchedPC).addr}) :
       LET i == Inst(FetchedPC)
           rs == TailOf("RUU")
           lsq == TailOf("LSQ")
           agen == [NewStation EXCEPT !.ea_comp = TRUE, !.oname = "DTMP",
                                      !.seq = inst_seq + 1]
           access == [NewStation EXCEPT !.op = [flags |-> i.flags, class |-> i.class],
                                        !.addr = addr, !.oname = i.out, !.seq = inst_seq + 2]
           c == Link(Allocate(Core, rs, agen), rs,
                     <<NULL, CREATE_VECTOR(i.ins[2]), CREATE_VECTOR(i.ins[3])>>)
           d == Link(Allocate(c, lsq, access), lsq,
                     <<CREATE_VECTOR(i.ins[1]), rs, NULL>>)
           e == EnqueueIf(d, OPERANDS_READY(d.st[rs]), rs)
       IN /\ CoreIs(EnqueueIf(e, IsStore(e.st, lsq) /\ OPERANDS_READY(e.st[lsq]), lsq))
          /\ last_op' = RSLINK(d.st, lsq, 0)
          /\ ruu_install_odep([r \in {"DTMP", i.out} \ {NA} |-> IF r = "DTMP" THEN rs ELSE lsq])
  /\ Dispatched(NPC(FetchedPC))
  /\ queue' = [RUU |-> AddTail("RUU"), LSQ |-> AddTail("LSQ")]
  /\ inst_seq' = inst_seq + 2 /\ n' = n + 1

\* The trap that ends the program, and with it the simulation.
Exit ==
  /\ stage = "dispatch" /\ CanDispatch
  /\ Is("EXIT", FetchedPC)
  /\ panicked' = (panicked \/ spec_mode)
  /\ done' = TRUE /\ stage' = "exit"
  /\ executed' = Append(executed, FetchedPC)
  /\ UNCHANGED <<prog, opt, station, ready_queue, event_queue, rslink_free, queue,
                 vectorVars, busy, frontVars, modeVars, last_op, inst_seq, n,
                 issuing, retired>>

DispatchEnds ==
  /\ stage = "dispatch" /\ ~CanDispatch
  /\ stage' = IF opt.bugcompat THEN "refresh" ELSE "fetch"
  /\ n' = 0
  /\ UNCHANGED <<coreVars, queue, vectorVars, busy, frontVars, modeVars,
                 dispatchVars, issuing, retired, runVars>>

-----------------------------------------------------------------------------
(* Fetch *)

NextCycle ==
  /\ stage' = "commit" /\ n' = 0
  /\ event_queue' = [i \in DOMAIN event_queue |-> [event_queue[i] EXCEPT !.x = @ - 1]]
  /\ UNCHANGED <<station, ready_queue, rslink_free, panicked, queue, vectorVars,
                 busy, modeVars, dispatchVars, issuing, retired, runVars>>

FetchBlocked ==
  /\ stage = "fetch" /\ n = 0 /\ ruu_fetch_issue_delay > 0
  /\ ruu_fetch_issue_delay' = ruu_fetch_issue_delay - 1
  /\ NextCycle /\ UNCHANGED <<fetch_data, fetch_pred_PC, il1>>

CanFetch ==
  /\ stage = "fetch" /\ ruu_fetch_issue_delay = 0
  /\ n < ruu_decode_width /\ Len(fetch_data) < ruu_ifq_size

\* What bpred_lookup may say of a branch: not taken, its target, or the target
\* of another branch.
Predictions(pc) == IF Is("CTRL", pc) THEN {pc + 1, Inst(pc).target, Len(prog) + 1} ELSE {pc + 1}

\* A taken prediction is the last fetch of the cycle.
Fetch ==
  /\ CanFetch
  /\ \E pred \in Predictions(fetch_pred_PC) :
       /\ fetch_data' = Append(fetch_data, [regs_PC |-> fetch_pred_PC, pred_PC |-> pred])
       /\ fetch_pred_PC' = pred
       /\ n' = IF pred = fetch_pred_PC + 1 THEN n + 1 ELSE ruu_decode_width
  /\ UNCHANGED <<coreVars, queue, vectorVars, busy, ruu_fetch_issue_delay, il1,
                 modeVars, dispatchVars, stage, issuing, retired, runVars>>

\* A miss brings the block in, so fetching it again hits.
FetchMiss ==
  /\ CanFetch
  /\ fetch_pred_PC \in DOMAIN prog /\ il1 # fetch_pred_PC \div IL1Block
  /\ il1' = fetch_pred_PC \div IL1Block
  /\ ruu_fetch_issue_delay' = MissLat - 1
  /\ NextCycle /\ UNCHANGED <<fetch_data, fetch_pred_PC>>

FetchEnds ==
  /\ stage = "fetch" /\ ruu_fetch_issue_delay = 0 /\ ~CanFetch
  /\ NextCycle /\ UNCHANGED frontVars

Exited == stage = "exit" /\ UNCHANGED vars

Next ==
  \/ Commit \/ ruu_release_fu
  \/ WritebackSquashed \/ Writeback \/ WritebackEnds
  \/ lsq_refresh
  \/ IssueSquashed \/ IssueStore \/ IssueToUnit \/ IssueWithoutUnit \/ NotIssued \/ IssueEnds
  \/ DispatchNop \/ DispatchOp \/ DispatchMem \/ Exit \/ DispatchEnds
  \/ FetchBlocked \/ Fetch \/ FetchMiss \/ FetchEnds
  \/ Exited

Spec == Init /\ [][Next]_vars /\ WF_vars(Next)

-----------------------------------------------------------------------------
(* Properties *)

Window == UNION {{<<q, (queue[q].head + i) % size[q]>> : i \in 0 .. queue[q].num - 1}
                   : q \in DOMAIN queue}

\* The youngest of some stations that writes r, or NULL; and while it is at work.
Writer(r, S) ==
  LET writers == {rs \in S : station[rs].oname = r}
  IN IF writers = {} THEN NULL
     ELSE CHOOSE w \in writers : \A v \in writers : station[v].seq <= station[w].seq
Pending(w) == IF w # NULL /\ ~station[w].completed THEN w ELSE NULL

OlderThan(rs) == {older \in Window : station[older].seq < station[rs].seq}

Inputs(rs) ==
  LET i == Inst(station[rs].pc)
  IN IF in_LSQ(rs) THEN <<i.ins[1], "DTMP", NA>>
     ELSE IF station[rs].ea_comp THEN <<NA, i.ins[2], i.ins[3]>> ELSE i.ins

\* An operand is ready exactly when its nearest older writer among the
\* instructions in flight, right or wrong path, has completed or there is
\* none, and nothing issues before its operands; and the create vectors,
\* with the copy-on-write one of the wrong path, name those writers
\* (ruu_link_idep, ruu_writeback, ruu_recover).
DependenciesKept ==
  /\ \A rs \in Window : \A k \in 1 .. 3 :
       station[rs].idep_ready[k - 1] <=>
         \/ Inputs(rs)[k] = NA
         \/ Pending(Writer(Inputs(rs)[k], OlderThan(rs))) = NULL
  /\ \A rs \in Window : station[rs].issued => OPERANDS_READY(station[rs])
  /\ \A r \in Names :
       /\ CREATE_VECTOR(r) = Pending(Writer(r, Window))
       /\ create_vector[r] =
            Pending(Writer(r, {rs \in Window : ~station[rs].spec_mode}))

\* A load goes to memory only when the addresses of all older stores in flight
\* are known and the nearest of them to its address has its data, although
\* lsq_refresh keeps only the addresses it has met on its way.
MemoryOrder ==
  \A load \in Window : IsLoad(station, load) /\ station[load].issued =>
    LET stores == {rs \in OlderThan(load) : IsStore(station, rs)}
        same == {rs \in stores : station[rs].addr = station[load].addr}
    IN /\ \A rs \in stores : STORE_ADDR_READY(station[rs])
       /\ same # {} =>
            \E rs \in same : /\ OPERANDS_READY(station[rs])
                             /\ \A other \in same : station[other].seq <= station[rs].seq

Nodes(rs, list) == {i \in DOMAIN list : list[i].rs = rs /\ RSLINK_VALID(station, list[i])}
Links == Len(ready_queue) + Len(issuing) + Len(event_queue)
           + Cardinality(Consumers(station, Stations))

\* Through squashes and reuse of stations none of the panics happens, every
\* operation in flight waits in exactly the one list that will move it on (a
\* load between its operands and lsq_refresh in none), and every link is in
\* one list or free.
QueuesSound ==
  /\ ~panicked
  /\ \A rs \in Window :
       LET s == station[rs]
       IN /\ Cardinality(Nodes(rs, ready_queue)) + Cardinality(Nodes(rs, issuing))
               = IF s.queued THEN 1 ELSE 0
          /\ Cardinality(Nodes(rs, event_queue)) = IF s.issued /\ ~s.completed THEN 1 ELSE 0
          /\ OPERANDS_READY(s) => s.queued \/ s.issued \/ IsLoad(station, rs)
  /\ \A rs \in Stations \ Window :
       Nodes(rs, ready_queue \o issuing) \cup Nodes(rs, event_queue) = {}
  /\ Links + rslink_free = MAX_RS_LINKS

\* Prediction, the wrong path and its recovery are invisible: what is executed
\* off the wrong path is the program, it retires in order and only it, and a
\* trap drains the RUU.
Promised == INSTANCE Architecture
ImplementsArchitecture == Promised!Spec

\* Every program comes to its end: no lost wake-up, no unit that stays busy,
\* no fetch or dispatch stalled for good.
ProgramEnds == <>done

\* The ready list is in the order that the comment of readyq_enqueue gives:
\* memory, long latency operations and branches first, then all others, oldest
\* first.
SchedulingPolicy ==
  LET First(rs) == in_LSQ(rs) \/ station[rs].op.flags \cap {"LONGLAT", "CTRL"} # {}
  IN \A i, j \in DOMAIN ready_queue :
       i < j /\ RSLINK_VALID(station, ready_queue[i]) /\ RSLINK_VALID(station, ready_queue[j]) =>
         LET a == ready_queue[i].rs
             b == ready_queue[j].rs
         IN First(a) \/ (~First(b) /\ station[a].seq < station[b].seq)
=============================================================================
