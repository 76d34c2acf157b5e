-------------------------- MODULE OutOfOrderProofs --------------------------
(***************************************************************************)
(* The stages of the out-of-order core, for every program, number of       *)
(* stations, width, latency and prediction.                                *)
(*                                                                         *)
(* IInv is inductive: the stations are as StationProofs says (MachineOK),  *)
(* the operations in the queues off the wrong path are the instructions    *)
(* that have been executed and have not retired (PipelineOK), and fetch is *)
(* where the program goes on (FetchedOK).  What is promised follows: the   *)
(* invariants DependenciesKept, MemoryOrder and QueuesSound, and that the  *)
(* core implements the architecture.                                       *)
(***************************************************************************)
EXTENDS StationProofs

-----------------------------------------------------------------------------
(* The queues *)

LEMMA QueueIs ==
  ASSUME NEW r, NEW h, NEW t, NEW m, r = [head |-> h, tail |-> t, num |-> m]
  PROVE  r.head = h /\ r.tail = t /\ r.num = m
OBVIOUS

LEMMA QueueCuts ==
  ASSUME NEW r, NEW h, NEW t, NEW m, r = [head |-> h, tail |-> t, num |-> m],
         NEW t2, NEW m2, NEW r2, r2 = [r EXCEPT !.tail = t2, !.num = m2]
  PROVE  r2 = [head |-> h, tail |-> t2, num |-> m2]
OBVIOUS

LEMMA SlotIs ==
  ASSUME NEW N \in Nat \ {0}, NEW h \in 0 .. N - 1, NEW i \in 0 .. N
  PROVE  /\ Slot(h, N, i) \in 0 .. N - 1
         /\ (h + i) % N = Slot(h, N, i)
<1>1. PICK x \in Int : x = h + i
  OBVIOUS
<1>2. 0 <= x /\ x < 2 * N
  BY <1>1
<1>3. CASE x < N
  <2>1. x % N = x
    BY <1>2, <1>3, Remainders
  <2>2. QED
    BY <1>1, <1>3, <2>1 DEF Slot
<1>4. CASE ~(x < N)
  <2>1. N <= x
    BY <1>4
  <2>2. x % N = x - N
    BY <1>2, <2>1, Remainders
  <2>3. QED
    BY <1>1, <1>4, <2>2 DEF Slot
<1>5. QED
  BY <1>3, <1>4

LEMMA SlotNext ==
  ASSUME NEW N \in Nat \ {0}, NEW h \in 0 .. N - 1, NEW i \in 0 .. N, NEW j \in Nat, i + j <= N
  PROVE  /\ (Slot(h, N, i) + j) % N = Slot(h, N, i + j)
         /\ Slot(Slot(h, N, i), N, j) = Slot(h, N, i + j)
<1>1. Slot(h, N, i) \in 0 .. N - 1 /\ j \in 0 .. N
  BY SlotIs
<1>2. (Slot(h, N, i) + j) % N = Slot(Slot(h, N, i), N, j)
  BY <1>1, SlotIs
<1>3. Slot(Slot(h, N, i), N, j) = Slot(h, N, i + j)
  BY DEF Slot
<1>4. QED
  BY <1>2, <1>3

LEMMA Wrapped ==
  ASSUME NEW N \in Nat \ {0}, NEW x \in Int, -N <= x, x < N
  PROVE  x % N = IF x < 0 THEN x + N ELSE x
<1>1. CASE x < 0
  <2>1. x % N = x + N
    BY <1>1, Remainders
  <2>2. QED
    BY <1>1, <2>1
<1>2. CASE ~(x < 0)
  <2>1. 0 <= x
    BY <1>2
  <2>2. x % N = x
    BY <2>1, Remainders
  <2>3. QED
    BY <1>2, <2>2
<1>3. QED
  BY <1>1, <1>2

LEMMA SlotBack ==
  ASSUME NEW N \in Nat \ {0}, NEW h \in 0 .. N - 1, NEW i \in 0 .. N, NEW j \in 0 .. i
  PROVE  /\ (Slot(h, N, i) - j) % N = Slot(h, N, i - j)
         /\ j < i => (Slot(h, N, i) - 1 - Slot(h, N, j)) % N = i - 1 - j
<1>1. PICK a, b : a = Slot(h, N, i) /\ b = Slot(h, N, j)
  OBVIOUS
<1>2. a \in 0 .. N - 1 /\ b \in 0 .. N - 1
  BY <1>1, SlotIs
<1>3. PICK x \in Int : x = a - j
  BY <1>2
<1>4. -N <= x /\ x < N
  BY <1>2, <1>3
<1>5. x % N = IF x < 0 THEN x + N ELSE x
  BY <1>4, Wrapped
<1>6. x % N = Slot(h, N, i - j)
  BY <1>1, <1>3, <1>5 DEF Slot
<1>7. ASSUME j < i PROVE (a - 1 - b) % N = i - 1 - j
  <2>1. PICK y \in Int : y = a - 1 - b
    BY <1>2
  <2>2. -N <= y /\ y < N
    BY <1>2, <2>1
  <2>3. y % N = IF y < 0 THEN y + N ELSE y
    BY <2>2, Wrapped
  <2>4. (IF y < 0 THEN y + N ELSE y) = i - 1 - j
    BY <1>1, <1>7, <2>1 DEF Slot
  <2>5. QED
    BY <2>1, <2>3, <2>4
<1>8. QED
  BY <1>1, <1>3, <1>6, <1>7

\* The ring que2 has the entries of que but for the first.
Dropped(que, que2, q) == que2[q] = [que[q] EXCEPT !.head = (@ + 1) % size[q], !.num = @ - 1]

LEMMA HeadDrops ==
  ASSUME NEW que, NEW q \in {"RUU", "LSQ"}, RingOK(que, q), que[q].num > 0, NEW que2,
         Dropped(que, que2, q)
  PROVE  /\ RingOK(que2, q) /\ que2[q].num = que[q].num - 1
         /\ \A i \in 0 .. que[q].num - 2 : At(que2, q, i) = At(que, q, i + 1)
         /\ Entries(que2, q) = Entries(que, q) \ {At(que, q, 0)}
         /\ At(que, q, 0) = <<q, que[q].head>> /\ At(que, q, 0) \in Entries(que, q)
<1>1. PICK N, h, num, t : N = size[q] /\ h = que[q].head /\ num = que[q].num /\ t = que[q].tail
  OBVIOUS
<1>2. /\ h \in 0 .. N - 1 /\ num \in 0 .. N /\ N \in Nat \ {0} /\ t = (h + num) % N
      /\ que[q] = [head |-> h, tail |-> t, num |-> num] /\ num > 0
  BY <1>1, RingIs DEF RingOK
<1>3. PICK g : g = (h + 1) % N
  OBVIOUS
<1>4. que2[q] = [head |-> g, tail |-> t, num |-> num - 1]
  BY <1>1, <1>2, <1>3 DEF Dropped
<1>5. g = Slot(h, N, 1) /\ g \in 0 .. N - 1 /\ t = Slot(h, N, num)
  <2>1. 1 \in 0 .. N
    BY <1>2
  <2>2. QED
    BY <1>2, <1>3, <2>1, SlotIs
<1>6. t = (g + (num - 1)) % N
  <2>1. num - 1 \in Nat /\ 1 + (num - 1) = num /\ 1 \in 0 .. N /\ 1 + (num - 1) <= N
    BY <1>2
  <2>2. (Slot(h, N, 1) + (num - 1)) % N = Slot(h, N, 1 + (num - 1))
    BY <1>2, <2>1, SlotNext
  <2>3. QED
    BY <1>5, <2>1, <2>2
<1>7. RingOK(que2, q) /\ que2[q].num = num - 1 /\ que2[q].head = g
  <2>1. que2[q].num = num - 1 /\ que2[q].head = g /\ que2[q].tail = t
    <3>1. PICK m : m = num - 1
      OBVIOUS
    <3>2. que2[q] = [head |-> g, tail |-> t, num |-> m]
      BY <1>4, <3>1
    <3>3. PICK r : r = que2[q]
      OBVIOUS
    <3>4. r = [head |-> g, tail |-> t, num |-> m]
      BY <3>2, <3>3
    <3>5. r.head = g /\ r.tail = t /\ r.num = m
      BY <3>4, QueueIs
    <3>6. QED
      BY <3>1, <3>3, <3>5
  <2>2. num - 1 \in 0 .. N
    BY <1>2
  <2>3. QED
    BY <1>1, <1>4, <1>5, <1>6, <2>1, <2>2 DEF RingOK
<1>8. ASSUME NEW i \in 0 .. num - 2 PROVE At(que2, q, i) = At(que, q, i + 1)
  <2>1. i \in 0 .. N - 1 /\ i + 1 \in 0 .. N - 1 /\ i \in Nat /\ 1 + i <= N /\ 1 \in 0 .. N /\ i + 1 = 1 + i
    BY <1>2
  <2>2. At(que2, q, i) = <<q, Slot(g, N, i)>>
    BY <1>1, <1>7, <2>1, AtIs
  <2>3. At(que, q, i + 1) = <<q, Slot(h, N, i + 1)>>
    BY <1>1, <2>1, AtIs
  <2>4. Slot(g, N, i) = Slot(h, N, i + 1)
    BY <1>2, <1>5, <2>1, SlotNext
  <2>5. QED
    BY <2>2, <2>3, <2>4
<1>9. At(que, q, 0) = <<q, h>>
  <2>1. (h + 0) % N = h
    BY <1>2
  <2>2. QED
    BY <1>1, <2>1 DEF At
<1>10. Entries(que2, q) = Entries(que, q) \ {At(que, q, 0)}
  <2>1. ASSUME NEW x \in Entries(que2, q) PROVE x \in Entries(que, q) /\ x # At(que, q, 0)
    <3>1. PICK i \in 0 .. num - 2 : x = At(que2, q, i)
      <4>1. PICK i \in 0 .. que2[q].num - 1 : x = At(que2, q, i)
        BY DEF Entries
      <4>2. i \in 0 .. num - 2
        BY <1>2, <1>7, <4>1
      <4>3. QED
        BY <4>1, <4>2
    <3>2. x = At(que, q, i + 1)
      BY <1>8, <3>1
    <3>3. i + 1 \in 0 .. num - 1 /\ i + 1 \in 0 .. N - 1 /\ 0 \in 0 .. N - 1 /\ i + 1 # 0
      BY <1>2
    <3>4. x # At(que, q, 0)
      BY <1>1, <3>2, <3>3, AtsDiffer
    <3>5. QED
      BY <1>1, <3>2, <3>3, <3>4 DEF Entries
  <2>2. ASSUME NEW x \in Entries(que, q), x # At(que, q, 0) PROVE x \in Entries(que2, q)
    <3>1. PICK i \in 0 .. num - 1 : x = At(que, q, i)
      BY <1>1 DEF Entries
    <3>2. i # 0
      BY <2>2, <3>1
    <3>3. PICK j \in 0 .. num - 2 : i = j + 1
      <4>1. i - 1 \in 0 .. num - 2 /\ i = (i - 1) + 1
        BY <1>2, <3>2
      <4>2. QED
        BY <4>1
    <3>4. x = At(que2, q, j)
      BY <1>8, <3>1, <3>3
    <3>5. j \in 0 .. que2[q].num - 1
      BY <1>2, <1>7
    <3>6. QED
      BY <3>4, <3>5 DEF Entries
  <2>3. QED
    BY <2>1, <2>2
<1>11. At(que, q, 0) \in Entries(que, q)
  <2>1. 0 \in 0 .. num - 1
    BY <1>2
  <2>2. QED
    BY <1>1, <2>1 DEF Entries
<1>12. QED
  BY <1>1, <1>7, <1>8, <1>9, <1>10, <1>11

\* And one more at its tail.
Grown(que, que2, q) == que2[q] = [que[q] EXCEPT !.tail = (@ + 1) % size[q], !.num = @ + 1]

LEMMA TailGrows ==
  ASSUME NEW que, NEW q \in {"RUU", "LSQ"}, RingOK(que, q), que[q].num < size[q], NEW que2,
         Grown(que, que2, q)
  PROVE  /\ RingOK(que2, q) /\ que2[q].num = que[q].num + 1
         /\ \A i : At(que2, q, i) = At(que, q, i)
         /\ Entries(que2, q) = Entries(que, q) \cup {At(que, q, que[q].num)}
<1>1. PICK N, h, num, t : N = size[q] /\ h = que[q].head /\ num = que[q].num /\ t = que[q].tail
  OBVIOUS
<1>2. /\ h \in 0 .. N - 1 /\ num \in 0 .. N /\ N \in Nat \ {0} /\ t = (h + num) % N
      /\ que[q] = [head |-> h, tail |-> t, num |-> num] /\ num < N
  BY <1>1, RingIs DEF RingOK
<1>3. que2[q] = [head |-> h, tail |-> (t + 1) % N, num |-> num + 1]
  BY <1>1, <1>2 DEF Grown
<1>4. (t + 1) % N = (h + (num + 1)) % N
  <2>1. num + 1 \in 0 .. N /\ 1 \in Nat /\ num + 1 <= N
    BY <1>2
  <2>2. t = Slot(h, N, num) /\ (h + (num + 1)) % N = Slot(h, N, num + 1)
    BY <1>2, <2>1, SlotIs
  <2>3. (Slot(h, N, num) + 1) % N = Slot(h, N, num + 1)
    BY <1>2, <2>1, SlotNext
  <2>4. QED
    BY <2>2, <2>3
<1>5. que2[q].num = num + 1 /\ que2[q].head = h /\ que2[q].tail = (t + 1) % N
  <2>1. PICK m, u : m = num + 1 /\ u = (t + 1) % N
    OBVIOUS
  <2>2. que2[q] = [head |-> h, tail |-> u, num |-> m]
    BY <1>3, <2>1
  <2>3. PICK r : r = que2[q]
    OBVIOUS
  <2>4. r = [head |-> h, tail |-> u, num |-> m]
    BY <2>2, <2>3
  <2>5. r.head = h /\ r.tail = u /\ r.num = m
    BY <2>4, QueueIs
  <2>6. QED
    BY <2>1, <2>3, <2>5
<1>6. RingOK(que2, q)
  <2>1. num + 1 \in 0 .. N
    BY <1>2
  <2>2. QED
    BY <1>1, <1>2, <1>3, <1>4, <1>5, <2>1 DEF RingOK
<1>7. \A i : At(que2, q, i) = At(que, q, i)
  BY <1>1, <1>5 DEF At
<1>8. Entries(que2, q) = Entries(que, q) \cup {At(que, q, num)}
  <2>1. \A i : i \in 0 .. (num + 1) - 1 <=> i \in 0 .. num - 1 \/ i = num
    BY <1>2
  <2>2. QED
    BY <1>1, <1>5, <1>7, <2>1 DEF Entries
<1>9. QED
  BY <1>1, <1>5, <1>6, <1>7, <1>8

\* And without its entries from the m-th on.
CutTo(que, que2, q, t2, m) == que2[q] = [que[q] EXCEPT !.tail = t2, !.num = m]

LEMMA TailCuts ==
  ASSUME NEW que, NEW q \in {"RUU", "LSQ"}, RingOK(que, q), NEW m \in 0 .. que[q].num, NEW que2,
         NEW t2, t2 = (que[q].head + m) % size[q], CutTo(que, que2, q, t2, m)
  PROVE  /\ RingOK(que2, q) /\ que2[q].num = m
         /\ \A i : At(que2, q, i) = At(que, q, i)
         /\ Entries(que2, q) = {At(que, q, i) : i \in 0 .. m - 1}
<1>1. PICK N, h, num, t : N = size[q] /\ h = que[q].head /\ num = que[q].num /\ t = que[q].tail
  OBVIOUS
<1>2. /\ h \in 0 .. N - 1 /\ num \in 0 .. N /\ N \in Nat \ {0} /\ m \in 0 .. N
      /\ que[q] = [head |-> h, tail |-> t, num |-> num]
  <2>1. /\ que[q].head \in 0 .. size[q] - 1 /\ que[q].num \in 0 .. size[q]
        /\ size[q] \in Nat \ {0}
    BY RingIs
  <2>2. que[q] = [head |-> que[q].head, tail |-> que[q].tail, num |-> que[q].num]
    BY DEF RingOK
  <2>3. h \in 0 .. N - 1 /\ num \in 0 .. N /\ N \in Nat \ {0}
    BY <1>1, <2>1
  <2>4. m \in 0 .. num
    BY <1>1
  <2>5. m \in 0 .. N
    BY <2>3, <2>4
  <2>6. QED
    BY <1>1, <2>2, <2>3, <2>5
<1>3. que2[q] = [head |-> h, tail |-> t2, num |-> m]
  <2>1. que[q] = [head |-> h, tail |-> t, num |-> num]
    BY <1>2
  <2>2. PICK u : u = t2
    OBVIOUS
  <2>3. que2[q] = [que[q] EXCEPT !.tail = u, !.num = m]
    BY <2>2 DEF CutTo
  <2>4. PICK r, r2 : r = que[q] /\ r2 = que2[q]
    OBVIOUS
  <2>5. r = [head |-> h, tail |-> t, num |-> num]
    BY <2>1, <2>4
  <2>6. r2 = [r EXCEPT !.tail = u, !.num = m]
    BY <2>3, <2>4
  <2>7. r2 = [head |-> h, tail |-> u, num |-> m]
    BY <2>5, <2>6, QueueCuts
  <2>8. QED
    BY <2>2, <2>4, <2>7
<1>4. que2[q].num = m /\ que2[q].head = h /\ que2[q].tail = t2
  <2>1. PICK u : u = t2
    OBVIOUS
  <2>2. que2[q] = [head |-> h, tail |-> u, num |-> m]
    BY <1>3, <2>1
  <2>3. PICK r : r = que2[q]
    OBVIOUS
  <2>4. r = [head |-> h, tail |-> u, num |-> m]
    BY <2>2, <2>3
  <2>5. r.head = h /\ r.tail = u /\ r.num = m
    BY <2>4, QueueIs
  <2>6. QED
    BY <2>1, <2>3, <2>5
<1>5. RingOK(que2, q)
  BY <1>1, <1>2, <1>3, <1>4 DEF RingOK
<1>6. \A i : At(que2, q, i) = At(que, q, i)
  BY <1>1, <1>4 DEF At
<1>7. Entries(que2, q) = {At(que, q, i) : i \in 0 .. m - 1}
  BY <1>4, <1>6 DEF Entries
<1>8. QED
  BY <1>4, <1>5, <1>6, <1>7

-----------------------------------------------------------------------------
(* The machine *)

\* Of prog, Core, issuing, queue, inst_seq and the create vectors.
Machine(p, c, iss, que, sq, v) ==
  /\ QueuesOK(c.st, que)
  /\ OperationsOK(p, c.st, Entries(que, "RUU"), Entries(que, "LSQ"))
  /\ Body(p, c, iss, Flight(que), sq, v, {}, {})
  /\ Total(c, iss) = MAX_RS_LINKS

\* The entries of the queues are operations in flight, in order.
LEMMA InFlight ==
  ASSUME NEW p, NEW c, NEW iss, NEW que, NEW sq, NEW v, Machine(p, c, iss, que, sq, v)
  PROVE  /\ RingOK(que, "RUU") /\ InOrder(c.st, que, "RUU")
         /\ RingOK(que, "LSQ") /\ InOrder(c.st, que, "LSQ")
         /\ Flight(que) \subseteq Stations
         /\ Entries(que, "RUU") \subseteq Flight(que) /\ Entries(que, "LSQ") \subseteq Flight(que)
         /\ Entries(que, "RUU") \cap Entries(que, "LSQ") = {}
         /\ \A x \in Flight(que) : c.st[x].seq \in Nat /\ c.st[x].seq <= sq
         /\ \A x, y \in Flight(que) : c.st[x].seq = c.st[y].seq => x = y
         /\ \A x, y \in Flight(que) : c.st[x].spec_mode /\ ~c.st[y].spec_mode => c.st[y].seq < c.st[x].seq
         /\ \A x \in Entries(que, "RUU") : InRUU(p, c.st, x, Entries(que, "LSQ"))
         /\ \A y \in Entries(que, "LSQ") : InLSQ(p, c.st, y, Entries(que, "RUU"))
         /\ c \in CoreType /\ c.st \in [Stations -> StationType] /\ sq \in Nat
<1>1. /\ RingOK(que, "RUU") /\ InOrder(c.st, que, "RUU")
      /\ RingOK(que, "LSQ") /\ InOrder(c.st, que, "LSQ")
  BY DEF Machine, QueuesOK
<1>2. /\ Entries(que, "RUU") \subseteq Flight(que) /\ Entries(que, "LSQ") \subseteq Flight(que)
      /\ Flight(que) \subseteq Stations
      /\ Entries(que, "RUU") \cap Entries(que, "LSQ") = {}
  <2>1. /\ Entries(que, "RUU") \subseteq Stations /\ \A x \in Entries(que, "RUU") : x[1] = "RUU"
        /\ Entries(que, "LSQ") \subseteq Stations /\ \A x \in Entries(que, "LSQ") : x[1] = "LSQ"
    BY <1>1, EntriesAre
  <2>2. QED
    BY <2>1 DEF Flight
<1>3. /\ c \in CoreType /\ c.st \in [Stations -> StationType] /\ sq \in Nat
      /\ \A x \in Stations : c.st[x].seq \in Nat
  BY BodyParts DEF Machine
<1>4. OrderOK(c.st, Flight(que), sq)
  BY DEF Machine, Body
<1>5. /\ \A x \in Entries(que, "RUU") : InRUU(p, c.st, x, Entries(que, "LSQ"))
      /\ \A y \in Entries(que, "LSQ") : InLSQ(p, c.st, y, Entries(que, "RUU"))
  BY DEF Machine, OperationsOK
<1>6. QED
  BY <1>1, <1>2, <1>3, <1>4, <1>5 DEF OrderOK

LEMMA SameInOrder ==
  ASSUME NEW st, NEW st2, NEW que, NEW q \in {"RUU", "LSQ"}, RingOK(que, q), InOrder(st, que, q),
         \A x \in Entries(que, q) : st2[x].seq = st[x].seq
  PROVE  InOrder(st2, que, q)
<1>1. \A i \in 0 .. que[q].num - 1 : At(que, q, i) \in Entries(que, q)
  BY DEF Entries
<1>2. QED
  BY <1>1 DEF InOrder

\* No operation comes or goes.
LEMMA MachineSame ==
  ASSUME NEW p, NEW c, NEW iss, NEW que, NEW sq, NEW v, Machine(p, c, iss, que, sq, v),
         NEW d, NEW iss2, NEW v2, SameOps(c.st, d.st),
         Body(p, d, iss2, Flight(que), sq, v2, {}, {}), Total(d, iss2) = Total(c, iss)
  PROVE  Machine(p, d, iss2, que, sq, v2)
<1>1. /\ Entries(que, "RUU") \subseteq Stations /\ Entries(que, "LSQ") \subseteq Stations
  BY InFlight
<1>2. OperationsOK(p, c.st, Entries(que, "RUU"), Entries(que, "LSQ"))
  BY DEF Machine
<1>3. OperationsOK(p, d.st, Entries(que, "RUU"), Entries(que, "LSQ"))
  BY <1>1, <1>2, SameOperations
<1>4. QueuesOK(d.st, que)
  <2>1. \A x \in Stations : d.st[x].seq = c.st[x].seq
    BY DEF SameOps
  <2>2. /\ RingOK(que, "RUU") /\ InOrder(c.st, que, "RUU")
        /\ RingOK(que, "LSQ") /\ InOrder(c.st, que, "LSQ")
    BY InFlight
  <2>3. InOrder(d.st, que, "RUU") /\ InOrder(d.st, que, "LSQ")
    BY <1>1, <2>1, <2>2, SameInOrder
  <2>4. QED
    BY <2>3 DEF Machine, QueuesOK
<1>5. QED
  BY <1>3, <1>4 DEF Machine

\* The first operation in the RUU is the oldest of all, and if it computes an
\* address the first in the LSQ is its access.
LEMMA HeadsAre ==
  ASSUME NEW p, NEW c, NEW iss, NEW que, NEW sq, NEW v, Machine(p, c, iss, que, sq, v),
         que["RUU"].num > 0, NEW x0, x0 = At(que, "RUU", 0), NEW y0, y0 = At(que, "LSQ", 0)
  PROVE  /\ x0 \in Entries(que, "RUU")
         /\ \A x \in Flight(que) \ {x0} : c.st[x0].seq < c.st[x].seq
         /\ c.st[x0].ea_comp =>
              /\ que["LSQ"].num > 0 /\ y0 \in Entries(que, "LSQ")
              /\ c.st[y0].seq = c.st[x0].seq + 1
              /\ c.st[y0].spec_mode <=> c.st[x0].spec_mode
              /\ \A x \in Flight(que) \ {x0, y0} : c.st[y0].seq < c.st[x].seq
<1>1. PICK st : st = c.st
  OBVIOUS
<1>2. PICK R, L : R = Entries(que, "RUU") /\ L = Entries(que, "LSQ")
  OBVIOUS
<1>3. /\ R \cap L = {}
      /\ \A x \in R \cup L : st[x].seq \in Nat
      /\ \A x, y \in R \cup L : st[x].seq = st[y].seq => x = y
      /\ \A x \in R : st[x].ea_comp => IsAgen(st, x, L)
      /\ \A y \in L : \E x \in R : st[x].ea_comp /\ st[y].seq = st[x].seq + 1
      /\ Flight(que) = R \cup L
  <2>1. Flight(que) = R \cup L
    BY <1>2 DEF Flight
  <2>2. /\ R \cap L = {}
        /\ \A x \in R \cup L : st[x].seq \in Nat
        /\ \A x, y \in R \cup L : st[x].seq = st[y].seq => x = y
        /\ \A x \in R : InRUU(p, st, x, L)
        /\ \A y \in L : InLSQ(p, st, y, R)
    BY <1>1, <1>2, <2>1, InFlight
  <2>3. \A x \in R : st[x].ea_comp => IsAgen(st, x, L)
    BY <2>2 DEF InRUU
  <2>4. \A y \in L : \E x \in R : st[x].ea_comp /\ st[y].seq = st[x].seq + 1
    BY <2>2 DEF InLSQ
  <2>5. QED
    BY <2>1, <2>2, <2>3, <2>4
<1>4. \A q \in {"RUU", "LSQ"} : que[q].num > 0 =>
        /\ At(que, q, 0) \in Entries(que, q)
        /\ \A x \in Entries(que, q) \ {At(que, q, 0)} : st[At(que, q, 0)].seq < st[x].seq
  <2>1. TAKE q \in {"RUU", "LSQ"}
  <2>2. HAVE que[q].num > 0
  <2>3. RingOK(que, q) /\ InOrder(st, que, q)
    BY <1>1, InFlight
  <2>4. que[q].num \in Nat
    BY <2>3, RingIs
  <2>5. 0 \in 0 .. que[q].num - 1
    BY <2>2, <2>4
  <2>6. At(que, q, 0) \in Entries(que, q)
    BY <2>5 DEF Entries
  <2>7. ASSUME NEW x \in Entries(que, q) \ {At(que, q, 0)}
        PROVE  st[At(que, q, 0)].seq < st[x].seq
    <3>1. PICK i \in 0 .. que[q].num - 1 : x = At(que, q, i)
      BY DEF Entries
    <3>2. 0 < i
      BY <2>4, <2>7, <3>1
    <3>3. QED
      BY <2>3, <2>5, <3>1, <3>2 DEF InOrder
  <2>8. QED
    BY <2>6, <2>7
<1>5. x0 \in R /\ \A x \in R \ {x0} : st[x0].seq < st[x].seq
  BY <1>2, <1>4
<1>6. \A y \in L : st[x0].seq < st[y].seq
  BY <1>3, <1>5
<1>7. ASSUME st[x0].ea_comp
      PROVE  /\ que["LSQ"].num > 0 /\ y0 \in L
             /\ st[y0].seq = st[x0].seq + 1
             /\ st[y0].spec_mode <=> st[x0].spec_mode
             /\ \A x \in (R \cup L) \ {x0, y0} : st[y0].seq < st[x].seq
  <2>1. PICK y \in L : st[y].seq = st[x0].seq + 1 /\ (st[y].spec_mode <=> st[x0].spec_mode)
    BY <1>3, <1>5, <1>7 DEF IsAgen
  <2>2. que["LSQ"].num \in Nat /\ RingOK(que, "LSQ")
    BY InFlight, RingIs
  <2>3. que["LSQ"].num > 0
    <3>1. PICK j \in 0 .. que["LSQ"].num - 1 : y = At(que, "LSQ", j)
      BY <1>2, <2>1 DEF Entries
    <3>2. QED
      BY <2>2, <3>1
  <2>4. y0 \in L /\ \A z \in L \ {y0} : st[y0].seq < st[z].seq
    BY <1>2, <1>4, <2>3
  <2>5. y0 = y
    <3>1. SUFFICES ASSUME y0 # y PROVE FALSE
      OBVIOUS
    <3>2. st[y0].seq < st[y].seq
      BY <2>4, <3>1
    <3>3. PICK x \in R : st[y0].seq = st[x].seq + 1
      BY <1>3, <2>4
    <3>4. st[x].seq < st[x0].seq /\ st[x].seq \in Nat /\ st[x0].seq \in Nat
      <4>1. st[x].seq \in Nat /\ st[x0].seq \in Nat
        BY <1>3, <1>5
      <4>2. QED
        BY <2>1, <3>2, <3>3, <4>1
    <3>5. x = x0 \/ st[x0].seq < st[x].seq
      BY <1>5
    <3>6. QED
      BY <3>4, <3>5
  <2>6. ASSUME NEW x \in R \ {x0} PROVE st[y0].seq < st[x].seq
    <3>1. st[x0].seq < st[x].seq /\ st[x].seq # st[y0].seq
      BY <1>3, <1>5, <2>4
    <3>2. st[x].seq \in Nat /\ st[x0].seq \in Nat /\ st[y0].seq = st[x0].seq + 1
      BY <1>3, <1>5, <2>1, <2>5
    <3>3. QED
      BY <3>1, <3>2
  <2>7. QED
    BY <2>1, <2>3, <2>4, <2>5, <2>6
<1>8. QED
  BY <1>1, <1>2, <1>3, <1>5, <1>6, <1>7

\* The entries of que2 are some of que, in order.
LEMMA DroppedInOrder ==
  ASSUME NEW st, NEW que, NEW q \in {"RUU", "LSQ"}, RingOK(que, q), InOrder(st, que, q),
         que[q].num > 0, NEW que2, Dropped(que, que2, q)
  PROVE  InOrder(st, que2, q)
<1>1. /\ que2[q].num = que[q].num - 1 /\ que[q].num \in Nat
      /\ \A i \in 0 .. que[q].num - 2 : At(que2, q, i) = At(que, q, i + 1)
  <2>1. que[q].num \in Nat
    BY RingIs
  <2>2. QED
    BY <2>1, HeadDrops
<1>2. ASSUME NEW i \in 0 .. que2[q].num - 1, NEW j \in 0 .. que2[q].num - 1, i < j
      PROVE  st[At(que2, q, i)].seq < st[At(que2, q, j)].seq
  <2>1. /\ i + 1 \in 0 .. que[q].num - 1 /\ j + 1 \in 0 .. que[q].num - 1 /\ i + 1 < j + 1
        /\ i \in 0 .. que[q].num - 2 /\ j \in 0 .. que[q].num - 2
    BY <1>1, <1>2
  <2>2. st[At(que, q, i + 1)].seq < st[At(que, q, j + 1)].seq
    BY <2>1 DEF InOrder
  <2>3. QED
    BY <1>1, <2>1, <2>2
<1>3. QED
  BY <1>2 DEF InOrder

\* The operations of some of the stations are what their instructions say, when
\* address computations and accesses leave together.
LEMMA FewerOperations ==
  ASSUME NEW p, NEW st, NEW R, NEW L, OperationsOK(p, st, R, L), NEW R2 \in SUBSET R, NEW L2 \in SUBSET L,
         \A x \in R : \A y \in L : st[x].ea_comp /\ st[y].seq = st[x].seq + 1 => (x \in R2 <=> y \in L2)
  PROVE  OperationsOK(p, st, R2, L2)
<1>1. ASSUME NEW x \in R2 PROVE InRUU(p, st, x, L2)
  <2>1. InRUU(p, st, x, L)
    BY DEF OperationsOK
  <2>2. st[x].ea_comp => IsAgen(st, x, L2)
    BY <2>1 DEF InRUU, IsAgen
  <2>3. QED
    BY <2>1, <2>2 DEF InRUU
<1>2. ASSUME NEW y \in L2 PROVE InLSQ(p, st, y, R2)
  <2>1. InLSQ(p, st, y, R)
    BY DEF OperationsOK
  <2>2. \E x \in R2 : st[x].ea_comp /\ st[y].seq = st[x].seq + 1
    BY <2>1 DEF InLSQ
  <2>3. QED
    BY <2>1, <2>2 DEF InLSQ
<1>3. QED
  BY <1>1, <1>2 DEF OperationsOK

Queues(que) == que = [RUU |-> que["RUU"], LSQ |-> que["LSQ"]]

\* X is x and, if x computes an address, its access y.
Pair(st, x, y, X) == X = {x} \cup (IF st[x].ea_comp THEN {y} ELSE {})

\* From que to que2, the first of the RUU goes and, if both, that of the LSQ.
HeadsDropped(que, que2, both) ==
  /\ Queues(que2) /\ Dropped(que, que2, "RUU")
  /\ both => Dropped(que, que2, "LSQ")
  /\ ~both => que2["LSQ"] = que["LSQ"]

\* The first operation retires, with its access.
LEMMA MachineRetires ==
  ASSUME NEW p, NEW c, NEW iss, NEW que, NEW sq, NEW v, Machine(p, c, iss, que, sq, v),
         que["RUU"].num > 0, NEW x0, x0 = At(que, "RUU", 0), NEW y0, y0 = At(que, "LSQ", 0),
         c.st[x0].completed, ~c.st[x0].spec_mode, c.st[x0].ea_comp => c.st[y0].completed,
         NEW X, Pair(c.st, x0, y0, X), NEW d, Retires(c, d, X),
         NEW que2, HeadsDropped(que, que2, c.st[x0].ea_comp)
  PROVE  Machine(p, d, iss, que2, sq, v) /\ c.st[x0].odep_list = <<>>
<1>0. /\ X = {x0} \cup (IF c.st[x0].ea_comp THEN {y0} ELSE {})
      /\ que2 = [RUU |-> que2["RUU"], LSQ |-> que2["LSQ"]] /\ Dropped(que, que2, "RUU")
      /\ c.st[x0].ea_comp => Dropped(que, que2, "LSQ")
      /\ ~c.st[x0].ea_comp => que2["LSQ"] = que["LSQ"]
  BY DEF Pair, HeadsDropped, Queues
<1>1. PICK st : st = c.st
  OBVIOUS
<1>2. PICK R, L, R2, L2 : /\ R = Entries(que, "RUU") /\ L = Entries(que, "LSQ")
                          /\ R2 = Entries(que2, "RUU") /\ L2 = Entries(que2, "LSQ")
  OBVIOUS
<1>3. /\ x0 \in R /\ \A x \in Flight(que) \ {x0} : st[x0].seq < st[x].seq
      /\ st[x0].ea_comp => /\ que["LSQ"].num > 0 /\ y0 \in L
                           /\ st[y0].seq = st[x0].seq + 1
                           /\ st[y0].spec_mode <=> st[x0].spec_mode
                           /\ \A x \in Flight(que) \ {x0, y0} : st[y0].seq < st[x].seq
  BY <1>1, <1>2, HeadsAre
<1>4. /\ RingOK(que, "RUU") /\ InOrder(st, que, "RUU")
      /\ RingOK(que, "LSQ") /\ InOrder(st, que, "LSQ")
      /\ R \cap L = {} /\ R \cup L = Flight(que) /\ Flight(que) \subseteq Stations
      /\ \A x \in R \cup L : st[x].seq \in Nat
      /\ \A x, y \in R \cup L : st[x].seq = st[y].seq => x = y
  <2>1. R \cup L = Flight(que)
    BY <1>2 DEF Flight
  <2>2. QED
    BY <1>1, <1>2, <2>1, InFlight
<1>5. /\ RingOK(que2, "RUU") /\ InOrder(st, que2, "RUU") /\ R2 = R \ {x0}
  BY <1>0, <1>2, <1>4, HeadDrops, DroppedInOrder
<1>6. /\ RingOK(que2, "LSQ") /\ InOrder(st, que2, "LSQ")
      /\ L2 = L \ (IF st[x0].ea_comp THEN {y0} ELSE {})
  <2>1. CASE st[x0].ea_comp
    <3>1. /\ RingOK(que2, "LSQ") /\ InOrder(st, que2, "LSQ") /\ L2 = L \ {y0}
      BY <1>0, <1>1, <1>2, <1>3, <1>4, <2>1, HeadDrops, DroppedInOrder
    <3>2. QED
      BY <2>1, <3>1
  <2>2. CASE ~st[x0].ea_comp
    <3>1. que2["LSQ"] = que["LSQ"]
      BY <1>0, <1>1, <2>2
    <3>2. \A i : At(que2, "LSQ", i) = At(que, "LSQ", i)
      BY <3>1 DEF At
    <3>3. RingOK(que2, "LSQ")
      BY <1>4, <3>1 DEF RingOK
    <3>4. L2 = L
      BY <1>2, <3>1, <3>2 DEF Entries
    <3>5. InOrder(st, que2, "LSQ")
      BY <1>4, <3>1, <3>2 DEF InOrder
    <3>6. QED
      BY <2>2, <3>3, <3>4, <3>5
  <2>3. QED
    BY <2>1, <2>2
<1>7. X \subseteq Flight(que) /\ Flight(que2) = Flight(que) \ X
  <2>1. Flight(que2) = R2 \cup L2
    BY <1>2 DEF Flight
  <2>2. QED
    BY <1>0, <1>1, <1>3, <1>4, <1>5, <1>6, <2>1
<1>8. \A x \in X : /\ c.st[x].completed /\ ~c.st[x].spec_mode
                   /\ \A o \in Flight(que2) : c.st[x].seq < c.st[o].seq
  <2>1. CASE st[x0].ea_comp
    <3>1. X = {x0, y0}
      BY <1>0, <1>1, <2>1
    <3>2. QED
      BY <1>1, <1>3, <1>7, <2>1, <3>1
  <2>2. CASE ~st[x0].ea_comp
    <3>1. X = {x0}
      BY <1>0, <1>1, <2>2
    <3>2. QED
      BY <1>1, <1>3, <1>7, <2>2, <3>1
  <2>3. QED
    BY <2>1, <2>2
<1>9. Body(p, d, iss, Flight(que2), sq, v, {}, {}) /\ Total(d, iss) = Total(c, iss)
  <2>1. Body(p, c, iss, Flight(que), sq, v, {}, {})
    BY DEF Machine
  <2>2. QED
    BY <1>7, <1>8, <2>1, RetireBody
<1>10. OperationsOK(p, st, R2, L2)
  <2>1. ASSUME NEW x \in R, NEW y \in L, st[x].ea_comp, st[y].seq = st[x].seq + 1
        PROVE  x \in R2 <=> y \in L2
    <3>1. CASE st[x0].ea_comp
      <4>1. x = x0 <=> y = y0
        <5>1. st[x].seq \in Nat /\ st[x0].seq \in Nat /\ st[y].seq \in Nat /\ st[y0].seq \in Nat
          BY <1>3, <1>4, <3>1
        <5>2. st[x].seq = st[x0].seq <=> st[y].seq = st[y0].seq
          BY <1>3, <2>1, <3>1, <5>1
        <5>3. QED
          BY <1>3, <1>4, <3>1, <5>2
      <4>2. QED
        BY <1>5, <1>6, <3>1, <4>1
    <3>2. CASE ~st[x0].ea_comp
      <4>1. x # x0
        BY <2>1, <3>2
      <4>2. QED
        BY <1>5, <1>6, <3>2, <4>1
    <3>3. QED
      BY <3>1, <3>2
  <2>2. OperationsOK(p, st, R, L) /\ R2 \subseteq R /\ L2 \subseteq L
    BY <1>1, <1>2, <1>5, <1>6 DEF Machine
  <2>3. QED
    BY <2>1, <2>2, FewerOperations
<1>11. SameOps(st, d.st) /\ R2 \subseteq Stations /\ L2 \subseteq Stations
  BY <1>1, <1>4, <1>5, <1>6 DEF Retires
<1>12. OperationsOK(p, d.st, R2, L2)
  BY <1>10, <1>11, SameOperations
<1>13. InOrder(d.st, que2, "RUU") /\ InOrder(d.st, que2, "LSQ")
  <2>1. \A x \in Stations : d.st[x].seq = st[x].seq
    BY <1>11 DEF SameOps
  <2>2. QED
    BY <1>2, <1>5, <1>6, <1>11, <2>1, SameInOrder
<1>14. c.st[x0].odep_list = <<>>
  <2>1. DependsOK(p, c.st, Flight(que))
    BY DEF Machine, Body
  <2>2. x0 \in Stations
    BY <1>3, <1>4
  <2>3. ConsumersOK(p, c.st, Flight(que), x0)
    BY <2>1, <2>2 DEF DependsOK
  <2>4. QED
    BY <2>3 DEF ConsumersOK
<1>15. Total(d, iss) = MAX_RS_LINKS
  BY <1>9 DEF Machine
<1>16. QED
  BY <1>0, <1>2, <1>5, <1>6, <1>9, <1>12, <1>13, <1>14, <1>15 DEF Machine, QueuesOK

-----------------------------------------------------------------------------
(* Recovery from a misprediction *)

LEMMA SameSize ==
  ASSUME NEW S, NEW T, IsFiniteSet(S), NEW f \in [S -> T],
         \A x, y \in S : f[x] = f[y] => x = y, \A z \in T : \E x \in S : f[x] = z
  PROVE  IsFiniteSet(T) /\ Cardinality(T) = Cardinality(S)
<1>1. f \in Surjection(S, T) /\ f \in Injection(S, T)
  BY DEF Surjection, Injection, IsInjective
<1>2. QED
  BY <1>1, FS_Surjection

\* Of a ring, the entries from a to b.
From(que, q, a, b) == {At(que, q, k) : k \in a .. b}

LEMMA FromSize ==
  ASSUME NEW que, NEW q \in {"RUU", "LSQ"}, RingOK(que, q),
         NEW a \in 0 .. que[q].num
  PROVE  IsFiniteSet(From(que, q, a, que[q].num - 1))
         /\ Cardinality(From(que, q, a, que[q].num - 1)) = que[q].num - a
<1>1. PICK num : num = que[q].num
  OBVIOUS
<1>2. num \in Nat /\ num <= size[q] /\ size[q] \in Nat /\ a \in Nat /\ a <= num
  BY <1>1, RingIs
<1>3. IsFiniteSet(a .. num - 1) /\ Cardinality(a .. num - 1) = num - a
  <2>1. a \in Int /\ num - 1 \in Int
    BY <1>2
  <2>2. /\ IsFiniteSet(a .. num - 1)
        /\ Cardinality(a .. num - 1) = IF a > num - 1 THEN 0 ELSE num - 1 - a + 1
    BY <2>1, FS_Interval
  <2>3. QED
    BY <1>2, <2>2
<1> DEFINE f == [k \in a .. num - 1 |-> At(que, q, k)]
<1>4. f \in [a .. num - 1 -> From(que, q, a, num - 1)]
  BY DEF From
<1>5. ASSUME NEW x \in a .. num - 1, NEW y \in a .. num - 1, f[x] = f[y] PROVE x = y
  <2>1. x \in 0 .. size[q] - 1 /\ y \in 0 .. size[q] - 1
    BY <1>2
  <2>2. At(que, q, x) = At(que, q, y)
    BY <1>5
  <2>3. QED
    BY <2>1, <2>2, AtsDiffer
<1>6. \A z \in From(que, q, a, num - 1) : \E x \in a .. num - 1 : f[x] = z
  BY DEF From
<1>7. \A x, y \in a .. num - 1 : f[x] = f[y] => x = y
  BY <1>5
<1> HIDE DEF f
<1>8. PICK S, T : S = a .. num - 1 /\ T = From(que, q, a, num - 1)
  OBVIOUS
<1>9. /\ IsFiniteSet(S) /\ f \in [S -> T]
      /\ \A x, y \in S : f[x] = f[y] => x = y
      /\ \A z \in T : \E x \in S : f[x] = z
  BY <1>3, <1>4, <1>6, <1>7, <1>8
<1>10. IsFiniteSet(T) /\ Cardinality(T) = Cardinality(S)
  BY <1>9, SameSize
<1>11. QED
  BY <1>1, <1>3, <1>8, <1>10

\* What is after the i-th entry of the RUU.
LEMMA AfterIs ==
  ASSUME NEW que, que = queue, RingOK(que, "RUU"), NEW i \in 0 .. que["RUU"].num - 1,
         NEW b, b = At(que, "RUU", i)[2]
  PROVE  /\ After(b) = From(que, "RUU", i + 1, que["RUU"].num - 1)
         /\ Cardinality(After(b)) = que["RUU"].num - (i + 1)
         /\ (b + 1) % RUU_size = (que["RUU"].head + (i + 1)) % size["RUU"]
<1>1. PICK N, h, num, t : N = RUU_size /\ h = que["RUU"].head /\ num = que["RUU"].num /\ t = que["RUU"].tail
  OBVIOUS
<1>2. h \in 0 .. N - 1 /\ num \in 0 .. N /\ N \in Nat \ {0} /\ t = (h + num) % N /\ size["RUU"] = N
  BY <1>1, RingIs, SizesAre
<1>3. i \in Nat /\ i < num /\ i \in 0 .. N - 1 /\ i \in 0 .. num /\ i \in 0 .. N /\ num \in 0 .. N
  BY <1>1, <1>2
<1>4. b = Slot(h, N, i)
  <2>1. At(que, "RUU", i) = <<"RUU", Slot(h, N, i)>>
    BY <1>1, <1>2, <1>3, AtIs
  <2>2. QED
    BY <2>1
<1>5. t = Slot(h, N, num)
  BY <1>2, SlotIs
<1>6. (t - 1 - b) % N = num - 1 - i
  <2>1. i \in 0 .. num /\ num \in 0 .. N /\ i < num
    BY <1>3
  <2>2. (Slot(h, N, num) - 1 - Slot(h, N, i)) % N = num - 1 - i
    BY <1>2, <2>1, SlotBack
  <2>3. QED
    BY <1>4, <1>5, <2>2
<1>7. ASSUME NEW j \in 1 .. num - 1 - i PROVE <<"RUU", (b + j) % N>> = At(que, "RUU", i + j)
  <2>1. j \in Nat /\ i + j <= N /\ i + j \in 0 .. N - 1 /\ i + j \in 0 .. N
    BY <1>2, <1>3
  <2>2. (b + j) % N = Slot(h, N, i + j)
    BY <1>2, <1>3, <1>4, <2>1, SlotNext
  <2>3. (h + (i + j)) % N = Slot(h, N, i + j)
    BY <1>2, <2>1, SlotIs
  <2>4. QED
    BY <1>1, <1>2, <2>2, <2>3 DEF At
<1>8. After(b) = From(que, "RUU", i + 1, num - 1)
  <2>1. After(b) = {<<"RUU", (b + j) % N>> : j \in 1 .. num - 1 - i}
    BY <1>1, <1>6 DEF After
  <2>2. {<<"RUU", (b + j) % N>> : j \in 1 .. num - 1 - i} = {At(que, "RUU", i + j) : j \in 1 .. num - 1 - i}
    BY <1>7
  <2>3. \A k \in i + 1 .. num - 1 : k - i \in 1 .. num - 1 - i /\ i + (k - i) = k
    BY <1>2, <1>3
  <2>4. \A j \in 1 .. num - 1 - i : i + j \in i + 1 .. num - 1
    BY <1>2, <1>3
  <2>5. {At(que, "RUU", i + j) : j \in 1 .. num - 1 - i} = From(que, "RUU", i + 1, num - 1)
    BY <2>3, <2>4 DEF From
  <2>6. QED
    BY <2>1, <2>2, <2>5
<1>9. Cardinality(After(b)) = num - (i + 1)
  <2>1. i + 1 \in 0 .. que["RUU"].num
    BY <1>1, <1>2, <1>3
  <2>2. QED
    BY <1>1, <1>8, <2>1, FromSize
<1>10. (b + 1) % N = (h + (i + 1)) % N
  <2>1. 1 \in Nat /\ i + 1 <= N /\ i + 1 \in 0 .. N
    BY <1>2, <1>3
  <2>2. (b + 1) % N = Slot(h, N, i + 1)
    BY <1>2, <1>3, <1>4, <2>1, SlotNext
  <2>3. QED
    BY <1>2, <2>1, <2>2, SlotIs
<1>11. QED
  BY <1>1, <1>2, <1>8, <1>9, <1>10

\* The last entries of the LSQ, counted from its tail.
LEMMA BackIs ==
  ASSUME NEW que, RingOK(que, "LSQ"), NEW t \in 0 .. que["LSQ"].num,
         NEW a, a = que["LSQ"].num - t
  PROVE  /\ {<<"LSQ", (que["LSQ"].tail - i) % LSQ_size>> : i \in 1 .. a}
              = From(que, "LSQ", t, que["LSQ"].num - 1)
         /\ (que["LSQ"].tail - a) % LSQ_size = (que["LSQ"].head + t) % size["LSQ"]
<1>1. PICK N, h, num, last : N = LSQ_size /\ h = que["LSQ"].head /\ num = que["LSQ"].num /\ last = que["LSQ"].tail
  OBVIOUS
<1>2. h \in 0 .. N - 1 /\ num \in 0 .. N /\ N \in Nat \ {0} /\ last = (h + num) % N /\ size["LSQ"] = N
  BY <1>1, RingIs, SizesAre
<1>3. last = Slot(h, N, num)
  BY <1>2, SlotIs
<1>4. t \in Nat /\ t <= num /\ t \in 0 .. N /\ a = num - t /\ a \in 0 .. num
  BY <1>1, <1>2
<1>5. ASSUME NEW i \in 0 .. num PROVE (last - i) % N = Slot(h, N, num - i)
  <2>1. num \in 0 .. N /\ h \in 0 .. N - 1 /\ N \in Nat \ {0}
    BY <1>2
  <2>2. (Slot(h, N, num) - i) % N = Slot(h, N, num - i)
    BY <2>1, SlotBack
  <2>3. QED
    BY <1>3, <2>2
<1>6. (last - a) % N = (h + t) % N
  <2>1. (last - a) % N = Slot(h, N, num - a) /\ num - a = t
    BY <1>2, <1>4, <1>5
  <2>2. QED
    BY <1>2, <1>4, <2>1, SlotIs
<1>7. ASSUME NEW i \in 1 .. a PROVE <<"LSQ", (last - i) % N>> = At(que, "LSQ", num - i)
  <2>1. i \in 0 .. num /\ num - i \in 0 .. N
    BY <1>2, <1>4
  <2>2. (h + (num - i)) % N = Slot(h, N, num - i)
    BY <1>2, <2>1, SlotIs
  <2>3. QED
    BY <1>1, <1>2, <1>5, <2>1, <2>2 DEF At
<1>8. {<<"LSQ", (last - i) % N>> : i \in 1 .. a} = From(que, "LSQ", t, num - 1)
  <2>1. {<<"LSQ", (last - i) % N>> : i \in 1 .. a} = {At(que, "LSQ", num - i) : i \in 1 .. a}
    BY <1>7
  <2>2. \A k \in t .. num - 1 : num - k \in 1 .. a /\ num - (num - k) = k
    BY <1>2, <1>4
  <2>3. \A i \in 1 .. a : num - i \in t .. num - 1
    BY <1>2, <1>4
  <2>4. QED
    BY <2>1, <2>2, <2>3 DEF From
<1>9. QED
  BY <1>1, <1>2, <1>6, <1>8

\* The accesses of the wrong path are the last of the LSQ.
LEMMA WrongSuffix ==
  ASSUME NEW p, NEW c, NEW iss, NEW que, NEW sq, NEW v, Machine(p, c, iss, que, sq, v)
  PROVE  \E t \in 0 .. que["LSQ"].num : \A j \in 0 .. que["LSQ"].num - 1 :
           c.st[At(que, "LSQ", j)].spec_mode <=> t <= j
<1>1. PICK num : num = que["LSQ"].num
  OBVIOUS
<1>2. num \in Nat
  BY <1>1, InFlight, RingIs
<1>3. PICK S : S = {k \in 0 .. num - 1 : c.st[At(que, "LSQ", k)].spec_mode}
  OBVIOUS
<1>4. CASE S = {}
  <2>1. num \in 0 .. num /\ \A j \in 0 .. num - 1 : ~(num <= j)
    BY <1>2
  <2>2. QED
    BY <1>1, <1>3, <1>4, <2>1
<1>5. CASE S # {}
  <2>1. S \subseteq Nat
    BY <1>3
  <2>2. PICK m \in S : \A k \in S : m <= k
    BY <1>5, <2>1, Least
  <2>3. m \in 0 .. num - 1 /\ m \in 0 .. num
    BY <1>2, <1>3
  <2>4. ASSUME NEW j \in 0 .. num - 1, m < j, ~c.st[At(que, "LSQ", j)].spec_mode PROVE FALSE
    <3>1. PICK x, y : x = At(que, "LSQ", m) /\ y = At(que, "LSQ", j)
      OBVIOUS
    <3>2. c.st[x].seq < c.st[y].seq
      <4>1. InOrder(c.st, que, "LSQ")
        BY InFlight
      <4>2. QED
        BY <1>1, <2>3, <2>4, <3>1, <4>1 DEF InOrder
    <3>3. x \in Entries(que, "LSQ") /\ y \in Entries(que, "LSQ")
      BY <1>1, <2>3, <3>1 DEF Entries
    <3>4. x \in Flight(que) /\ y \in Flight(que)
      BY <3>3, InFlight
    <3>5. c.st[x].spec_mode /\ ~c.st[y].spec_mode
      BY <1>3, <2>4, <3>1
    <3>6. c.st[y].seq < c.st[x].seq
      BY <3>4, <3>5, InFlight
    <3>7. c.st[x].seq \in Nat /\ c.st[y].seq \in Nat
      BY <3>4, InFlight
    <3>8. QED
      BY <3>2, <3>6, <3>7
  <2>5. \A j \in 0 .. num - 1 : c.st[At(que, "LSQ", j)].spec_mode <=> m <= j
    <3>1. TAKE j \in 0 .. num - 1
    <3>2. j \in Int /\ m \in Int
      BY <2>3
    <3>3. CASE j < m
      <4>1. j \notin S
        BY <2>2, <3>2, <3>3
      <4>2. QED
        BY <1>3, <3>2, <3>3, <4>1
    <3>4. CASE j = m
      BY <1>3, <3>2, <3>4
    <3>5. CASE m < j
      BY <2>4, <3>2, <3>5
    <3>6. QED
      BY <3>2, <3>3, <3>4, <3>5
  <2>6. QED
    BY <1>1, <2>3, <2>5
<1>6. QED
  BY <1>4, <1>5

\* The i-th operation in the RUU is the last that is not on the wrong path.
LastRight(st, que, i) ==
  \A k \in 0 .. que["RUU"].num - 1 : st[At(que, "RUU", k)].spec_mode <=> i + 1 <= k

\* There are as many accesses on the wrong path as address computations.
LEMMA AccessesAre ==
  ASSUME NEW p, NEW c, NEW iss, NEW que, NEW sq, NEW v, Machine(p, c, iss, que, sq, v),
         que = queue, c.st = station, NEW i \in 0 .. que["RUU"].num - 1,
         NEW b, b = At(que, "RUU", i)[2], LastRight(c.st, que, i),
         NEW t \in 0 .. que["LSQ"].num,
         \A j \in 0 .. que["LSQ"].num - 1 : c.st[At(que, "LSQ", j)].spec_mode <=> t <= j
  PROVE  AccessesAfter(b) = que["LSQ"].num - t
<1>1. PICK st : st = c.st
  OBVIOUS
<1>2. PICK R, L : R = Entries(que, "RUU") /\ L = Entries(que, "LSQ")
  OBVIOUS
<1>3. /\ \A x \in R \cup L : st[x].seq \in Nat
      /\ \A x, y \in R \cup L : st[x].seq = st[y].seq => x = y
      /\ \A x \in R : st[x].ea_comp => IsAgen(st, x, L)
      /\ \A y \in L : \E x \in R : st[x].ea_comp /\ st[y].seq = st[x].seq + 1
  <2>1. Flight(que) = R \cup L
    BY <1>2 DEF Flight
  <2>2. /\ \A x \in R : InRUU(p, st, x, L)
        /\ \A y \in L : InLSQ(p, st, y, R)
        /\ \A x \in R \cup L : st[x].seq \in Nat
        /\ \A x, y \in R \cup L : st[x].seq = st[y].seq => x = y
    BY <1>1, <1>2, <2>1, InFlight
  <2>3. QED
    BY <2>2 DEF InRUU, InLSQ
<1>4. RingOK(que, "RUU") /\ RingOK(que, "LSQ")
  BY InFlight
<1>5. PICK S, T : S = {x \in After(b) : st[x].ea_comp} /\ T = From(que, "LSQ", t, que["LSQ"].num - 1)
  OBVIOUS
<1>6. /\ After(b) \subseteq R
      /\ \A x \in R : st[x].spec_mode <=> x \in After(b)
      /\ IsFiniteSet(After(b))
  <2>1. After(b) = From(que, "RUU", i + 1, que["RUU"].num - 1)
    BY <1>4, AfterIs
  <2>2. que["RUU"].num \in Nat
    BY <1>4, RingIs
  <2>3. i + 1 .. que["RUU"].num - 1 \subseteq 0 .. que["RUU"].num - 1 /\ i + 1 \in 0 .. que["RUU"].num
    BY <2>2
  <2>4. After(b) \subseteq R
    BY <1>2, <2>1, <2>3 DEF From, Entries
  <2>5. ASSUME NEW x \in R PROVE st[x].spec_mode <=> x \in After(b)
    <3>1. PICK k \in 0 .. que["RUU"].num - 1 : x = At(que, "RUU", k)
      BY <1>2 DEF Entries
    <3>2. st[x].spec_mode <=> i + 1 <= k
      BY <1>1, <3>1 DEF LastRight
    <3>3. i + 1 <= k => k \in i + 1 .. que["RUU"].num - 1
      BY <2>2
    <3>4. ASSUME x \in After(b) PROVE i + 1 <= k
      <4>1. PICK j \in i + 1 .. que["RUU"].num - 1 : x = At(que, "RUU", j)
        BY <2>1, <3>4 DEF From
      <4>2. k \in 0 .. size["RUU"] - 1 /\ j \in 0 .. size["RUU"] - 1
        <5>1. que["RUU"].num \in 0 .. size["RUU"] /\ size["RUU"] \in Nat
          BY <1>4, RingIs
        <5>2. QED
          BY <2>3, <5>1
      <4>3. k = j
        BY <1>4, <3>1, <4>1, <4>2, AtsDiffer
      <4>4. QED
        BY <2>2, <4>3
    <3>5. QED
      BY <2>1, <3>1, <3>2, <3>3, <3>4 DEF From
  <2>6. IsFiniteSet(After(b))
    BY <1>4, <2>1, <2>3, FromSize
  <2>7. QED
    BY <2>4, <2>5, <2>6
<1>7. T \subseteq L /\ \A y \in L : st[y].spec_mode <=> y \in T
  <2>1. que["LSQ"].num \in Nat
    BY <1>4, RingIs
  <2>2. t .. que["LSQ"].num - 1 \subseteq 0 .. que["LSQ"].num - 1
    BY <2>1
  <2>3. T \subseteq L
    BY <1>2, <1>5, <2>2 DEF From, Entries
  <2>4. \A y \in T : st[y].spec_mode
    <3>1. TAKE y \in T
    <3>2. PICK j \in t .. que["LSQ"].num - 1 : y = At(que, "LSQ", j)
      BY <1>5 DEF From
    <3>3. j \in 0 .. que["LSQ"].num - 1 /\ t <= j
      BY <2>2, <3>2
    <3>4. QED
      BY <1>1, <3>2, <3>3
  <2>5. ASSUME NEW y \in L, st[y].spec_mode PROVE y \in T
    <3>1. PICK j \in 0 .. que["LSQ"].num - 1 : y = At(que, "LSQ", j)
      BY <1>2 DEF Entries
    <3>2. t <= j
      BY <1>1, <2>5, <3>1
    <3>3. j \in t .. que["LSQ"].num - 1
      BY <2>1, <3>2
    <3>4. QED
      BY <1>5, <3>1, <3>3 DEF From
  <2>6. QED
    BY <2>3, <2>4, <2>5
<1> DEFINE f == [x \in S |-> CHOOSE y \in T : st[y].seq = st[x].seq + 1]
<1>8. ASSUME NEW x \in S PROVE f[x] \in T /\ st[f[x]].seq = st[x].seq + 1
  <2>1. x \in R /\ st[x].ea_comp /\ st[x].spec_mode
    BY <1>5, <1>6
  <2>2. \E y \in L : st[y].seq = st[x].seq + 1 /\ (st[y].spec_mode <=> st[x].spec_mode)
    BY <1>3, <2>1 DEF IsAgen
  <2>3. \E y \in T : st[y].seq = st[x].seq + 1
    BY <1>7, <2>1, <2>2
  <2>4. QED
    BY <2>3
<1>9. f \in [S -> T]
  BY <1>8
<1> HIDE DEF f
<1>10. ASSUME NEW x \in S, NEW y \in S, f[x] = f[y] PROVE x = y
  <2>1. x \in R /\ y \in R
    BY <1>5, <1>6
  <2>2. st[x].seq \in Nat /\ st[y].seq \in Nat /\ st[x].seq + 1 = st[y].seq + 1
    BY <1>3, <1>8, <1>10, <2>1
  <2>3. st[x].seq = st[y].seq
    BY <2>2
  <2>4. QED
    BY <1>3, <2>1, <2>3
<1>11. ASSUME NEW y \in T PROVE \E x \in S : f[x] = y
  <2>1. PICK x \in R : st[x].ea_comp /\ st[y].seq = st[x].seq + 1
    BY <1>3, <1>7
  <2>2. PICK z \in L : st[z].seq = st[x].seq + 1 /\ (st[z].spec_mode <=> st[x].spec_mode)
    BY <1>3, <2>1 DEF IsAgen
  <2>3. z = y
    BY <1>3, <1>7, <2>1, <2>2
  <2>4. x \in S
    BY <1>5, <1>6, <1>7, <2>1, <2>2, <2>3
  <2>5. f[x] = y
    BY <1>3, <1>7, <1>8, <2>1, <2>4
  <2>6. QED
    BY <2>4, <2>5
<1>12. IsFiniteSet(S)
  BY <1>5, <1>6, FS_Subset
<1>13. Cardinality(T) = Cardinality(S)
  <2>1. (\A x, y \in S : f[x] = f[y] => x = y) /\ (\A y \in T : \E x \in S : f[x] = y)
    BY <1>10, <1>11
  <2>2. QED
    BY <1>9, <1>12, <2>1, SameSize
<1>14. Cardinality(T) = que["LSQ"].num - t
  BY <1>4, <1>5, FromSize
<1>15. AccessesAfter(b) = Cardinality(S)
  BY <1>1, <1>5 DEF AccessesAfter
<1>16. QED
  BY <1>13, <1>14, <1>15

\* From que to que2, the operations after b are squashed.
Recovers(que, que2, b) ==
  /\ que2 = [RUU |-> que2["RUU"], LSQ |-> que2["LSQ"]]
  /\ CutTo(que, que2, "RUU", (b + 1) % RUU_size, que["RUU"].num - Cardinality(After(b)))
  /\ CutTo(que, que2, "LSQ", (que["LSQ"].tail - AccessesAfter(b)) % LSQ_size,
           que["LSQ"].num - AccessesAfter(b))

\* The entries of a ring before and from the m-th.
LEMMA FromIs ==
  ASSUME NEW que, NEW q \in {"RUU", "LSQ"}, RingOK(que, q), NEW m \in 0 .. que[q].num,
         NEW st, \A j \in 0 .. que[q].num - 1 : st[At(que, q, j)].spec_mode <=> m <= j,
         NEW new, new = From(que, q, 0, m - 1)
  PROVE  /\ new = {x \in Entries(que, q) : ~st[x].spec_mode}
         /\ From(que, q, m, que[q].num - 1) = {x \in Entries(que, q) : st[x].spec_mode}
<1>1. que[q].num \in Nat
  BY RingIs
<1>2. 0 .. m - 1 \subseteq 0 .. que[q].num - 1 /\ m .. que[q].num - 1 \subseteq 0 .. que[q].num - 1
  BY <1>1
<1>3. \A j \in 0 .. que[q].num - 1 : /\ ~(m <= j) <=> j \in 0 .. m - 1
                                     /\ m <= j <=> j \in m .. que[q].num - 1
  BY <1>1
<1>4. QED
  BY <1>2, <1>3 DEF From, Entries

LEMMA CutInOrder ==
  ASSUME NEW st, NEW que, NEW q \in {"RUU", "LSQ"}, RingOK(que, q), InOrder(st, que, q),
         NEW que2, NEW m \in 0 .. que[q].num, que2[q].num = m, \A i : At(que2, q, i) = At(que, q, i)
  PROVE  InOrder(st, que2, q)
<1>1. que[q].num \in Nat
  BY RingIs
<1>2. 0 .. m - 1 \subseteq 0 .. que[q].num - 1
  BY <1>1
<1>3. QED
  BY <1>2 DEF InOrder

LEMMA RecoverIs ==
  ASSUME NEW p, NEW c, NEW iss, NEW que, NEW sq, NEW v, Machine(p, c, iss, que, sq, v),
         que = queue, c.st = station, NEW i \in 0 .. que["RUU"].num - 1,
         NEW b, b = At(que, "RUU", i)[2], LastRight(c.st, que, i),
         NEW que2, Recovers(que, que2, b)
  PROVE  /\ AccessesAfter(b) <= que["LSQ"].num
         /\ SquashedBy(b) = Flight(que) \ Right(c.st, Flight(que))
         /\ Flight(que2) = Right(c.st, Flight(que))
         /\ QueuesOK(c.st, que2)
         /\ OperationsOK(p, c.st, Entries(que2, "RUU"), Entries(que2, "LSQ"))
         /\ que2["RUU"].num = i + 1 /\ \A k : At(que2, "RUU", k) = At(que, "RUU", k)
<1>1. PICK st : st = c.st
  OBVIOUS
<1>2. PICK R, L : R = Entries(que, "RUU") /\ L = Entries(que, "LSQ")
  OBVIOUS
<1>3. /\ RingOK(que, "RUU") /\ InOrder(st, que, "RUU")
      /\ RingOK(que, "LSQ") /\ InOrder(st, que, "LSQ")
      /\ que["RUU"].num \in Nat /\ que["LSQ"].num \in Nat
  BY <1>1, InFlight, RingIs
<1>4. PICK t \in 0 .. que["LSQ"].num :
        \A j \in 0 .. que["LSQ"].num - 1 : st[At(que, "LSQ", j)].spec_mode <=> t <= j
  BY <1>1, WrongSuffix
<1>5. PICK a : a = AccessesAfter(b)
  OBVIOUS
<1>6. a = que["LSQ"].num - t
  BY <1>1, <1>4, <1>5, AccessesAre
<1>7. PICK m : m = i + 1
  OBVIOUS
<1>8. m \in 0 .. que["RUU"].num /\ \A j \in 0 .. que["RUU"].num - 1 : st[At(que, "RUU", j)].spec_mode <=> m <= j
  BY <1>1, <1>3, <1>7 DEF LastRight
<1>9. /\ After(b) = From(que, "RUU", m, que["RUU"].num - 1)
      /\ Cardinality(After(b)) = que["RUU"].num - m
      /\ (b + 1) % RUU_size = (que["RUU"].head + m) % size["RUU"]
  BY <1>3, <1>7, AfterIs
<1>10. /\ {<<"LSQ", (que["LSQ"].tail - j) % LSQ_size>> : j \in 1 .. a} = From(que, "LSQ", t, que["LSQ"].num - 1)
       /\ (que["LSQ"].tail - a) % LSQ_size = (que["LSQ"].head + t) % size["LSQ"]
  BY <1>3, <1>6, BackIs
<1>11. /\ RingOK(que2, "RUU") /\ que2["RUU"].num = m
       /\ \A k : At(que2, "RUU", k) = At(que, "RUU", k)
       /\ Entries(que2, "RUU") = {At(que, "RUU", k) : k \in 0 .. m - 1}
  <2>1. que["RUU"].num - Cardinality(After(b)) = m
    BY <1>3, <1>8, <1>9
  <2>2. CutTo(que, que2, "RUU", (b + 1) % RUU_size, m)
    BY <2>1 DEF Recovers
  <2>3. PICK t2 : t2 = (b + 1) % RUU_size
    OBVIOUS
  <2>4. CutTo(que, que2, "RUU", t2, m) /\ t2 = (que["RUU"].head + m) % size["RUU"]
    BY <1>9, <2>2, <2>3
  <2>5. QED
    BY <1>3, <1>8, <2>4, TailCuts
<1>12. /\ RingOK(que2, "LSQ") /\ que2["LSQ"].num = t
       /\ \A k : At(que2, "LSQ", k) = At(que, "LSQ", k)
       /\ Entries(que2, "LSQ") = {At(que, "LSQ", k) : k \in 0 .. t - 1}
  <2>1. que["LSQ"].num - a = t
    BY <1>3, <1>4, <1>6
  <2>2. CutTo(que, que2, "LSQ", (que["LSQ"].tail - a) % LSQ_size, t)
    BY <1>5, <2>1 DEF Recovers
  <2>3. PICK t2 : t2 = (que["LSQ"].tail - a) % LSQ_size
    OBVIOUS
  <2>4. CutTo(que, que2, "LSQ", t2, t) /\ t2 = (que["LSQ"].head + t) % size["LSQ"]
    BY <1>10, <2>2, <2>3
  <2>5. QED
    BY <1>3, <1>4, <2>4, TailCuts
<1>13. /\ Entries(que2, "RUU") = {x \in R : ~st[x].spec_mode}
       /\ After(b) = {x \in R : st[x].spec_mode}
  <2>1. PICK new : new = From(que, "RUU", 0, m - 1)
    OBVIOUS
  <2>2. /\ new = {x \in Entries(que, "RUU") : ~st[x].spec_mode}
        /\ From(que, "RUU", m, que["RUU"].num - 1) = {x \in Entries(que, "RUU") : st[x].spec_mode}
    BY <1>3, <1>8, <2>1, FromIs
  <2>3. QED
    BY <1>2, <1>9, <1>11, <2>1, <2>2 DEF From
<1>14. /\ Entries(que2, "LSQ") = {x \in L : ~st[x].spec_mode}
       /\ {<<"LSQ", (queue["LSQ"].tail - j) % LSQ_size>> : j \in 1 .. a} = {x \in L : st[x].spec_mode}
  <2>1. PICK new : new = From(que, "LSQ", 0, t - 1)
    OBVIOUS
  <2>2. /\ new = {x \in Entries(que, "LSQ") : ~st[x].spec_mode}
        /\ From(que, "LSQ", t, que["LSQ"].num - 1) = {x \in Entries(que, "LSQ") : st[x].spec_mode}
    BY <1>3, <1>4, <2>1, FromIs
  <2>3. QED
    BY <1>2, <1>10, <1>12, <2>1, <2>2 DEF From
<1>15. Flight(que) = R \cup L /\ Flight(que2) = Entries(que2, "RUU") \cup Entries(que2, "LSQ")
  BY <1>2 DEF Flight
<1>16. SquashedBy(b) = After(b) \cup {<<"LSQ", (queue["LSQ"].tail - j) % LSQ_size>> : j \in 1 .. a}
  BY <1>5 DEF SquashedBy
<1>17. /\ SquashedBy(b) = Flight(que) \ Right(c.st, Flight(que))
       /\ Flight(que2) = Right(c.st, Flight(que))
  <2>1. SquashedBy(b) = {x \in R \cup L : st[x].spec_mode}
    BY <1>13, <1>14, <1>16
  <2>2. Flight(que2) = {x \in R \cup L : ~st[x].spec_mode}
    BY <1>13, <1>14, <1>15
  <2>3. Right(c.st, Flight(que)) = {x \in R \cup L : ~st[x].spec_mode}
    BY <1>1, <1>15 DEF Right
  <2>4. QED
    BY <1>15, <2>1, <2>2, <2>3
<1>18. InOrder(st, que2, "RUU") /\ InOrder(st, que2, "LSQ")
  BY <1>3, <1>4, <1>8, <1>11, <1>12, CutInOrder
<1>19. QueuesOK(c.st, que2)
  BY <1>1, <1>11, <1>12, <1>18 DEF QueuesOK, Recovers
<1>20. OperationsOK(p, st, Entries(que2, "RUU"), Entries(que2, "LSQ"))
  <2>1. OperationsOK(p, st, R, L)
    BY <1>1, <1>2 DEF Machine
  <2>2. ASSUME NEW x \in R, NEW y \in L, st[x].ea_comp, st[y].seq = st[x].seq + 1
        PROVE  x \in Entries(que2, "RUU") <=> y \in Entries(que2, "LSQ")
    <3>1. InRUU(p, st, x, L)
      BY <2>1 DEF OperationsOK
    <3>2. PICK z \in L : st[z].seq = st[x].seq + 1 /\ (st[z].spec_mode <=> st[x].spec_mode)
      BY <2>2, <3>1 DEF InRUU, IsAgen
    <3>3. z = y
      BY <1>1, <1>15, <2>2, <3>2, InFlight
    <3>4. QED
      BY <1>13, <1>14, <3>2, <3>3
  <2>3. PICK R2, L2 : R2 = Entries(que2, "RUU") /\ L2 = Entries(que2, "LSQ")
    OBVIOUS
  <2>4. R2 \subseteq R /\ L2 \subseteq L
    BY <1>13, <1>14, <2>3
  <2>5. \A x \in R : \A y \in L : st[x].ea_comp /\ st[y].seq = st[x].seq + 1 => (x \in R2 <=> y \in L2)
    BY <2>2, <2>3
  <2>6. OperationsOK(p, st, R2, L2)
    BY <2>1, <2>4, <2>5, FewerOperations
  <2>7. QED
    BY <2>3, <2>6
<1>21. a <= que["LSQ"].num
  BY <1>3, <1>4, <1>6
<1>22. QED
  BY <1>1, <1>5, <1>7, <1>11, <1>17, <1>19, <1>20, <1>21

-----------------------------------------------------------------------------
(* Dispatch *)

\* From c to d, x was queued if it was due.
Settled(p, c, d, iss, W, sq, v, E, x) ==
  /\ d \in CoreType /\ Body(p, d, iss, W, sq, v, {}, E)
  /\ SameOps(c.st, d.st)
  /\ \A o \in Stations :
       /\ d.st[o].issued <=> c.st[o].issued
       /\ d.st[o].completed <=> c.st[o].completed
       /\ \A k \in Operands : d.st[o].idep_ready[k] <=> c.st[o].idep_ready[k]
       /\ o # x => (d.st[o].queued <=> c.st[o].queued)
  /\ Total(d, iss) = Total(c, iss)
  /\ d.free >= c.free - 1 /\ (c.free >= 1 => (d.panic <=> c.panic))

LEMMA SettleOne ==
  ASSUME NEW p, NEW c, NEW iss, NEW W, NEW sq, NEW v, NEW E, Body(p, c, iss, W, sq, v, {}, E),
         NEW x \in W, ~c.st[x].queued, ~c.st[x].issued, NEW b \in BOOLEAN,
         b <=> OPERANDS_READY(c.st[x]) /\ ~IsLoad(c.st, x),
         NEW d, d = EnqueueIf(c, b, x), NEW E2, E \subseteq E2 \cup {x}, E2 \subseteq E
  PROVE  Settled(p, c, d, iss, W, sq, v, E2, x)
<1>1. /\ c \in CoreType /\ c.free \in Int /\ W \in SUBSET Stations /\ c.panic \in BOOLEAN
  BY BodyParts
<1>2. CASE b
  <2>1. d = readyq_enqueue(c, x)
    BY <1>2 DEF EnqueueIf
  <2>2. Queued(p, c, d, iss, W, sq, v, {}, E2, x)
    <3>1. OPERANDS_READY(c.st[x]) /\ (IsLoad(c.st, x) => LoadOK(c.st, W, x))
      BY <1>2
    <3>2. QED
      BY <2>1, <3>1, QueueOne
  <2>3. /\ d \in CoreType /\ Body(p, d, iss, W, sq, v, {}, E2)
        /\ Marked(c.st, d.st, x)
        /\ Total(d, iss) = Total(c, iss) /\ d.free = c.free - 1
        /\ (d.panic <=> c.panic \/ c.free = 0)
    BY <2>2 DEF Queued
  <2>4. SameOps(c.st, d.st)
        /\ \A o \in Stations :
             /\ d.st[o].issued <=> c.st[o].issued
             /\ d.st[o].completed <=> c.st[o].completed
             /\ \A k \in Operands : d.st[o].idep_ready[k] <=> c.st[o].idep_ready[k]
             /\ o # x => (d.st[o].queued <=> c.st[o].queued)
    BY <2>3 DEF Marked
  <2>5. d.free >= c.free - 1 /\ (c.free >= 1 => (d.panic <=> c.panic))
    BY <1>1, <2>3
  <2>6. QED
    BY <2>3, <2>4, <2>5 DEF Settled
<1>3. CASE ~b
  <2>1. d = c
    BY <1>3 DEF EnqueueIf
  <2>2. StatusOK(c.st, W, E2)
    <3>1. StatusOK(c.st, W, E)
      BY DEF Body
    <3>2. \A y \in W : y \notin E2 => y \notin E \/ y = x
      OBVIOUS
    <3>3. OPERANDS_READY(c.st[x]) => IsLoad(c.st, x)
      BY <1>3
    <3>4. QED
      BY <3>1, <3>2, <3>3 DEF StatusOK
  <2>3. Body(p, c, iss, W, sq, v, {}, E2)
    BY <2>2 DEF Body
  <2>4. c.free >= c.free - 1
    BY <1>1
  <2>5. QED
    BY <1>1, <2>1, <2>3, <2>4 DEF Settled, SameOps
<1>4. QED
  BY <1>2, <1>3

\* From st to st2, the operations of S are as they were.
KeepsOps(st, st2, S) ==
  \A o \in S :
    /\ st2[o].op = st[o].op /\ st2[o].pc = st[o].pc
    /\ st2[o].seq = st[o].seq /\ st2[o].oname = st[o].oname
    /\ st2[o].ea_comp = st[o].ea_comp /\ st2[o].spec_mode = st[o].spec_mode
    /\ st2[o].recover_inst = st[o].recover_inst
    /\ st2[o].completed <=> st[o].completed

LEMMA KeptOperations ==
  ASSUME NEW p, NEW st, NEW st2, NEW R, NEW L, OperationsOK(p, st, R, L), KeepsOps(st, st2, R \cup L),
         NEW R2, NEW L2, R \subseteq R2, L \subseteq L2,
         \A x \in R2 : x \notin R => InRUU(p, st2, x, L2),
         \A y \in L2 : y \notin L => InLSQ(p, st2, y, R2)
  PROVE  OperationsOK(p, st2, R2, L2)
<1>1. ASSUME NEW x \in R PROVE InRUU(p, st2, x, L2)
  <2>1. InRUU(p, st, x, L)
    BY DEF OperationsOK
  <2>2. /\ st2[x].op = st[x].op /\ st2[x].pc = st[x].pc
        /\ st2[x].seq = st[x].seq /\ st2[x].oname = st[x].oname
        /\ st2[x].ea_comp = st[x].ea_comp /\ st2[x].spec_mode = st[x].spec_mode
        /\ st2[x].recover_inst = st[x].recover_inst
    BY DEF KeepsOps
  <2>3. \A y \in L : /\ st2[y].pc = st[y].pc /\ st2[y].seq = st[y].seq
                     /\ st2[y].spec_mode = st[y].spec_mode
    BY DEF KeepsOps
  <2>4. st2[x].ea_comp => IsAgen(st2, x, L2)
    <3>1. st2[x].ea_comp => IsAgen(st, x, L)
      BY <2>1, <2>2 DEF InRUU
    <3>2. QED
      BY <2>2, <2>3, <3>1 DEF IsAgen
  <2>5. QED
    BY <2>1, <2>2, <2>4 DEF InRUU
<1>2. ASSUME NEW y \in L PROVE InLSQ(p, st2, y, R2)
  <2>1. InLSQ(p, st, y, R)
    BY DEF OperationsOK
  <2>2. /\ st2[y].op = st[y].op /\ st2[y].pc = st[y].pc
        /\ st2[y].seq = st[y].seq /\ st2[y].oname = st[y].oname
        /\ st2[y].ea_comp = st[y].ea_comp /\ st2[y].recover_inst = st[y].recover_inst
    BY DEF KeepsOps
  <2>3. \A x \in R : st2[x].seq = st[x].seq /\ st2[x].ea_comp = st[x].ea_comp
    BY DEF KeepsOps
  <2>4. \E x \in R2 : st2[x].ea_comp /\ st2[y].seq = st2[x].seq + 1
    BY <2>1, <2>2, <2>3 DEF InLSQ
  <2>5. QED
    BY <2>1, <2>2, <2>4 DEF InLSQ
<1>3. QED
  BY <1>1, <1>2 DEF OperationsOK

\* The new last entry is the youngest.
LEMMA GrownInOrder ==
  ASSUME NEW st, NEW st2, NEW que, NEW q \in {"RUU", "LSQ"}, RingOK(que, q), InOrder(st, que, q),
         que[q].num < size[q], NEW que2, Grown(que, que2, q), NEW x, x = At(que, q, que[q].num),
         \A o \in Entries(que, q) : st2[o].seq = st[o].seq /\ st2[o].seq < st2[x].seq
  PROVE  InOrder(st2, que2, q)
<1>1. que[q].num \in Nat
  BY RingIs
<1>2. que2[q].num = que[q].num + 1 /\ \A i : At(que2, q, i) = At(que, q, i)
  BY TailGrows
<1>3. ASSUME NEW i \in 0 .. que2[q].num - 1, NEW j \in 0 .. que2[q].num - 1, i < j
      PROVE  st2[At(que2, q, i)].seq < st2[At(que2, q, j)].seq
  <2>1. i \in 0 .. que[q].num - 1 /\ (j \in 0 .. que[q].num - 1 \/ j = que[q].num)
    BY <1>1, <1>2, <1>3
  <2>2. At(que, q, i) \in Entries(que, q)
    BY <2>1 DEF Entries
  <2>3. CASE j = que[q].num
    BY <1>2, <2>2, <2>3
  <2>4. CASE j \in 0 .. que[q].num - 1
    <3>1. At(que, q, j) \in Entries(que, q)
      BY <2>4 DEF Entries
    <3>2. st[At(que, q, i)].seq < st[At(que, q, j)].seq
      BY <1>3, <2>1, <2>4 DEF InOrder
    <3>3. QED
      BY <1>2, <2>2, <3>1, <3>2
  <2>5. QED
    BY <2>1, <2>3, <2>4
<1>4. QED
  BY <1>3 DEF InOrder

\* What enters leaves all others as they were.
LEMMA EnteredKeeps ==
  ASSUME NEW c, NEW d, NEW W, NEW rs, NEW s, NEW creators, NEW pc, NEW spec,
         Entered(c, d, W, rs, s, creators, pc, spec)
  PROVE  /\ KeepsOps(c.st, d.st, W) /\ IsOperation(d.st[rs], s, pc, spec)
         /\ ~d.st[rs].queued /\ ~d.st[rs].issued /\ ~d.st[rs].completed
         /\ \A x \in W : c.st[x].seq < d.st[rs].seq
         /\ d \in CoreType /\ rs \in Stations /\ rs \notin W
<1>1. PICK st, st2 : st = c.st /\ st2 = d.st
  OBVIOUS
<1>2. /\ Entering(st, st2, W, rs, creators) /\ IsOperation(st2[rs], s, pc, spec) /\ d \in CoreType
  BY <1>1 DEF Entered
<1>3. /\ SameBut(st, st2, rs) /\ W \in SUBSET Stations /\ rs \notin W /\ rs \in Stations
      /\ ~st2[rs].queued /\ ~st2[rs].issued /\ ~st2[rs].completed
      /\ \A x \in W : st[x].seq < st2[rs].seq
  BY <1>2 DEF Entering
<1>4. KeepsOps(st, st2, W)
  BY <1>3 DEF SameBut, KeepsOps
<1>5. QED
  BY <1>1, <1>2, <1>3, <1>4

LEMMA SameKeeps ==
  ASSUME NEW st, NEW st2, NEW st3, NEW S \in SUBSET Stations, KeepsOps(st, st2, S), SameOps(st2, st3),
         \A o \in S : st3[o].completed <=> st2[o].completed
  PROVE  KeepsOps(st, st3, S)
BY DEF KeepsOps, SameOps

\* s does what the instruction i says, which is no access.
Does(s, i) ==
  /\ i.flags \cap {"NOP", "EXIT"} = {} /\ ~IsAccess(i) /\ ~s.ea_comp
  /\ s.op = [flags |-> i.flags, class |-> i.class] /\ s.oname = i.out

\* An operation that is no access is dispatched.
RUUGrown(que, que2) == Queues(que2) /\ Grown(que, que2, "RUU") /\ que2["LSQ"] = que["LSQ"]

\* d is queued if it has its operands.
Settling(d, e, x, b) == b \in BOOLEAN /\ (b <=> OPERANDS_READY(d.st[x])) /\ e = EnqueueIf(d, b, x)
MachineEntered(p, c, e, iss, que, que2, sq, v2, rs, s, pc, spec) ==
  /\ Machine(p, e, iss, que2, sq + 1, v2)
  /\ KeepsOps(c.st, e.st, Flight(que)) /\ IsOperation(e.st[rs], s, pc, spec)
  /\ ~e.st[rs].completed
  /\ c.free >= 4 => (e.panic <=> c.panic)

LEMMA MachineEnters ==
  ASSUME NEW p, NEW c, NEW iss, NEW que, NEW sq, NEW v, Machine(p, c, iss, que, sq, v),
         que["RUU"].num < size["RUU"], NEW rs, rs = At(que, "RUU", que["RUU"].num),
         NEW d, NEW s, NEW creators, NEW pc, NEW spec \in BOOLEAN,
         Entered(c, d, Flight(que), rs, s, creators, pc, spec),
         FromVectors(p, d.st, v, rs, creators),
         NEW v2, Installs(v, v2, s.oname, rs, spec),
         s.seq = sq + 1, RightSoFar(c.st, Flight(que), spec), Does(s, InstOf(p, pc)),
         NEW que2, RUUGrown(que, que2), NEW b, NEW e, Settling(d, e, rs, b)
  PROVE  MachineEntered(p, c, e, iss, que, que2, sq, v2, rs, s, pc, spec)
<1>0. /\ b \in BOOLEAN /\ (b <=> OPERANDS_READY(d.st[rs])) /\ e = EnqueueIf(d, b, rs)
      /\ Queues(que2) /\ Grown(que, que2, "RUU") /\ que2["LSQ"] = que["LSQ"]
  BY DEF RUUGrown, Settling
<1>1. PICK st, st2 : st = c.st /\ st2 = d.st
  OBVIOUS
<1>2. PICK R, L : R = Entries(que, "RUU") /\ L = Entries(que, "LSQ")
  OBVIOUS
<1>3. /\ RingOK(que, "RUU") /\ InOrder(st, que, "RUU")
      /\ RingOK(que, "LSQ") /\ InOrder(st, que, "LSQ")
      /\ Flight(que) \subseteq Stations /\ c \in CoreType /\ sq \in Nat
      /\ OperationsOK(p, st, R, L)
      /\ Body(p, c, iss, Flight(que), sq, v, {}, {}) /\ Total(c, iss) = MAX_RS_LINKS
  BY <1>1, <1>2, InFlight DEF Machine
<1>4. Flight(que) = R \cup L
  BY <1>2 DEF Flight
<1>5. /\ KeepsOps(st, st2, Flight(que)) /\ IsOperation(st2[rs], s, pc, spec)
      /\ ~st2[rs].queued /\ ~st2[rs].issued /\ ~st2[rs].completed
      /\ \A x \in Flight(que) : st[x].seq < st2[rs].seq
      /\ d \in CoreType /\ rs \in Stations
  BY <1>1, EnteredKeeps
<1>6. /\ RingOK(que2, "RUU") /\ Entries(que2, "RUU") = R \cup {rs}
  BY <1>0, <1>2, <1>3, TailGrows
<1>7. /\ RingOK(que2, "LSQ") /\ Entries(que2, "LSQ") = L /\ InOrder(st, que2, "LSQ")
  <2>1. \A k : At(que2, "LSQ", k) = At(que, "LSQ", k)
    BY <1>0 DEF At
  <2>2. QED
    BY <1>0, <1>2, <1>3, <2>1 DEF RingOK, Entries, InOrder
<1>8. Flight(que2) = Flight(que) \cup {rs} /\ rs[1] = "RUU"
  <2>1. Flight(que2) = Entries(que2, "RUU") \cup Entries(que2, "LSQ")
    BY DEF Flight
  <2>2. rs[1] = "RUU"
    BY DEF At
  <2>3. QED
    BY <1>4, <1>6, <1>7, <2>1, <2>2
<1>9. sq + 1 \in Nat /\ sq <= sq + 1
  BY <1>3
<1>10. Body(p, d, iss, Flight(que2), sq + 1, v2, {}, {rs}) /\ Total(d, iss) = Total(c, iss)
  <2>1. PICK sq2 \in Nat : sq2 = sq + 1
    BY <1>9
  <2>2. sq <= sq2 /\ s.seq = sq2
    BY <1>9, <2>1
  <2>3. PICK E : E = {}
    OBVIOUS
  <2>4. PICK W : W = Flight(que)
    OBVIOUS
  <2>5. /\ Body(p, c, iss, W, sq, v, {}, E)
        /\ Entered(c, d, W, rs, s, creators, pc, spec)
        /\ RightSoFar(c.st, W, spec)
    BY <1>3, <2>3, <2>4
  <2>6. Body(p, d, iss, W \cup {rs}, sq2, v2, {}, E \cup {rs}) /\ Total(d, iss) = Total(c, iss)
    BY <2>2, <2>5, EnterBody
  <2>7. E \cup {rs} = {rs}
    BY <2>3
  <2>8. QED
    BY <1>8, <2>1, <2>4, <2>6, <2>7
<1>11. Settled(p, d, e, iss, Flight(que2), sq + 1, v2, {}, rs)
  <2>1. ~IsLoad(st2, rs)
    BY <1>8 DEF IsLoad, in_LSQ
  <2>2. b <=> OPERANDS_READY(d.st[rs]) /\ ~IsLoad(d.st, rs)
    BY <1>0, <1>1, <2>1
  <2>3. rs \in Flight(que2) /\ ~d.st[rs].queued /\ ~d.st[rs].issued
    BY <1>1, <1>5, <1>8
  <2>4. PICK E, E2 : E = {rs} /\ E2 = {}
    OBVIOUS
  <2>5. Body(p, d, iss, Flight(que2), sq + 1, v2, {}, E) /\ E \subseteq E2 \cup {rs} /\ E2 \subseteq E
    BY <1>10, <2>4
  <2>6. Settled(p, d, e, iss, Flight(que2), sq + 1, v2, E2, rs)
    BY <1>0, <2>2, <2>3, <2>5, SettleOne
  <2>7. QED
    BY <2>4, <2>6
<1>12. PICK st3 : st3 = e.st
  OBVIOUS
<1>13. /\ e \in CoreType /\ Body(p, e, iss, Flight(que2), sq + 1, v2, {}, {})
       /\ SameOps(st2, st3) /\ Total(e, iss) = Total(d, iss)
       /\ \A o \in Stations : st3[o].completed <=> st2[o].completed
       /\ d.free >= 1 => (e.panic <=> d.panic)
  BY <1>1, <1>11, <1>12 DEF Settled
<1>14. KeepsOps(st, st3, Flight(que))
  <2>1. \A o \in Flight(que) : st3[o].completed <=> st2[o].completed
    BY <1>3, <1>13
  <2>2. QED
    BY <1>3, <1>5, <1>13, <2>1, SameKeeps
<1>15. IsOperation(st3[rs], s, pc, spec) /\ ~st3[rs].completed
  <2>1. /\ st3[rs].op = st2[rs].op /\ st3[rs].pc = st2[rs].pc /\ st3[rs].addr = st2[rs].addr
        /\ st3[rs].seq = st2[rs].seq /\ st3[rs].oname = st2[rs].oname
        /\ st3[rs].ea_comp = st2[rs].ea_comp /\ st3[rs].spec_mode = st2[rs].spec_mode
        /\ st3[rs].recover_inst = st2[rs].recover_inst
    BY <1>5, <1>13 DEF SameOps
  <2>2. QED
    BY <1>5, <1>13, <2>1 DEF IsOperation
<1>16. \A o \in Flight(que) : st3[o].seq = st[o].seq /\ st3[o].seq < st3[rs].seq
  <2>1. st3[rs].seq = st2[rs].seq
    BY <1>5, <1>13 DEF SameOps
  <2>2. QED
    BY <1>5, <1>14, <2>1 DEF KeepsOps
<1>17. InOrder(st3, que2, "RUU") /\ InOrder(st3, que2, "LSQ")
  <2>1. \A o \in Entries(que, "RUU") : st3[o].seq = st[o].seq /\ st3[o].seq < st3[rs].seq
    BY <1>2, <1>4, <1>16
  <2>2. InOrder(st3, que2, "RUU")
    BY <1>0, <1>3, <2>1, GrownInOrder
  <2>3. \A o \in Entries(que2, "LSQ") : st3[o].seq = st[o].seq
    BY <1>4, <1>7, <1>16
  <2>4. InOrder(st3, que2, "LSQ")
    BY <1>7, <2>3, SameInOrder
  <2>5. QED
    BY <2>2, <2>4
<1>18. OperationsOK(p, st3, R \cup {rs}, L)
  <2>1. InRUU(p, st3, rs, L)
    <3>1. /\ st3[rs].pc = pc /\ st3[rs].ea_comp = s.ea_comp /\ st3[rs].op = s.op
          /\ st3[rs].oname = s.oname
      BY <1>15 DEF IsOperation
    <3>2. QED
      BY <3>1 DEF InRUU, Does
  <2>2. PICK R2 : R2 = R \cup {rs}
    OBVIOUS
  <2>3. /\ R \subseteq R2 /\ \A x \in R2 : x \notin R => InRUU(p, st3, x, L)
        /\ KeepsOps(st, st3, R \cup L) /\ L \subseteq L
        /\ \A y \in L : y \notin L => InLSQ(p, st3, y, R2)
    BY <1>4, <1>14, <2>1, <2>2
  <2>4. OperationsOK(p, st3, R2, L)
    BY <1>3, <2>3, KeptOperations
  <2>5. QED
    BY <2>2, <2>4
<1>19. Machine(p, e, iss, que2, sq + 1, v2)
  <2>1. QueuesOK(st3, que2)
    BY <1>0, <1>6, <1>7, <1>17 DEF QueuesOK, Queues
  <2>2. OperationsOK(p, st3, Entries(que2, "RUU"), Entries(que2, "LSQ"))
    BY <1>6, <1>7, <1>18
  <2>3. Total(e, iss) = MAX_RS_LINKS
    BY <1>3, <1>10, <1>13
  <2>4. QED
    BY <1>12, <1>13, <2>1, <2>2, <2>3 DEF Machine
<1>20. c.free >= 4 => (e.panic <=> c.panic)
  <2>1. d.free >= c.free - 3 /\ (c.free >= 3 => (d.panic <=> c.panic))
    BY DEF Entered
  <2>2. c.free \in Int /\ d.free \in Int
    BY <1>3, <1>5, CoreParts
  <2>3. c.free >= 4 => c.free >= 3 /\ d.free >= 1
    BY <2>1, <2>2
  <2>4. QED
    BY <1>13, <2>1, <2>3
<1>21. QED
  BY <1>1, <1>12, <1>14, <1>15, <1>19, <1>20 DEF MachineEntered

LEMMA KeepsTwice ==
  ASSUME NEW st, NEW st2, NEW st3, NEW S, NEW T, S \subseteq T, KeepsOps(st, st2, S), KeepsOps(st2, st3, T)
  PROVE  KeepsOps(st, st3, S)
BY DEF KeepsOps

\* s computes the address of the access t, that is what the instruction i says.
DoesAccess(s, t, i) ==
  /\ i.flags \cap {"NOP", "EXIT"} = {} /\ IsAccess(i)
  /\ "STORE" \in i.flags <=> "LOAD" \notin i.flags
  /\ s.ea_comp /\ s.op = AGEN /\ s.oname = "DTMP" /\ ~s.recover_inst
  /\ ~t.ea_comp /\ ~t.recover_inst
  /\ t.op = [flags |-> i.flags, class |-> i.class] /\ t.oname = i.out

\* A load or store is dispatched: what it is.
LEMMA OperationsEnter ==
  ASSUME NEW p, NEW st, NEW R, NEW L, OperationsOK(p, st, R, L), NEW st2, KeepsOps(st, st2, R \cup L),
         NEW x, NEW y, NEW s, NEW t, NEW pc, NEW spec, DoesAccess(s, t, InstOf(p, pc)),
         IsOperation(st2[x], s, pc, spec), IsOperation(st2[y], t, pc, spec), t.seq = s.seq + 1
  PROVE  OperationsOK(p, st2, R \cup {x}, L \cup {y})
<1>1. PICK R2, L2 : R2 = R \cup {x} /\ L2 = L \cup {y}
  OBVIOUS
<1>2. /\ st2[x].op = s.op /\ st2[x].oname = s.oname /\ st2[x].ea_comp = s.ea_comp
      /\ st2[x].seq = s.seq /\ st2[x].recover_inst = s.recover_inst
      /\ st2[x].pc = pc /\ st2[x].spec_mode = spec
      /\ st2[y].op = t.op /\ st2[y].oname = t.oname /\ st2[y].ea_comp = t.ea_comp
      /\ st2[y].seq = t.seq /\ st2[y].recover_inst = t.recover_inst
      /\ st2[y].pc = pc /\ st2[y].spec_mode = spec
  BY DEF IsOperation
<1>3. x \in R2 /\ y \in L2 /\ st2[y].seq = st2[x].seq + 1
  BY <1>1, <1>2
<1>4. InRUU(p, st2, x, L2)
  <2>1. IsAgen(st2, x, L2)
    BY <1>2, <1>3 DEF IsAgen, DoesAccess
  <2>2. QED
    BY <1>2, <2>1 DEF InRUU, DoesAccess
<1>5. InLSQ(p, st2, y, R2)
  BY <1>2, <1>3 DEF InLSQ, DoesAccess
<1>6. OperationsOK(p, st2, R2, L2)
  <2>1. /\ R \subseteq R2 /\ L \subseteq L2
        /\ \A z \in R2 : z \notin R => InRUU(p, st2, z, L2)
        /\ \A z \in L2 : z \notin L => InLSQ(p, st2, z, R2)
    BY <1>1, <1>4, <1>5
  <2>2. QED
    BY <2>1, KeptOperations
<1>7. QED
  BY <1>1, <1>6

LEMMA SameOperation ==
  ASSUME NEW st, NEW st2, SameOps(st, st2), NEW x \in Stations, NEW s, NEW pc, NEW spec,
         IsOperation(st[x], s, pc, spec)
  PROVE  IsOperation(st2[x], s, pc, spec)
BY DEF SameOps, IsOperation

\* And then it is in the machine.
BothGrown(que, que2) == Queues(que2) /\ Grown(que, que2, "RUU") /\ Grown(que, que2, "LSQ")
SettlingStore(e, f, y, b) ==
  b \in BOOLEAN /\ (b <=> IsStore(e.st, y) /\ OPERANDS_READY(e.st[y])) /\ f = EnqueueIf(e, b, y)
Adding(W, x, W2) == W2 = W \cup {x}
BothEntered(p, c, f, iss, que, que2, sq, v3, x, s, pc, spec) ==
  /\ Machine(p, f, iss, que2, sq + 2, v3)
  /\ KeepsOps(c.st, f.st, Flight(que)) /\ IsOperation(f.st[x], s, pc, spec)
  /\ ~f.st[x].completed
  /\ c.free >= 8 => (f.panic <=> c.panic)

LEMMA MachineEntersBoth ==
  ASSUME NEW p, NEW c, NEW iss, NEW que, NEW sq, NEW v, Machine(p, c, iss, que, sq, v),
         que["RUU"].num < size["RUU"], NEW x, x = At(que, "RUU", que["RUU"].num),
         que["LSQ"].num < size["LSQ"], NEW y, y = At(que, "LSQ", que["LSQ"].num),
         NEW pc, NEW spec \in BOOLEAN, RightSoFar(c.st, Flight(que), spec),
         NEW s, NEW t, DoesAccess(s, t, InstOf(p, pc)), s.seq = sq + 1, t.seq = sq + 2,
         NEW c2, NEW creators, Entered(c, c2, Flight(que), x, s, creators, pc, spec),
         FromVectors(p, c2.st, v, x, creators), NEW v2, Installs(v, v2, s.oname, x, spec),
         NEW V, Adding(Flight(que), x, V),
         NEW d, NEW creators2, Entered(c2, d, V, y, t, creators2, pc, spec),
         FromVectors(p, d.st, v2, y, creators2), NEW v3, Installs(v2, v3, t.oname, y, spec),
         NEW que2, BothGrown(que, que2),
         NEW b, NEW e, Settling(d, e, x, b), NEW b2, NEW f, SettlingStore(e, f, y, b2)
  PROVE  BothEntered(p, c, f, iss, que, que2, sq, v3, x, s, pc, spec)
<1>0. /\ b \in BOOLEAN /\ (b <=> OPERANDS_READY(d.st[x])) /\ e = EnqueueIf(d, b, x)
      /\ b2 \in BOOLEAN /\ (b2 <=> IsStore(e.st, y) /\ OPERANDS_READY(e.st[y])) /\ f = EnqueueIf(e, b2, y)
      /\ Queues(que2) /\ Grown(que, que2, "RUU") /\ Grown(que, que2, "LSQ")
      /\ V = Flight(que) \cup {x}
  BY DEF BothGrown, Settling, SettlingStore, Adding
<1>1. PICK st, st2, st3, st4, st5 : st = c.st /\ st2 = c2.st /\ st3 = d.st /\ st4 = e.st /\ st5 = f.st
  OBVIOUS
<1>2. PICK R, L, W, W2, W3 : /\ R = Entries(que, "RUU") /\ L = Entries(que, "LSQ")
                             /\ W = Flight(que) /\ W2 = W \cup {x} /\ W3 = W2 \cup {y}
  OBVIOUS
<1>3. /\ RingOK(que, "RUU") /\ InOrder(st, que, "RUU")
      /\ RingOK(que, "LSQ") /\ InOrder(st, que, "LSQ")
      /\ W \subseteq Stations /\ c \in CoreType /\ sq \in Nat
      /\ OperationsOK(p, st, R, L)
      /\ Body(p, c, iss, W, sq, v, {}, {}) /\ Total(c, iss) = MAX_RS_LINKS
  BY <1>1, <1>2, InFlight DEF Machine
<1>4. W = R \cup L
  BY <1>2 DEF Flight
<1>5. Entered(c, c2, W, x, s, creators, pc, spec) /\ Entered(c2, d, W2, y, t, creators2, pc, spec)
  BY <1>0, <1>2
<1>6. /\ KeepsOps(st, st2, W) /\ IsOperation(st2[x], s, pc, spec)
      /\ ~st2[x].queued /\ ~st2[x].issued /\ ~st2[x].completed
      /\ \A o \in W : st[o].seq < st2[x].seq
      /\ c2 \in CoreType /\ x \in Stations /\ x \notin W
  BY <1>1, <1>5, EnteredKeeps
<1>7. /\ KeepsOps(st2, st3, W2) /\ IsOperation(st3[y], t, pc, spec)
      /\ ~st3[y].queued /\ ~st3[y].issued /\ ~st3[y].completed
      /\ \A o \in W2 : st2[o].seq < st3[y].seq
      /\ d \in CoreType /\ y \in Stations /\ y \notin W2
  BY <1>1, <1>5, EnteredKeeps
<1>8. x[1] = "RUU" /\ y[1] = "LSQ" /\ x # y
  BY DEF At
<1>9. PICK sq2, sq3 : sq2 = sq + 1 /\ sq3 = sq + 2
  OBVIOUS
<1>10. sq2 \in Nat /\ sq3 \in Nat /\ sq <= sq2 /\ sq2 <= sq3 /\ s.seq = sq2 /\ t.seq = sq3
  BY <1>3, <1>9
<1>11. PICK E0, E1, E2, E3 : E0 = {} /\ E1 = E0 \cup {x} /\ E2 = E1 \cup {y} /\ E3 = {y}
  OBVIOUS
<1>12. Body(p, c2, iss, W2, sq2, v2, {}, E1) /\ Total(c2, iss) = Total(c, iss)
  <2>1. Body(p, c, iss, W, sq, v, {}, E0) /\ RightSoFar(c.st, W, spec)
    BY <1>2, <1>3, <1>11
  <2>2. Body(p, c2, iss, W \cup {x}, sq2, v2, {}, E0 \cup {x}) /\ Total(c2, iss) = Total(c, iss)
    BY <1>5, <1>10, <2>1, EnterBody
  <2>3. QED
    BY <1>2, <1>11, <2>2
<1>13. RightSoFar(c2.st, W2, spec)
  <2>1. RightSoFar(st, W, spec)
    BY <1>1, <1>2
  <2>2. \A o \in W : st2[o].spec_mode = st[o].spec_mode
    BY <1>6 DEF KeepsOps
  <2>3. st2[x].spec_mode = spec
    BY <1>6 DEF IsOperation
  <2>4. QED
    BY <1>1, <1>2, <2>1, <2>2, <2>3 DEF RightSoFar
<1>14. Body(p, d, iss, W3, sq3, v3, {}, E2) /\ Total(d, iss) = Total(c2, iss)
  <2>1. Body(p, d, iss, W2 \cup {y}, sq3, v3, {}, E1 \cup {y}) /\ Total(d, iss) = Total(c2, iss)
    BY <1>5, <1>10, <1>12, <1>13, EnterBody
  <2>2. QED
    BY <1>2, <1>11, <2>1
<1>15. ~st3[x].queued /\ ~st3[x].issued /\ ~st3[x].completed /\ IsOperation(st3[x], s, pc, spec)
  <2>1. Entering(st2, st3, W2, y, creators2)
    BY <1>1, <1>5 DEF Entered
  <2>2. SameBut(st2, st3, y) /\ x \in Stations \ {y}
    BY <1>6, <1>8, <2>1 DEF Entering
  <2>3. /\ st3[x].op = st2[x].op /\ st3[x].pc = st2[x].pc /\ st3[x].addr = st2[x].addr
        /\ st3[x].seq = st2[x].seq /\ st3[x].oname = st2[x].oname
        /\ st3[x].ea_comp = st2[x].ea_comp /\ st3[x].spec_mode = st2[x].spec_mode
        /\ st3[x].recover_inst = st2[x].recover_inst
        /\ (st3[x].queued <=> st2[x].queued) /\ (st3[x].issued <=> st2[x].issued)
        /\ (st3[x].completed <=> st2[x].completed)
    BY <2>2 DEF SameBut
  <2>4. IsOperation(st3[x], s, pc, spec)
    BY <1>6, <2>3 DEF IsOperation
  <2>5. QED
    BY <1>6, <2>3, <2>4
<1>16. Settled(p, d, e, iss, W3, sq3, v3, E3, x)
  <2>1. ~IsLoad(d.st, x)
    BY <1>8 DEF IsLoad, in_LSQ
  <2>2. b <=> OPERANDS_READY(d.st[x]) /\ ~IsLoad(d.st, x)
    BY <1>0, <2>1
  <2>3. x \in W3 /\ ~d.st[x].queued /\ ~d.st[x].issued
    BY <1>1, <1>2, <1>15
  <2>4. E2 \subseteq E3 \cup {x} /\ E3 \subseteq E2
    BY <1>11
  <2>5. QED
    BY <1>0, <1>14, <2>2, <2>3, <2>4, SettleOne
<1>17. /\ e \in CoreType /\ Body(p, e, iss, W3, sq3, v3, {}, E3)
       /\ SameOps(st3, st4) /\ Total(e, iss) = Total(d, iss)
       /\ \A o \in Stations : /\ st4[o].completed <=> st3[o].completed
                              /\ st4[o].issued <=> st3[o].issued
                              /\ o # x => (st4[o].queued <=> st3[o].queued)
       /\ e.free >= d.free - 1 /\ (d.free >= 1 => (e.panic <=> d.panic))
  BY <1>1, <1>16 DEF Settled
<1>18. IsOperation(st4[x], s, pc, spec) /\ IsOperation(st4[y], t, pc, spec)
  BY <1>6, <1>7, <1>15, <1>17, SameOperation
<1>19. Settled(p, e, f, iss, W3, sq3, v3, E0, y)
  <2>1. IsStore(st4, y) <=> ~IsLoad(st4, y)
    <3>1. st4[y].op = t.op
      BY <1>18 DEF IsOperation
    <3>2. in_LSQ(y)
      BY <1>8 DEF in_LSQ
    <3>3. "STORE" \in t.op.flags <=> "LOAD" \notin t.op.flags
      BY DEF DoesAccess
    <3>4. QED
      BY <3>1, <3>2, <3>3 DEF IsStore, IsLoad
  <2>2. b2 <=> OPERANDS_READY(e.st[y]) /\ ~IsLoad(e.st, y)
    BY <1>0, <1>1, <2>1
  <2>3. y \in W3 /\ ~e.st[y].queued /\ ~e.st[y].issued
    BY <1>1, <1>2, <1>7, <1>8, <1>17
  <2>4. E3 \subseteq E0 \cup {y} /\ E0 \subseteq E3
    BY <1>11
  <2>5. QED
    BY <1>0, <1>17, <2>2, <2>3, <2>4, SettleOne
<1>20. /\ f \in CoreType /\ Body(p, f, iss, W3, sq3, v3, {}, {})
       /\ SameOps(st4, st5) /\ Total(f, iss) = Total(e, iss)
       /\ \A o \in Stations : st5[o].completed <=> st4[o].completed
       /\ (e.free >= 1 => (f.panic <=> e.panic))
  BY <1>1, <1>11, <1>19 DEF Settled
<1>21. /\ IsOperation(st5[x], s, pc, spec) /\ IsOperation(st5[y], t, pc, spec)
       /\ ~st5[x].completed
  BY <1>6, <1>7, <1>15, <1>17, <1>18, <1>20, SameOperation
<1>22. KeepsOps(st, st5, W)
  <2>1. KeepsOps(st, st3, W)
    BY <1>2, <1>6, <1>7, KeepsTwice
  <2>2. KeepsOps(st, st4, W)
    <3>1. \A o \in W : st4[o].completed <=> st3[o].completed
      BY <1>3, <1>17
    <3>2. QED
      BY <1>3, <1>17, <2>1, <3>1, SameKeeps
  <2>3. \A o \in W : st5[o].completed <=> st4[o].completed
    BY <1>3, <1>20
  <2>4. QED
    BY <1>3, <1>20, <2>2, <2>3, SameKeeps
<1>23. \A o \in W : st5[o].seq = st[o].seq /\ st5[o].seq < st5[x].seq /\ st5[o].seq < st5[y].seq
  <2>1. st5[x].seq = sq2 /\ st5[y].seq = sq3 /\ st2[x].seq = sq2
    BY <1>6, <1>10, <1>21 DEF IsOperation
  <2>2. \A o \in W : st5[o].seq = st[o].seq /\ st[o].seq \in Nat
    <3>1. c.st \in [Stations -> StationType]
      BY <1>3, CoreParts
    <3>2. \A o \in W : st[o].seq \in Nat
      BY <1>1, <1>3, <3>1, StationParts
    <3>3. QED
      BY <1>22, <3>2 DEF KeepsOps
  <2>3. \A o \in W : st[o].seq < sq2
    BY <1>6, <2>1
  <2>4. QED
    BY <1>10, <2>1, <2>2, <2>3
<1>24. /\ RingOK(que2, "RUU") /\ Entries(que2, "RUU") = R \cup {x}
       /\ RingOK(que2, "LSQ") /\ Entries(que2, "LSQ") = L \cup {y}
  BY <1>0, <1>2, <1>3, TailGrows
<1>25. InOrder(st5, que2, "RUU") /\ InOrder(st5, que2, "LSQ")
  <2>1. \A o \in Entries(que, "RUU") : st5[o].seq = st[o].seq /\ st5[o].seq < st5[x].seq
    BY <1>2, <1>4, <1>23
  <2>2. \A o \in Entries(que, "LSQ") : st5[o].seq = st[o].seq /\ st5[o].seq < st5[y].seq
    BY <1>2, <1>4, <1>23
  <2>3. QED
    BY <1>0, <1>3, <2>1, <2>2, GrownInOrder
<1>26. Flight(que2) = W3
  BY <1>2, <1>4, <1>24 DEF Flight
<1>27. OperationsOK(p, st5, R \cup {x}, L \cup {y})
  <2>1. t.seq = s.seq + 1
    BY <1>3
  <2>2. KeepsOps(st, st5, R \cup L)
    BY <1>4, <1>22
  <2>3. QED
    BY <1>3, <1>21, <2>1, <2>2, OperationsEnter
<1>28. Machine(p, f, iss, que2, sq + 2, v3)
  <2>1. QueuesOK(st5, que2)
    BY <1>0, <1>24, <1>25 DEF QueuesOK, Queues
  <2>2. OperationsOK(p, st5, Entries(que2, "RUU"), Entries(que2, "LSQ"))
    BY <1>24, <1>27
  <2>3. Total(f, iss) = MAX_RS_LINKS
    BY <1>3, <1>12, <1>14, <1>17, <1>20
  <2>4. QED
    BY <1>1, <1>9, <1>20, <1>26, <2>1, <2>2, <2>3 DEF Machine
<1>29. c.free >= 8 => (f.panic <=> c.panic)
  <2>1. /\ c2.free >= c.free - 3 /\ (c.free >= 3 => (c2.panic <=> c.panic))
        /\ d.free >= c2.free - 3 /\ (c2.free >= 3 => (d.panic <=> c2.panic))
    BY DEF Entered
  <2>2. c.free \in Int /\ c2.free \in Int /\ d.free \in Int /\ e.free \in Int
    BY <1>3, <1>6, <1>7, <1>17, CoreParts
  <2>3. c.free >= 8 => c.free >= 3 /\ c2.free >= 3 /\ d.free >= 1 /\ e.free >= 1
    BY <1>17, <2>1, <2>2
  <2>4. QED
    BY <1>17, <1>20, <2>1, <2>3
<1>30. QED
  BY <1>1, <1>2, <1>21, <1>22, <1>28, <1>29 DEF BothEntered

-----------------------------------------------------------------------------
(* Programs *)

\* What an instruction set gives of one instruction.
InstructionOK(i) ==
  /\ i \in Instructions
  /\ \A a, b \in {"NOP", "EXIT", "LOAD", "STORE", "CTRL"} : {a, b} \subseteq i.flags => a = b
  /\ i.taken => "CTRL" \in i.flags
  /\ "STORE" \in i.flags => i.out = NA
  /\ "EXIT" \in i.flags => "TRAP" \in i.flags

LEMMA NopIs == InstructionOK(Nop)
<1>1. Nop.flags = {"NOP"} /\ Nop.class = NA /\ Nop.ins = <<NA, NA, NA>> /\ Nop.out = NA
      /\ Nop.addr = 0 /\ Nop.target = 0 /\ ~Nop.taken
  BY DEF Nop
<1>2. Nop \in Instructions
  <2>1. <<NA, NA, NA>> \in [1 .. 3 -> Regs \cup {NA}]
    OBVIOUS
  <2>2. NA \in Classes /\ {"NOP"} \in SUBSET Flags
    BY DEF Flags, Classes
  <2>3. QED
    BY <2>1, <2>2 DEF Nop, Instructions
<1>3. QED
  BY <1>1, <1>2 DEF InstructionOK

LEMMA ProgramIs ==
  ASSUME NEW p \in Programs
  PROVE  /\ p \in Seq(Instructions) /\ 1 \in DOMAIN p /\ DOMAIN p \subseteq Nat
         /\ \A pc : InstructionOK(InstOf(p, pc))
         /\ \A pc \in DOMAIN p : InstOf(p, pc) = p[pc]
         /\ \A pc \in DOMAIN p : "EXIT" \notin p[pc].flags =>
              (IF p[pc].taken THEN p[pc].target ELSE pc + 1) \in DOMAIN p
<1>1. p \in Seq(Instructions) /\ p # <<>>
  BY ProgramAssumption
<1>2. Len(p) \in Nat /\ DOMAIN p = 1 .. Len(p) /\ Len(p) # 0
  BY <1>1, LenProperties, EmptySeq
<1>3. ASSUME NEW pc \in DOMAIN p
      PROVE  /\ InstructionOK(p[pc])
             /\ "EXIT" \notin p[pc].flags =>
                  (IF p[pc].taken THEN p[pc].target ELSE pc + 1) \in DOMAIN p
  <2>1. p[pc] \in Instructions
    BY <1>1, ElementOfSeq, <1>2
  <2>2. QED
    BY <2>1, ProgramAssumption DEF InstructionOK
<1>4. \A pc : InstructionOK(InstOf(p, pc))
  BY <1>3, NopIs DEF InstOf
<1>5. \A pc \in DOMAIN p : InstOf(p, pc) = p[pc]
  BY DEF InstOf
<1>6. QED
  BY <1>1, <1>2, <1>3, <1>4, <1>5

LEMMA InstructionParts ==
  ASSUME NEW i, InstructionOK(i)
  PROVE  /\ i.flags \in SUBSET Flags /\ i.class \in Classes /\ i.out \in Regs \cup {NA}
         /\ i.ins \in [1 .. 3 -> Regs \cup {NA}] /\ i.addr \in Nat /\ i.target \in Nat
         /\ i.taken \in BOOLEAN
BY DEF InstructionOK, Instructions

\* Where the program goes on.
NextOf(i, pc) == IF i.taken THEN i.target ELSE pc + 1

-----------------------------------------------------------------------------
(* The instructions off the wrong path *)

\* Of the PCs in ex, those of instructions that take a station.
Kept(p, ex) ==
  LET kept[k \in 0 .. Len(ex)] ==
        IF k = 0 THEN <<>>
        ELSE IF p[ex[k]].flags \cap {"NOP", "EXIT"} = {} THEN Append(kept[k - 1], ex[k])
        ELSE kept[k - 1]
  IN kept[Len(ex)]

LEMMA KeptIsToRetire == Promised!ToRetire = Kept(prog, executed)
BY DEF Kept, Promised!ToRetire

\* f[k] are those among the first k.
Keeps(p, ex, f) ==
  /\ f[0] = <<>>
  /\ \A k \in 1 .. Len(ex) :
       f[k] = IF p[ex[k]].flags \cap {"NOP", "EXIT"} = {} THEN Append(f[k - 1], ex[k]) ELSE f[k - 1]

LEMMA KeptIs ==
  ASSUME NEW p, NEW T, NEW ex \in Seq(T)
  PROVE  \E f \in [0 .. Len(ex) -> Seq(T)] : Keeps(p, ex, f) /\ Kept(p, ex) = f[Len(ex)]
<1> DEFINE Keeping(f) == f = [k \in 0 .. Len(ex) |->
                                IF k = 0 THEN <<>>
                                ELSE IF p[ex[k]].flags \cap {"NOP", "EXIT"} = {}
                                     THEN Append(f[k - 1], ex[k])
                                ELSE f[k - 1]]
           kept == CHOOSE f : Keeping(f)
           step == [y \in Nat \X Seq(T) |->
                      IF y[1] < Len(ex) /\ p[ex[y[1] + 1]].flags \cap {"NOP", "EXIT"} = {}
                      THEN Append(y[2], ex[y[1] + 1]) ELSE y[2]]
<1>1. PICK N : N = Len(ex)
  OBVIOUS
<1>2. N \in Nat /\ \A i \in 1 .. N : ex[i] \in T
  BY <1>1, LenProperties, ElementOfSeq
<1>4. step \in [Nat \X Seq(T) -> Seq(T)]
  <2>1. ASSUME NEW y \in Nat \X Seq(T)
        PROVE  (IF y[1] < Len(ex) /\ p[ex[y[1] + 1]].flags \cap {"NOP", "EXIT"} = {}
                THEN Append(y[2], ex[y[1] + 1]) ELSE y[2]) \in Seq(T)
    <3>1. y[2] \in Seq(T)
      OBVIOUS
    <3>2. CASE y[1] < Len(ex)
      <4>1. y[1] + 1 \in 1 .. N
        BY <1>1, <1>2, <3>2
      <4>2. Append(y[2], ex[y[1] + 1]) \in Seq(T)
        BY <1>2, <3>1, <4>1, AppendProperties
      <4>3. QED
        BY <3>1, <4>2
    <3>3. QED
      BY <3>1, <3>2
  <2>2. QED
    BY <2>1
<1>5. PICK f \in [0 .. N -> Seq(T)] : Follows(f, N, <<>>, step)
  <2>1. <<>> \in Seq(T)
    OBVIOUS
  <2> HIDE DEF step
  <2>2. QED
    BY <1>2, <1>4, <2>1, Recursion
<1> DEFINE Next1(w, k) ==
             IF p[ex[k + 1]].flags \cap {"NOP", "EXIT"} = {} THEN Append(w, ex[k + 1]) ELSE w
<1>6. f[0] = <<>> /\ \A k \in 0 .. N - 1 : f[k + 1] = Next1(f[k], k)
  <2>1. \A k \in 0 .. N - 1 : k \in Nat /\ k < Len(ex) /\ k \in 0 .. N /\ f[k] \in Seq(T)
    BY <1>1, <1>2
  <2>2. \A k \in 0 .. N - 1 : step[<<k, f[k]>>] = Next1(f[k], k)
    BY <2>1
  <2> HIDE DEF step, Next1
  <2>3. QED
    BY <1>5, <2>2 DEF Follows
<1> HIDE DEF step
<1>9. Keeps(p, ex, f)
  <2>1. ASSUME NEW k \in 1 .. N
        PROVE  f[k] = IF p[ex[k]].flags \cap {"NOP", "EXIT"} = {} THEN Append(f[k - 1], ex[k])
                      ELSE f[k - 1]
    <3>1. PICK j \in 0 .. N - 1 : j = k - 1 /\ j + 1 = k
      BY <1>2
    <3>2. f[j + 1] = Next1(f[j], j)
      BY <1>6
    <3>3. QED
      BY <3>1, <3>2
  <2>2. QED
    BY <1>1, <1>6, <2>1 DEF Keeps
<1>7. Keeping(f)
  <2>1. \A k \in 0 .. N : k # 0 => k \in 1 .. N
    BY <1>2
  <2>2. \A k \in 0 .. N : f[k] = IF k = 0 THEN <<>>
                                 ELSE IF p[ex[k]].flags \cap {"NOP", "EXIT"} = {}
                                      THEN Append(f[k - 1], ex[k])
                                 ELSE f[k - 1]
    BY <1>1, <1>9, <2>1 DEF Keeps
  <2>3. f = [k \in 0 .. N |-> f[k]]
    OBVIOUS
  <2>4. QED
    BY <1>1, <2>2, <2>3
<1>8. Keeping(kept)
  BY <1>7, Zenon
<1>10. PICK g : g = kept
  OBVIOUS
<1>11. Kept(p, ex) = g[Len(ex)]
  BY <1>10 DEF Kept
<1>12. f[N] = g[N]
  <2>1. \A k \in 0 .. N : g[k] = IF k = 0 THEN <<>>
                                 ELSE IF p[ex[k]].flags \cap {"NOP", "EXIT"} = {}
                                      THEN Append(g[k - 1], ex[k])
                                 ELSE g[k - 1]
    BY <1>1, <1>8, <1>10
  <2>2. f[0] = g[0]
    BY <1>2, <1>6, <2>1
  <2>3. ASSUME NEW k \in 0 .. N - 1, f[k] = g[k]
        PROVE  f[k + 1] = g[k + 1]
    <3>1. k + 1 \in 0 .. N /\ k + 1 # 0 /\ (k + 1) - 1 = k
      BY <1>2
    <3>2. g[k + 1] = Next1(g[k], k)
      BY <2>1, <3>1
    <3>3. f[k + 1] = Next1(f[k], k)
      BY <1>6
    <3> HIDE DEF Next1
    <3>4. QED
      BY <2>3, <3>2, <3>3
  <2>4. StepsAlike(N, f, g)
    BY <2>2, <2>3 DEF StepsAlike
  <2>5. QED
    BY <1>2, <2>4, EndsAlike
<1>13. QED
  BY <1>1, <1>9, <1>11, <1>12

LEMMA KeptEmpty ==
  ASSUME NEW p
  PROVE  Kept(p, <<>>) = <<>>
<1>1. PICK ex : ex = <<>>
  OBVIOUS
<1>2. ex \in Seq(Nat) /\ Len(ex) = 0
  BY <1>1, EmptySeq
<1>3. PICK f : Keeps(p, ex, f) /\ Kept(p, ex) = f[Len(ex)]
  BY <1>2, KeptIs
<1>4. QED
  BY <1>1, <1>2, <1>3 DEF Keeps

WithOne(i, pc, kept) == IF i.flags \cap {"NOP", "EXIT"} = {} THEN Append(kept, pc) ELSE kept
LongerBy(ex, e, ex2) == ex2 = Append(ex, e)
KeptGrows(p, T, ex, e, ex2) ==
  /\ Kept(p, ex) \in Seq(T) /\ ex2 \in Seq(T)
  /\ Kept(p, ex2) = WithOne(p[e], e, Kept(p, ex))

LEMMA KeptAppend ==
  ASSUME NEW p, NEW T, NEW ex, ex \in Seq(T), NEW e, e \in T, NEW ex2, LongerBy(ex, e, ex2)
  PROVE  KeptGrows(p, T, ex, e, ex2)
<1>1. PICK N : N = Len(ex)
  OBVIOUS
<1>2. N \in Nat /\ ex2 \in Seq(T) /\ Len(ex2) = N + 1
      /\ (\A k \in 1 .. N : ex2[k] = ex[k]) /\ ex2[N + 1] = e
  BY <1>1, AppendProperties, LenProperties DEF LongerBy
<1>3. PICK f \in [0 .. N -> Seq(T)] : Keeps(p, ex, f) /\ Kept(p, ex) = f[N]
  BY <1>1, KeptIs
<1>4. PICK g : Keeps(p, ex2, g) /\ Kept(p, ex2) = g[N + 1]
  BY <1>2, KeptIs
<1>5. \A k \in 0 .. N : f[k] = g[k]
  <2>1. f[0] = g[0]
    BY <1>3, <1>4 DEF Keeps
  <2>2. ASSUME NEW k \in 0 .. N - 1, f[k] = g[k]
        PROVE  f[k + 1] = g[k + 1]
    <3>1. k + 1 \in 1 .. N /\ k + 1 \in 1 .. N + 1 /\ (k + 1) - 1 = k /\ ex2[k + 1] = ex[k + 1]
      BY <1>2
    <3>2. PICK a : a = ex[k + 1]
      OBVIOUS
    <3>3. f[k + 1] = IF p[a].flags \cap {"NOP", "EXIT"} = {} THEN Append(f[k], a) ELSE f[k]
      BY <1>1, <1>3, <3>1, <3>2 DEF Keeps
    <3>4. g[k + 1] = IF p[a].flags \cap {"NOP", "EXIT"} = {} THEN Append(g[k], a) ELSE g[k]
      BY <1>2, <1>4, <3>1, <3>2 DEF Keeps
    <3>5. QED
      BY <2>2, <3>3, <3>4
  <2>3. N \in Nat
    BY <1>2
  <2>4. QED
    BY <2>1, <2>2, <2>3, SameValues
<1>6. N \in 0 .. N /\ N + 1 \in 1 .. N + 1 /\ (N + 1) - 1 = N
  BY <1>2
<1>7. g[N + 1] = IF p[e].flags \cap {"NOP", "EXIT"} = {} THEN Append(g[N], e) ELSE g[N]
  BY <1>2, <1>4, <1>6 DEF Keeps
<1>8. QED
  BY <1>2, <1>3, <1>4, <1>5, <1>6, <1>7 DEF WithOne, KeptGrows

-----------------------------------------------------------------------------
(* The pipeline: what the operations in the RUU are of the program *)

\* Of the instructions kept, the first m have retired and the last u are in the
\* RUU, before the operations of the wrong path; the branch that waits to
\* recover is the last of those u.
Line(st, que, kept, m, u, spec) ==
  /\ m \in Nat /\ u \in Nat /\ Len(kept) = m + u /\ u <= que["RUU"].num
  /\ spec => u > 0
  /\ ~spec => u = que["RUU"].num
  /\ \A i \in 0 .. que["RUU"].num - 1 :
       LET x == At(que, "RUU", i)
       IN /\ st[x].spec_mode <=> u <= i
          /\ i < u => st[x].pc = kept[m + i + 1]
          /\ st[x].recover_inst /\ ~st[x].completed <=> spec /\ i = u - 1

\* From st to st2, the operations of S are as they were for that.
SameLine(st, st2, S) ==
  \A x \in S :
    /\ st2[x].spec_mode = st[x].spec_mode /\ st2[x].pc = st[x].pc
    /\ st2[x].recover_inst /\ ~st2[x].completed <=> st[x].recover_inst /\ ~st[x].completed

LEMMA LineStays ==
  ASSUME NEW st, NEW que, NEW kept, NEW m, NEW u, NEW spec, Line(st, que, kept, m, u, spec),
         RingOK(que, "RUU"), NEW st2, SameLine(st, st2, Entries(que, "RUU"))
  PROVE  Line(st2, que, kept, m, u, spec)
<1>1. \A i \in 0 .. que["RUU"].num - 1 : At(que, "RUU", i) \in Entries(que, "RUU")
  BY EntriesAre
<1>2. QED
  BY <1>1 DEF Line, SameLine

\* The first operation retires.
LEMMA LineRetires ==
  ASSUME NEW st, NEW que, NEW kept, NEW m, NEW u, NEW spec, Line(st, que, kept, m, u, spec),
         RingOK(que, "RUU"), que["RUU"].num > 0, NEW que2, Dropped(que, que2, "RUU"),
         st[At(que, "RUU", 0)].completed,
         NEW st2, SameLine(st, st2, Entries(que, "RUU"))
  PROVE  /\ u > 0 /\ ~st[At(que, "RUU", 0)].spec_mode /\ st[At(que, "RUU", 0)].pc = kept[m + 1]
         /\ Line(st2, que2, kept, m + 1, u - 1, spec)
<1>1. Line(st2, que, kept, m, u, spec)
  BY LineStays
<1>2. RingOK(que2, "RUU") /\ que2["RUU"].num = que["RUU"].num - 1
      /\ \A i \in 0 .. que["RUU"].num - 2 : At(que2, "RUU", i) = At(que, "RUU", i + 1)
  BY HeadDrops
<1>3. PICK num \in Nat : num = que["RUU"].num
  BY RingIs, SizesAre
<1>4. num > 0 /\ m \in Nat /\ u \in Nat /\ u > 0 /\ u <= num
  BY <1>3 DEF Line
<1>5. 0 \in 0 .. num - 1 /\ m + 0 + 1 = m + 1 /\ 0 < u
  BY <1>3, <1>4
<1>6. ~st[At(que, "RUU", 0)].spec_mode /\ st[At(que, "RUU", 0)].pc = kept[m + 1]
  BY <1>3, <1>4, <1>5 DEF Line
<1>7. ~spec \/ u - 1 > 0
  <2>1. SUFFICES ASSUME spec, u = 1 PROVE FALSE
    BY <1>4
  <2>2. 0 = u - 1
    BY <2>1
  <2>3. QED
    BY <1>3, <1>5, <2>1, <2>2 DEF Line
<1>8. ASSUME NEW i \in 0 .. num - 2, NEW x, x = At(que2, "RUU", i)
      PROVE  /\ st2[x].spec_mode <=> u - 1 <= i
             /\ i < u - 1 => st2[x].pc = kept[(m + 1) + i + 1]
             /\ st2[x].recover_inst /\ ~st2[x].completed <=> spec /\ i = (u - 1) - 1
  <2>1. PICK j \in 0 .. num - 1 : j = i + 1
    BY <1>3
  <2>2. x = At(que, "RUU", j)
    BY <1>2, <1>3, <1>8, <2>1
  <2>3. /\ st2[x].spec_mode <=> u <= j
        /\ j < u => st2[x].pc = kept[m + j + 1]
        /\ st2[x].recover_inst /\ ~st2[x].completed <=> spec /\ j = u - 1
    BY <1>1, <1>3, <2>2 DEF Line
  <2>4. (u <= j <=> u - 1 <= i) /\ (j < u <=> i < u - 1) /\ m + j + 1 = (m + 1) + i + 1
        /\ (j = u - 1 <=> i = (u - 1) - 1)
    BY <1>4, <2>1
  <2>5. QED
    BY <2>3, <2>4
<1>9. que2["RUU"].num - 1 = num - 2 /\ m + 1 \in Nat /\ u - 1 \in Nat /\ Len(kept) = (m + 1) + (u - 1)
      /\ u - 1 <= que2["RUU"].num /\ (~spec => u - 1 = que2["RUU"].num)
  BY <1>2, <1>3, <1>4 DEF Line
<1>10. QED
  BY <1>4, <1>6, <1>7, <1>8, <1>9 DEF Line

\* The branch b completes, and nothing is left after it.
Fixed(st, st2, que, que2, i, b) ==
  /\ que2["RUU"].num = i + 1 /\ \A k : At(que2, "RUU", k) = At(que, "RUU", k)
  /\ SameOps(st, st2)
  /\ \A o \in Stations : st2[o].completed <=> st[o].completed \/ o = b
  /\ \A k \in 0 .. i : At(que, "RUU", k) \in Stations

Recovering(st, que, i, b) ==
  /\ i \in 0 .. que["RUU"].num - 1 /\ b = At(que, "RUU", i) /\ que["RUU"].num \in Nat
  /\ st[b].recover_inst /\ ~st[b].completed
Mispredicting(st, que, i, b, spec) == spec /\ LastRight(st, que, i) /\ ~st[b].spec_mode

LEMMA LineRecovers ==
  ASSUME NEW st, NEW que, NEW kept, NEW m, NEW u, NEW spec, Line(st, que, kept, m, u, spec),
         NEW i, NEW b, Recovering(st, que, i, b)
  PROVE  Mispredicting(st, que, i, b, spec)
         /\ \A st2, que2 : Fixed(st, st2, que, que2, i, b) => Line(st2, que2, kept, m, u, FALSE)
<1>0. /\ i \in 0 .. que["RUU"].num - 1 /\ b = At(que, "RUU", i)
      /\ st[b].recover_inst /\ ~st[b].completed /\ que["RUU"].num \in Nat
  BY DEF Recovering
<1>1. PICK num \in Nat : num = que["RUU"].num
  BY <1>0
<1>2. spec /\ i = u - 1 /\ u \in Nat /\ m \in Nat /\ i \in 0 .. num - 1
  BY <1>0, <1>1 DEF Line
<1>3. ASSUME NEW k \in 0 .. num - 1
      PROVE  st[At(que, "RUU", k)].spec_mode <=> i + 1 <= k
  <2>1. st[At(que, "RUU", k)].spec_mode <=> u <= k
    BY <1>1 DEF Line
  <2>2. u <= k <=> i + 1 <= k
    BY <1>2
  <2>3. QED
    BY <2>1, <2>2
<1>4. LastRight(st, que, i)
  BY <1>1, <1>3 DEF LastRight
<1>5. ~st[b].spec_mode
  BY <1>0, <1>2, <1>3
<1>6. ASSUME NEW st2, NEW que2, Fixed(st, st2, que, que2, i, b)
      PROVE  Line(st2, que2, kept, m, u, FALSE)
  <2>0. /\ que2["RUU"].num = i + 1 /\ \A k : At(que2, "RUU", k) = At(que, "RUU", k)
        /\ SameOps(st, st2)
        /\ \A o \in Stations : st2[o].completed <=> st[o].completed \/ o = b
        /\ \A k \in 0 .. i : At(que, "RUU", k) \in Stations
    BY <1>6 DEF Fixed
  <2>1. ASSUME NEW k \in 0 .. que2["RUU"].num - 1, NEW x, x = At(que2, "RUU", k)
        PROVE  /\ st2[x].spec_mode <=> u <= k
               /\ k < u => st2[x].pc = kept[m + k + 1]
               /\ ~(st2[x].recover_inst /\ ~st2[x].completed)
    <3>1. k \in 0 .. i /\ k \in 0 .. num - 1 /\ x = At(que, "RUU", k)
      BY <1>2, <2>0, <2>1
    <3>2. x \in Stations
      BY <2>0, <3>1
    <3>3. /\ st2[x].spec_mode = st[x].spec_mode /\ st2[x].pc = st[x].pc
          /\ st2[x].recover_inst = st[x].recover_inst
          /\ st2[x].completed <=> st[x].completed \/ x = b
      BY <2>0, <3>2 DEF SameOps
    <3>4. /\ st[x].spec_mode <=> u <= k
          /\ k < u => st[x].pc = kept[m + k + 1]
          /\ st[x].recover_inst /\ ~st[x].completed <=> spec /\ k = u - 1
      BY <1>1, <3>1 DEF Line
    <3>5. k = u - 1 => x = b
      BY <1>0, <1>2, <3>1
    <3>6. QED
      BY <3>3, <3>4, <3>5
  <2>2. u = que2["RUU"].num /\ Len(kept) = m + u
    BY <1>2, <2>0 DEF Line
  <2>3. QED
    BY <1>2, <2>1, <2>2 DEF Line
<1>7. QED
  BY <1>2, <1>4, <1>5, <1>6 DEF Mispredicting

\* An operation of the wrong path is dispatched.
LEMMA LineWrong ==
  ASSUME NEW st, NEW que, NEW kept, NEW m, NEW u, Line(st, que, kept, m, u, TRUE),
         RingOK(que, "RUU"), que["RUU"].num < size["RUU"], NEW que2, Grown(que, que2, "RUU"),
         NEW x, x = At(que, "RUU", que["RUU"].num),
         NEW st2, SameLine(st, st2, Entries(que, "RUU")), st2[x].spec_mode, ~st2[x].recover_inst
  PROVE  Line(st2, que2, kept, m, u, TRUE)
<1>1. PICK num \in Nat : num = que["RUU"].num
  BY RingIs, SizesAre
<1>2. que2["RUU"].num = num + 1 /\ \A i : At(que2, "RUU", i) = At(que, "RUU", i)
  BY <1>1, TailGrows
<1>3. Line(st2, que, kept, m, u, TRUE)
  BY LineStays
<1>4. m \in Nat /\ u \in Nat /\ u <= num /\ u > 0
  BY <1>1, <1>3 DEF Line
<1>5. ASSUME NEW i \in 0 .. num, NEW y, y = At(que2, "RUU", i)
      PROVE  /\ st2[y].spec_mode <=> u <= i
             /\ i < u => st2[y].pc = kept[m + i + 1]
             /\ st2[y].recover_inst /\ ~st2[y].completed <=> TRUE /\ i = u - 1
  <2>1. CASE i = num
    <3>1. y = x /\ u <= i /\ i # u - 1
      BY <1>1, <1>2, <1>4, <1>5, <2>1
    <3>2. QED
      BY <1>4, <3>1
  <2>2. CASE i # num
    <3>1. i \in 0 .. num - 1 /\ y = At(que, "RUU", i)
      BY <1>1, <1>2, <1>5, <2>2
    <3>2. QED
      BY <1>1, <1>3, <3>1 DEF Line
  <2>3. QED
    BY <2>1, <2>2
<1>6. num = que2["RUU"].num - 1 /\ u <= que2["RUU"].num /\ Len(kept) = m + u
  BY <1>1, <1>2, <1>3, <1>4 DEF Line
<1>7. QED
  BY <1>4, <1>5, <1>6 DEF Line

\* An operation of the right path is dispatched; spec2 says whether the wrong
\* path begins after it.
RightEntry(st2, x, pc, spec2) ==
  /\ ~st2[x].spec_mode /\ ~st2[x].completed
  /\ st2[x].pc = pc /\ (st2[x].recover_inst <=> spec2)

LEMMA LineRight ==
  ASSUME NEW T, NEW kept, kept \in Seq(T),
         NEW st, NEW que, NEW m, NEW u, Line(st, que, kept, m, u, FALSE),
         RingOK(que, "RUU"), que["RUU"].num < size["RUU"], NEW que2, Grown(que, que2, "RUU"),
         NEW x, x = At(que, "RUU", que["RUU"].num),
         NEW pc, pc \in T, NEW kept2, LongerBy(kept, pc, kept2), NEW spec2,
         NEW st2, SameLine(st, st2, Entries(que, "RUU")), RightEntry(st2, x, pc, spec2)
  PROVE  Line(st2, que2, kept2, m, u + 1, spec2)
<1>1. PICK num \in Nat : num = que["RUU"].num
  BY RingIs, SizesAre
<1>2. que2["RUU"].num = num + 1 /\ \A i : At(que2, "RUU", i) = At(que, "RUU", i)
  BY <1>1, TailGrows
<1>3. Line(st2, que, kept, m, u, FALSE)
  BY LineStays
<1>4. m \in Nat /\ u \in Nat /\ u = num /\ Len(kept) = m + u
  BY <1>1, <1>3 DEF Line
<1>5. Len(kept2) = m + (u + 1) /\ (\A i \in 1 .. Len(kept) : kept2[i] = kept[i])
      /\ kept2[Len(kept) + 1] = pc
  BY <1>4, AppendProperties DEF LongerBy
<1>6. ASSUME NEW i \in 0 .. num, NEW y, y = At(que2, "RUU", i)
      PROVE  /\ st2[y].spec_mode <=> u + 1 <= i
             /\ i < u + 1 => st2[y].pc = kept2[m + i + 1]
             /\ st2[y].recover_inst /\ ~st2[y].completed <=> spec2 /\ i = (u + 1) - 1
  <2>1. CASE i = num
    <3>1. y = x /\ ~(u + 1 <= i) /\ i = (u + 1) - 1 /\ m + i + 1 = Len(kept) + 1
      BY <1>1, <1>2, <1>4, <1>6, <2>1
    <3>2. kept2[m + i + 1] = pc
      BY <1>5, <3>1
    <3>3. QED
      BY <3>1, <3>2 DEF RightEntry
  <2>2. CASE i # num
    <3>1. i \in 0 .. num - 1 /\ y = At(que, "RUU", i)
      BY <1>1, <1>2, <1>6, <2>2
    <3>2. /\ st2[y].spec_mode <=> u <= i
          /\ i < u => st2[y].pc = kept[m + i + 1]
          /\ st2[y].recover_inst /\ ~st2[y].completed <=> FALSE /\ i = u - 1
      BY <1>1, <1>3, <3>1 DEF Line
    <3>3. i < u /\ ~(u <= i) /\ ~(u + 1 <= i) /\ i # (u + 1) - 1 /\ m + i + 1 \in 1 .. Len(kept)
      BY <1>4, <3>1
    <3>4. kept2[m + i + 1] = kept[m + i + 1]
      BY <1>5, <3>3
    <3>5. st2[y].pc = kept2[m + i + 1] /\ ~st2[y].spec_mode
      BY <3>2, <3>3, <3>4
    <3>6. ~(st2[y].recover_inst /\ ~st2[y].completed)
      BY <3>2
    <3>7. QED
      BY <3>3, <3>5, <3>6
  <2>3. QED
    BY <2>1, <2>2
<1>7. num = que2["RUU"].num - 1 /\ u + 1 = que2["RUU"].num /\ u + 1 \in Nat /\ u + 1 > 0
  BY <1>1, <1>2, <1>4
<1>8. \A i \in 0 .. que2["RUU"].num - 1 :
        LET y == At(que2, "RUU", i)
        IN /\ st2[y].spec_mode <=> u + 1 <= i
           /\ i < u + 1 => st2[y].pc = kept2[m + i + 1]
           /\ st2[y].recover_inst /\ ~st2[y].completed <=> spec2 /\ i = (u + 1) - 1
  BY <1>6, <1>7
<1>9. /\ m \in Nat /\ u + 1 \in Nat /\ Len(kept2) = m + (u + 1) /\ u + 1 <= que2["RUU"].num
      /\ u + 1 > 0 /\ u + 1 = que2["RUU"].num
  BY <1>4, <1>5, <1>7
<1>10. QED
  BY <1>8, <1>9 DEF Line

-----------------------------------------------------------------------------
(* The front end *)

\* What fetch or dispatch comes to next.
First(fd, fp) == IF fd = <<>> THEN fp ELSE Head(fd).regs_PC

\* Each fetched instruction is the one predicted before it, and only branches
\* are predicted.
Follow(fd, fp) ==
  /\ \A i \in 1 .. Len(fd) - 1 : fd[i + 1].regs_PC = fd[i].pred_PC
  /\ fd # <<>> => fp = fd[Len(fd)].pred_PC
FetchOK(p, fd, fp) ==
  /\ fd \in Seq([regs_PC : Int, pred_PC : Int]) /\ fp \in Int
  /\ Follow(fd, fp)
  /\ \A i \in 1 .. Len(fd) : "CTRL" \notin InstOf(p, fd[i].regs_PC).flags =>
                               fd[i].pred_PC = fd[i].regs_PC + 1

LEMMA FetchNone ==
  ASSUME NEW p, NEW fp \in Int, NEW fd, fd = <<>>
  PROVE  FetchOK(p, fd, fp) /\ First(fd, fp) = fp
<1>1. fd \in Seq([regs_PC : Int, pred_PC : Int]) /\ Len(fd) = 0
  BY EmptySeq
<1>2. 1 .. 0 = {} /\ 1 .. 0 - 1 = {}
  OBVIOUS
<1>3. QED
  BY <1>1, <1>2 DEF FetchOK, Follow, First

LEMMA FetchTakes ==
  ASSUME NEW p, NEW fd, NEW fp, FetchOK(p, fd, fp), fd # <<>>,
         NEW pc, pc = Head(fd).regs_PC, NEW pred, pred = Head(fd).pred_PC
  PROVE  /\ pc \in Int /\ pred \in Int /\ First(fd, fp) = pc
         /\ "CTRL" \notin InstOf(p, pc).flags => pred = pc + 1
         /\ \A fd2 : fd2 = Tail(fd) => FetchOK(p, fd2, fp) /\ First(fd2, fp) = pred
<1>1. PICK N : N = Len(fd)
  OBVIOUS
<1>2. fd \in Seq([regs_PC : Int, pred_PC : Int]) /\ fp \in Int /\ N \in Nat /\ N > 0
  BY <1>1, LenProperties, EmptySeq DEF FetchOK
<1>3. Head(fd) = fd[1] /\ fd[1] \in [regs_PC : Int, pred_PC : Int] /\ 1 \in 1 .. N
  <2>1. 1 \in 1 .. N /\ Head(fd) = fd[1]
    BY <1>2, HeadTailProperties
  <2>2. fd[1] \in [regs_PC : Int, pred_PC : Int]
    BY <1>1, <1>2, <2>1, ElementOfSeq
  <2>3. QED
    BY <2>1, <2>2
<1>4. /\ pc = fd[1].regs_PC /\ pred = fd[1].pred_PC /\ pc \in Int /\ pred \in Int
  BY <1>3
<1>5. "CTRL" \notin InstOf(p, pc).flags => pred = pc + 1
  BY <1>1, <1>3, <1>4 DEF FetchOK
<1>6. ASSUME NEW fd2, fd2 = Tail(fd)
      PROVE  FetchOK(p, fd2, fp) /\ First(fd2, fp) = pred
  <2>1. fd2 \in Seq([regs_PC : Int, pred_PC : Int]) /\ Len(fd2) = N - 1
        /\ \A i \in 1 .. N - 1 : fd2[i] = fd[i + 1]
    BY <1>1, <1>2, <1>6, HeadTailProperties
  <2>2. ASSUME NEW i \in 1 .. (N - 1) - 1
        PROVE  fd2[i + 1].regs_PC = fd2[i].pred_PC
    <3>1. i \in 1 .. N - 1 /\ i + 1 \in 1 .. N - 1
      BY <1>2
    <3>2. fd[(i + 1) + 1].regs_PC = fd[i + 1].pred_PC
      BY <1>1, <3>1 DEF FetchOK, Follow
    <3>3. QED
      BY <2>1, <3>1, <3>2
  <2>3. ASSUME NEW i \in 1 .. N - 1
        PROVE  "CTRL" \notin InstOf(p, fd2[i].regs_PC).flags => fd2[i].pred_PC = fd2[i].regs_PC + 1
    <3>1. i + 1 \in 1 .. N /\ fd2[i] = fd[i + 1]
      BY <1>2, <2>1
    <3>2. QED
      BY <1>1, <3>1 DEF FetchOK
  <2>4. CASE N = 1
    <3>1. fd2 = <<>>
      BY <2>1, <2>4, EmptySeq
    <3>2. fp = pred
      BY <1>1, <1>2, <1>4, <2>4, EmptySeq DEF FetchOK, Follow
    <3>3. QED
      BY <1>2, <3>1, <3>2, FetchNone
  <2>5. CASE N # 1
    <3>1. N - 1 \in 1 .. N - 1 /\ (N - 1) + 1 = N /\ fd2 # <<>> /\ 1 \in 1 .. N - 1
      BY <1>2, <2>1, <2>5, EmptySeq
    <3>2. fp = fd2[N - 1].pred_PC
      <4>1. fp = fd[N].pred_PC /\ fd2[N - 1] = fd[N]
        BY <1>1, <1>2, <2>1, <3>1, EmptySeq DEF FetchOK, Follow
      <4>2. QED
        BY <4>1
    <3>3. Head(fd2) = fd2[1] /\ fd2[1] = fd[2]
      BY <2>1, <3>1, HeadTailProperties
    <3>4. fd[2].regs_PC = fd[1].pred_PC
      BY <1>1, <3>1 DEF FetchOK, Follow
    <3>5. First(fd2, fp) = pred
      BY <1>4, <3>1, <3>3, <3>4 DEF First
    <3>6. Follow(fd2, fp)
      BY <2>1, <2>2, <3>2 DEF Follow
    <3>7. FetchOK(p, fd2, fp)
      BY <1>2, <2>1, <2>3, <3>6 DEF FetchOK
    <3>8. QED
      BY <3>5, <3>7
  <2>6. QED
    BY <2>4, <2>5
<1>7. QED
  BY <1>3, <1>4, <1>5, <1>6, <1>2 DEF First

\* One more is fetched.
Fetched(fd, fp, pred) == Append(fd, [regs_PC |-> fp, pred_PC |-> pred])

LEMMA FetchMore ==
  ASSUME NEW p, NEW fd, NEW fp, FetchOK(p, fd, fp), NEW pred \in Int,
         "CTRL" \notin InstOf(p, fp).flags => pred = fp + 1,
         NEW fd2, fd2 = Fetched(fd, fp, pred)
  PROVE  FetchOK(p, fd2, pred) /\ First(fd2, pred) = First(fd, fp)
<1>1. PICK N : N = Len(fd)
  OBVIOUS
<1>2. PICK e \in [regs_PC : Int, pred_PC : Int] : e = [regs_PC |-> fp, pred_PC |-> pred]
  BY DEF FetchOK
<1>3. e.regs_PC = fp /\ e.pred_PC = pred
  BY <1>2
<1>4. fd \in Seq([regs_PC : Int, pred_PC : Int]) /\ fp \in Int /\ N \in Nat
  BY <1>1, LenProperties DEF FetchOK
<1>5. /\ fd2 \in Seq([regs_PC : Int, pred_PC : Int]) /\ Len(fd2) = N + 1
      /\ \A i \in 1 .. N : fd2[i] = fd[i]
      /\ fd2[N + 1] = e
  <2>1. fd2 = Append(fd, e)
    BY <1>2 DEF Fetched
  <2>2. QED
    BY <1>1, <1>4, <2>1, AppendProperties
<1>6. fd2 # <<>> /\ Head(fd2) = fd2[1]
  BY <1>4, <1>5, EmptySeq, HeadTailProperties
<1>7. ASSUME NEW i \in 1 .. (N + 1) - 1
      PROVE  fd2[i + 1].regs_PC = fd2[i].pred_PC
  <2>1. CASE i = N
    <3>1. fd # <<>> /\ N \in 1 .. N
      BY <1>1, <1>4, <1>7, <2>1, EmptySeq
    <3>2. fp = fd[N].pred_PC
      BY <1>1, <3>1 DEF FetchOK, Follow
    <3>3. QED
      BY <1>3, <1>5, <2>1, <3>1, <3>2
  <2>2. CASE i # N
    <3>1. i \in 1 .. N - 1 /\ i \in 1 .. N /\ i + 1 \in 1 .. N
      BY <1>4, <1>7, <2>2
    <3>2. fd[i + 1].regs_PC = fd[i].pred_PC
      BY <1>1, <3>1 DEF FetchOK, Follow
    <3>3. QED
      BY <1>5, <3>1, <3>2
  <2>3. QED
    BY <2>1, <2>2
<1>8. ASSUME NEW i \in 1 .. N + 1
      PROVE  "CTRL" \notin InstOf(p, fd2[i].regs_PC).flags => fd2[i].pred_PC = fd2[i].regs_PC + 1
  <2>1. CASE i = N + 1
    BY <1>3, <1>5, <2>1
  <2>2. CASE i # N + 1
    <3>1. i \in 1 .. N /\ fd2[i] = fd[i]
      BY <1>4, <1>5, <1>8, <2>2
    <3>2. QED
      BY <1>1, <3>1 DEF FetchOK
  <2>3. QED
    BY <2>1, <2>2
<1>9. Follow(fd2, pred)
  BY <1>3, <1>5, <1>7 DEF Follow
<1>10. FetchOK(p, fd2, pred)
  BY <1>5, <1>8, <1>9 DEF FetchOK
<1>11. First(fd2, pred) = First(fd, fp)
  <2>1. CASE fd = <<>>
    <3>1. N = 0 /\ fd2[1] = e
      BY <1>1, <1>5, <2>1, EmptySeq
    <3>2. QED
      BY <1>3, <1>6, <2>1, <3>1 DEF First
  <2>2. CASE fd # <<>>
    <3>1. 1 \in 1 .. N /\ Head(fd) = fd[1]
      BY <1>1, <1>4, <2>2, EmptySeq, HeadTailProperties
    <3>2. QED
      BY <1>5, <1>6, <2>2, <3>1 DEF First
  <2>3. QED
    BY <2>1, <2>2
<1>12. QED
  BY <1>10, <1>11

\* The instruction that follows those in ex.
FollowerOf(p, ex) ==
  IF ex = <<>> THEN 1 ELSE LET pc == Last(ex) IN IF p[pc].taken THEN p[pc].target ELSE pc + 1

LEMMA FollowerIsNext == Promised!NextPC = FollowerOf(prog, executed)
BY DEF FollowerOf, Last, Promised!NextPC, Promised!Last

LEMMA FollowerAfter ==
  ASSUME NEW p, NEW T, NEW ex \in Seq(T), NEW pc \in T, NEW ex2, ex2 = Append(ex, pc)
  PROVE  FollowerOf(p, ex2) = NextOf(p[pc], pc)
<1>1. ex2 \in Seq(T) /\ Len(ex2) = Len(ex) + 1 /\ ex2[Len(ex) + 1] = pc /\ Len(ex) \in Nat
  BY AppendProperties, LenProperties
<1>2. ex2 # <<>>
  BY <1>1, EmptySeq
<1>3. Last(ex2) = pc
  BY <1>1 DEF Last
<1>4. QED
  BY <1>2, <1>3 DEF FollowerOf, NextOf

\* Unless the program has ended, fetch is where it goes on, or will be once the
\* mispredicted branch completes.
FrontOK(p, fd, fp, ex, spec, rec, fin) ==
  /\ FetchOK(p, fd, fp) /\ ex \in Seq(DOMAIN p) /\ rec \in Int
  /\ ~fin => /\ FollowerOf(p, ex) \in DOMAIN p
             /\ spec => rec = FollowerOf(p, ex)
             /\ ~spec => First(fd, fp) = FollowerOf(p, ex)

\* pc is dispatched and goes on at npc; fetch goes on there too if redirected.
Dispatching(p, fd, fp, ex, spec, rec, pc, npc, redirect) ==
  /\ FrontOK(p, fd, fp, ex, spec, rec, FALSE) /\ fd # <<>> /\ pc = Head(fd).regs_PC
  /\ npc \in Int /\ redirect \in BOOLEAN /\ "EXIT" \notin InstOf(p, pc).flags
  /\ ~spec => npc = NextOf(InstOf(p, pc), pc)
Dispatches(fd, fp, ex, spec, rec, pc, npc, redirect, mis, fd2, fp2, ex2, spec2, rec2) ==
  /\ fd2 = IF redirect THEN <<>> ELSE Tail(fd)
  /\ fp2 = IF redirect THEN npc ELSE fp
  /\ mis <=> ~spec /\ Head(fd).pred_PC # npc /\ ~redirect
  /\ spec2 <=> spec \/ mis
  /\ rec2 = IF mis THEN npc ELSE rec
  /\ ex2 = IF spec THEN ex ELSE Append(ex, pc)
RightPC(p, spec, pc) == ~spec => pc \in DOMAIN p

LEMMA FrontDispatches ==
  ASSUME NEW p \in Programs, NEW fd, NEW fp, NEW ex, NEW spec, NEW rec, NEW pc, NEW npc,
         NEW redirect, NEW mis, NEW fd2, NEW fp2, NEW ex2, NEW spec2, NEW rec2,
         Dispatching(p, fd, fp, ex, spec, rec, pc, npc, redirect),
         Dispatches(fd, fp, ex, spec, rec, pc, npc, redirect, mis, fd2, fp2, ex2, spec2, rec2)
  PROVE  FrontOK(p, fd2, fp2, ex2, spec2, rec2, FALSE) /\ RightPC(p, spec, pc)
<1>0. /\ FrontOK(p, fd, fp, ex, spec, rec, FALSE) /\ fd # <<>> /\ pc = Head(fd).regs_PC
      /\ npc \in Int /\ redirect \in BOOLEAN /\ "EXIT" \notin InstOf(p, pc).flags
      /\ ~spec => npc = NextOf(InstOf(p, pc), pc)
      /\ fd2 = IF redirect THEN <<>> ELSE Tail(fd)
      /\ fp2 = IF redirect THEN npc ELSE fp
      /\ mis <=> ~spec /\ Head(fd).pred_PC # npc /\ ~redirect
      /\ spec2 <=> spec \/ mis
      /\ rec2 = IF mis THEN npc ELSE rec
      /\ ex2 = IF spec THEN ex ELSE Append(ex, pc)
  BY DEF Dispatching, Dispatches
<1>1. PICK pred : pred = Head(fd).pred_PC
  OBVIOUS
<1>2. FetchOK(p, fd, fp) /\ ex \in Seq(DOMAIN p) /\ rec \in Int /\ FollowerOf(p, ex) \in DOMAIN p
      /\ (spec => rec = FollowerOf(p, ex)) /\ (~spec => First(fd, fp) = FollowerOf(p, ex))
  BY <1>0 DEF FrontOK
<1>3. pc \in Int /\ pred \in Int /\ First(fd, fp) = pc
      /\ \A fd3 : fd3 = Tail(fd) => FetchOK(p, fd3, fp) /\ First(fd3, fp) = pred
  BY <1>0, <1>1, <1>2, FetchTakes
<1>4. FetchOK(p, fd2, fp2) /\ First(fd2, fp2) = IF redirect THEN npc ELSE pred
  <2>1. CASE redirect
    <3>1. fd2 = <<>> /\ fp2 = npc
      BY <1>0, <2>1
    <3>2. QED
      BY <1>0, <2>1, <3>1, FetchNone
  <2>2. CASE ~redirect
    BY <1>0, <1>3, <2>2
  <2>3. QED
    BY <1>0, <2>1, <2>2
<1>5. CASE spec
  <2>1. ~mis /\ ex2 = ex /\ rec2 = rec /\ spec2
    BY <1>0, <1>5
  <2>2. QED
    BY <1>2, <1>4, <1>5, <2>1 DEF FrontOK, RightPC
<1>6. CASE ~spec
  <2>1. pc \in DOMAIN p /\ ex2 = Append(ex, pc) /\ InstOf(p, pc) = p[pc]
    BY <1>0, <1>2, <1>3, <1>6 DEF InstOf
  <2>2. ex2 \in Seq(DOMAIN p) /\ FollowerOf(p, ex2) = npc
    <3>1. FollowerOf(p, ex2) = NextOf(p[pc], pc)
      BY <1>2, <2>1, FollowerAfter
    <3>2. ex2 \in Seq(DOMAIN p)
      <4>1. PICK T : T = DOMAIN p
        OBVIOUS
      <4>2. ex \in Seq(T) /\ pc \in T
        BY <1>2, <2>1, <4>1
      <4>3. ex2 \in Seq(T)
        BY <2>1, <4>2, AppendProperties
      <4>4. QED
        BY <4>1, <4>3
    <3>3. QED
      BY <1>0, <1>6, <2>1, <3>1, <3>2
  <2>3. npc \in DOMAIN p
    BY <1>0, <1>6, <2>1, ProgramIs DEF NextOf
  <2>4. rec2 \in Int /\ (spec2 <=> mis) /\ (mis <=> pred # npc /\ ~redirect) /\ (mis => rec2 = npc)
    BY <1>0, <1>1, <1>2, <1>6
  <2>5. ~spec2 => First(fd2, fp2) = npc
    BY <1>0, <1>4, <2>4
  <2>6. QED
    BY <1>4, <2>1, <2>2, <2>3, <2>4, <2>5 DEF FrontOK, RightPC
<1>7. QED
  BY <1>5, <1>6

-----------------------------------------------------------------------------
(* The inductive invariant *)

Vec == [cv |-> create_vector, scv |-> spec_create_vector, ucv |-> use_spec_cv]

MachineOK == Machine(prog, Core, issuing, queue, inst_seq, Vec)

\* What has retired is a prefix of what the instructions executed are to retire.
Retirement(kept, ret) ==
  ret \in Seq(Int) /\ kept \in Seq(Int) /\ \A i \in 1 .. Len(ret) : ret[i] = kept[i]
Unretired == Len(Kept(prog, executed)) - Len(retired)
PipelineOK ==
  /\ Retirement(Kept(prog, executed), retired)
  /\ Line(station, queue, Kept(prog, executed), Len(retired), Unretired, spec_mode)

FetchedOK == FrontOK(prog, fetch_data, fetch_pred_PC, executed, spec_mode, recover_PC, done)

LoopOK ==
  /\ prog \in Programs /\ spec_mode \in BOOLEAN /\ done \in BOOLEAN
  /\ done <=> stage = "exit"
  /\ stage # "issue" => issuing = <<>>

IInv == MachineOK /\ PipelineOK /\ FetchedOK /\ LoopOK

\* There are as many links left as one step can take.
LinksSuffice == rslink_free >= LSQ_size /\ rslink_free >= 8

\* A step keeps the invariant and, while there are links, does not panic.
Preserved == IInv' /\ (LinksSuffice => (panicked' <=> panicked))

LEMMA CoreIsCore ==
  /\ Core.st = station /\ Core.ready = ready_queue /\ Core.events = event_queue
  /\ Core.free = rslink_free /\ Core.panic = panicked
  /\ Vec.cv = create_vector /\ Vec.scv = spec_create_vector /\ Vec.ucv = use_spec_cv
BY DEF Core, Vec

LEMMA CoreSets ==
  ASSUME NEW c \in CoreType, CoreIs(c)
  PROVE  Core' = c /\ station' = c.st /\ panicked' = c.panic
<1>1. /\ station' = c.st /\ ready_queue' = c.ready /\ event_queue' = c.events
      /\ rslink_free' = c.free /\ panicked' = c.panic
  BY DEF CoreIs
<1>2. c = [st |-> c.st, ready |-> c.ready, events |-> c.events, free |-> c.free, panic |-> c.panic]
  BY DEF CoreType
<1>3. QED
  BY <1>1, <1>2 DEF Core

LEMMA Invariants ==
  ASSUME IInv
  PROVE  /\ Machine(prog, Core, issuing, queue, inst_seq, Vec)
         /\ Core \in CoreType /\ station \in [Stations -> StationType] /\ panicked \in BOOLEAN
         /\ rslink_free \in Int /\ ready_queue \in Seq(LinkType) /\ event_queue \in Seq(LinkType)
         /\ issuing \in Seq(LinkType) /\ inst_seq \in Nat /\ Flight(queue) \subseteq Stations
         /\ RingOK(queue, "RUU") /\ InOrder(station, queue, "RUU")
         /\ RingOK(queue, "LSQ") /\ InOrder(station, queue, "LSQ")
         /\ Entries(queue, "RUU") \subseteq Flight(queue)
         /\ Entries(queue, "LSQ") \subseteq Flight(queue)
         /\ Body(prog, Core, issuing, Flight(queue), inst_seq, Vec, {}, {})
         /\ Total(Core, issuing) = MAX_RS_LINKS
         /\ Queues(queue)
<1>1. Machine(prog, Core, issuing, queue, inst_seq, Vec)
  BY DEF IInv, MachineOK
<1>2. PICK c : c = Core
  OBVIOUS
<1>3. PICK v : v = Vec
  OBVIOUS
<1>4. Machine(prog, c, issuing, queue, inst_seq, v)
  BY <1>1, <1>2, <1>3
<1>5. c.st = station /\ c.free = rslink_free /\ c.panic = panicked /\ c.ready = ready_queue
      /\ c.events = event_queue
  BY <1>2, CoreIsCore
<1>6. /\ RingOK(queue, "RUU") /\ InOrder(c.st, queue, "RUU")
      /\ RingOK(queue, "LSQ") /\ InOrder(c.st, queue, "LSQ")
      /\ Flight(queue) \subseteq Stations
      /\ Entries(queue, "RUU") \subseteq Flight(queue) /\ Entries(queue, "LSQ") \subseteq Flight(queue)
  BY <1>4, InFlight
<1>7. Body(prog, c, issuing, Flight(queue), inst_seq, v, {}, {}) /\ Total(c, issuing) = MAX_RS_LINKS
      /\ QueuesOK(c.st, queue)
  BY <1>4 DEF Machine
<1>8. c \in CoreType /\ c.st \in [Stations -> StationType] /\ c.free \in Int /\ c.panic \in BOOLEAN
      /\ c.ready \in Seq(LinkType) /\ c.events \in Seq(LinkType)
      /\ issuing \in Seq(LinkType) /\ inst_seq \in Nat
  BY <1>7, BodyParts
<1>9. Queues(queue)
  BY <1>7 DEF QueuesOK, Queues
<1>10. QED
  BY <1>1, <1>2, <1>3, <1>5, <1>6, <1>7, <1>8, <1>9

-----------------------------------------------------------------------------
(* Steps in which no operation comes, goes or leaves the wrong path *)

LEMMA PipelineStays ==
  ASSUME IInv, SameLine(station, station', Entries(queue, "RUU")),
         UNCHANGED <<queue, executed, retired, prog, spec_mode>>
  PROVE  PipelineOK'
<1>1. Line(station, queue, Kept(prog, executed), Len(retired), Unretired, spec_mode)
      /\ Retirement(Kept(prog, executed), retired)
  BY DEF IInv, PipelineOK
<1>2. RingOK(queue, "RUU")
  BY Invariants
<1>3. PICK kept : kept = Kept(prog, executed)
  OBVIOUS
<1>4. PICK m : m = Len(retired)
  OBVIOUS
<1>5. PICK u : u = Unretired
  OBVIOUS
<1>6. Line(station', queue, kept, m, u, spec_mode)
  <2>1. Line(station, queue, kept, m, u, spec_mode)
    BY <1>1, <1>3, <1>4, <1>5
  <2>2. QED
    BY <1>2, <2>1, LineStays
<1>7. kept = Kept(prog, executed)' /\ m = Len(retired)' /\ u = Unretired'
  BY <1>3, <1>4, <1>5 DEF Unretired
<1>8. QED
  BY <1>1, <1>3, <1>6, <1>7 DEF PipelineOK

\* An operation in the RUU is no store.
LEMMA NoStores ==
  ASSUME IInv
  PROVE  \A x \in Entries(queue, "RUU") :
           /\ ~in_LSQ(x) /\ ~IsStore(station, x) /\ ~IsLoad(station, x) /\ x \in Stations
<1>1. RingOK(queue, "RUU")
  BY Invariants
<1>2. \A x \in Entries(queue, "RUU") : x[1] = "RUU" /\ x \in Stations
  BY <1>1, EntriesAre
<1>3. QED
  BY <1>2 DEF in_LSQ, IsStore, IsLoad

LEMMA IssueFrame ==
  ASSUME IInv, stage = "issue", NEW e, IssueStep(e), NEW c, c = RSLINK_FREE(e),
         IssuedOne(prog, Core, c, issuing, Flight(queue), inst_seq, Vec),
         LinksSuffice => (c.panic <=> panicked)
  PROVE  Preserved
<1>1. PICK d : d = Core
  OBVIOUS
<1>2. PICK v : v = Vec
  OBVIOUS
<1>3. /\ c \in CoreType /\ Body(prog, c, Tail(issuing), Flight(queue), inst_seq, v, {}, {})
      /\ Total(c, Tail(issuing)) = Total(d, issuing)
      /\ SameOps(d.st, c.st)
      /\ \A o \in Stations : ~IsStore(d.st, o) => (c.st[o].completed <=> d.st[o].completed)
  BY <1>1, <1>2 DEF IssuedOne
<1>4. Core' = c /\ station' = c.st /\ panicked' = c.panic /\ d.st = station
  BY <1>1, <1>3, CoreSets, CoreIsCore DEF IssueStep
<1>5. /\ issuing' = Tail(issuing)
      /\ UNCHANGED <<queue, create_vector, spec_create_vector, use_spec_cv, fetch_data, fetch_pred_PC,
                     spec_mode, recover_PC, inst_seq, executed, stage, retired, prog, done>>
  BY DEF IssueStep, vectorVars, frontVars, modeVars, dispatchVars, runVars
<1>6. MachineOK'
  <2>1. Machine(prog, d, issuing, queue, inst_seq, v)
    BY <1>1, <1>2, Invariants
  <2>2. Machine(prog, c, Tail(issuing), queue, inst_seq, v)
    BY <1>3, <2>1, MachineSame
  <2>3. Vec' = v
    BY <1>2, <1>5 DEF Vec
  <2>4. QED
    BY <1>4, <1>5, <2>2, <2>3 DEF MachineOK
<1>7. SameLine(station, station', Entries(queue, "RUU"))
  BY <1>3, <1>4, NoStores DEF SameLine, SameOps
<1>8. PipelineOK'
  BY <1>5, <1>7, PipelineStays
<1>9. FetchedOK' /\ LoopOK'
  BY <1>5 DEF IInv, FetchedOK, LoopOK
<1>10. QED
  BY <1>4, <1>6, <1>8, <1>9 DEF Preserved, IInv

LEMMA IssueSquashedKeeps ==
  ASSUME IInv, IssueSquashed
  PROVE  Preserved
<1>1. PICK c : c = RSLINK_FREE(Core)
  OBVIOUS
<1>2. IssueStep(Core) /\ stage = "issue" /\ issuing # <<>> /\ ~RSLINK_VALID(station, Head(issuing))
  BY DEF IssueSquashed
<1>3. PICK d : d = Core
  OBVIOUS
<1>4. PICK v : v = Vec
  OBVIOUS
<1>5. Body(prog, d, issuing, Flight(queue), inst_seq, v, {}, {}) /\ d.st = station
      /\ d.panic = panicked
  BY <1>3, <1>4, Invariants, CoreIsCore
<1>6. IssuedOne(prog, d, c, issuing, Flight(queue), inst_seq, v) /\ c.panic = d.panic
  BY <1>1, <1>2, <1>3, <1>5, SkipIs
<1>7. QED
  BY <1>1, <1>2, <1>3, <1>4, <1>5, <1>6, IssueFrame

\* The operation that is visited: nothing in Issuable panics.
LEMMA VisitedIs ==
  ASSUME IInv, NEW rs \in Stations, Visiting(rs)
  PROVE  /\ Visit(Core, issuing, rs) /\ rs \in Flight(queue)
         /\ ~(~OPERANDS_READY(station[rs]) \/ ~station[rs].queued \/ station[rs].issued
               \/ station[rs].completed)
<1>1. PICK d : d = Core
  OBVIOUS
<1>2. PICK v : v = Vec
  OBVIOUS
<1>3. Body(prog, d, issuing, Flight(queue), inst_seq, v, {}, {}) /\ d.st = station
  BY <1>1, <1>2, Invariants, CoreIsCore
<1>4. issuing # <<>> /\ RSLINK_VALID(d.st, Head(issuing)) /\ rs = Head(issuing).rs
  BY <1>3 DEF Visiting
<1>5. rs \in Flight(queue) /\ d.st[rs].queued /\ ~d.st[rs].issued /\ ~d.st[rs].completed
      /\ OPERANDS_READY(d.st[rs])
  BY <1>3, <1>4, TakeIssuing
<1>6. QED
  BY <1>1, <1>3, <1>4, <1>5 DEF Visit

LEMMA IssuableIs ==
  ASSUME NEW c, NEW rs
  PROVE  Issuable(c, rs) = Panic(c, ~OPERANDS_READY(station[rs]) \/ ~station[rs].queued
                                      \/ station[rs].issued \/ station[rs].completed)
BY DEF Issuable

LEMMA StartsKeep ==
  ASSUME IInv, stage = "issue", NEW rs \in Stations, Visiting(rs), ~IsStore(station, rs),
         NEW lat \in Int, lat > 0, IssueStep(Starts(rs, lat))
  PROVE  Preserved
<1>1. PICK d : d = Core
  OBVIOUS
<1>2. PICK v : v = Vec
  OBVIOUS
<1>3. PICK c : c = RSLINK_FREE(Starts(rs, lat))
  OBVIOUS
<1>4. PICK b \in BOOLEAN : b <=> ~OPERANDS_READY(station[rs]) \/ ~station[rs].queued
                                 \/ station[rs].issued \/ station[rs].completed
  OBVIOUS
<1>5. Body(prog, d, issuing, Flight(queue), inst_seq, v, {}, {}) /\ d.st = station
      /\ d.panic = panicked /\ d.free = rslink_free
  BY <1>1, <1>2, Invariants, CoreIsCore
<1>6. Visit(d, issuing, rs) /\ ~IsStore(d.st, rs) /\ ~b
  BY <1>1, <1>4, <1>5, VisitedIs
<1>7. c = Started(d, rs, b, lat)
  <2>1. PICK e : e = Unqueue(d, rs)
    OBVIOUS
  <2>2. Issuable(e, rs) = Panic(e, b)
    BY <1>4, IssuableIs DEF Panic
  <2>3. QED
    BY <1>1, <1>3, <2>1, <2>2 DEF Starts, Started
<1>8. IssuedOne(prog, d, c, issuing, Flight(queue), inst_seq, v)
      /\ (d.free >= 1 => (c.panic <=> d.panic))
  BY <1>5, <1>6, <1>7, StartIs
<1>9. LinksSuffice => (c.panic <=> panicked)
  BY <1>5, <1>8, Invariants DEF LinksSuffice
<1>10. QED
  BY <1>1, <1>2, <1>3, <1>8, <1>9, IssueFrame

\* The unit that res_get gives serves the class.
LEMMA UnitIs ==
  ASSUME NEW class, NEW u, u = res_get(class), u # 0
  PROVE  u \in DOMAIN FUs /\ class \in DOMAIN FUs[u]
<1>1. PICK units : units = {w \in DOMAIN FUs : class \in DOMAIN FUs[w] /\ busy[w] = 0}
  OBVIOUS
<1>2. units # {} /\ u = Min(units)
  BY <1>1 DEF res_get
<1>3. units \in SUBSET Nat
  BY <1>1, UnitsAssumption
<1>4. PICK w \in units : \A k \in units : w <= k
  BY <1>2, <1>3, Least
<1>5. Min(units) \in units
  BY <1>4 DEF Min
<1>6. QED
  BY <1>1, <1>2, <1>5

LEMMA LatencyIs ==
  ASSUME NEW rs, NEW u \in DOMAIN FUs, station[rs].op.class \in DOMAIN FUs[u],
         NEW lat \in Latencies(rs, u)
  PROVE  lat \in Int /\ lat > 0
<1>1. FUs[u][station[rs].op.class].oplat \in Nat \ {0}
  BY UnitsAssumption
<1>2. LoadLats \subseteq Nat \ {0}
  BY CoreAssumption
<1>3. lat \in Nat \ {0}
  <2>1. lat = FUs[u][station[rs].op.class].oplat \/ lat = 1 \/ lat \in LoadLats
    BY DEF Latencies
  <2>2. CASE lat = 1
    BY <2>2
  <2>3. CASE lat \in LoadLats
    BY <1>2, <2>3
  <2>4. QED
    BY <1>1, <2>1, <2>2, <2>3
<1>4. QED
  BY <1>3

LEMMA IssueToUnitKeeps ==
  ASSUME IInv, IssueToUnit
  PROVE  Preserved
<1>1. PICK rs \in Stations :
        /\ Visiting(rs) /\ ~IsStore(station, rs)
        /\ res_get(station[rs].op.class) # 0
        /\ \E lat \in Latencies(rs, res_get(station[rs].op.class)) : IssueStep(Starts(rs, lat))
  BY DEF IssueToUnit
<1>2. PICK u : u = res_get(station[rs].op.class)
  OBVIOUS
<1>3. u \in DOMAIN FUs /\ station[rs].op.class \in DOMAIN FUs[u]
  BY <1>1, <1>2, UnitIs
<1>4. PICK lat \in Latencies(rs, u) : IssueStep(Starts(rs, lat))
  BY <1>1, <1>2
<1>5. lat \in Int /\ lat > 0
  BY <1>3, LatencyIs
<1>6. QED
  BY <1>1, <1>4, <1>5, StartsKeep DEF Visiting

LEMMA IssueWithoutUnitKeeps ==
  ASSUME IInv, IssueWithoutUnit
  PROVE  Preserved
<1>1. PICK rs \in Stations : Visiting(rs) /\ ~IsStore(station, rs) /\ IssueStep(Starts(rs, 1))
  BY DEF IssueWithoutUnit
<1>2. 1 \in Int /\ 1 > 0
  OBVIOUS
<1>3. QED
  BY <1>1, <1>2, StartsKeep DEF Visiting

\* A store has no output.
LEMMA StoreHasNone ==
  ASSUME IInv, NEW rs \in Flight(queue), IsStore(station, rs)
  PROVE  station[rs].oname = NA
<1>1. PICK d : d = Core
  OBVIOUS
<1>2. PICK v : v = Vec
  OBVIOUS
<1>3. Machine(prog, d, issuing, queue, inst_seq, v) /\ d.st = station
  BY <1>1, <1>2, Invariants, CoreIsCore
<1>4. rs \in Entries(queue, "LSQ")
  BY NoStores DEF Flight
<1>5. InLSQ(prog, d.st, rs, Entries(queue, "RUU"))
  BY <1>3, <1>4, InFlight
<1>6. PICK i : i = InstOf(prog, station[rs].pc)
  OBVIOUS
<1>7. station[rs].op = [flags |-> i.flags, class |-> i.class] /\ station[rs].oname = i.out
  BY <1>3, <1>5, <1>6 DEF InLSQ
<1>8. "STORE" \in i.flags
  BY <1>7 DEF IsStore
<1>9. InstructionOK(i)
  BY <1>6, ProgramIs DEF IInv, LoopOK
<1>10. QED
  BY <1>7, <1>8, <1>9 DEF InstructionOK

LEMMA IssueStoreKeeps ==
  ASSUME IInv, IssueStore
  PROVE  Preserved
<1>1. PICK rs \in Stations :
        /\ Visiting(rs) /\ IsStore(station, rs)
        /\ IssueStep([Issuable(Unqueue(Core, rs), rs)
                        EXCEPT !.st[rs].issued = TRUE, !.st[rs].completed = TRUE])
  BY DEF IssueStore
<1>2. PICK d : d = Core
  OBVIOUS
<1>3. PICK v : v = Vec
  OBVIOUS
<1>4. PICK b \in BOOLEAN : b <=> ~OPERANDS_READY(station[rs]) \/ ~station[rs].queued
                                 \/ station[rs].issued \/ station[rs].completed
  OBVIOUS
<1>5. PICK c : c = StoreDone(d, rs, b)
  OBVIOUS
<1>6. Body(prog, d, issuing, Flight(queue), inst_seq, v, {}, {}) /\ d.st = station
      /\ d.panic = panicked
  BY <1>2, <1>3, Invariants, CoreIsCore
<1>7. Visit(d, issuing, rs) /\ IsStore(d.st, rs) /\ ~b /\ rs \in Flight(queue)
  BY <1>1, <1>2, <1>4, <1>6, VisitedIs
<1>8. d.st[rs].oname = NA
  BY <1>6, <1>7, StoreHasNone
<1>9. PICK f : f = [Issuable(Unqueue(d, rs), rs) EXCEPT !.st[rs].issued = TRUE, !.st[rs].completed = TRUE]
  OBVIOUS
<1>10. c = RSLINK_FREE(f)
  <2>1. PICK e : e = Unqueue(d, rs)
    OBVIOUS
  <2>2. Issuable(e, rs) = Panic(e, b)
    BY <1>4, IssuableIs DEF Panic
  <2>3. QED
    BY <1>5, <1>9, <2>1, <2>2 DEF StoreDone
<1>11. IssueStep(f)
  BY <1>1, <1>2, <1>9
<1>12. IssuedOne(prog, d, c, issuing, Flight(queue), inst_seq, v) /\ (c.panic <=> d.panic)
  BY <1>5, <1>6, <1>7, <1>8, StoreIs
<1>13. QED
  BY <1>1, <1>2, <1>3, <1>6, <1>10, <1>11, <1>12, IssueFrame DEF Visiting

LEMMA NotIssuedKeeps ==
  ASSUME IInv, NotIssued
  PROVE  Preserved
<1>1. PICK rs \in Stations :
        Visiting(rs) /\ IssueStep(Requeue(IF n < ruu_issue_width THEN Issuable(Core, rs) ELSE Core, rs))
  BY DEF NotIssued
<1>2. PICK d : d = Core
  OBVIOUS
<1>3. PICK v : v = Vec
  OBVIOUS
<1>4. PICK b \in BOOLEAN : b <=> ~OPERANDS_READY(station[rs]) \/ ~station[rs].queued
                                 \/ station[rs].issued \/ station[rs].completed
  OBVIOUS
<1>5. Body(prog, d, issuing, Flight(queue), inst_seq, v, {}, {}) /\ d.st = station
      /\ d.panic = panicked /\ d.free = rslink_free /\ d \in CoreType
  BY <1>2, <1>3, Invariants, CoreIsCore
<1>6. Visit(d, issuing, rs) /\ ~b
  BY <1>1, <1>2, <1>4, <1>5, VisitedIs
<1>7. PICK f : f = IF n < ruu_issue_width THEN Issuable(d, rs) ELSE d
  OBVIOUS
<1>8. f \in CoreType /\ f.st = d.st /\ f.ready = d.ready /\ f.events = d.events /\ f.free = d.free
      /\ (f.panic <=> d.panic)
  <2>1. Issuable(d, rs) = Panic(d, b)
    BY <1>4, IssuableIs DEF Panic
  <2>2. /\ Panic(d, b) \in CoreType /\ Panic(d, b).st = d.st /\ Panic(d, b).ready = d.ready
        /\ Panic(d, b).events = d.events /\ Panic(d, b).free = d.free
        /\ Panic(d, b).panic = (d.panic \/ b)
    BY <1>5, PanicIs
  <2>3. CASE n < ruu_issue_width
    BY <1>6, <1>7, <2>1, <2>2, <2>3
  <2>4. CASE ~(n < ruu_issue_width)
    BY <1>5, <1>7, <2>4
  <2>5. QED
    BY <2>3, <2>4
<1>9. PICK c : c = RSLINK_FREE(Requeue(f, rs))
  OBVIOUS
<1>10. IssuedOne(prog, d, c, issuing, Flight(queue), inst_seq, v)
       /\ (d.free >= 1 => (c.panic <=> f.panic))
  BY <1>5, <1>6, <1>8, <1>9, RequeueIs
<1>11. LinksSuffice => (c.panic <=> panicked)
  BY <1>5, <1>8, <1>10, Invariants DEF LinksSuffice
<1>12. IssueStep(Requeue(f, rs))
  BY <1>1, <1>2, <1>7
<1>13. QED
  BY <1>1, <1>2, <1>3, <1>9, <1>10, <1>11, <1>12, IssueFrame DEF Visiting

\* The machine stays as it is.
LEMMA MachineFrame ==
  ASSUME IInv, UNCHANGED <<coreVars, queue, vectorVars, inst_seq, prog, issuing>>
  PROVE  MachineOK' /\ (panicked' <=> panicked) /\ SameLine(station, station', Entries(queue, "RUU"))
<1>1. Core' = Core /\ Vec' = Vec
  BY DEF Core, Vec, coreVars, vectorVars
<1>2. MachineOK'
  BY <1>1 DEF IInv, MachineOK
<1>3. station' = station
  BY DEF coreVars
<1>4. QED
  BY <1>2, <1>3 DEF SameLine, coreVars

\* What is left to show of a step that leaves the front end alone.
LEMMA QuietFrame ==
  ASSUME IInv, MachineOK', SameLine(station, station', Entries(queue, "RUU")),
         UNCHANGED <<queue, executed, retired, prog, spec_mode, fetch_data, fetch_pred_PC, recover_PC, done>>,
         done <=> stage' = "exit", stage' # "issue" => issuing' = <<>>,
         LinksSuffice => (panicked' <=> panicked)
  PROVE  Preserved
<1>1. PipelineOK'
  BY PipelineStays
<1>2. FetchedOK' /\ LoopOK'
  BY DEF IInv, FetchedOK, LoopOK
<1>3. QED
  BY <1>1, <1>2 DEF Preserved, IInv

LEMMA StageEndsKeep ==
  ASSUME IInv, ruu_release_fu \/ WritebackEnds \/ IssueEnds \/ DispatchEnds
  PROVE  Preserved
<1>1. UNCHANGED <<coreVars, queue, vectorVars, inst_seq, prog, issuing>>
  BY DEF ruu_release_fu, WritebackEnds, IssueEnds, DispatchEnds, dispatchVars, runVars
<1>2. UNCHANGED <<queue, executed, retired, prog, spec_mode, fetch_data, fetch_pred_PC, recover_PC, done>>
  BY DEF ruu_release_fu, WritebackEnds, IssueEnds, DispatchEnds, dispatchVars, runVars, frontVars, modeVars
<1>3. ~done /\ stage' \in {"writeback", "dispatch", "refresh", "fetch"} /\ issuing = <<>>
  BY DEF IInv, LoopOK, ruu_release_fu, WritebackEnds, IssueEnds, DispatchEnds
<1>4. MachineOK' /\ (panicked' <=> panicked) /\ SameLine(station, station', Entries(queue, "RUU"))
  BY <1>1, MachineFrame
<1>5. QED
  BY <1>1, <1>2, <1>3, <1>4, QuietFrame

LEMMA ExitedKeeps ==
  ASSUME IInv, UNCHANGED vars
  PROVE  Preserved
<1>1. UNCHANGED <<coreVars, queue, vectorVars, inst_seq, prog, issuing>>
  BY DEF vars, dispatchVars, runVars
<1>2. UNCHANGED <<queue, executed, retired, prog, spec_mode, fetch_data, fetch_pred_PC, recover_PC, done,
                  stage, issuing>>
  BY DEF vars, dispatchVars, runVars, frontVars, modeVars
<1>3. MachineOK' /\ (panicked' <=> panicked) /\ SameLine(station, station', Entries(queue, "RUU"))
  BY <1>1, MachineFrame
<1>4. (done <=> stage' = "exit") /\ (stage' # "issue" => issuing' = <<>>)
  BY <1>2 DEF IInv, LoopOK
<1>5. QED
  BY <1>2, <1>3, <1>4, QuietFrame

\* From c to d, the operations are as they were.
LEMMA CoreFrame ==
  ASSUME IInv, NEW c \in CoreType, NEW iss, Body(prog, c, iss, Flight(queue), inst_seq, Vec, {}, {}),
         Total(c, iss) = Total(Core, issuing), SameOps(station, c.st),
         \A o \in Stations : c.st[o].completed <=> station[o].completed,
         Core' = c, station' = c.st, issuing' = iss, UNCHANGED <<queue, vectorVars, inst_seq, prog>>
  PROVE  MachineOK' /\ SameLine(station, station', Entries(queue, "RUU"))
<1>1. PICK d : d = Core
  OBVIOUS
<1>2. PICK v : v = Vec
  OBVIOUS
<1>3. Machine(prog, d, issuing, queue, inst_seq, v) /\ d.st = station
  BY <1>1, <1>2, Invariants, CoreIsCore
<1>4. Machine(prog, c, iss, queue, inst_seq, v)
  BY <1>1, <1>2, <1>3, MachineSame
<1>5. Vec' = v
  BY <1>2 DEF Vec, vectorVars
<1>6. MachineOK'
  BY <1>4, <1>5 DEF MachineOK
<1>7. SameLine(station, station', Entries(queue, "RUU"))
  BY NoStores DEF SameLine, SameOps
<1>8. QED
  BY <1>6, <1>7

LEMMA SameOpsSelf ==
  ASSUME NEW st
  PROVE  SameOps(st, st)
BY DEF SameOps

LEMMA RefreshKeeps ==
  ASSUME IInv, lsq_refresh
  PROVE  Preserved
<1>1. PICK d : d = Core
  OBVIOUS
<1>2. PICK v : v = Vec
  OBVIOUS
<1>3. PICK r : r = Refreshed
  OBVIOUS
<1>4. PICK c : c = [r EXCEPT !.ready = <<>>]
  OBVIOUS
<1>5. stage = "refresh" /\ CoreIs(c) /\ issuing' = r.ready /\ stage' = "issue"
      /\ UNCHANGED <<queue, vectorVars, inst_seq, prog>>
      /\ UNCHANGED <<queue, executed, retired, prog, spec_mode, fetch_data, fetch_pred_PC, recover_PC, done>>
  BY <1>3, <1>4 DEF lsq_refresh, dispatchVars, runVars, frontVars, modeVars
<1>6. issuing = <<>> /\ ~done
  BY <1>5 DEF IInv, LoopOK
<1>7. /\ Body(prog, d, <<>>, Flight(queue), inst_seq, v, {}, {}) /\ d.st = station
      /\ d.panic = panicked /\ d.free = rslink_free
      /\ RingOK(queue, "LSQ") /\ InOrder(station, queue, "LSQ")
  BY <1>1, <1>2, <1>6, Invariants, CoreIsCore
<1>8. PICK W : W = Flight(queue)
  OBVIOUS
<1>9. Scanned(prog, d, r, W, inst_seq, v, queue["LSQ"].num)
  BY <1>1, <1>3, <1>7, <1>8, ScanIs
<1>10. PICK num : num = queue["LSQ"].num
  OBVIOUS
<1>11. /\ Body(prog, r, <<>>, W, inst_seq, v, {}, {}) /\ SameOps(d.st, r.st)
       /\ \A o \in Stations : r.st[o].completed <=> d.st[o].completed
       /\ Total(r, <<>>) = Total(d, <<>>)
       /\ d.free >= num => (r.panic <=> d.panic)
  BY <1>9, <1>10 DEF Scanned
<1>12. PICK iss : iss = r.ready
  OBVIOUS
<1>13. /\ c \in CoreType /\ c.st = r.st /\ c.panic = r.panic
       /\ Body(prog, c, iss, W, inst_seq, v, {}, {}) /\ Total(c, iss) = Total(r, <<>>)
  BY <1>4, <1>11, <1>12, TakeList
<1>14. Core' = c /\ station' = c.st /\ panicked' = c.panic
  BY <1>5, <1>13, CoreSets
<1>15. SameOps(station, c.st) /\ \A o \in Stations : c.st[o].completed <=> station[o].completed
  BY <1>7, <1>11, <1>13
<1>16. Total(c, iss) = Total(Core, issuing)
  BY <1>1, <1>6, <1>11, <1>13
<1>17. MachineOK' /\ SameLine(station, station', Entries(queue, "RUU"))
  BY <1>2, <1>5, <1>8, <1>12, <1>13, <1>14, <1>15, <1>16, CoreFrame
<1>18. LinksSuffice => (panicked' <=> panicked)
  <2>1. num \in Int /\ num <= LSQ_size
    <3>1. queue["LSQ"].num \in 0 .. size["LSQ"]
      BY <1>7, RingIs
    <3>2. QED
      BY <1>10, <3>1, SizesAre
  <2>2. rslink_free \in Int /\ LSQ_size \in Int
    BY Invariants, SizesAre
  <2>3. LinksSuffice => d.free >= num
    BY <1>7, <2>1, <2>2 DEF LinksSuffice
  <2>4. QED
    BY <1>7, <1>11, <1>13, <1>14, <2>3
<1>19. QED
  BY <1>5, <1>6, <1>17, <1>18, QuietFrame

LEMMA WritebackSquashedKeeps ==
  ASSUME IInv, WritebackSquashed
  PROVE  Preserved
<1>1. PICK d : d = Core
  OBVIOUS
<1>2. PICK v : v = Vec
  OBVIOUS
<1>3. PICK c : c = NextEvent
  OBVIOUS
<1>4. /\ CoreIs(c) /\ event_queue # <<>> /\ ~RSLINK_VALID(station, Head(event_queue))
      /\ stage = "writeback" /\ stage' = stage /\ issuing' = issuing
      /\ UNCHANGED <<queue, vectorVars, inst_seq, prog>>
      /\ UNCHANGED <<queue, executed, retired, prog, spec_mode, fetch_data, fetch_pred_PC, recover_PC, done>>
  BY <1>3 DEF WritebackSquashed, EventDue, dispatchVars, runVars, frontVars, modeVars
<1>5. Body(prog, d, issuing, Flight(queue), inst_seq, v, {}, {}) /\ d.st = station
      /\ d.panic = panicked /\ d.events = event_queue
  BY <1>1, <1>2, Invariants, CoreIsCore
<1>6. c = EventTaken(d)
  BY <1>1, <1>3 DEF NextEvent, EventTaken
<1>7. /\ c \in CoreType /\ c.st = d.st /\ c.panic = d.panic /\ Total(c, issuing) = Total(d, issuing)
      /\ Body(prog, c, issuing, Flight(queue), inst_seq, v, {}, {})
  <2>1. d.events # <<>> /\ ~RSLINK_VALID(d.st, Head(d.events))
    BY <1>4, <1>5
  <2>2. PICK W : W = Flight(queue)
    OBVIOUS
  <2>3. Body(prog, d, issuing, W, inst_seq, v, {}, {})
    BY <1>5, <2>2
  <2>4. /\ c \in CoreType /\ c.st = d.st /\ c.panic = d.panic /\ Total(c, issuing) = Total(d, issuing)
        /\ Body(prog, c, issuing, W, inst_seq, v, {}, {})
    <3>1. Due(prog, d, c, issuing, W, inst_seq, v)
      BY <1>6, <2>1, <2>3, TakeEvent
    <3>2. QED
      BY <2>1, <3>1 DEF Due
  <2>5. QED
    BY <2>2, <2>4
<1>8. Core' = c /\ station' = c.st /\ panicked' = c.panic
  BY <1>4, <1>7, CoreSets
<1>9. MachineOK' /\ SameLine(station, station', Entries(queue, "RUU"))
  BY <1>1, <1>2, <1>4, <1>5, <1>7, <1>8, SameOpsSelf, CoreFrame
<1>10. (done <=> stage' = "exit") /\ (stage' # "issue" => issuing' = <<>>)
  BY <1>4 DEF IInv, LoopOK
<1>11. QED
  BY <1>4, <1>5, <1>7, <1>8, <1>9, <1>10, QuietFrame

LEMMA NextCycleKeeps ==
  ASSUME IInv, stage = "fetch", NextCycle, UNCHANGED <<fetch_data, fetch_pred_PC>>
  PROVE  Preserved
<1>1. PICK d : d = Core
  OBVIOUS
<1>2. PICK v : v = Vec
  OBVIOUS
<1>3. PICK events : events = [i \in DOMAIN d.events |-> [d.events[i] EXCEPT !.x = @ - 1]]
  OBVIOUS
<1>4. PICK c : c = [d EXCEPT !.events = events]
  OBVIOUS
<1>5. /\ stage' = "commit" /\ UNCHANGED <<station, ready_queue, rslink_free, panicked, issuing>>
      /\ UNCHANGED <<queue, vectorVars, inst_seq, prog>>
      /\ UNCHANGED <<queue, executed, retired, prog, spec_mode, recover_PC, done>>
      /\ event_queue' = [i \in DOMAIN event_queue |-> [event_queue[i] EXCEPT !.x = @ - 1]]
  BY DEF NextCycle, dispatchVars, runVars, modeVars
<1>6. Body(prog, d, issuing, Flight(queue), inst_seq, v, {}, {}) /\ d.st = station
      /\ d.events = event_queue
  BY <1>1, <1>2, Invariants, CoreIsCore
<1>7. /\ c \in CoreType /\ c.st = d.st /\ Total(c, issuing) = Total(d, issuing)
      /\ Body(prog, c, issuing, Flight(queue), inst_seq, v, {}, {})
  BY <1>3, <1>4, <1>6, NearerIs
<1>8. Core' = c
  <2>1. event_queue' = events
    BY <1>3, <1>5, <1>6
  <2>2. Core' = [st |-> station, ready |-> ready_queue, events |-> events, free |-> rslink_free,
                 panic |-> panicked]
    BY <1>5, <2>1 DEF Core
  <2>3. QED
    BY <1>1, <1>4, <2>2 DEF Core
<1>9. MachineOK' /\ SameLine(station, station', Entries(queue, "RUU"))
  BY <1>1, <1>2, <1>5, <1>6, <1>7, <1>8, SameOpsSelf, CoreFrame
<1>10. issuing = <<>> /\ ~done
  BY DEF IInv, LoopOK
<1>11. QED
  BY <1>5, <1>9, <1>10, QuietFrame

LEMMA FetchKeeps ==
  ASSUME IInv, Fetch
  PROVE  Preserved
<1>1. PICK pred \in Predictions(fetch_pred_PC) :
        /\ fetch_data' = Append(fetch_data, [regs_PC |-> fetch_pred_PC, pred_PC |-> pred])
        /\ fetch_pred_PC' = pred
  BY DEF Fetch
<1>2. UNCHANGED <<coreVars, queue, vectorVars, inst_seq, prog, issuing>>
      /\ UNCHANGED <<queue, executed, retired, prog, spec_mode, recover_PC, done, stage, issuing>>
  BY DEF Fetch, dispatchVars, runVars, modeVars
<1>3. MachineOK' /\ (panicked' <=> panicked) /\ SameLine(station, station', Entries(queue, "RUU"))
  BY <1>2, MachineFrame
<1>4. PipelineOK'
  BY <1>2, <1>3, PipelineStays
<1>5. FetchOK(prog, fetch_data, fetch_pred_PC) /\ fetch_pred_PC \in Int /\ prog \in Programs
  BY DEF IInv, FetchedOK, FrontOK, FetchOK, LoopOK
<1>6. pred \in Int /\ ("CTRL" \notin InstOf(prog, fetch_pred_PC).flags => pred = fetch_pred_PC + 1)
  <2>1. Inst(fetch_pred_PC) = InstOf(prog, fetch_pred_PC)
    BY DEF Inst, InstOf
  <2>2. Inst(fetch_pred_PC).target \in Nat
    BY <1>5, <2>1, ProgramIs, InstructionParts
  <2>3. Len(prog) \in Nat
    BY <1>5, ProgramIs, LenProperties
  <2>4. CASE Is("CTRL", fetch_pred_PC)
    BY <1>1, <1>5, <2>1, <2>2, <2>3, <2>4 DEF Predictions, Is
  <2>5. CASE ~Is("CTRL", fetch_pred_PC)
    BY <1>1, <1>5, <2>1, <2>5 DEF Predictions, Is
  <2>6. QED
    BY <2>4, <2>5
<1>7. PICK fd2 : fd2 = Fetched(fetch_data, fetch_pred_PC, pred)
  OBVIOUS
<1>8. FetchOK(prog, fd2, pred) /\ First(fd2, pred) = First(fetch_data, fetch_pred_PC)
  <2>1. PICK fd : fd = fetch_data
    OBVIOUS
  <2>2. PICK fp : fp = fetch_pred_PC
    OBVIOUS
  <2>3. FetchOK(prog, fd, fp) /\ pred \in Int
        /\ ("CTRL" \notin InstOf(prog, fp).flags => pred = fp + 1)
        /\ fd2 = Fetched(fd, fp, pred)
    BY <1>5, <1>6, <1>7, <2>1, <2>2
  <2>4. FetchOK(prog, fd2, pred) /\ First(fd2, pred) = First(fd, fp)
    BY <2>3, FetchMore
  <2>5. QED
    BY <2>1, <2>2, <2>4
<1>9. FetchedOK'
  BY <1>1, <1>2, <1>7, <1>8 DEF IInv, FetchedOK, FrontOK, Fetched
<1>10. LoopOK'
  BY <1>2 DEF IInv, LoopOK
<1>11. QED
  BY <1>3, <1>4, <1>9, <1>10 DEF Preserved, IInv

LEMMA FetchStepsKeep ==
  ASSUME IInv, FetchBlocked \/ Fetch \/ FetchMiss \/ FetchEnds
  PROVE  Preserved
<1>1. CASE FetchBlocked \/ FetchMiss \/ FetchEnds
  <2>1. stage = "fetch" /\ NextCycle /\ UNCHANGED <<fetch_data, fetch_pred_PC>>
    BY <1>1 DEF FetchBlocked, FetchMiss, FetchEnds, CanFetch, frontVars
  <2>2. QED
    BY <2>1, NextCycleKeeps
<1>2. QED
  BY <1>1, FetchKeeps

-----------------------------------------------------------------------------
(* Commit *)

LEMMA HeadIs ==
  ASSUME NEW que, NEW q \in {"RUU", "LSQ"}, RingOK(que, q)
  PROVE  <<q, que[q].head>> = At(que, q, 0) /\ At(que, q, 0) \in Stations
<1>1. que[q].head \in 0 .. size[q] - 1 /\ size[q] \in Nat \ {0}
  BY RingIs
<1>2. (que[q].head + 0) % size[q] = que[q].head
  <2>1. PICK h \in Int : h = que[q].head
    BY <1>1
  <2>2. PICK N \in Nat \ {0} : N = size[q]
    BY <1>1
  <2>3. h + 0 = h /\ 0 <= h /\ h < N
    BY <1>1, <2>1, <2>2
  <2>4. h % N = h
    BY <2>3, Remainders
  <2>5. QED
    BY <2>1, <2>2, <2>3, <2>4
<1>3. 0 \in 0 .. size[q] - 1
  BY <1>1
<1>4. QED
  BY <1>2, <1>3, AtIs DEF At

\* Operations leave their stations, which get new tags.
Left(st, st2, X) ==
  st2 = [rs \in Stations |-> IF rs \in X THEN [st[rs] EXCEPT !.tag = @ + 1] ELSE st[rs]]

LEMMA LeftIs ==
  ASSUME NEW c \in CoreType, NEW X, NEW st2, Left(c.st, st2, X), NEW b \in BOOLEAN, NEW d,
         d = [st |-> st2, ready |-> c.ready, events |-> c.events, free |-> c.free, panic |-> b]
  PROVE  Retires(c, d, X)
<1>1. PICK st : st = c.st
  OBVIOUS
<1>2. /\ st \in [Stations -> StationType] /\ c.ready \in Seq(LinkType) /\ c.events \in Seq(LinkType)
      /\ c.free \in Int
  BY <1>1, CoreParts
<1>3. ASSUME NEW o \in Stations
      PROVE  /\ st2[o] \in StationType
             /\ st2[o].op = st[o].op /\ st2[o].pc = st[o].pc /\ st2[o].addr = st[o].addr
             /\ st2[o].seq = st[o].seq /\ st2[o].oname = st[o].oname
             /\ st2[o].ea_comp = st[o].ea_comp /\ st2[o].spec_mode = st[o].spec_mode
             /\ st2[o].recover_inst = st[o].recover_inst
             /\ st2[o].tag = IF o \in X THEN st[o].tag + 1 ELSE st[o].tag
             /\ st2[o].odep_list = st[o].odep_list /\ st2[o].idep_ready = st[o].idep_ready
             /\ st2[o].queued = st[o].queued /\ st2[o].issued = st[o].issued
             /\ st2[o].completed = st[o].completed
  <2>1. PICK s \in StationType : s = st[o]
    BY <1>2
  <2>2. PICK t : t = [s EXCEPT !.tag = @ + 1]
    OBVIOUS
  <2>3. /\ t \in StationType
        /\ t.op = s.op /\ t.pc = s.pc /\ t.addr = s.addr /\ t.seq = s.seq /\ t.oname = s.oname
        /\ t.ea_comp = s.ea_comp /\ t.spec_mode = s.spec_mode /\ t.recover_inst = s.recover_inst
        /\ t.tag = s.tag + 1 /\ t.odep_list = s.odep_list /\ t.idep_ready = s.idep_ready
        /\ t.queued = s.queued /\ t.issued = s.issued /\ t.completed = s.completed
    <3>1. PICK k \in Nat : k = s.tag + 1
      BY DEF StationType
    <3>2. s \in StationType /\ t = [s EXCEPT !.tag = k]
      BY <2>2, <3>1
    <3>3. t \in StationType
      BY <3>2 DEF StationType
    <3>4. /\ t.op = s.op /\ t.pc = s.pc /\ t.addr = s.addr /\ t.seq = s.seq /\ t.oname = s.oname
          /\ t.ea_comp = s.ea_comp /\ t.spec_mode = s.spec_mode
          /\ t.recover_inst = s.recover_inst
          /\ t.tag = k /\ t.odep_list = s.odep_list /\ t.idep_ready = s.idep_ready
          /\ t.queued = s.queued /\ t.issued = s.issued /\ t.completed = s.completed
      BY <3>2 DEF StationType
    <3>5. QED
      BY <3>1, <3>3, <3>4, Zenon
  <2>4. st2[o] = IF o \in X THEN t ELSE s
    BY <1>1, <2>1, <2>2 DEF Left
  <2>5. QED
    BY <2>1, <2>3, <2>4
<1>4. st2 \in [Stations -> StationType]
  BY <1>3 DEF Left
<1>5. /\ d.st = st2 /\ d.ready = c.ready /\ d.events = c.events /\ d.free = c.free
      /\ d \in CoreType
  BY <1>2, <1>4 DEF CoreType
<1>6. QED
  BY <1>1, <1>3, <1>5 DEF Retires, SameOps, Retagging

Lengths(kept, ret, m, u) == m = Len(ret) /\ Len(kept) = m + u /\ u > 0

LEMMA RetirementGrows ==
  ASSUME NEW kept, NEW ret, Retirement(kept, ret), NEW m \in Nat, NEW u \in Nat,
         Lengths(kept, ret, m, u), NEW ret2, ret2 = Append(ret, kept[m + 1])
  PROVE  Retirement(kept, ret2) /\ Len(ret2) = m + 1
<1>0. PICK pc : pc = kept[m + 1]
  OBVIOUS
<1>1. ret \in Seq(Int) /\ kept \in Seq(Int) /\ m \in Nat
  BY DEF Retirement
<1>2. m + 1 \in 1 .. Len(kept) /\ m = Len(ret)
  BY <1>1 DEF Lengths
<1>3. pc \in Int
  BY <1>0, <1>1, <1>2, ElementOfSeq
<1>4. /\ ret2 \in Seq(Int) /\ Len(ret2) = m + 1 /\ ret2[m + 1] = pc
      /\ \A i \in 1 .. m : ret2[i] = ret[i]
  BY <1>0, <1>1, <1>2, <1>3, AppendProperties
<1>5. ASSUME NEW i \in 1 .. m + 1
      PROVE  ret2[i] = kept[i]
  <2>1. i = m + 1 \/ i \in 1 .. m
    BY <1>1
  <2>2. QED
    BY <1>0, <1>2, <1>4, <2>1 DEF Retirement
<1>6. QED
  BY <1>1, <1>4, <1>5 DEF Retirement

LEMMA CommitKeeps ==
  ASSUME IInv, Commit
  PROVE  Preserved
<1>1. PICK c : c = Core
  OBVIOUS
<1>2. PICK v : v = Vec
  OBVIOUS
<1>3. /\ Machine(prog, c, issuing, queue, inst_seq, v) /\ c \in CoreType
      /\ c.st = station /\ c.ready = ready_queue /\ c.events = event_queue
      /\ c.free = rslink_free /\ c.panic = panicked /\ panicked \in BOOLEAN
      /\ RingOK(queue, "RUU") /\ RingOK(queue, "LSQ") /\ Queues(queue)
  BY <1>1, <1>2, Invariants, CoreIsCore
<1>4. PICK x0, y0 : x0 = At(queue, "RUU", 0) /\ y0 = At(queue, "LSQ", 0)
  OBVIOUS
<1>5. HeadOf("RUU") = x0 /\ HeadOf("LSQ") = y0
  BY <1>3, <1>4, HeadIs DEF HeadOf
<1>6. /\ queue["RUU"].num > 0 /\ station[x0].completed
      /\ HeadIsMem <=> station[x0].ea_comp
      /\ station[x0].ea_comp => station[y0].completed
  BY <1>5 DEF Commit, CanCommit, HeadIsMem
<1>7. PICK X : X = {x0} \cup (IF station[x0].ea_comp THEN {y0} ELSE {})
  OBVIOUS
<1>8. X = {HeadOf("RUU")} \cup (IF HeadIsMem THEN {HeadOf("LSQ")} ELSE {})
  BY <1>5, <1>6, <1>7
<1>9. /\ station' = [rs \in Stations |-> IF rs \in X THEN [station[rs] EXCEPT !.tag = @ + 1]
                                         ELSE station[rs]]
      /\ queue' = [q \in DOMAIN queue |-> IF HeadOf(q) \in X THEN DropHead(q) ELSE queue[q]]
      /\ panicked' = (panicked \/ (HeadIsMem /\ queue["LSQ"].num = 0) \/ station[x0].odep_list # <<>>)
  BY <1>5, <1>8 DEF Commit
<1>10. /\ UNCHANGED <<ready_queue, event_queue, rslink_free, create_vector, spec_create_vector,
                      use_spec_cv, fetch_data, fetch_pred_PC, spec_mode, recover_PC, inst_seq,
                      executed, stage, issuing, prog, done>>
       /\ retired' = Append(retired, station[x0].pc)
  BY <1>5 DEF Commit, vectorVars, frontVars, modeVars, dispatchVars, runVars
<1>11. PICK m, u, kept : m = Len(retired) /\ u = Unretired /\ kept = Kept(prog, executed)
  OBVIOUS
<1>12. Line(c.st, queue, kept, m, u, spec_mode) /\ Retirement(kept, retired)
  BY <1>3, <1>11 DEF IInv, PipelineOK
<1>13. DOMAIN queue = {"RUU", "LSQ"}
  BY <1>3 DEF Queues
<1>14. /\ queue' = [RUU |-> queue'["RUU"], LSQ |-> queue'["LSQ"]]
       /\ Dropped(queue, queue', "RUU")
       /\ station[x0].ea_comp => Dropped(queue, queue', "LSQ")
       /\ ~station[x0].ea_comp => queue'["LSQ"] = queue["LSQ"]
  <2>1. x0 \in X /\ (y0 \in X <=> station[x0].ea_comp)
    <3>1. x0 # y0
      BY <1>4 DEF At
    <3>2. QED
      BY <1>7, <3>1
  <2>2. DOMAIN queue' = {"RUU", "LSQ"}
    BY <1>9, <1>13
  <2>3. queue' = [RUU |-> queue'["RUU"], LSQ |-> queue'["LSQ"]]
    BY <1>9, <1>13
  <2>4. queue'["RUU"] = DropHead("RUU")
        /\ queue'["LSQ"] = IF station[x0].ea_comp THEN DropHead("LSQ") ELSE queue["LSQ"]
    BY <1>5, <1>9, <1>13, <2>1
  <2>5. QED
    BY <2>3, <2>4 DEF Dropped, DropHead
<1>15. PICK d : d = Core'
  OBVIOUS
<1>16. Retires(c, d, X)
  <2>1. PICK st2 : st2 = station'
    OBVIOUS
  <2>2. PICK b \in BOOLEAN : b = panicked'
    BY <1>3, <1>9
  <2>3. d = [st |-> st2, ready |-> c.ready, events |-> c.events, free |-> c.free, panic |-> b]
    BY <1>3, <1>10, <1>15, <2>1, <2>2 DEF Core
  <2>4. Left(c.st, st2, X)
    BY <1>3, <1>9, <2>1 DEF Left
  <2>5. QED
    BY <1>3, <2>3, <2>4, LeftIs
<1>17. d.st = station'
  BY <1>15 DEF Core
<1>18. SameLine(c.st, d.st, Entries(queue, "RUU"))
  <2>1. Entries(queue, "RUU") \subseteq Stations
    BY <1>3, EntriesAre
  <2>2. QED
    BY <1>16, <2>1 DEF Retires, SameOps, SameLine
<1>19. PICK que2 : que2 = queue'
  OBVIOUS
<1>20. /\ u > 0 /\ ~c.st[x0].spec_mode /\ c.st[x0].pc = kept[m + 1]
       /\ Line(d.st, que2, kept, m + 1, u - 1, spec_mode)
  BY <1>3, <1>4, <1>6, <1>12, <1>14, <1>18, <1>19, LineRetires
<1>21. Machine(prog, d, issuing, que2, inst_seq, v) /\ c.st[x0].odep_list = <<>>
  <2>1. Pair(c.st, x0, y0, X) /\ HeadsDropped(queue, que2, c.st[x0].ea_comp)
    BY <1>3, <1>7, <1>14, <1>19 DEF Pair, HeadsDropped, Queues
  <2>2. Machine(prog, c, issuing, queue, inst_seq, v) /\ x0 = At(queue, "RUU", 0) /\ y0 = At(queue, "LSQ", 0)
        /\ queue["RUU"].num > 0 /\ c.st[x0].completed /\ ~c.st[x0].spec_mode
        /\ (c.st[x0].ea_comp => c.st[y0].completed)
    BY <1>3, <1>4, <1>6, <1>20
  <2>3. QED
    BY <1>16, <2>1, <2>2, MachineRetires
<1>22. MachineOK'
  <2>1. Vec' = v
    BY <1>2, <1>10 DEF Vec
  <2>2. QED
    BY <1>10, <1>15, <1>19, <1>21, <2>1 DEF MachineOK
<1>23. PipelineOK'
  <2>1. u \in Nat /\ m \in Nat /\ Len(kept) = m + u
    BY <1>12 DEF Line
  <2>2. Retirement(kept, retired') /\ Len(retired') = m + 1
    <3>1. PICK ret : ret = retired
      OBVIOUS
    <3>2. PICK ret2 : ret2 = Append(ret, kept[m + 1])
      OBVIOUS
    <3>3. Retirement(kept, ret2) /\ Len(ret2) = m + 1
      <4>1. Retirement(kept, ret) /\ Lengths(kept, ret, m, u)
        BY <1>11, <1>12, <1>20, <2>1, <3>1 DEF Lengths
      <4>2. QED
        BY <2>1, <3>2, <4>1, RetirementGrows
    <3>4. retired' = ret2
      BY <1>3, <1>10, <1>20, <3>1, <3>2
    <3>5. QED
      BY <3>3, <3>4
  <2>3. Unretired' = u - 1
    BY <1>10, <1>11, <2>1, <2>2 DEF Unretired
  <2>4. QED
    BY <1>10, <1>11, <1>17, <1>19, <1>20, <2>2, <2>3 DEF PipelineOK
<1>24. FetchedOK' /\ LoopOK'
  BY <1>10 DEF IInv, FetchedOK, LoopOK
<1>25. panicked' <=> panicked
  <2>1. c.st[x0].ea_comp => queue["LSQ"].num > 0
    BY <1>3, <1>4, <1>6, HeadsAre
  <2>2. queue["LSQ"].num > 0 => queue["LSQ"].num # 0
    OBVIOUS
  <2>3. QED
    BY <1>3, <1>6, <1>9, <1>21, <2>1, <2>2
<1>26. QED
  BY <1>22, <1>23, <1>24, <1>25 DEF Preserved, IInv

-----------------------------------------------------------------------------
(* Writeback *)

LEMMA BodyPanics ==
  ASSUME NEW p, NEW c, NEW iss, NEW W, NEW sq, NEW v, NEW D, NEW E,
         Body(p, c, iss, W, sq, v, D, E), NEW b \in BOOLEAN, NEW d, d = Panic(c, b)
  PROVE  /\ Body(p, d, iss, W, sq, v, D, E) /\ d \in CoreType /\ d.st = c.st /\ d.free = c.free
         /\ Total(d, iss) = Total(c, iss) /\ d.panic = (c.panic \/ b)
<1>1. c \in CoreType
  BY DEF Body
<1>2. /\ d \in CoreType /\ d.st = c.st /\ d.ready = c.ready /\ d.events = c.events /\ d.free = c.free
      /\ d.panic = (c.panic \/ b)
  BY <1>1, PanicIs
<1>3. Body(p, d, iss, W, sq, v, D, E)
  BY <1>2 DEF Body
<1>4. Total(d, iss) = Total(c, iss)
  BY <1>2 DEF Total, LinksOf
<1>5. QED
  BY <1>2, <1>3, <1>4

\* From what is known of the machine, the machine.
LEMMA MachineIs ==
  ASSUME NEW p, NEW st, NEW d, NEW iss, NEW que, NEW sq, NEW v, QueuesOK(st, que),
         OperationsOK(p, st, Entries(que, "RUU"), Entries(que, "LSQ")), SameOps(st, d.st),
         Body(p, d, iss, Flight(que), sq, v, {}, {}), Total(d, iss) = MAX_RS_LINKS
  PROVE  Machine(p, d, iss, que, sq, v)
<1>1. /\ RingOK(que, "RUU") /\ InOrder(st, que, "RUU")
      /\ RingOK(que, "LSQ") /\ InOrder(st, que, "LSQ")
  BY DEF QueuesOK
<1>2. Entries(que, "RUU") \subseteq Stations /\ Entries(que, "LSQ") \subseteq Stations
  BY <1>1, EntriesAre
<1>3. OperationsOK(p, d.st, Entries(que, "RUU"), Entries(que, "LSQ"))
  BY <1>2, SameOperations
<1>4. QueuesOK(d.st, que)
  <2>1. \A x \in Stations : d.st[x].seq = st[x].seq
    BY DEF SameOps
  <2>2. InOrder(d.st, que, "RUU") /\ InOrder(d.st, que, "LSQ")
    BY <1>1, <1>2, <2>1, SameInOrder
  <2>3. QED
    BY <1>1, <2>2 DEF QueuesOK
<1>5. QED
  BY <1>3, <1>4 DEF Machine

LEMMA SameOpsTwice ==
  ASSUME NEW st, NEW st2, NEW st3, SameOps(st, st2), SameOps(st2, st3)
  PROVE  SameOps(st, st3)
BY DEF SameOps

\* An operation is due when it has issued and not completed.
NotDue(s) == ~OPERANDS_READY(s) \/ s.queued \/ ~s.issued \/ s.completed

\* rs is due in c.
IsDue(c, rs) ==
  /\ c \in CoreType /\ c.st = station /\ c.free = rslink_free + 1 /\ (c.panic <=> panicked)
  /\ Total(c, issuing) = MAX_RS_LINKS
  /\ rs \in Flight(queue) /\ station[rs].issued /\ ~station[rs].completed
  /\ Body(prog, c, issuing, Flight(queue), inst_seq, Vec, {rs}, {})

LEMMA DueIs ==
  ASSUME IInv, EventDue, RSLINK_VALID(station, Head(event_queue)),
         NEW rs, rs = Head(event_queue).rs, NEW c, c = Panic(NextEvent, NotDue(station[rs]))
  PROVE  IsDue(c, rs)
<1>1. PICK d : d = Core
  OBVIOUS
<1>2. PICK v : v = Vec
  OBVIOUS
<1>3. PICK e : e = NextEvent
  OBVIOUS
<1>4. PICK W : W = Flight(queue)
  OBVIOUS
<1>5. /\ Body(prog, d, issuing, W, inst_seq, v, {}, {}) /\ d.st = station
      /\ d.panic = panicked /\ d.events = event_queue /\ d.free = rslink_free
      /\ Total(d, issuing) = MAX_RS_LINKS
  BY <1>1, <1>2, <1>4, Invariants, CoreIsCore
<1>6. e = EventTaken(d)
  BY <1>1, <1>3 DEF NextEvent, EventTaken
<1>7. d.events # <<>> /\ RSLINK_VALID(d.st, Head(d.events)) /\ rs = Head(d.events).rs
  BY <1>5 DEF EventDue
<1>8. Due(prog, d, e, issuing, W, inst_seq, v)
  BY <1>5, <1>6, <1>7, TakeEvent
<1>9. /\ e \in CoreType /\ e.st = station /\ e.panic = panicked /\ e.free = rslink_free + 1
      /\ Total(e, issuing) = MAX_RS_LINKS
      /\ rs \in W /\ station[rs].issued /\ ~station[rs].completed
      /\ Body(prog, e, issuing, W, inst_seq, v, {rs}, {})
  BY <1>5, <1>7, <1>8 DEF Due
<1>10. ~NotDue(station[rs])
  <2>1. StatusOK(d.st, W, {})
    BY <1>5 DEF Body
  <2>2. QED
    BY <1>5, <1>9, <2>1 DEF StatusOK, NotDue
<1>11. PICK b \in BOOLEAN : b = NotDue(station[rs])
  BY DEF NotDue
<1>12. ~b /\ c = Panic(e, b)
  BY <1>3, <1>10, <1>11
<1>13. /\ Body(prog, c, issuing, W, inst_seq, v, {rs}, {}) /\ c \in CoreType
       /\ c.st = e.st /\ c.free = e.free
       /\ Total(c, issuing) = Total(e, issuing) /\ c.panic = (e.panic \/ b)
  BY <1>9, <1>12, BodyPanics
<1>14. QED
  BY <1>2, <1>4, <1>9, <1>12, <1>13 DEF IsDue

\* What the create vectors forget.
LEMMA ForgottenIs ==
  ASSUME NEW rs,
         IF station[rs].spec_mode
         THEN /\ spec_create_vector' = CreatorDone(spec_create_vector, rs)
              /\ UNCHANGED create_vector
         ELSE /\ create_vector' = CreatorDone(create_vector, rs)
              /\ UNCHANGED spec_create_vector,
         NEW v, v.cv = create_vector, v.scv = spec_create_vector, v.ucv = use_spec_cv',
         NEW v2, v2 = Vec'
  PROVE  Finished(station, v, v2, rs)
<1>1. v2.cv = create_vector' /\ v2.scv = spec_create_vector' /\ v2.ucv = use_spec_cv'
  BY DEF Vec
<1>2. CreatorDone(spec_create_vector, rs) = Forgotten(spec_create_vector, station[rs].oname, rs)
      /\ CreatorDone(create_vector, rs) = Forgotten(create_vector, station[rs].oname, rs)
  BY DEF CreatorDone, Forgotten
<1>3. QED
  BY <1>1, <1>2 DEF Finished

\* A result that ends no wrong path.
LEMMA WritebackPlain ==
  ASSUME IInv, NEW rs, NEW c, IsDue(c, rs), NEW d, d = Broadcast(c, rs), CoreIs(d),
         ~station[rs].recover_inst, NEW v, v = Vec, NEW v2, v2 = Vec', Finished(station, v, v2, rs),
         stage = "writeback",
         UNCHANGED <<queue, executed, retired, prog, spec_mode, fetch_data, fetch_pred_PC, recover_PC,
                     done, inst_seq, stage, issuing>>
  PROVE  Preserved
<1>1. PICK W : W = Flight(queue)
  OBVIOUS
<1>2. PICK d0 : d0 = Core
  OBVIOUS
<1>3. /\ rs \in W /\ c.st = station /\ station[rs].issued /\ ~station[rs].completed
      /\ Body(prog, c, issuing, W, inst_seq, v, {rs}, {})
      /\ c.free = rslink_free + 1 /\ (c.panic <=> panicked) /\ Total(c, issuing) = MAX_RS_LINKS
  BY <1>1 DEF IsDue
<1>4. /\ d \in CoreType /\ Body(prog, d, issuing, W, inst_seq, v2, {}, {})
      /\ Total(d, issuing) = Total(c, issuing)
      /\ SameOps(station, d.st)
      /\ \A o \in Stations : d.st[o].completed <=> station[o].completed \/ o = rs
      /\ (c.free >= 1 => (d.panic <=> c.panic))
  <2>1. Finished(c.st, v, v2, rs) /\ Ending(prog, c, issuing, W, inst_seq, v, rs)
    BY <1>3 DEF Ending
  <2>2. /\ d \in CoreType /\ Body(prog, d, issuing, W, inst_seq, v2, {}, {})
        /\ Total(d, issuing) = Total(c, issuing)
        /\ SameOps(c.st, d.st)
        /\ \A o \in Stations : d.st[o].completed <=> c.st[o].completed \/ o = rs
        /\ (c.free >= 1 => (d.panic <=> c.panic))
    BY <2>1, FinishBody DEF Ended
  <2>3. QED
    BY <1>3, <2>2
<1>5. Core' = d /\ station' = d.st /\ panicked' = d.panic
  BY <1>4, CoreSets
<1>6. /\ Machine(prog, d0, issuing, queue, inst_seq, v) /\ d0.st = station
      /\ Total(d0, issuing) = MAX_RS_LINKS
  BY <1>2, Invariants, CoreIsCore
<1>7. Machine(prog, d, issuing, queue, inst_seq, v2)
  BY <1>1, <1>3, <1>4, <1>6, MachineSame
<1>8. MachineOK'
  BY <1>5, <1>7 DEF MachineOK
<1>9. SameLine(station, station', Entries(queue, "RUU"))
  BY <1>4, <1>5, NoStores DEF SameLine, SameOps
<1>10. (done <=> stage' = "exit") /\ (stage' # "issue" => issuing' = <<>>)
  BY DEF IInv, LoopOK
<1>11. LinksSuffice => (panicked' <=> panicked)
  <2>1. rslink_free \in Int
    BY Invariants
  <2>2. LinksSuffice => rslink_free + 1 >= 1
    BY <2>1 DEF LinksSuffice
  <2>3. QED
    BY <1>3, <1>4, <1>5, <2>2
<1>12. QED
  BY <1>8, <1>9, <1>10, <1>11, QuietFrame

\* A mispredicted branch completes, and the wrong path is squashed.
Fix(c, rs) ==
  Broadcast(Panic(Squash(c, SquashedBy(rs[2])),
                  ~spec_mode \/ AccessesAfter(rs[2]) > queue["LSQ"].num), rs)

\* Where in the RUU it is.
LEMMA RecoveringIs ==
  ASSUME IInv, NEW rs \in Flight(queue), station[rs].recover_inst, ~station[rs].completed
  PROVE  \E i \in 0 .. queue["RUU"].num - 1 :
           /\ rs = At(queue, "RUU", i) /\ spec_mode /\ LastRight(station, queue, i)
           /\ ~station[rs].spec_mode /\ rs = <<"RUU", rs[2]>>
<1>1. PICK c, v : c = Core /\ v = Vec
  OBVIOUS
<1>2. Machine(prog, c, issuing, queue, inst_seq, v) /\ c.st = station /\ RingOK(queue, "RUU")
  BY <1>1, Invariants, CoreIsCore
<1>3. rs \in Entries(queue, "RUU")
  <2>1. \A y \in Entries(queue, "LSQ") : InLSQ(prog, station, y, Entries(queue, "RUU"))
    BY <1>2, InFlight
  <2>2. rs \notin Entries(queue, "LSQ")
    BY <2>1 DEF InLSQ
  <2>3. QED
    BY <2>2 DEF Flight
<1>4. PICK i \in 0 .. queue["RUU"].num - 1 : rs = At(queue, "RUU", i)
  BY <1>2, <1>3, EntriesAre
<1>5. queue["RUU"].num \in Nat
  <2>1. queue["RUU"].num \in 0 .. size["RUU"] /\ size["RUU"] \in Nat
    BY <1>2, RingIs
  <2>2. QED
    BY <2>1
<1>6. PICK kept, m, u : Line(station, queue, kept, m, u, spec_mode)
  BY DEF IInv, PipelineOK
<1>7. spec_mode /\ LastRight(station, queue, i) /\ ~station[rs].spec_mode
  <2>1. Recovering(station, queue, i, rs)
    BY <1>4, <1>5 DEF Recovering
  <2>2. Mispredicting(station, queue, i, rs, spec_mode)
    BY <1>6, <2>1, LineRecovers
  <2>3. QED
    BY <2>2 DEF Mispredicting
<1>8. rs = <<"RUU", rs[2]>>
  BY <1>4 DEF At
<1>9. QED
  BY <1>4, <1>7, <1>8

\* What is left of the machine when the wrong path is squashed.
Recovered(d, rs, v2, que2) ==
  /\ d \in CoreType /\ Machine(prog, d, issuing, que2, inst_seq, v2)
  /\ SameOps(station, d.st)
  /\ \A o \in Stations : d.st[o].completed <=> station[o].completed \/ o = rs
  /\ rslink_free >= 0 => (d.panic <=> panicked)

LEMMA FixIs ==
  ASSUME IInv, NEW rs, NEW c, IsDue(c, rs), NEW d, d = Fix(c, rs),
         NEW i \in 0 .. queue["RUU"].num - 1, rs = At(queue, "RUU", i), spec_mode,
         LastRight(station, queue, i), ~station[rs].spec_mode,
         NEW que2, Recovers(queue, que2, rs[2]),
         NEW v, v = Bare(Vec),
         NEW v2, Finished(station, v, v2, rs)
  PROVE  /\ Recovered(d, rs, v2, que2)
         /\ que2["RUU"].num = i + 1 /\ \A k : At(que2, "RUU", k) = At(queue, "RUU", k)
<1>1. PICK W : W = Flight(queue)
  OBVIOUS
<1>2. PICK v0 : v0 = Vec
  OBVIOUS
<1>3. PICK d0 : d0 = Core
  OBVIOUS
<1>4. /\ rs \in W /\ c.st = station /\ station[rs].issued /\ ~station[rs].completed
      /\ Body(prog, c, issuing, W, inst_seq, v0, {rs}, {}) /\ c \in CoreType
      /\ c.free = rslink_free + 1 /\ (c.panic <=> panicked) /\ Total(c, issuing) = MAX_RS_LINKS
  BY <1>1, <1>2 DEF IsDue
<1>5. Machine(prog, d0, issuing, queue, inst_seq, v0) /\ d0.st = station /\ W \subseteq Stations
  BY <1>1, <1>2, <1>3, Invariants, CoreIsCore
<1>6. PICK b : b = rs[2]
  OBVIOUS
<1>7. /\ AccessesAfter(b) <= queue["LSQ"].num
      /\ SquashedBy(b) = W \ Right(station, W)
      /\ Flight(que2) = Right(station, W)
      /\ QueuesOK(station, que2)
      /\ OperationsOK(prog, station, Entries(que2, "RUU"), Entries(que2, "LSQ"))
      /\ que2["RUU"].num = i + 1 /\ \A k : At(que2, "RUU", k) = At(queue, "RUU", k)
  <2>1. PICK que : que = queue
    OBVIOUS
  <2>2. b = At(que, "RUU", i)[2] /\ LastRight(d0.st, que, i) /\ Recovers(que, que2, b)
    BY <1>5, <1>6, <2>1
  <2>3. Machine(prog, d0, issuing, que, inst_seq, v0)
    BY <1>5, <2>1
  <2>4. i \in 0 .. que["RUU"].num - 1
    BY <2>1
  <2>5. /\ AccessesAfter(b) <= que["LSQ"].num
        /\ SquashedBy(b) = Flight(que) \ Right(d0.st, Flight(que))
        /\ Flight(que2) = Right(d0.st, Flight(que))
        /\ QueuesOK(d0.st, que2)
        /\ OperationsOK(prog, d0.st, Entries(que2, "RUU"), Entries(que2, "LSQ"))
        /\ que2["RUU"].num = i + 1 /\ \A k : At(que2, "RUU", k) = At(que, "RUU", k)
    BY <1>5, <2>1, <2>2, <2>3, <2>4, RecoverIs
  <2>6. QED
    BY <1>1, <1>5, <2>1, <2>5
<1>8. PICK W2, X, q : W2 = Right(station, W) /\ X = W \ W2 /\ q = Squash(c, X)
  OBVIOUS
<1>9. Squashed(c, q, X)
  BY <1>4, <1>5, <1>8, SquashIs
<1>10. Ending(prog, q, issuing, W2, inst_seq, v, rs) /\ Total(q, issuing) = Total(c, issuing)
  <2>1. Ending(prog, c, issuing, W, inst_seq, v0, rs) /\ ~c.st[rs].spec_mode /\ v = Bare(v0)
    BY <1>2, <1>4 DEF Ending
  <2>2. W2 = Right(c.st, W)
    BY <1>4, <1>8
  <2>3. QED
    BY <1>8, <1>9, <2>1, <2>2, SquashBody
<1>11. PICK x \in BOOLEAN : x = (~spec_mode \/ AccessesAfter(b) > queue["LSQ"].num)
  OBVIOUS
<1>12. PICK g : g = Panic(q, x)
  OBVIOUS
<1>13. ~x
  <2>1. AccessesAfter(b) \in Int /\ queue["LSQ"].num \in Int
    <3>1. queue["LSQ"].num \in 0 .. size["LSQ"] /\ RingOK(queue, "RUU") /\ queue["RUU"].num \in 0 .. size["RUU"]
          /\ size["RUU"] \in Nat
      BY Invariants, RingIs
    <3>2. i + 1 \in 0 .. queue["RUU"].num
      BY <3>1
    <3>3. IsFiniteSet(After(b))
      BY <1>6, <3>1, <3>2, AfterIs, FromSize
    <3>4. AccessesAfter(b) \in Nat
      <4>1. PICK S : S = {z \in After(b) : station[z].ea_comp}
        OBVIOUS
      <4>2. IsFiniteSet(S)
        BY <3>3, <4>1, FS_Subset
      <4>3. Cardinality(S) \in Nat
        BY <4>2, FS_CardinalityType
      <4>4. QED
        BY <4>1, <4>3 DEF AccessesAfter
    <3>5. QED
      BY <3>1, <3>4
  <2>2. QED
    <3>1. PICK A, N \in Int : A = AccessesAfter(b) /\ N = queue["LSQ"].num
      BY <2>1
    <3>2. A <= N
      BY <1>7, <3>1
    <3>3. ~(A > N)
      BY <3>1, <3>2
    <3>4. QED
      BY <1>11, <3>1, <3>3
<1>14. /\ Ending(prog, g, issuing, W2, inst_seq, v, rs) /\ Total(g, issuing) = Total(c, issuing)
       /\ g.st = q.st /\ g.free = q.free /\ (g.panic <=> q.panic)
  <2>1. PICK D, E : D = {rs} /\ E = {}
    OBVIOUS
  <2>2. Body(prog, q, issuing, W2, inst_seq, v, D, E)
    BY <1>10, <2>1 DEF Ending
  <2>3. /\ Body(prog, g, issuing, W2, inst_seq, v, D, E) /\ g.st = q.st /\ g.free = q.free
        /\ Total(g, issuing) = Total(q, issuing) /\ g.panic = (q.panic \/ x)
    BY <1>12, <2>2, BodyPanics
  <2>4. q.panic \in BOOLEAN
    BY <1>9, CoreParts DEF Squashed
  <2>5. QED
    BY <1>10, <1>13, <2>1, <2>3, <2>4 DEF Ending
<1>15. Ended(prog, g, d, issuing, W2, inst_seq, v2, rs)
  <2>1. d = Broadcast(g, rs)
    BY <1>6, <1>7, <1>8, <1>11, <1>12 DEF Fix
  <2>2. Finished(g.st, v, v2, rs)
    <3>1. rs \in Stations
      BY <1>4, <1>5
    <3>2. g.st[rs].oname = station[rs].oname /\ g.st[rs].spec_mode = station[rs].spec_mode
      BY <1>4, <1>9, <1>14, <3>1 DEF Squashed, SameOps
    <3>3. QED
      BY <3>2 DEF Finished
  <2>3. QED
    BY <1>14, <2>1, <2>2, FinishBody
<1>16. /\ d \in CoreType /\ SameOps(station, d.st)
       /\ \A o \in Stations : d.st[o].completed <=> station[o].completed \/ o = rs
       /\ Total(d, issuing) = MAX_RS_LINKS
       /\ Body(prog, d, issuing, Flight(que2), inst_seq, v2, {}, {})
       /\ g.free >= 1 => (d.panic <=> g.panic)
  <2>1. SameOps(g.st, d.st) /\ SameOps(station, g.st)
    BY <1>4, <1>9, <1>14, <1>15 DEF Ended, Squashed
  <2>2. SameOps(station, d.st)
    BY <2>1, SameOpsTwice
  <2>3. \A o \in Stations : g.st[o].completed = station[o].completed
    BY <1>4, <1>9, <1>14 DEF Squashed
  <2>4. QED
    BY <1>4, <1>7, <1>8, <1>14, <1>15, <2>2, <2>3 DEF Ended
<1>17. Machine(prog, d, issuing, que2, inst_seq, v2)
  BY <1>7, <1>16, MachineIs
<1>18. rslink_free >= 0 => (d.panic <=> panicked)
  <2>1. rslink_free \in Int /\ q.free \in Int /\ q.free >= c.free /\ q.panic = c.panic
    BY <1>9, Invariants, CoreParts DEF Squashed
  <2>2. rslink_free >= 0 => g.free >= 1
    BY <1>4, <1>14, <2>1
  <2>3. QED
    BY <1>4, <1>14, <1>16, <2>1, <2>2
<1>19. QED
  BY <1>7, <1>16, <1>17, <1>18 DEF Recovered

LEMMA WritebackFixes ==
  ASSUME IInv, NEW rs, NEW c, IsDue(c, rs), NEW d, d = Fix(c, rs), CoreIs(d),
         station[rs].recover_inst, ruu_recover(rs[2]), tracer_recover,
         NEW v, v = Bare(Vec), NEW v2, v2 = Vec', Finished(station, v, v2, rs),
         stage = "writeback",
         UNCHANGED <<executed, retired, prog, recover_PC, done, inst_seq, stage, issuing>>
  PROVE  Preserved
<1>1. rs \in Flight(queue) /\ ~station[rs].completed
  BY DEF IsDue
<1>2. PICK i \in 0 .. queue["RUU"].num - 1 :
        /\ rs = At(queue, "RUU", i) /\ spec_mode /\ LastRight(station, queue, i)
        /\ ~station[rs].spec_mode /\ rs = <<"RUU", rs[2]>>
  BY <1>1, RecoveringIs
<1>3. PICK que2 : que2 = queue'
  OBVIOUS
<1>4. Recovers(queue, que2, rs[2])
  <2>1. que2 = [RUU |-> [queue["RUU"] EXCEPT !.tail = (rs[2] + 1) % RUU_size,
                                            !.num = @ - Cardinality(After(rs[2]))],
                LSQ |-> [queue["LSQ"] EXCEPT !.tail = (@ - AccessesAfter(rs[2])) % LSQ_size,
                                            !.num = @ - AccessesAfter(rs[2])]]
    BY <1>3 DEF ruu_recover
  <2>2. que2 = [RUU |-> que2["RUU"], LSQ |-> que2["LSQ"]]
    BY <2>1
  <2>3. que2["RUU"] = [queue["RUU"] EXCEPT !.tail = (rs[2] + 1) % RUU_size,
                                           !.num = queue["RUU"].num - Cardinality(After(rs[2]))]
    BY <2>1
  <2>4. que2["LSQ"] = [queue["LSQ"] EXCEPT !.tail = (queue["LSQ"].tail - AccessesAfter(rs[2])) % LSQ_size,
                                           !.num = queue["LSQ"].num - AccessesAfter(rs[2])]
    BY <2>1
  <2>5. QED
    BY <2>2, <2>3, <2>4 DEF Recovers, CutTo
<1>5. /\ Recovered(d, rs, v2, que2)
      /\ que2["RUU"].num = i + 1 /\ \A k : At(que2, "RUU", k) = At(queue, "RUU", k)
  BY <1>2, <1>4, FixIs
<1>6. /\ d \in CoreType /\ Machine(prog, d, issuing, que2, inst_seq, v2)
      /\ SameOps(station, d.st)
      /\ \A o \in Stations : d.st[o].completed <=> station[o].completed \/ o = rs
      /\ rslink_free >= 0 => (d.panic <=> panicked)
  BY <1>5 DEF Recovered
<1>7. Core' = d /\ station' = d.st /\ panicked' = d.panic
  BY <1>6, CoreSets
<1>8. MachineOK'
  BY <1>3, <1>6, <1>7 DEF MachineOK
<1>9. ~spec_mode' /\ fetch_data' = <<>> /\ fetch_pred_PC' = recover_PC
  BY DEF tracer_recover
<1>10. PipelineOK'
  <2>1. PICK kept, m, u : kept = Kept(prog, executed) /\ m = Len(retired) /\ u = Unretired
    OBVIOUS
  <2>2. Line(station, queue, kept, m, u, spec_mode) /\ Retirement(kept, retired)
    BY <2>1 DEF IInv, PipelineOK
  <2>3. RingOK(queue, "RUU") /\ queue["RUU"].num \in 0 .. size["RUU"] /\ size["RUU"] \in Nat
    BY Invariants, RingIs
  <2>4. Recovering(station, queue, i, rs)
    BY <1>1, <1>2, <2>3 DEF Recovering
  <2>5. Fixed(station, d.st, queue, que2, i, rs)
    <3>1. ASSUME NEW k \in 0 .. i
          PROVE  At(queue, "RUU", k) \in Stations
      <4>1. k \in 0 .. queue["RUU"].num - 1
        BY <2>3
      <4>2. QED
        BY <2>3, <4>1, EntriesAre
    <3>2. QED
      BY <1>5, <1>6, <3>1 DEF Fixed
  <2>6. Line(d.st, que2, kept, m, u, FALSE)
    BY <2>2, <2>4, <2>5, LineRecovers
  <2>7. Unretired' = u /\ Kept(prog, executed)' = kept /\ retired' = retired
    BY <2>1 DEF Unretired
  <2>8. spec_mode' = FALSE
    BY DEF tracer_recover
  <2>9. QED
    BY <1>3, <1>7, <2>1, <2>2, <2>6, <2>7, <2>8 DEF PipelineOK
<1>11. FetchedOK'
  <2>1. /\ executed \in Seq(DOMAIN prog) /\ recover_PC \in Int
        /\ ~done => FollowerOf(prog, executed) \in DOMAIN prog
        /\ ~done => recover_PC = FollowerOf(prog, executed)
    BY <1>2 DEF IInv, FetchedOK, FrontOK
  <2>2. PICK fd, fp : fd = fetch_data' /\ fp = fetch_pred_PC'
    OBVIOUS
  <2>3. fd = <<>> /\ fp \in Int /\ fp = recover_PC
    BY <1>9, <2>1, <2>2
  <2>4. FetchOK(prog, fd, fp) /\ First(fd, fp) = fp
    BY <2>3, FetchNone
  <2>5. FrontOK(prog, fd, fp, executed, FALSE, recover_PC, done)
    BY <2>1, <2>3, <2>4 DEF FrontOK
  <2>6. spec_mode' = FALSE
    BY DEF tracer_recover
  <2>7. QED
    BY <2>2, <2>5, <2>6 DEF FetchedOK
<1>12. LoopOK'
  BY <1>9 DEF IInv, LoopOK, tracer_recover
<1>13. LinksSuffice => (panicked' <=> panicked)
  <2>1. rslink_free \in Int
    BY Invariants
  <2>2. LinksSuffice => rslink_free >= 0
    BY <2>1 DEF LinksSuffice
  <2>3. QED
    BY <1>6, <1>7, <2>2
<1>14. QED
  BY <1>8, <1>10, <1>11, <1>12, <1>13 DEF Preserved, IInv

LEMMA WritebackKeeps ==
  ASSUME IInv, Writeback
  PROVE  Preserved
<1>1. PICK rs, c : rs = Head(event_queue).rs /\ c = Panic(NextEvent, NotDue(station[rs]))
  OBVIOUS
<1>2. /\ stage = "writeback" /\ EventDue /\ RSLINK_VALID(station, Head(event_queue))
      /\ IF station[rs].recover_inst
         THEN ruu_recover(rs[2]) /\ tracer_recover /\ CoreIs(Fix(c, rs))
         ELSE /\ CoreIs(Broadcast(c, rs))
              /\ UNCHANGED <<queue, use_spec_cv, spec_mode, fetch_data, fetch_pred_PC>>
      /\ IF station[rs].spec_mode
         THEN /\ spec_create_vector' = CreatorDone(spec_create_vector, rs)
              /\ UNCHANGED create_vector
         ELSE /\ create_vector' = CreatorDone(create_vector, rs)
              /\ UNCHANGED spec_create_vector
      /\ UNCHANGED <<executed, retired, prog, recover_PC, done, inst_seq, stage, issuing>>
  BY <1>1 DEF Writeback, NotDue, Fix, dispatchVars, runVars
<1>3. IsDue(c, rs)
  BY <1>1, <1>2, DueIs
<1>4. PICK v2 : v2 = Vec'
  OBVIOUS
<1>5. CASE station[rs].recover_inst
  <2>1. PICK v : v = Bare(Vec)
    OBVIOUS
  <2>2. v.cv = create_vector /\ v.scv = spec_create_vector /\ v.ucv = use_spec_cv'
    BY <1>2, <1>5, <2>1 DEF Bare, Vec, ruu_recover
  <2>3. Finished(station, v, v2, rs)
    BY <1>2, <1>4, <2>2, ForgottenIs
  <2>4. PICK d : d = Fix(c, rs)
    OBVIOUS
  <2>5. CoreIs(d) /\ ruu_recover(rs[2]) /\ tracer_recover
        /\ UNCHANGED <<executed, retired, prog, recover_PC, done, inst_seq, stage, issuing>>
    BY <1>2, <1>5, <2>4
  <2>6. QED
    BY <1>2, <1>3, <1>4, <1>5, <2>1, <2>3, <2>4, <2>5, WritebackFixes
<1>6. CASE ~station[rs].recover_inst
  <2>1. PICK v : v = Vec
    OBVIOUS
  <2>2. v.cv = create_vector /\ v.scv = spec_create_vector /\ v.ucv = use_spec_cv'
    BY <1>2, <1>6, <2>1 DEF Vec
  <2>3. Finished(station, v, v2, rs)
    BY <1>2, <1>4, <2>2, ForgottenIs
  <2>4. PICK d : d = Broadcast(c, rs)
    OBVIOUS
  <2>5. CoreIs(d)
        /\ UNCHANGED <<queue, executed, retired, prog, spec_mode, fetch_data, fetch_pred_PC, recover_PC,
                       done, inst_seq, stage, issuing>>
    BY <1>2, <1>6, <2>4
  <2>6. QED
    BY <1>2, <1>3, <1>4, <1>6, <2>1, <2>3, <2>4, <2>5, WritebackPlain
<1>7. QED
  BY <1>5, <1>6

-----------------------------------------------------------------------------
(* Dispatch *)

LEMMA InstIs ==
  ASSUME IInv
  PROVE  /\ \A pc : Inst(pc) = InstOf(prog, pc) /\ InstructionOK(Inst(pc))
         /\ prog \in Programs
<1>1. prog \in Programs
  BY DEF IInv, LoopOK
<1>2. \A pc : InstructionOK(InstOf(prog, pc))
  BY <1>1, ProgramIs
<1>3. \A pc : Inst(pc) = InstOf(prog, pc)
  BY DEF Inst, InstOf
<1>4. QED
  BY <1>1, <1>2, <1>3

\* The instruction that is dispatched.
LEMMA FetchedIs ==
  ASSUME IInv, fetch_data # <<>>
  PROVE  /\ FetchedPC \in Int /\ Head(fetch_data).pred_PC \in Int
         /\ ~Is("CTRL", FetchedPC) =>
              Head(fetch_data).pred_PC = FetchedPC + 1 /\ NPC(FetchedPC) = FetchedPC + 1
         /\ NPC(FetchedPC) = NextOf(InstOf(prog, FetchedPC), FetchedPC) /\ NPC(FetchedPC) \in Int
<1>1. PICK fd, fp, pc, pred : /\ fd = fetch_data /\ fp = fetch_pred_PC
                              /\ pc = Head(fd).regs_PC /\ pred = Head(fd).pred_PC
  OBVIOUS
<1>2. FetchOK(prog, fd, fp) /\ fd # <<>>
  BY <1>1 DEF IInv, FetchedOK, FrontOK
<1>3. pc \in Int /\ pred \in Int /\ ("CTRL" \notin InstOf(prog, pc).flags => pred = pc + 1)
  BY <1>1, <1>2, FetchTakes
<1>4. PICK i : i = Inst(pc)
  OBVIOUS
<1>5. i = InstOf(prog, pc) /\ InstructionOK(i)
  BY <1>4, InstIs
<1>6. i.target \in Nat /\ i.taken \in BOOLEAN /\ (i.taken => "CTRL" \in i.flags)
  BY <1>5, InstructionParts DEF InstructionOK
<1>7. FetchedPC = pc /\ Head(fetch_data).pred_PC = pred
  BY <1>1 DEF FetchedPC
<1>8. Is("CTRL", pc) <=> "CTRL" \in i.flags
  BY <1>4 DEF Is
<1>9. NPC(pc) = NextOf(i, pc)
  BY <1>4 DEF NPC, NextOf
<1>10. NextOf(i, pc) \in Int /\ ("CTRL" \notin i.flags => NextOf(i, pc) = pc + 1)
  BY <1>3, <1>6 DEF NextOf
<1>11. QED
  BY <1>3, <1>5, <1>7, <1>8, <1>9, <1>10

\* The front end is kept.
LEMMA FrontKept ==
  ASSUME IInv, stage = "dispatch", fetch_data # <<>>, ~Is("EXIT", FetchedPC), NEW npc \in Int,
         ~spec_mode => npc = NPC(FetchedPC), Dispatched(npc)
  PROVE  /\ FetchedOK' /\ LoopOK' /\ (~spec_mode => FetchedPC \in DOMAIN prog)
         /\ spec_mode \in BOOLEAN /\ Mispredicted(npc) \in BOOLEAN
<1>1. /\ spec_mode \in BOOLEAN /\ ~done /\ prog \in Programs
  BY DEF IInv, LoopOK
<1>2. PICK redirect \in BOOLEAN : redirect = Redirected(npc)
  BY DEF Redirected
<1>3. PICK mis \in BOOLEAN : mis = Mispredicted(npc)
  BY DEF Mispredicted
<1>4. PICK fd, fp, ex, rec, pc : /\ fd = fetch_data /\ fp = fetch_pred_PC /\ ex = executed
                                 /\ rec = recover_PC /\ pc = Head(fd).regs_PC
  OBVIOUS
<1>5. FrontOK(prog, fd, fp, ex, spec_mode, rec, FALSE)
  <2>1. done = FALSE
    BY <1>1 DEF IInv, LoopOK
  <2>2. QED
    BY <1>4, <2>1 DEF IInv, FetchedOK
<1>6. PICK fd2, fp2, ex2, rec2, spec2 :
        /\ fd2 = fetch_data' /\ fp2 = fetch_pred_PC' /\ ex2 = executed' /\ rec2 = recover_PC'
        /\ spec2 = spec_mode'
  OBVIOUS
<1>7. /\ fd2 = IF redirect THEN <<>> ELSE Tail(fd)
      /\ fp2 = IF redirect THEN npc ELSE fp
      /\ spec2 = (spec_mode \/ mis)
      /\ rec2 = IF mis THEN npc ELSE rec
      /\ ex2 = IF spec_mode THEN ex ELSE Append(ex, pc)
      /\ UNCHANGED <<prog, done, stage, issuing>>
  BY <1>2, <1>3, <1>4, <1>6 DEF Dispatched, FetchedPC, runVars
<1>8. mis <=> ~spec_mode /\ Head(fd).pred_PC # npc /\ ~redirect
  BY <1>2, <1>3, <1>4 DEF Mispredicted
<1>9. ~spec_mode => npc = NextOf(InstOf(prog, pc), pc)
  BY <1>4, FetchedIs DEF FetchedPC
<1>10. "EXIT" \notin InstOf(prog, pc).flags
  BY <1>4, InstIs DEF FetchedPC, Is
<1>11. spec2 <=> spec_mode \/ mis
  BY <1>1, <1>7
<1>12. FrontOK(prog, fd2, fp2, ex2, spec2, rec2, FALSE) /\ (~spec_mode => pc \in DOMAIN prog)
  <2>1. Dispatching(prog, fd, fp, ex, spec_mode, rec, pc, npc, redirect)
    BY <1>2, <1>4, <1>5, <1>9, <1>10 DEF Dispatching
  <2>2. Dispatches(fd, fp, ex, spec_mode, rec, pc, npc, redirect, mis, fd2, fp2, ex2, spec2, rec2)
    BY <1>7, <1>8, <1>11 DEF Dispatches
  <2>3. FrontOK(prog, fd2, fp2, ex2, spec2, rec2, FALSE) /\ RightPC(prog, spec_mode, pc)
    BY <1>1, <2>1, <2>2, FrontDispatches
  <2>4. QED
    BY <2>3 DEF RightPC
<1>13. FetchedOK'
  <2>1. done' = FALSE
    BY <1>7 DEF IInv, LoopOK
  <2>2. QED
    BY <1>6, <1>7, <1>12, <2>1 DEF FetchedOK
<1>14. LoopOK'
  BY <1>1, <1>6, <1>7 DEF IInv, LoopOK
<1>15. QED
  BY <1>1, <1>3, <1>4, <1>12, <1>13, <1>14 DEF FetchedPC

\* On the right path, what is executed is to retire if it takes a station.
LEMMA ExecutedIs ==
  ASSUME IInv, NEW pc \in DOMAIN prog, NEW ex2, ex2 = Append(executed, pc),
         NEW kept, kept = Kept(prog, executed)
  PROVE  /\ kept \in Seq(DOMAIN prog) /\ kept \in Seq(Int) /\ pc \in Int
         /\ Kept(prog, ex2) = WithOne(InstOf(prog, pc), pc, kept)
<1>1. PICK p, T, ex : p = prog /\ T = DOMAIN prog /\ ex = executed
  OBVIOUS
<1>2. ex \in Seq(T) /\ T \subseteq Nat
  BY <1>1, ProgramIs DEF IInv, FetchedOK, FrontOK, LoopOK
<1>3. /\ Kept(p, ex) \in Seq(T)
      /\ Kept(p, ex2) = WithOne(p[pc], pc, Kept(p, ex))
  <2>1. ex \in Seq(T) /\ pc \in T /\ LongerBy(ex, pc, ex2)
    BY <1>1, <1>2 DEF LongerBy
  <2>2. KeptGrows(p, T, ex, pc, ex2)
    BY <2>1, KeptAppend
  <2>3. QED
    BY <2>2 DEF KeptGrows
<1>4. InstOf(p, pc) = p[pc]
  BY <1>1 DEF InstOf
<1>5. kept \in Seq(Int) /\ pc \in Int
  <2>1. Retirement(kept, retired)
    BY DEF IInv, PipelineOK
  <2>2. QED
    BY <1>1, <1>2, <2>1 DEF Retirement
<1>6. QED
  BY <1>1, <1>3, <1>4, <1>5

LEMMA DispatchNopKeeps ==
  ASSUME IInv, DispatchNop
  PROVE  Preserved
<1>1. PICK npc : npc = FetchedPC + 1
  OBVIOUS
<1>2. PICK i : i = Inst(FetchedPC)
  OBVIOUS
<1>3. /\ stage = "dispatch" /\ fetch_data # <<>> /\ "NOP" \in i.flags /\ Dispatched(npc)
      /\ UNCHANGED <<station, ready_queue, rslink_free, panicked, queue, vectorVars, inst_seq>>
  BY <1>1, <1>2 DEF DispatchNop, CanDispatch, Is
<1>4. i = InstOf(prog, FetchedPC) /\ InstructionOK(i)
  BY <1>2, InstIs
<1>5. "CTRL" \notin i.flags /\ "EXIT" \notin i.flags
  BY <1>3, <1>4 DEF InstructionOK
<1>6. /\ FetchedPC \in Int /\ Head(fetch_data).pred_PC = npc /\ npc = NPC(FetchedPC) /\ npc \in Int
  BY <1>1, <1>2, <1>3, <1>5, FetchedIs DEF Is
<1>7. FetchedOK' /\ LoopOK' /\ (~spec_mode => FetchedPC \in DOMAIN prog) /\ spec_mode \in BOOLEAN
  BY <1>2, <1>3, <1>5, <1>6, FrontKept DEF Is
<1>8. ~Mispredicted(npc)
  BY <1>6 DEF Mispredicted
<1>9. /\ spec_mode' = spec_mode /\ UNCHANGED <<event_queue, issuing, retired, prog>>
      /\ executed' = IF spec_mode THEN executed ELSE Append(executed, FetchedPC)
  BY <1>3, <1>7, <1>8 DEF Dispatched, runVars
<1>10. MachineOK' /\ (panicked' <=> panicked)
  BY <1>3, <1>9, MachineFrame DEF coreVars
<1>11. Kept(prog, executed)' = Kept(prog, executed)
  <2>1. CASE spec_mode
    BY <1>9, <2>1
  <2>2. CASE ~spec_mode
    <3>1. PICK ex2, kept : ex2 = Append(executed, FetchedPC) /\ kept = Kept(prog, executed)
      OBVIOUS
    <3>2. Kept(prog, ex2) = WithOne(i, FetchedPC, kept)
      BY <1>4, <1>7, <2>2, <3>1, ExecutedIs
    <3>3. i.flags \cap {"NOP", "EXIT"} # {}
      BY <1>3
    <3>4. Kept(prog, ex2) = kept
      BY <3>2, <3>3 DEF WithOne
    <3>5. QED
      BY <1>9, <2>2, <3>1, <3>4
  <2>3. QED
    BY <2>1, <2>2
<1>12. PipelineOK'
  <2>1. Unretired' = Unretired
    BY <1>9, <1>11 DEF Unretired
  <2>2. QED
    BY <1>3, <1>9, <1>11, <2>1 DEF IInv, PipelineOK
<1>13. QED
  BY <1>7, <1>10, <1>12 DEF Preserved, IInv

\* Nothing is on the wrong path unless the simulator is.
LEMMA RightNow ==
  ASSUME IInv
  PROVE  RightSoFar(station, Flight(queue), spec_mode)
<1>1. PICK R, L : R = Entries(queue, "RUU") /\ L = Entries(queue, "LSQ")
  OBVIOUS
<1>2. PICK p, c, iss, sq, v : p = prog /\ c = Core /\ iss = issuing /\ sq = inst_seq /\ v = Vec
  OBVIOUS
<1>3. c.st = station /\ Machine(p, c, iss, queue, sq, v)
  BY <1>2, Invariants, CoreIsCore
<1>4. /\ RingOK(queue, "RUU")
      /\ \A x, y \in Flight(queue) : station[x].seq = station[y].seq => x = y
      /\ \A x \in R : InRUU(p, station, x, L)
      /\ \A y \in L : InLSQ(p, station, y, R)
  BY <1>1, <1>3, InFlight
<1>5. Flight(queue) = R \cup L
  BY <1>1 DEF Flight
<1>6. SUFFICES ASSUME ~spec_mode
               PROVE  \A x \in Flight(queue) : ~station[x].spec_mode
  BY DEF RightSoFar
<1>7. ASSUME NEW x \in R
      PROVE  ~station[x].spec_mode
  <2>1. PICK i \in 0 .. queue["RUU"].num - 1 : x = At(queue, "RUU", i)
    BY <1>1, <1>4, EntriesAre
  <2>2. PICK kept, m, u : Line(station, queue, kept, m, u, spec_mode)
    BY DEF IInv, PipelineOK
  <2>3. u = queue["RUU"].num /\ u \in Nat /\ (station[x].spec_mode <=> u <= i)
    BY <1>6, <2>1, <2>2 DEF Line
  <2>4. QED
    BY <2>1, <2>3
<1>8. ASSUME NEW y \in L
      PROVE  ~station[y].spec_mode
  <2>1. PICK x \in R : station[x].ea_comp /\ station[y].seq = station[x].seq + 1
    BY <1>4 DEF InLSQ
  <2>2. IsAgen(station, x, L)
    BY <1>4, <2>1 DEF InRUU
  <2>3. PICK z \in L : station[z].seq = station[x].seq + 1
                       /\ (station[z].spec_mode <=> station[x].spec_mode)
    BY <2>2 DEF IsAgen
  <2>4. z = y
    BY <1>4, <1>5, <2>1, <2>3
  <2>5. QED
    BY <1>7, <2>3, <2>4
<1>9. QED
  BY <1>5, <1>7, <1>8

\* The places of the next entries are free.
LEMMA NextEntries ==
  ASSUME IInv, CanDispatch
  PROVE  /\ queue["RUU"].num < size["RUU"] /\ queue["LSQ"].num < size["LSQ"]
         /\ TailOf("RUU") = At(queue, "RUU", queue["RUU"].num)
         /\ TailOf("LSQ") = At(queue, "LSQ", queue["LSQ"].num)
         /\ TailOf("RUU") \in Stations /\ TailOf("LSQ") \in Stations
         /\ TailOf("RUU") \notin Flight(queue) /\ TailOf("LSQ") \notin Flight(queue)
         /\ TailOf("RUU")[1] = "RUU" /\ TailOf("LSQ")[1] = "LSQ"
<1>1. queue["RUU"].num < size["RUU"] /\ queue["LSQ"].num < size["LSQ"]
  BY SizesAre DEF CanDispatch
<1>2. RingOK(queue, "RUU") /\ RingOK(queue, "LSQ")
  BY Invariants
<1>3. /\ TailOf("RUU") = At(queue, "RUU", queue["RUU"].num) /\ TailOf("RUU") \in Stations
      /\ TailOf("RUU") \notin Entries(queue, "RUU")
  BY <1>1, <1>2, TailIsNext DEF TailOf
<1>4. /\ TailOf("LSQ") = At(queue, "LSQ", queue["LSQ"].num) /\ TailOf("LSQ") \in Stations
      /\ TailOf("LSQ") \notin Entries(queue, "LSQ")
  BY <1>1, <1>2, TailIsNext DEF TailOf
<1>5. TailOf("RUU")[1] = "RUU" /\ TailOf("LSQ")[1] = "LSQ"
  BY DEF TailOf
<1>6. (\A x \in Entries(queue, "RUU") : x[1] = "RUU") /\ (\A x \in Entries(queue, "LSQ") : x[1] = "LSQ")
  BY <1>2, EntriesAre
<1>7. QED
  BY <1>1, <1>3, <1>4, <1>5, <1>6 DEF Flight

LEMMA VectorIs ==
  ASSUME NEW r
  PROVE  CREATE_VECTOR(r) = Creator(Vec, r)
BY CoreIsCore DEF CREATE_VECTOR, Creator

\* What a create vector names is a station or nothing.
LEMMA CreatorOK ==
  ASSUME IInv, NEW r \in Regs \cup {NA}
  PROVE  CREATE_VECTOR(r) \in Stations \cup {NULL} /\ (r = NA => CREATE_VECTOR(r) = NULL)
<1>1. CASE r = NA
  BY <1>1 DEF CREATE_VECTOR
<1>2. CASE r # NA
  <2>1. r \in Names
    BY <1>2, NamesAre
  <2>2. PICK c, W, v : c = Core /\ W = Flight(queue) /\ v = Vec
    OBVIOUS
  <2>3. VectorsOK(c.st, W, v.cv, v.scv, v.ucv)
    BY <2>2, Invariants DEF Body
  <2>4. Named(c.st, W, r, Creator(v, r))
    BY <2>1, <2>3, CreatorIs
  <2>5. Creator(v, r) \in Stations \cup {NULL}
    BY <2>4 DEF Named
  <2>6. QED
    BY <1>2, <2>2, <2>5, VectorIs
<1>3. QED
  BY <1>1, <1>2

LEMMA InstalledIs ==
  ASSUME NEW vector, DOMAIN vector = Names, NEW r, NEW rs, NEW out, out = [q \in {r} \ {NA} |-> rs]
  PROVE  Installing(vector, Installed(vector, out), r, rs)
<1>1. DOMAIN out = {r} \ {NA} /\ \A q \in DOMAIN out : out[q] = rs
  OBVIOUS
<1>2. PICK w : w = Installed(vector, out)
  OBVIOUS
<1>3. DOMAIN w = Names /\ \A q \in Names : w[q] = IF q \in DOMAIN out THEN rs ELSE vector[q]
  BY <1>1, <1>2 DEF Installed
<1>4. \A q \in Names : q \in DOMAIN out <=> q = r
  BY <1>1, NamesAre
<1>5. QED
  BY <1>2, <1>3, <1>4 DEF Installing

\* An operation is now the creator of its output.
LEMMA InstallOne ==
  ASSUME NEW r \in Regs \cup {NA}, NEW rs, ruu_install_odep([q \in {r} \ {NA} |-> rs]),
         DOMAIN create_vector = Names, DOMAIN spec_create_vector = Names,
         NEW v, v = Vec, NEW v2, v2 = Vec'
  PROVE  Installs(v, v2, r, rs, spec_mode)
<1>1. PICK out : out = [q \in {r} \ {NA} |-> rs]
  OBVIOUS
<1>2. DOMAIN out = {r} \cap Names
  BY <1>1, NamesAre
<1>3. /\ v.cv = create_vector /\ v.scv = spec_create_vector /\ v.ucv = use_spec_cv
      /\ v2.cv = create_vector' /\ v2.scv = spec_create_vector' /\ v2.ucv = use_spec_cv'
  BY DEF Vec
<1>4. PICK a, b : a = Installed(create_vector, out) /\ b = Installed(spec_create_vector, out)
  OBVIOUS
<1>5. Installing(create_vector, a, r, rs) /\ Installing(spec_create_vector, b, r, rs)
  BY <1>1, <1>4, InstalledIs
<1>6. CASE spec_mode
  <2>1. /\ spec_create_vector' = b /\ create_vector' = create_vector
        /\ use_spec_cv' = use_spec_cv \cup DOMAIN out
    BY <1>1, <1>4, <1>6 DEF ruu_install_odep
  <2>2. QED
    BY <1>2, <1>3, <1>5, <1>6, <2>1 DEF Installs
<1>7. CASE ~spec_mode
  <2>1. /\ create_vector' = a /\ spec_create_vector' = spec_create_vector
        /\ use_spec_cv' = use_spec_cv
    BY <1>1, <1>4, <1>7 DEF ruu_install_odep
  <2>2. QED
    BY <1>3, <1>5, <1>7, <2>1 DEF Installs
<1>8. QED
  BY <1>6, <1>7

\* The operations that are dispatched.
LEMMA NewStationIs ==
  /\ NewStation \in StationType
  /\ ~NewStation.queued /\ ~NewStation.issued /\ ~NewStation.completed
  /\ ~NewStation.ea_comp /\ ~NewStation.recover_inst /\ NewStation.op = AGEN
<1>1. AGEN \in [flags : SUBSET Flags, class : Classes]
  <2>1. "IntALU" \in Classes
    BY DEF Classes
  <2>2. QED
    BY <2>1 DEF AGEN
<1>2. <<>> \in Seq(LinkType)
  BY EmptySeq
<1>3. [i \in 0 .. 2 |-> FALSE] \in [Operands -> BOOLEAN]
  BY DEF Operands
<1>4. NA \in Regs \cup {"DTMP", NA}
  OBVIOUS
<1>5. QED
  BY <1>1, <1>2, <1>3, <1>4 DEF NewStation, StationType

OpOf(i, sq, mis) ==
  [NewStation EXCEPT !.op = [flags |-> i.flags, class |-> i.class],
                     !.oname = i.out, !.seq = sq + 1, !.recover_inst = mis]
IsOp(op, i, sq, mis) ==
  /\ op \in StationType /\ ~op.queued /\ ~op.issued /\ ~op.completed /\ ~op.ea_comp
  /\ op.op = [flags |-> i.flags, class |-> i.class] /\ op.oname = i.out
  /\ op.seq = sq + 1 /\ op.recover_inst = mis

LEMMA OpIs ==
  ASSUME NEW i, InstructionOK(i), NEW sq, sq \in Nat, NEW mis, mis \in BOOLEAN
  PROVE  IsOp(OpOf(i, sq, mis), i, sq, mis)
<1>0. PICK op : op = OpOf(i, sq, mis)
  OBVIOUS
<1>1. i.flags \in SUBSET Flags /\ i.class \in Classes /\ i.out \in Regs \cup {"DTMP", NA}
  BY InstructionParts
<1>2. PICK f : f = [flags |-> i.flags, class |-> i.class]
  OBVIOUS
<1>3. f \in [flags : SUBSET Flags, class : Classes] /\ sq + 1 \in Nat
  BY <1>1, <1>2
<1>4. PICK s : s = NewStation
  OBVIOUS
<1>5. s \in StationType /\ ~s.queued /\ ~s.issued /\ ~s.completed /\ ~s.ea_comp
  BY <1>4, NewStationIs
<1>6. op = [s EXCEPT !.op = f, !.oname = i.out, !.seq = sq + 1, !.recover_inst = mis]
  BY <1>0, <1>2, <1>4 DEF OpOf
<1>7. op \in StationType
  BY <1>1, <1>3, <1>5, <1>6 DEF StationType
<1>8. QED
  BY <1>0, <1>2, <1>5, <1>6, <1>7 DEF StationType, IsOp

AgenOf(sq) == [NewStation EXCEPT !.ea_comp = TRUE, !.oname = "DTMP", !.seq = sq + 1]
IsAgenOp(op, sq) ==
  /\ op \in StationType /\ ~op.queued /\ ~op.issued /\ ~op.completed /\ op.ea_comp
  /\ op.op = AGEN /\ op.oname = "DTMP" /\ op.seq = sq + 1 /\ ~op.recover_inst

LEMMA AgenIs ==
  ASSUME NEW sq, sq \in Nat
  PROVE  IsAgenOp(AgenOf(sq), sq)
<1>1. PICK s, op : s = NewStation /\ op = AgenOf(sq)
  OBVIOUS
<1>2. /\ s \in StationType /\ ~s.queued /\ ~s.issued /\ ~s.completed /\ ~s.recover_inst
      /\ s.op = AGEN
  BY <1>1, NewStationIs
<1>3. op = [s EXCEPT !.ea_comp = TRUE, !.oname = "DTMP", !.seq = sq + 1]
  BY <1>1 DEF AgenOf
<1>4. sq + 1 \in Nat /\ "DTMP" \in Regs \cup {"DTMP", NA}
  OBVIOUS
<1>5. op \in StationType
  BY <1>2, <1>3, <1>4 DEF StationType
<1>6. QED
  BY <1>1, <1>2, <1>3, <1>5 DEF StationType, IsAgenOp

AccessOf(i, addr, sq) ==
  [NewStation EXCEPT !.op = [flags |-> i.flags, class |-> i.class],
                     !.addr = addr, !.oname = i.out, !.seq = sq + 2]
IsAccessOp(op, i, sq) ==
  /\ op \in StationType /\ ~op.queued /\ ~op.issued /\ ~op.completed /\ ~op.ea_comp
  /\ op.op = [flags |-> i.flags, class |-> i.class] /\ op.oname = i.out
  /\ op.seq = sq + 2 /\ ~op.recover_inst

LEMMA AccessIs ==
  ASSUME NEW i, InstructionOK(i), NEW sq, sq \in Nat, NEW addr, addr \in Nat
  PROVE  IsAccessOp(AccessOf(i, addr, sq), i, sq)
<1>1. i.flags \in SUBSET Flags /\ i.class \in Classes /\ i.out \in Regs \cup {"DTMP", NA}
  BY InstructionParts
<1>2. PICK f, s, op : /\ f = [flags |-> i.flags, class |-> i.class] /\ s = NewStation
                      /\ op = AccessOf(i, addr, sq)
  OBVIOUS
<1>3. f \in [flags : SUBSET Flags, class : Classes] /\ sq + 2 \in Nat
  BY <1>1, <1>2
<1>4. s \in StationType /\ ~s.queued /\ ~s.issued /\ ~s.completed /\ ~s.ea_comp /\ ~s.recover_inst
  BY <1>2, NewStationIs
<1>5. op = [s EXCEPT !.op = f, !.addr = addr, !.oname = i.out, !.seq = sq + 2]
  BY <1>2 DEF AccessOf
<1>6. op \in StationType
  BY <1>1, <1>3, <1>4, <1>5 DEF StationType
<1>7. QED
  BY <1>2, <1>4, <1>5, <1>6 DEF StationType, IsAccessOp

\* What was dispatched is now the last in the RUU.
Newest(st2, x, pc, mis) ==
  /\ st2[x].pc = pc /\ (st2[x].spec_mode <=> spec_mode) /\ ~st2[x].completed
  /\ st2[x].recover_inst <=> mis

LEMMA PipelineGrows ==
  ASSUME IInv, queue["RUU"].num < size["RUU"], NEW x, x = At(queue, "RUU", queue["RUU"].num),
         NEW npc, Dispatched(npc), NEW mis \in BOOLEAN, mis = Mispredicted(npc),
         ~spec_mode => FetchedPC \in DOMAIN prog,
         Inst(FetchedPC).flags \cap {"NOP", "EXIT"} = {},
         KeepsOps(station, station', Flight(queue)), Newest(station', x, FetchedPC, mis),
         Grown(queue, queue', "RUU")
  PROVE  PipelineOK'
<1>1. PICK m, u, kept : m = Len(retired) /\ u = Unretired /\ kept = Kept(prog, executed)
  OBVIOUS
<1>2. PICK st, st2, que, que2 : st = station /\ st2 = station' /\ que = queue /\ que2 = queue'
  OBVIOUS
<1>3. /\ RingOK(que, "RUU") /\ Line(st, que, kept, m, u, spec_mode) /\ Retirement(kept, retired)
      /\ Grown(que, que2, "RUU") /\ que["RUU"].num < size["RUU"] /\ x = At(que, "RUU", que["RUU"].num)
  BY <1>1, <1>2, Invariants DEF IInv, PipelineOK
<1>4. SameLine(st, st2, Entries(que, "RUU"))
  BY <1>2 DEF KeepsOps, SameLine, Flight
<1>5. spec_mode \in BOOLEAN
  BY DEF IInv, LoopOK
<1>6. /\ spec_mode' = (spec_mode \/ mis) /\ retired' = retired /\ prog' = prog
      /\ executed' = IF spec_mode THEN executed ELSE Append(executed, FetchedPC)
  BY DEF Dispatched, runVars
<1>7. st2[x].pc = FetchedPC /\ (st2[x].spec_mode <=> spec_mode) /\ ~st2[x].completed
      /\ (st2[x].recover_inst <=> mis)
  BY <1>2 DEF Newest
<1>8. CASE spec_mode
  <2>1. ~mis
    BY <1>8 DEF Mispredicted
  <2>2. spec_mode = TRUE /\ spec_mode' = TRUE /\ executed' = executed
    BY <1>5, <1>6, <1>8
  <2>3. Line(st, que, kept, m, u, TRUE)
    BY <1>3, <2>2
  <2>4. Line(st2, que2, kept, m, u, TRUE)
    BY <1>3, <1>4, <1>7, <1>8, <2>1, <2>3, LineWrong
  <2>5. Unretired' = u
    BY <1>1, <1>6, <2>2 DEF Unretired
  <2>6. QED
    BY <1>1, <1>2, <1>3, <1>6, <2>2, <2>4, <2>5 DEF PipelineOK
<1>9. CASE ~spec_mode
  <2>1. PICK pc, ex2, kept2 : pc = FetchedPC /\ ex2 = Append(executed, pc) /\ kept2 = Append(kept, pc)
    OBVIOUS
  <2>2. pc \in DOMAIN prog
    BY <1>9, <2>1
  <2>3. /\ kept \in Seq(DOMAIN prog) /\ kept \in Seq(Int) /\ pc \in Int
        /\ Kept(prog, ex2) = WithOne(InstOf(prog, pc), pc, kept)
    BY <1>1, <2>1, <2>2, ExecutedIs
  <2>4. Kept(prog, ex2) = kept2
    <3>1. InstOf(prog, pc).flags \cap {"NOP", "EXIT"} = {}
      BY <2>1, InstIs
    <3>2. QED
      BY <2>1, <2>3, <3>1 DEF WithOne
  <2>5. spec_mode' = mis /\ executed' = ex2
    BY <1>5, <1>6, <1>9, <2>1
  <2>6. Line(st2, que2, kept2, m, u + 1, mis)
    <3>1. PICK T : T = DOMAIN prog
      OBVIOUS
    <3>2. kept \in Seq(T) /\ pc \in T /\ LongerBy(kept, pc, kept2)
      BY <2>1, <2>2, <2>3, <3>1 DEF LongerBy
    <3>3. RightEntry(st2, x, pc, mis)
      BY <1>7, <1>9, <2>1 DEF RightEntry
    <3>4. Line(st, que, kept, m, u, FALSE)
      <4>1. spec_mode = FALSE
        BY <1>5, <1>9
      <4>2. QED
        BY <1>3, <4>1
    <3>5. QED
      BY <1>3, <1>4, <3>2, <3>3, <3>4, LineRight
  <2>7. m \in Nat /\ u \in Nat /\ Len(kept) = m + u /\ Len(retired) = m
    BY <1>1, <1>3 DEF Line
  <2>8. kept2 \in Seq(Int) /\ Len(kept2) = m + u + 1 /\ \A i \in 1 .. Len(kept) : kept2[i] = kept[i]
    BY <2>1, <2>3, <2>7, AppendProperties
  <2>9. Retirement(kept2, retired)
    <3>1. \A i \in 1 .. Len(retired) : i \in 1 .. Len(kept)
      BY <2>7
    <3>2. QED
      BY <1>3, <2>8, <3>1 DEF Retirement
  <2>10. Unretired' = u + 1
    <3>1. Kept(prog, executed)' = kept2
      BY <1>6, <2>4, <2>5
    <3>2. Len(kept2) - Len(retired') = u + 1
      BY <1>6, <2>7, <2>8
    <3>3. QED
      BY <3>1, <3>2 DEF Unretired
  <2>11. QED
    BY <1>1, <1>2, <1>6, <2>4, <2>5, <2>6, <2>9, <2>10 DEF PipelineOK
<1>10. QED
  BY <1>8, <1>9

\* Operations have lower numbers than what is dispatched next.
LEMMA SeqIsLast ==
  ASSUME IInv
  PROVE  inst_seq \in Nat /\ \A x \in Flight(queue) : station[x].seq \in Nat /\ station[x].seq <= inst_seq
<1>1. PICK c, v : c = Core /\ v = Vec
  OBVIOUS
<1>2. Machine(prog, c, issuing, queue, inst_seq, v) /\ c.st = station
  BY <1>1, Invariants, CoreIsCore
<1>3. QED
  BY <1>2, InFlight

\* An operation that is no access is dispatched to the RUU.
LEMMA OpEntered ==
  ASSUME IInv, CanDispatch, NEW i, i = Inst(FetchedPC), NEW mis \in BOOLEAN,
         NEW op, op = OpOf(i, inst_seq, mis), NEW rs, rs = TailOf("RUU"),
         NEW creators, creators = [k \in 1 .. 3 |-> CREATE_VECTOR(i.ins[k])],
         NEW c, c = Core, NEW d, d = Link(Allocate(c, rs, op), rs, creators),
         NEW v, v = Vec
  PROVE  /\ Entered(c, d, Flight(queue), rs, op, creators, FetchedPC, spec_mode)
         /\ FromVectors(prog, d.st, v, rs, creators)
<1>1. i = InstOf(prog, FetchedPC) /\ InstructionOK(i)
  BY InstIs
<1>2. i.ins \in [1 .. 3 -> Regs \cup {NA}]
  BY <1>1, InstructionParts
<1>3. \A k \in 1 .. 3 : /\ creators[k] = Creator(v, i.ins[k])
                        /\ creators[k] \in Stations \cup {NULL}
                        /\ i.ins[k] = NA => creators[k] = NULL
  <2>1. \A k \in 1 .. 3 : i.ins[k] \in Regs \cup {NA} /\ creators[k] = CREATE_VECTOR(i.ins[k])
    BY <1>2
  <2>2. QED
    BY <2>1, CreatorOK, VectorIs
<1>4. creators \in [1 .. 3 -> Stations \cup {NULL}]
  BY <1>3
<1>5. FetchedPC \in Int /\ spec_mode \in BOOLEAN
  BY FetchedIs DEF CanDispatch, IInv, LoopOK
<1>6. rs \in Stations /\ rs \notin Flight(queue) /\ rs[1] = "RUU"
  BY NextEntries
<1>7. /\ op \in StationType /\ ~op.queued /\ ~op.issued /\ ~op.completed /\ ~op.ea_comp
      /\ op.seq = inst_seq + 1
  <2>1. PICK sq \in Nat : sq = inst_seq
    BY SeqIsLast
  <2>2. op = OpOf(i, sq, mis) /\ InstructionOK(i)
    BY <1>1, <2>1
  <2>3. IsOp(op, i, sq, mis)
    BY <2>2, OpIs
  <2>4. QED
    BY <2>1, <2>3 DEF IsOp
<1>8. PICK p, W : p = prog /\ W = Flight(queue)
  OBVIOUS
<1>9. /\ c \in CoreType /\ c.st = station /\ W \in SUBSET Stations /\ DependsOK(p, c.st, W)
      /\ \A x \in W : c.st[x].seq < op.seq
  <2>1. c \in CoreType /\ c.st = station /\ W \in SUBSET Stations
    BY <1>8, Invariants, CoreIsCore
  <2>2. DependsOK(p, c.st, W)
    BY <1>8, Invariants DEF Body
  <2>3. \A x \in W : c.st[x].seq < op.seq
    BY <1>7, <1>8, <2>1, SeqIsLast
  <2>4. QED
    BY <2>1, <2>2, <2>3
<1>10. Entered(c, d, W, rs, op, creators, FetchedPC, spec_mode)
  BY <1>4, <1>5, <1>6, <1>7, <1>8, <1>9, EnterIs
<1>11. IsOperation(d.st[rs], op, FetchedPC, spec_mode)
  BY <1>10, EnteredKeeps
<1>12. FromVectors(prog, d.st, v, rs, creators)
  <2>1. d.st[rs].pc = FetchedPC /\ ~d.st[rs].ea_comp
    BY <1>7, <1>11 DEF IsOperation
  <2>2. ~in_LSQ(rs)
    BY <1>6 DEF in_LSQ
  <2>3. \A k \in Operands : Reads(prog, d.st, rs, k) = i.ins[k + 1]
    BY <1>1, <2>1, <2>2 DEF Reads
  <2>4. \A k \in Operands : k + 1 \in 1 .. 3 /\ i.ins[k + 1] \in Regs \cup {NA}
    BY <1>2, OperandsAre
  <2>5. \A r : r \in Regs \cup {NA} /\ r # NA => r \in Names
    BY NamesAre
  <2>6. QED
    BY <1>3, <2>3, <2>4, <2>5 DEF FromVectors
<1>13. QED
  BY <1>8, <1>10, <1>12

\* Traps wait for the RUU to be empty, which it is not on the wrong path.
LEMMA TrapsAreRight ==
  ASSUME IInv, CanDispatch, Is("TRAP", FetchedPC)
  PROVE  ~spec_mode /\ Unretired = 0
<1>1. PICK m, u, kept : m = Len(retired) /\ u = Unretired /\ kept = Kept(prog, executed)
  OBVIOUS
<1>2. Line(station, queue, kept, m, u, spec_mode)
  BY <1>1 DEF IInv, PipelineOK
<1>3. queue["RUU"].num = 0
  BY DEF CanDispatch
<1>4. u \in Nat /\ u <= 0 /\ (spec_mode => u > 0)
  BY <1>2, <1>3 DEF Line
<1>5. QED
  BY <1>1, <1>4

\* What DispatchOp does, with names for its parts.
OpDispatched(i, rs, creators, npc, mis, op, d, b, b2) ==
  /\ mis = Mispredicted(npc) /\ op = OpOf(i, inst_seq, mis)
  /\ d = Link(Allocate(Core, rs, op), rs, creators)
  /\ b = OPERANDS_READY(d.st[rs]) /\ b2 = (Is("TRAP", FetchedPC) /\ spec_mode)
  /\ CoreIs(Panic(EnqueueIf(d, b, rs), b2))
  /\ ruu_install_odep([r \in {i.out} \ {NA} |-> rs])
  /\ Dispatched(npc)

LEMMA DispatchOpKeeps ==
  ASSUME IInv, DispatchOp
  PROVE  Preserved
<1>1. PICK i, rs, pc : i = Inst(FetchedPC) /\ rs = TailOf("RUU") /\ pc = FetchedPC
  OBVIOUS
<1>2. /\ stage = "dispatch" /\ CanDispatch /\ fetch_data # <<>>
      /\ i.flags \cap {"NOP", "EXIT", "LOAD", "STORE"} = {}
      /\ queue' = [queue EXCEPT !["RUU"] = AddTail("RUU")]
      /\ inst_seq' = inst_seq + 1
  BY <1>1 DEF DispatchOp, CanDispatch, Is, IsMem
<1>3. PICK creators : creators = [k \in 1 .. 3 |-> CREATE_VECTOR(i.ins[k])]
  OBVIOUS
<1>4. PICK npc \in NPCs :
        \E mis, op, d, b, b2 : OpDispatched(i, rs, creators, npc, mis, op, d, b, b2)
  BY <1>1, <1>3 DEF DispatchOp, OpOf, OpDispatched
<1>5. PICK mis, op, d, b, b2 : OpDispatched(i, rs, creators, npc, mis, op, d, b, b2)
  BY <1>4
<1>6. mis \in BOOLEAN /\ b \in BOOLEAN /\ b2 \in BOOLEAN
  BY <1>5 DEF OpDispatched, Mispredicted, OPERANDS_READY
<1>7. /\ i = InstOf(prog, pc) /\ InstructionOK(i) /\ pc \in Int /\ spec_mode \in BOOLEAN
      /\ pc = FetchedPC /\ npc \in Int /\ ~Is("EXIT", pc) /\ (~spec_mode => npc = NPC(pc))
  <2>1. i = InstOf(prog, pc) /\ InstructionOK(i) /\ pc \in Int /\ spec_mode \in BOOLEAN
    BY <1>1, <1>2, InstIs, FetchedIs DEF IInv, LoopOK
  <2>2. ~Is("EXIT", pc)
    BY <1>1, <1>2 DEF Is
  <2>3. npc \in {pc + 1, i.target, NPC(pc)} /\ (~spec_mode => npc = NPC(pc))
    BY <1>1 DEF NPCs
  <2>4. i.target \in Int /\ NPC(pc) \in Int
    BY <1>1, <1>2, <2>1, InstructionParts, FetchedIs
  <2>5. QED
    BY <1>1, <2>1, <2>2, <2>3, <2>4
<1>8. FetchedOK' /\ LoopOK' /\ (~spec_mode => pc \in DOMAIN prog)
  BY <1>2, <1>5, <1>7, FrontKept DEF OpDispatched
<1>9. PICK c, v, W, p, sq : c = Core /\ v = Vec /\ W = Flight(queue) /\ p = prog /\ sq = inst_seq
  OBVIOUS
<1>10. /\ Entered(c, d, W, rs, op, creators, pc, spec_mode) /\ FromVectors(p, d.st, v, rs, creators)
  BY <1>1, <1>2, <1>3, <1>5, <1>6, <1>9, OpEntered DEF OpDispatched
<1>11. /\ op.op = [flags |-> i.flags, class |-> i.class] /\ op.oname = i.out
       /\ op.seq = sq + 1 /\ op.recover_inst = mis /\ ~op.ea_comp
  <2>1. sq \in Nat /\ op = OpOf(i, sq, mis)
    BY <1>5, <1>9, SeqIsLast DEF OpDispatched
  <2>2. IsOp(op, i, sq, mis)
    BY <1>6, <1>7, <2>1, OpIs
  <2>3. QED
    BY <2>2 DEF IsOp
<1>12. Does(op, InstOf(p, pc))
  BY <1>2, <1>7, <1>9, <1>11 DEF Does, IsAccess
<1>13. PICK v2, e, que2 : v2 = Vec' /\ e = EnqueueIf(d, b, rs) /\ que2 = queue'
  OBVIOUS
<1>14. Installs(v, v2, op.oname, rs, spec_mode)
  <2>1. DOMAIN create_vector = Names /\ DOMAIN spec_create_vector = Names
    BY Invariants, CoreIsCore DEF Body, VectorsOK
  <2>2. i.out \in Regs \cup {NA}
    BY <1>7, InstructionParts
  <2>3. ruu_install_odep([r \in {i.out} \ {NA} |-> rs])
    BY <1>5 DEF OpDispatched
  <2>4. Installs(v, v2, i.out, rs, spec_mode)
    BY <1>9, <1>13, <2>1, <2>2, <2>3, InstallOne
  <2>5. QED
    BY <1>11, <2>4
<1>15. /\ queue["RUU"].num < size["RUU"] /\ rs = At(queue, "RUU", queue["RUU"].num)
       /\ Queues(que2) /\ Grown(queue, que2, "RUU") /\ que2["LSQ"] = queue["LSQ"]
  <2>1. queue["RUU"].num < size["RUU"] /\ rs = At(queue, "RUU", queue["RUU"].num)
    BY <1>1, <1>2, NextEntries
  <2>2. Queues(queue)
    BY Invariants
  <2>3. DOMAIN queue = {"RUU", "LSQ"} /\ "RUU" # "LSQ"
    BY <2>2 DEF Queues
  <2>4. Queues(que2) /\ que2["RUU"] = AddTail("RUU") /\ que2["LSQ"] = queue["LSQ"]
    BY <1>2, <1>13, <2>3 DEF Queues
  <2>5. QED
    BY <2>1, <2>4 DEF Grown, AddTail
<1>16. /\ Machine(p, e, issuing, que2, sq + 1, v2)
       /\ KeepsOps(c.st, e.st, W) /\ IsOperation(e.st[rs], op, pc, spec_mode)
       /\ ~e.st[rs].completed
       /\ c.free >= 4 => (e.panic <=> c.panic)
  <2>1. PICK spec \in BOOLEAN : spec = spec_mode
    BY <1>7
  <2>2. PICK que, iss : que = queue /\ iss = issuing
    OBVIOUS
  <2>3. Machine(p, c, iss, que, sq, v) /\ c.st = station
    BY <1>9, <2>1, <2>2, Invariants, CoreIsCore
  <2>4. RightSoFar(c.st, Flight(que), spec)
    BY <2>1, <2>2, <2>3, RightNow
  <2>5. /\ que["RUU"].num < size["RUU"] /\ rs = At(que, "RUU", que["RUU"].num)
        /\ RUUGrown(que, que2)
    BY <1>15, <2>1, <2>2 DEF RUUGrown
  <2>6. /\ Entered(c, d, Flight(que), rs, op, creators, pc, spec) /\ FromVectors(p, d.st, v, rs, creators)
        /\ Installs(v, v2, op.oname, rs, spec) /\ op.seq = sq + 1 /\ Does(op, InstOf(p, pc))
    BY <1>9, <1>10, <1>11, <1>12, <1>14, <2>1, <2>2
  <2>7. Settling(d, e, rs, b)
    BY <1>5, <1>6, <1>13 DEF OpDispatched, Settling
  <2>8. MachineEntered(p, c, e, iss, que, que2, sq, v2, rs, op, pc, spec)
    BY <2>3, <2>4, <2>5, <2>6, <2>7, MachineEnters
  <2>9. QED
    BY <1>9, <2>1, <2>2, <2>8 DEF MachineEntered
<1>17. PICK f : f = Panic(e, b2)
  OBVIOUS
<1>18. ~b2
  BY <1>2, <1>5, TrapsAreRight DEF OpDispatched
<1>19. /\ Machine(p, f, issuing, que2, sq + 1, v2) /\ f \in CoreType /\ f.st = e.st
       /\ f.panic <=> e.panic
  <2>1. Body(p, e, issuing, Flight(que2), sq + 1, v2, {}, {})
    BY <1>16 DEF Machine
  <2>2. PICK E, W2, sq2 : E = {} /\ W2 = Flight(que2) /\ sq2 = sq + 1
    OBVIOUS
  <2>3. Body(p, e, issuing, W2, sq2, v2, E, E)
    BY <2>1, <2>2
  <2>4. /\ Body(p, f, issuing, W2, sq2, v2, E, E) /\ f \in CoreType /\ f.st = e.st
        /\ Total(f, issuing) = Total(e, issuing) /\ f.panic = (e.panic \/ b2)
    BY <1>6, <1>17, <2>3, BodyPanics
  <2>5. SameOps(e.st, f.st)
    BY <2>4, SameOpsSelf
  <2>6. Machine(p, f, issuing, que2, sq2, v2)
    BY <1>16, <2>2, <2>4, <2>5, MachineSame
  <2>7. e.panic \in BOOLEAN
    BY <2>3, BodyParts
  <2>8. QED
    BY <1>18, <2>2, <2>4, <2>6, <2>7
<1>20. Core' = f /\ station' = f.st /\ panicked' = f.panic
  <2>1. CoreIs(f)
    BY <1>5, <1>13, <1>17 DEF OpDispatched
  <2>2. QED
    BY <1>19, <2>1, CoreSets
<1>21. MachineOK'
  <2>1. prog' = p /\ issuing' = issuing
    BY <1>5, <1>9 DEF OpDispatched, Dispatched, runVars
  <2>2. QED
    BY <1>2, <1>9, <1>13, <1>19, <1>20, <2>1 DEF MachineOK
<1>22. PipelineOK'
  <2>1. KeepsOps(station, station', Flight(queue))
    BY <1>9, <1>16, <1>19, <1>20, CoreIsCore
  <2>2. Newest(station', rs, FetchedPC, mis)
    BY <1>1, <1>11, <1>16, <1>19, <1>20 DEF Newest, IsOperation
  <2>3. Dispatched(npc) /\ mis = Mispredicted(npc)
    BY <1>5 DEF OpDispatched
  <2>4. Inst(FetchedPC).flags \cap {"NOP", "EXIT"} = {}
    BY <1>1, <1>2
  <2>5. QED
    BY <1>1, <1>6, <1>8, <1>13, <1>15, <2>1, <2>2, <2>3, <2>4, PipelineGrows
<1>23. LinksSuffice => (panicked' <=> panicked)
  <2>1. LinksSuffice => c.free >= 4
    BY <1>9, CoreIsCore, Invariants DEF LinksSuffice
  <2>2. c.panic = panicked
    BY <1>9, CoreIsCore
  <2>3. QED
    BY <1>16, <1>19, <1>20, <2>1, <2>2
<1>24. QED
  BY <1>8, <1>21, <1>22, <1>23 DEF Preserved, IInv

\* The address computation is the creator of DTMP, the access of its output.
BothOut(r, x, y) == [q \in {"DTMP", r} \ {NA} |-> IF q = "DTMP" THEN x ELSE y]
One(vector, x) == [q \in Names |-> IF q = "DTMP" THEN x ELSE vector[q]]

LEMMA InstalledBoth ==
  ASSUME NEW vector, DOMAIN vector = Names, NEW r \in Regs \cup {NA}, NEW x, NEW y
  PROVE  /\ Installing(vector, One(vector, x), "DTMP", x)
         /\ Installing(One(vector, x), Installed(vector, BothOut(r, x, y)), r, y)
<1>1. PICK f, w, out : f = One(vector, x) /\ out = BothOut(r, x, y) /\ w = Installed(vector, out)
  OBVIOUS
<1>2. DOMAIN f = Names /\ \A q \in Names : f[q] = IF q = "DTMP" THEN x ELSE vector[q]
  BY <1>1 DEF One
<1>3. r # "DTMP" /\ (\A q \in Names : q # NA)
  BY CoreAssumption, NamesAre DEF NA
<1>4. /\ \A q \in Names : q \in DOMAIN out <=> q = "DTMP" \/ q = r
      /\ \A q \in DOMAIN out : out[q] = IF q = "DTMP" THEN x ELSE y
  BY <1>1, <1>3 DEF BothOut
<1>5. DOMAIN w = Names /\ \A q \in Names : w[q] = IF q \in DOMAIN out THEN out[q] ELSE vector[q]
  BY <1>1 DEF Installed
<1>6. Installing(vector, f, "DTMP", x)
  BY <1>2 DEF Installing
<1>7. Installing(f, w, r, y)
  <2>1. \A q \in Names : w[q] = IF q = r THEN y ELSE f[q]
    BY <1>2, <1>3, <1>4, <1>5
  <2>2. QED
    BY <1>2, <1>5, <2>1 DEF Installing
<1>8. QED
  BY <1>1, <1>6, <1>7

LEMMA InstallBoth ==
  ASSUME NEW r \in Regs \cup {NA}, NEW x, NEW y, ruu_install_odep(BothOut(r, x, y)),
         DOMAIN create_vector = Names, DOMAIN spec_create_vector = Names,
         NEW v, v = Vec, NEW v3, v3 = Vec'
  PROVE  \E v2 : Installs(v, v2, "DTMP", x, spec_mode) /\ Installs(v2, v3, r, y, spec_mode)
<1>1. PICK out : out = BothOut(r, x, y)
  OBVIOUS
<1>2. /\ v.cv = create_vector /\ v.scv = spec_create_vector /\ v.ucv = use_spec_cv
      /\ v3.cv = create_vector' /\ v3.scv = spec_create_vector' /\ v3.ucv = use_spec_cv'
  BY DEF Vec
<1>3. PICK a, b, a2, b2 : /\ a = One(create_vector, x) /\ b = One(spec_create_vector, x)
                          /\ a2 = Installed(create_vector, out) /\ b2 = Installed(spec_create_vector, out)
  OBVIOUS
<1>4. /\ Installing(create_vector, a, "DTMP", x) /\ Installing(a, a2, r, y)
      /\ Installing(spec_create_vector, b, "DTMP", x) /\ Installing(b, b2, r, y)
  BY <1>1, <1>3, InstalledBoth
<1>5. DOMAIN out = ({"DTMP"} \cap Names) \cup ({r} \cap Names)
  BY <1>1, NamesAre DEF BothOut
<1>6. CASE spec_mode
  <2>1. /\ spec_create_vector' = b2 /\ create_vector' = create_vector
        /\ use_spec_cv' = use_spec_cv \cup DOMAIN out
    BY <1>1, <1>3, <1>6 DEF ruu_install_odep
  <2>2. PICK v2 : v2 = [cv |-> create_vector, scv |-> b, ucv |-> use_spec_cv \cup ({"DTMP"} \cap Names)]
    OBVIOUS
  <2>3. v2.cv = create_vector /\ v2.scv = b /\ v2.ucv = use_spec_cv \cup ({"DTMP"} \cap Names)
    BY <2>2
  <2>4. Installs(v, v2, "DTMP", x, spec_mode)
    BY <1>2, <1>4, <1>6, <2>3 DEF Installs
  <2>5. v3.ucv = v2.ucv \cup ({r} \cap Names)
    BY <1>2, <1>5, <2>1, <2>3
  <2>6. Installs(v2, v3, r, y, spec_mode)
    BY <1>2, <1>4, <1>6, <2>1, <2>3, <2>5 DEF Installs
  <2>7. QED
    BY <2>4, <2>6
<1>7. CASE ~spec_mode
  <2>1. /\ create_vector' = a2 /\ spec_create_vector' = spec_create_vector
        /\ use_spec_cv' = use_spec_cv
    BY <1>1, <1>3, <1>7 DEF ruu_install_odep
  <2>2. PICK v2 : v2 = [cv |-> a, scv |-> spec_create_vector, ucv |-> use_spec_cv]
    OBVIOUS
  <2>3. v2.cv = a /\ v2.scv = spec_create_vector /\ v2.ucv = use_spec_cv
    BY <2>2
  <2>4. Installs(v, v2, "DTMP", x, spec_mode)
    BY <1>2, <1>4, <1>7, <2>3 DEF Installs
  <2>5. Installs(v2, v3, r, y, spec_mode)
    BY <1>2, <1>4, <1>7, <2>1, <2>3 DEF Installs
  <2>6. QED
    BY <2>4, <2>5
<1>8. QED
  BY <1>6, <1>7

\* Off the wrong path no register is of the wrong path.
Clean(v, spec) == ~spec => v.ucv = {}

LEMMA CreatorInstalled ==
  ASSUME NEW v, NEW v2, NEW x, NEW spec, Clean(v, spec),
         DOMAIN v.cv = Names, DOMAIN v.scv = Names, Installs(v, v2, "DTMP", x, spec)
  PROVE  /\ Creator(v2, "DTMP") = x
         /\ \A r \in Regs \cup {NA} : Creator(v2, r) = Creator(v, r)
<1>1. "DTMP" \in Names /\ "DTMP" # NA /\ \A r \in Regs \cup {NA} : r # "DTMP" /\ (r # NA => r \in Names)
  BY NamesAre, CoreAssumption DEF NA
<1>2. CASE spec
  <2>1. /\ v2.cv = v.cv /\ v2.ucv = v.ucv \cup ({"DTMP"} \cap Names)
        /\ \A q \in Names : v2.scv[q] = IF q = "DTMP" THEN x ELSE v.scv[q]
    BY <1>2 DEF Installs, Installing
  <2>2. "DTMP" \in v2.ucv /\ \A r \in Regs : r \in v2.ucv <=> r \in v.ucv
    BY <1>1, <2>1
  <2>3. QED
    BY <1>1, <2>1, <2>2 DEF Creator
<1>3. CASE ~spec
  <2>1. /\ v2.scv = v.scv /\ v2.ucv = v.ucv /\ v.ucv = {}
        /\ \A q \in Names : v2.cv[q] = IF q = "DTMP" THEN x ELSE v.cv[q]
    BY <1>3 DEF Installs, Installing, Clean
  <2>2. QED
    BY <1>1, <2>1 DEF Creator
<1>4. QED
  BY <1>2, <1>3

LEMMA VectorsClean ==
  ASSUME IInv
  PROVE  /\ Clean(Vec, spec_mode) /\ DOMAIN Vec.cv = Names /\ DOMAIN Vec.scv = Names
         /\ DOMAIN create_vector = Names /\ DOMAIN spec_create_vector = Names
<1>1. PICK c, v : c = Core /\ v = Vec
  OBVIOUS
<1>2. VectorsOK(c.st, Flight(queue), v.cv, v.scv, v.ucv) /\ c.st = station
  BY <1>1, Invariants, CoreIsCore DEF Body
<1>3. DOMAIN v.cv = Names /\ DOMAIN v.scv = Names /\ v.ucv = Wrong(station, Flight(queue))
  BY <1>2 DEF VectorsOK
<1>4. ~spec_mode => Wrong(station, Flight(queue)) = {}
  BY RightNow DEF RightSoFar, Wrong
<1>5. QED
  BY <1>1, <1>3, <1>4, CoreIsCore DEF Clean

\* The creators of the operands of an address computation, and of its access.
AgenCreators(i) == <<NULL, CREATE_VECTOR(i.ins[2]), CREATE_VECTOR(i.ins[3])>>
AccessCreators(i, x) == <<CREATE_VECTOR(i.ins[1]), x, NULL>>

LEMMA CreatorsAre ==
  ASSUME IInv, NEW i, InstructionOK(i), NEW x \in Stations, NEW v, v = Vec,
         NEW a, a = AgenCreators(i), NEW b, b = AccessCreators(i, x)
  PROVE  /\ a \in [1 .. 3 -> Stations \cup {NULL}] /\ b \in [1 .. 3 -> Stations \cup {NULL}]
         /\ a[1] = NULL /\ a[2] = Creator(v, i.ins[2]) /\ a[3] = Creator(v, i.ins[3])
         /\ b[1] = Creator(v, i.ins[1]) /\ b[2] = x /\ b[3] = NULL
         /\ \A k \in 1 .. 3 : /\ i.ins[k] \in Regs \cup {NA}
                              /\ i.ins[k] = NA => Creator(v, i.ins[k]) = NULL
<1>1. \A k \in 1 .. 3 : i.ins[k] \in Regs \cup {NA}
  BY InstructionParts
<1>2. \A k \in 1 .. 3 : /\ CREATE_VECTOR(i.ins[k]) \in Stations \cup {NULL}
                        /\ CREATE_VECTOR(i.ins[k]) = Creator(v, i.ins[k])
                        /\ i.ins[k] = NA => CREATE_VECTOR(i.ins[k]) = NULL
  BY <1>1, CreatorOK, VectorIs
<1>3. PICK m1, m2, m3 : /\ m1 = CREATE_VECTOR(i.ins[1]) /\ m2 = CREATE_VECTOR(i.ins[2])
                        /\ m3 = CREATE_VECTOR(i.ins[3])
  OBVIOUS
<1>4. m1 \in Stations \cup {NULL} /\ m2 \in Stations \cup {NULL} /\ m3 \in Stations \cup {NULL}
  BY <1>2, <1>3
<1>5. a = <<NULL, m2, m3>> /\ b = <<m1, x, NULL>>
  BY <1>3 DEF AgenCreators, AccessCreators
<1>6. NULL \in Stations \cup {NULL}
  OBVIOUS
<1>7. a \in [1 .. 3 -> Stations \cup {NULL}] /\ b \in [1 .. 3 -> Stations \cup {NULL}]
  BY <1>4, <1>5, <1>6
<1>8. a[1] = NULL /\ a[2] = m2 /\ a[3] = m3 /\ b[1] = m1 /\ b[2] = x /\ b[3] = NULL
  BY <1>5
<1>9. QED
  BY <1>1, <1>2, <1>3, <1>7, <1>8

\* The address computation is dispatched to the RUU.
LEMMA AgenEntered ==
  ASSUME IInv, CanDispatch, IsMem(FetchedPC), NEW i, i = Inst(FetchedPC),
         NEW op, op = AgenOf(inst_seq), NEW rs, rs = TailOf("RUU"),
         NEW creators, creators = AgenCreators(i),
         NEW c, c = Core, NEW d, d = Link(Allocate(c, rs, op), rs, creators), NEW v, v = Vec
  PROVE  /\ Entered(c, d, Flight(queue), rs, op, creators, FetchedPC, spec_mode)
         /\ FromVectors(prog, d.st, v, rs, creators) /\ IsAgenOp(op, inst_seq)
<1>1. i = InstOf(prog, FetchedPC) /\ InstructionOK(i)
  BY InstIs
<1>2. rs \in Stations /\ rs \notin Flight(queue) /\ rs[1] = "RUU"
  BY NextEntries
<1>3. /\ creators \in [1 .. 3 -> Stations \cup {NULL}]
      /\ creators[1] = NULL /\ creators[2] = Creator(v, i.ins[2]) /\ creators[3] = Creator(v, i.ins[3])
      /\ \A k \in 1 .. 3 : /\ i.ins[k] \in Regs \cup {NA}
                           /\ i.ins[k] = NA => Creator(v, i.ins[k]) = NULL
  <2>1. PICK b : b = AccessCreators(i, rs)
    OBVIOUS
  <2>2. QED
    BY <1>1, <1>2, <2>1, CreatorsAre
<1>4. FetchedPC \in Int /\ spec_mode \in BOOLEAN
  BY FetchedIs DEF CanDispatch, IInv, LoopOK
<1>5. IsAgenOp(op, inst_seq)
  BY SeqIsLast, AgenIs
<1>6. /\ op \in StationType /\ ~op.queued /\ ~op.issued /\ ~op.completed /\ op.ea_comp
      /\ op.seq = inst_seq + 1
  BY <1>5 DEF IsAgenOp
<1>7. PICK p, W : p = prog /\ W = Flight(queue)
  OBVIOUS
<1>8. /\ c \in CoreType /\ c.st = station /\ W \in SUBSET Stations /\ DependsOK(p, c.st, W)
      /\ \A x \in W : c.st[x].seq < op.seq
  <2>1. c \in CoreType /\ c.st = station /\ W \in SUBSET Stations
    BY <1>7, Invariants, CoreIsCore
  <2>2. DependsOK(p, c.st, W)
    BY <1>7, Invariants DEF Body
  <2>3. \A x \in W : c.st[x].seq < op.seq
    BY <1>6, <1>7, <2>1, SeqIsLast
  <2>4. QED
    BY <2>1, <2>2, <2>3
<1>9. Entered(c, d, W, rs, op, creators, FetchedPC, spec_mode)
  BY <1>2, <1>3, <1>4, <1>6, <1>7, <1>8, EnterIs
<1>10. IsOperation(d.st[rs], op, FetchedPC, spec_mode)
  BY <1>9, EnteredKeeps
<1>11. FromVectors(prog, d.st, v, rs, creators)
  <2>1. d.st[rs].pc = FetchedPC /\ d.st[rs].ea_comp
    BY <1>6, <1>10 DEF IsOperation
  <2>2. ~in_LSQ(rs)
    BY <1>2 DEF in_LSQ
  <2>3. \A k \in Operands : Reads(prog, d.st, rs, k) = IF k = 0 THEN NA ELSE i.ins[k + 1]
    BY <1>1, <2>1, <2>2 DEF Reads
  <2>4. \A r : r \in Regs \cup {NA} /\ r # NA => r \in Names
    BY NamesAre
  <2>5. ASSUME NEW k \in Operands
        PROVE  /\ Reads(prog, d.st, rs, k) = NA => creators[k + 1] = NULL
               /\ Reads(prog, d.st, rs, k) # NA => /\ Reads(prog, d.st, rs, k) \in Names
                                                   /\ creators[k + 1] = Creator(v, Reads(prog, d.st, rs, k))
    <3>1. CASE k = 0
      BY <1>3, <2>3, <3>1
    <3>2. CASE k = 1
      BY <1>3, <2>3, <2>4, <3>2
    <3>3. CASE k = 2
      BY <1>3, <2>3, <2>4, <3>3
    <3>4. QED
      BY <3>1, <3>2, <3>3, OperandsAre
  <2>6. QED
    BY <2>5 DEF FromVectors
<1>12. QED
  BY <1>5, <1>7, <1>9, <1>11

\* And its access to the LSQ.
LEMMA AccessEntered ==
  ASSUME IInv, CanDispatch, IsMem(FetchedPC), NEW i, i = Inst(FetchedPC), NEW addr \in Nat,
         NEW rs, rs = TailOf("RUU"), NEW c, NEW agen, NEW creators, NEW v, v = Vec,
         Entered(Core, c, Flight(queue), rs, agen, creators, FetchedPC, spec_mode),
         FromVectors(prog, c.st, v, rs, creators), IsAgenOp(agen, inst_seq),
         NEW v2, Installs(v, v2, "DTMP", rs, spec_mode),
         NEW lsq, lsq = TailOf("LSQ"), NEW op, op = AccessOf(i, addr, inst_seq),
         NEW creators2, creators2 = AccessCreators(i, rs),
         NEW d, d = Link(Allocate(c, lsq, op), lsq, creators2),
         NEW V, Adding(Flight(queue), rs, V)
  PROVE  /\ Entered(c, d, V, lsq, op, creators2, FetchedPC, spec_mode)
         /\ FromVectors(prog, d.st, v2, lsq, creators2) /\ IsAccessOp(op, i, inst_seq)
<1>1. i = InstOf(prog, FetchedPC) /\ InstructionOK(i)
  BY InstIs
<1>2. PICK p, c0, W, sq, iss, spec : /\ p = prog /\ c0 = Core /\ W = Flight(queue) /\ sq = inst_seq
                                    /\ iss = issuing /\ spec = spec_mode
  OBVIOUS
<1>3. /\ rs \in Stations /\ rs \notin W /\ lsq \in Stations /\ lsq \notin W
      /\ rs[1] = "RUU" /\ lsq[1] = "LSQ" /\ rs # lsq /\ V = W \cup {rs}
  BY <1>2, NextEntries DEF Adding
<1>4. FetchedPC \in Int /\ spec \in BOOLEAN /\ spec_mode \in BOOLEAN
  BY <1>2, FetchedIs DEF CanDispatch, IInv, LoopOK
<1>5. sq \in Nat /\ IsAccessOp(op, i, sq)
  <2>1. sq \in Nat /\ op = AccessOf(i, addr, sq)
    BY <1>2, SeqIsLast
  <2>2. QED
    BY <1>1, <2>1, AccessIs
<1>6. /\ op \in StationType /\ ~op.queued /\ ~op.issued /\ ~op.completed
      /\ op.seq = sq + 2
  BY <1>5 DEF IsAccessOp
<1>7. agen.seq = sq + 1 /\ agen.oname = "DTMP"
  BY <1>2 DEF IsAgenOp
<1>8. PICK sq2 \in Nat : sq2 = sq + 1 /\ sq <= sq2
  BY <1>5
<1>9. PICK E : E = {}
  OBVIOUS
<1>10. Body(p, c, iss, V, sq2, v2, {}, E \cup {rs})
  <2>1. Body(p, c0, iss, W, sq, v, {}, E)
    BY <1>2, <1>9, Invariants
  <2>2. /\ Entered(c0, c, W, rs, agen, creators, FetchedPC, spec)
        /\ FromVectors(p, c.st, v, rs, creators) /\ Installs(v, v2, agen.oname, rs, spec)
    BY <1>2, <1>7
  <2>3. RightSoFar(c0.st, W, spec)
    BY <1>2, RightNow, CoreIsCore
  <2>4. agen.seq = sq2
    BY <1>7, <1>8
  <2>5. Body(p, c, iss, W \cup {rs}, sq2, v2, {}, E \cup {rs})
    BY <1>4, <1>8, <2>1, <2>2, <2>3, <2>4, EnterBody
  <2>6. QED
    BY <1>3, <2>5
<1>11. PICK E2 : E2 = E \cup {rs}
  OBVIOUS
<1>12. /\ c \in CoreType /\ V \in SUBSET Stations /\ DependsOK(p, c.st, V) /\ lsq \notin V
       /\ \A x \in V : c.st[x].seq < op.seq
  <2>1. Body(p, c, iss, V, sq2, v2, {}, E2)
    BY <1>10, <1>11
  <2>2. c \in CoreType /\ V \in SUBSET Stations /\ DependsOK(p, c.st, V) /\ OrderOK(c.st, V, sq2)
    BY <2>1 DEF Body
  <2>3. \A x \in V : c.st[x].seq \in Nat /\ c.st[x].seq <= sq2
    BY <2>2, CoreParts, StationParts DEF OrderOK
  <2>4. QED
    BY <1>3, <1>5, <1>6, <1>8, <2>2, <2>3
<1>13. PICK x1, a : x1 = rs /\ a = AgenCreators(i)
  OBVIOUS
<1>14. /\ creators2 \in [1 .. 3 -> Stations \cup {NULL}]
       /\ creators2[1] = Creator(v, i.ins[1]) /\ creators2[2] = rs /\ creators2[3] = NULL
       /\ i.ins[1] \in Regs \cup {NA} /\ (i.ins[1] = NA => Creator(v, i.ins[1]) = NULL)
  BY <1>1, <1>3, <1>13, CreatorsAre
<1>15. Entered(c, d, V, lsq, op, creators2, FetchedPC, spec_mode)
  BY <1>3, <1>4, <1>6, <1>12, <1>14, EnterIs
<1>16. IsOperation(d.st[lsq], op, FetchedPC, spec_mode)
  BY <1>15, EnteredKeeps
<1>17. Creator(v2, "DTMP") = rs /\ Creator(v2, i.ins[1]) = Creator(v, i.ins[1])
  <2>1. Clean(v, spec) /\ DOMAIN v.cv = Names /\ DOMAIN v.scv = Names
    BY <1>2, VectorsClean
  <2>2. Installs(v, v2, "DTMP", rs, spec)
    BY <1>2
  <2>3. Creator(v2, "DTMP") = rs /\ \A r \in Regs \cup {NA} : Creator(v2, r) = Creator(v, r)
    BY <2>1, <2>2, CreatorInstalled
  <2>4. QED
    BY <1>14, <2>3
<1>18. FromVectors(p, d.st, v2, lsq, creators2)
  <2>1. d.st[lsq].pc = FetchedPC /\ in_LSQ(lsq)
    BY <1>3, <1>16 DEF IsOperation, in_LSQ
  <2>2. \A k \in Operands : Reads(p, d.st, lsq, k) = IF k = 0 THEN i.ins[1] ELSE IF k = 1 THEN "DTMP" ELSE NA
    BY <1>1, <1>2, <2>1 DEF Reads
  <2>3. \A r : r \in Regs \cup {NA} /\ r # NA => r \in Names
    BY NamesAre
  <2>4. "DTMP" \in Names /\ "DTMP" # NA
    BY NamesAre DEF NA
  <2>5. ASSUME NEW k \in Operands
        PROVE  /\ Reads(p, d.st, lsq, k) = NA => creators2[k + 1] = NULL
               /\ Reads(p, d.st, lsq, k) # NA => /\ Reads(p, d.st, lsq, k) \in Names
                                                /\ creators2[k + 1] = Creator(v2, Reads(p, d.st, lsq, k))
    <3>1. CASE k = 0
      BY <1>14, <1>17, <2>2, <2>3, <3>1
    <3>2. CASE k = 1
      BY <1>14, <1>17, <2>2, <2>4, <3>2
    <3>3. CASE k = 2
      BY <1>14, <2>2, <3>3
    <3>4. QED
      BY <3>1, <3>2, <3>3, OperandsAre
  <2>6. QED
    BY <2>5 DEF FromVectors
<1>19. QED
  BY <1>2, <1>5, <1>15, <1>18

\* What DispatchMem does, with names for its parts.
MemDispatched(i, rs, lsq, addr, agen, access, creators, creators2, c, d, b, e, b2, f) ==
  /\ agen = AgenOf(inst_seq) /\ creators = AgenCreators(i)
  /\ access = AccessOf(i, addr, inst_seq) /\ creators2 = AccessCreators(i, rs)
  /\ c = Link(Allocate(Core, rs, agen), rs, creators)
  /\ d = Link(Allocate(c, lsq, access), lsq, creators2)
  /\ b = OPERANDS_READY(d.st[rs]) /\ e = EnqueueIf(d, b, rs)
  /\ b2 = (IsStore(e.st, lsq) /\ OPERANDS_READY(e.st[lsq])) /\ f = EnqueueIf(e, b2, lsq)
  /\ CoreIs(f)
  /\ ruu_install_odep(BothOut(i.out, rs, lsq))

\* What the dispatch of a memory operation does, at the address it gets.
MemEffect(i, rs, lsq, addr) ==
  LET agen == AgenOf(inst_seq)
      access == AccessOf(i, addr, inst_seq)
      c == Link(Allocate(Core, rs, agen), rs, AgenCreators(i))
      d == Link(Allocate(c, lsq, access), lsq, AccessCreators(i, rs))
      e == EnqueueIf(d, OPERANDS_READY(d.st[rs]), rs)
  IN /\ CoreIs(EnqueueIf(e, IsStore(e.st, lsq) /\ OPERANDS_READY(e.st[lsq]), lsq))
     /\ ruu_install_odep(BothOut(i.out, rs, lsq))

LEMMA MemDispatches ==
  ASSUME DispatchMem, NEW i, i = Inst(FetchedPC),
         NEW rs, rs = TailOf("RUU"), NEW lsq, lsq = TailOf("LSQ")
  PROVE  \E addr \in (IF spec_mode THEN SpecAddrs ELSE {i.addr}) :
           \E agen, access, creators, creators2, c, d, b, e, b2, f :
             MemDispatched(i, rs, lsq, addr, agen, access, creators, creators2, c, d, b, e, b2, f)
<1>0. \E addr \in (IF spec_mode THEN SpecAddrs ELSE {Inst(FetchedPC).addr}) :
        MemEffect(Inst(FetchedPC), TailOf("RUU"), TailOf("LSQ"), addr)
  BY ZenonT(60) DEF DispatchMem, MemEffect, AgenOf, AccessOf, AgenCreators, AccessCreators, BothOut
<1>1. PICK addr \in (IF spec_mode THEN SpecAddrs ELSE {i.addr}) : MemEffect(i, rs, lsq, addr)
  BY <1>0
<1>2. PICK agen, access, creators, creators2 :
        /\ agen = AgenOf(inst_seq) /\ creators = AgenCreators(i)
        /\ access = AccessOf(i, addr, inst_seq) /\ creators2 = AccessCreators(i, rs)
  OBVIOUS
<1>3. PICK c : c = Link(Allocate(Core, rs, agen), rs, creators)
  OBVIOUS
<1>4. PICK d : d = Link(Allocate(c, lsq, access), lsq, creators2)
  OBVIOUS
<1>5. PICK b : b = OPERANDS_READY(d.st[rs])
  OBVIOUS
<1>6. PICK e : e = EnqueueIf(d, b, rs)
  OBVIOUS
<1>7. PICK b2 : b2 = (IsStore(e.st, lsq) /\ OPERANDS_READY(e.st[lsq]))
  OBVIOUS
<1>8. PICK f : f = EnqueueIf(e, b2, lsq)
  OBVIOUS
<1>9. CoreIs(f) /\ ruu_install_odep(BothOut(i.out, rs, lsq))
  BY <1>1, <1>2, <1>3, <1>4, <1>5, <1>6, <1>7, <1>8 DEF MemEffect
<1>10. MemDispatched(i, rs, lsq, addr, agen, access, creators, creators2, c, d, b, e, b2, f)
  BY <1>2, <1>3, <1>4, <1>5, <1>6, <1>7, <1>8, <1>9 DEF MemDispatched
<1>11. QED
  BY <1>10

LEMMA DispatchMemKeeps ==
  ASSUME IInv, DispatchMem
  PROVE  Preserved
<1>1. PICK i, rs, lsq, pc, npc : /\ i = Inst(FetchedPC) /\ rs = TailOf("RUU") /\ lsq = TailOf("LSQ")
                                 /\ pc = FetchedPC /\ npc = NPC(FetchedPC)
  OBVIOUS
<1>2. /\ stage = "dispatch" /\ CanDispatch /\ fetch_data # <<>> /\ IsMem(FetchedPC)
      /\ Dispatched(npc) /\ inst_seq' = inst_seq + 2
      /\ queue' = [RUU |-> AddTail("RUU"), LSQ |-> AddTail("LSQ")]
  BY <1>1 DEF DispatchMem, CanDispatch
<1>3. PICK addr \in (IF spec_mode THEN SpecAddrs ELSE {i.addr}) :
        \E agen, access, creators, creators2, c2, d, b, e, b2, f :
          MemDispatched(i, rs, lsq, addr, agen, access, creators, creators2, c2, d, b, e, b2, f)
  BY <1>1, MemDispatches
<1>4. PICK agen, access, creators, creators2, c2, d, b, e, b2, f :
        MemDispatched(i, rs, lsq, addr, agen, access, creators, creators2, c2, d, b, e, b2, f)
  BY <1>3
<1>5. b \in BOOLEAN /\ b2 \in BOOLEAN
  BY <1>4 DEF MemDispatched, OPERANDS_READY
<1>6. /\ i = InstOf(prog, pc) /\ InstructionOK(i) /\ pc \in Int /\ spec_mode \in BOOLEAN
      /\ "LOAD" \in i.flags \/ "STORE" \in i.flags
  BY <1>1, <1>2, InstIs, FetchedIs DEF IInv, LoopOK, IsMem, Is
<1>7. /\ i.flags \cap {"NOP", "EXIT"} = {} /\ "CTRL" \notin i.flags
      /\ ("STORE" \in i.flags <=> "LOAD" \notin i.flags)
  BY <1>6 DEF InstructionOK
<1>8. addr \in Nat
  <2>1. i.addr \in Nat
    BY <1>6, InstructionParts
  <2>2. SpecAddrs \subseteq Nat
    BY CoreAssumption
  <2>3. QED
    BY <1>3, <2>1, <2>2
<1>9. /\ ~Is("EXIT", pc) /\ npc \in Int /\ npc = pc + 1
      /\ Head(fetch_data).pred_PC = npc
  BY <1>1, <1>2, <1>7, FetchedIs DEF Is
<1>10. FetchedOK' /\ LoopOK' /\ (~spec_mode => pc \in DOMAIN prog)
  BY <1>1, <1>2, <1>9, FrontKept
<1>11. ~Mispredicted(npc)
  BY <1>9 DEF Mispredicted
<1>12. PICK c, v, W, p, sq, iss, que, V :
         /\ c = Core /\ v = Vec /\ W = Flight(queue) /\ p = prog /\ sq = inst_seq
         /\ iss = issuing /\ que = queue /\ V = W \cup {rs}
  OBVIOUS
<1>13. PICK v3, que2 : v3 = Vec' /\ que2 = queue'
  OBVIOUS
<1>14. PICK v2 : Installs(v, v2, "DTMP", rs, spec_mode) /\ Installs(v2, v3, i.out, lsq, spec_mode)
  <2>1. DOMAIN create_vector = Names /\ DOMAIN spec_create_vector = Names
    BY VectorsClean
  <2>2. i.out \in Regs \cup {NA}
    BY <1>6, InstructionParts
  <2>3. ruu_install_odep(BothOut(i.out, rs, lsq))
    BY <1>4 DEF MemDispatched
  <2>4. QED
    BY <1>12, <1>13, <2>1, <2>2, <2>3, InstallBoth
<1>15. /\ Entered(c, c2, W, rs, agen, creators, pc, spec_mode)
       /\ FromVectors(p, c2.st, v, rs, creators) /\ IsAgenOp(agen, sq)
  <2>1. agen = AgenOf(inst_seq) /\ creators = AgenCreators(i) /\ c2 = Link(Allocate(c, rs, agen), rs, creators)
    BY <1>4, <1>12 DEF MemDispatched
  <2>2. QED
    BY <1>1, <1>2, <1>12, <2>1, AgenEntered
<1>16. /\ Entered(c2, d, V, lsq, access, creators2, pc, spec_mode)
       /\ FromVectors(p, d.st, v2, lsq, creators2) /\ IsAccessOp(access, i, sq)
  <2>1. /\ access = AccessOf(i, addr, inst_seq) /\ creators2 = AccessCreators(i, rs)
        /\ d = Link(Allocate(c2, lsq, access), lsq, creators2)
    BY <1>4 DEF MemDispatched
  <2>2. /\ Entered(Core, c2, Flight(queue), rs, agen, creators, FetchedPC, spec_mode)
        /\ FromVectors(prog, c2.st, v, rs, creators) /\ IsAgenOp(agen, inst_seq)
        /\ Adding(Flight(queue), rs, V)
    BY <1>1, <1>12, <1>15 DEF Adding
  <2>3. QED
    BY <1>1, <1>2, <1>8, <1>12, <1>14, <2>1, <2>2, AccessEntered
<1>17. DoesAccess(agen, access, InstOf(p, pc)) /\ agen.seq = sq + 1 /\ access.seq = sq + 2
       /\ agen.oname = "DTMP" /\ access.oname = i.out /\ ~agen.recover_inst
  BY <1>6, <1>7, <1>12, <1>15, <1>16 DEF DoesAccess, IsAgenOp, IsAccessOp, IsAccess
<1>18. /\ que["RUU"].num < size["RUU"] /\ rs = At(que, "RUU", que["RUU"].num)
       /\ que["LSQ"].num < size["LSQ"] /\ lsq = At(que, "LSQ", que["LSQ"].num)
       /\ BothGrown(que, que2)
  <2>1. /\ que["RUU"].num < size["RUU"] /\ rs = At(que, "RUU", que["RUU"].num)
        /\ que["LSQ"].num < size["LSQ"] /\ lsq = At(que, "LSQ", que["LSQ"].num)
    BY <1>1, <1>2, <1>12, NextEntries
  <2>2. Queues(que2) /\ que2["RUU"] = AddTail("RUU") /\ que2["LSQ"] = AddTail("LSQ")
    BY <1>2, <1>13 DEF Queues
  <2>3. QED
    BY <1>12, <2>1, <2>2 DEF Grown, AddTail, BothGrown
<1>19. PICK spec \in BOOLEAN : spec = spec_mode
  BY <1>6
<1>20. BothEntered(p, c, f, iss, que, que2, sq, v3, rs, agen, pc, spec)
  <2>1. Machine(p, c, iss, que, sq, v) /\ c.st = station
    BY <1>12, Invariants, CoreIsCore
  <2>2. RightSoFar(c.st, Flight(que), spec)
    BY <1>12, <1>19, <2>1, RightNow
  <2>3. /\ Entered(c, c2, Flight(que), rs, agen, creators, pc, spec)
        /\ Installs(v, v2, agen.oname, rs, spec) /\ Adding(Flight(que), rs, V)
        /\ Entered(c2, d, V, lsq, access, creators2, pc, spec)
        /\ Installs(v2, v3, access.oname, lsq, spec)
    BY <1>12, <1>14, <1>15, <1>16, <1>17, <1>19 DEF Adding
  <2>4. /\ FromVectors(p, c2.st, v, rs, creators) /\ FromVectors(p, d.st, v2, lsq, creators2)
        /\ DoesAccess(agen, access, InstOf(p, pc)) /\ agen.seq = sq + 1 /\ access.seq = sq + 2
    BY <1>15, <1>16, <1>17
  <2>5. Settling(d, e, rs, b) /\ SettlingStore(e, f, lsq, b2)
    BY <1>4, <1>5 DEF MemDispatched, Settling, SettlingStore
  <2>6. QED
    BY <1>18, <2>1, <2>2, <2>3, <2>4, <2>5, MachineEntersBoth
<1>21. /\ Machine(p, f, issuing, que2, sq + 2, v3)
       /\ KeepsOps(c.st, f.st, W) /\ IsOperation(f.st[rs], agen, pc, spec)
       /\ ~f.st[rs].completed /\ (c.free >= 8 => (f.panic <=> c.panic))
  BY <1>12, <1>20 DEF BothEntered
<1>22. Core' = f /\ station' = f.st /\ panicked' = f.panic
  <2>1. CoreIs(f)
    BY <1>4 DEF MemDispatched
  <2>2. f \in CoreType
    BY <1>21, InFlight
  <2>3. QED
    BY <2>1, <2>2, CoreSets
<1>23. MachineOK'
  <2>1. prog' = p /\ issuing' = issuing
    BY <1>2, <1>12 DEF Dispatched, runVars
  <2>2. QED
    BY <1>2, <1>12, <1>13, <1>21, <1>22, <2>1 DEF MachineOK
<1>24. PipelineOK'
  <2>1. KeepsOps(station, station', Flight(queue))
    BY <1>12, <1>21, <1>22, CoreIsCore
  <2>2. PICK mis \in BOOLEAN : mis = FALSE
    OBVIOUS
  <2>3. mis = Mispredicted(npc)
    BY <1>11, <2>2 DEF Mispredicted
  <2>4. Newest(station', rs, FetchedPC, mis)
    BY <1>1, <1>17, <1>19, <1>21, <1>22, <2>2 DEF Newest, IsOperation
  <2>5. /\ Inst(FetchedPC).flags \cap {"NOP", "EXIT"} = {} /\ Grown(queue, queue', "RUU")
        /\ queue["RUU"].num < size["RUU"] /\ rs = At(queue, "RUU", queue["RUU"].num)
        /\ ~spec_mode => FetchedPC \in DOMAIN prog
    BY <1>1, <1>7, <1>10, <1>12, <1>13, <1>18 DEF BothGrown
  <2>6. QED
    BY <1>2, <2>1, <2>3, <2>4, <2>5, PipelineGrows
<1>25. LinksSuffice => (panicked' <=> panicked)
  <2>1. LinksSuffice => c.free >= 8
    BY <1>12, CoreIsCore, Invariants DEF LinksSuffice
  <2>2. c.panic = panicked
    BY <1>12, CoreIsCore
  <2>3. QED
    BY <1>21, <1>22, <2>1, <2>2
<1>26. QED
  BY <1>10, <1>23, <1>24, <1>25 DEF Preserved, IInv

\* The program ends.
LEMMA ExitKeeps ==
  ASSUME IInv, Exit
  PROVE  Preserved
<1>1. PICK pc, i : pc = FetchedPC /\ i = Inst(pc)
  OBVIOUS
<1>2. /\ stage = "dispatch" /\ CanDispatch /\ "EXIT" \in i.flags /\ fetch_data # <<>>
      /\ panicked' = (panicked \/ spec_mode) /\ done' = TRUE /\ stage' = "exit"
      /\ executed' = Append(executed, pc)
      /\ UNCHANGED <<prog, station, ready_queue, event_queue, rslink_free, queue, vectorVars>>
      /\ UNCHANGED <<fetch_data, fetch_pred_PC, spec_mode, recover_PC, inst_seq, issuing, retired>>
  BY <1>1 DEF Exit, Is, CanDispatch, frontVars, modeVars
<1>3. i = InstOf(prog, pc) /\ InstructionOK(i)
  BY <1>1, InstIs
<1>4. "TRAP" \in i.flags
  BY <1>2, <1>3 DEF InstructionOK
<1>5. ~spec_mode
  BY <1>1, <1>2, <1>4, TrapsAreRight DEF Is
<1>6. panicked \in BOOLEAN /\ issuing = <<>> /\ ~done /\ prog \in Programs /\ spec_mode \in BOOLEAN
  BY <1>2, Invariants DEF IInv, LoopOK
<1>7. panicked' = panicked
  BY <1>2, <1>5, <1>6
<1>8. MachineOK'
  BY <1>2, <1>7, MachineFrame DEF coreVars
<1>9. PICK fd, fp, ex, rec, ex2 : /\ fd = fetch_data /\ fp = fetch_pred_PC /\ ex = executed
                                  /\ rec = recover_PC /\ ex2 = Append(ex, pc)
  OBVIOUS
<1>10. FetchOK(prog, fd, fp) /\ ex \in Seq(DOMAIN prog) /\ rec \in Int
       /\ FollowerOf(prog, ex) \in DOMAIN prog /\ First(fd, fp) = FollowerOf(prog, ex)
  BY <1>5, <1>6, <1>9 DEF IInv, FetchedOK, FrontOK
<1>11. pc \in DOMAIN prog
  BY <1>1, <1>2, <1>9, <1>10 DEF First, FetchedPC
<1>12. FetchedOK'
  <2>1. ex2 \in Seq(DOMAIN prog)
    BY <1>9, <1>10, <1>11, AppendProperties
  <2>2. FrontOK(prog, fd, fp, ex2, spec_mode, rec, TRUE)
    BY <1>10, <2>1 DEF FrontOK
  <2>3. QED
    BY <1>2, <1>9, <2>2 DEF FetchedOK
<1>13. LoopOK'
  BY <1>2, <1>6 DEF LoopOK
<1>14. PipelineOK'
  <2>1. Kept(prog, executed)' = Kept(prog, executed)
    <3>1. PICK kept : kept = Kept(prog, executed)
      OBVIOUS
    <3>2. ex2 = Append(executed, pc)
      BY <1>9
    <3>3. Kept(prog, ex2) = WithOne(i, pc, kept)
      BY <1>3, <1>11, <3>1, <3>2, ExecutedIs
    <3>4. Kept(prog, ex2) = kept
      BY <1>2, <3>3 DEF WithOne
    <3>5. QED
      BY <1>2, <1>9, <3>1, <3>4
  <2>2. Unretired' = Unretired
    BY <1>2, <2>1 DEF Unretired
  <2>3. QED
    BY <1>2, <2>1, <2>2 DEF IInv, PipelineOK
<1>15. QED
  BY <1>7, <1>8, <1>12, <1>13, <1>14 DEF Preserved, IInv

LEMMA StepKeeps ==
  ASSUME IInv, [Next]_vars
  PROVE  Preserved
<1>1. CASE UNCHANGED vars
  BY <1>1, ExitedKeeps
<1>2. CASE Commit
  BY <1>2, CommitKeeps
<1>3. CASE ruu_release_fu
  BY <1>3, StageEndsKeep
<1>4. CASE WritebackSquashed
  BY <1>4, WritebackSquashedKeeps
<1>5. CASE Writeback
  BY <1>5, WritebackKeeps
<1>6. CASE WritebackEnds
  BY <1>6, StageEndsKeep
<1>7. CASE lsq_refresh
  BY <1>7, RefreshKeeps
<1>8. CASE IssueSquashed
  BY <1>8, IssueSquashedKeeps
<1>9. CASE IssueStore
  BY <1>9, IssueStoreKeeps
<1>10. CASE IssueToUnit
  BY <1>10, IssueToUnitKeeps
<1>11. CASE IssueWithoutUnit
  BY <1>11, IssueWithoutUnitKeeps
<1>12. CASE NotIssued
  BY <1>12, NotIssuedKeeps
<1>13. CASE IssueEnds
  BY <1>13, StageEndsKeep
<1>14. CASE DispatchNop
  BY <1>14, DispatchNopKeeps
<1>15. CASE DispatchOp
  BY <1>15, DispatchOpKeeps
<1>16. CASE DispatchMem
  BY <1>16, DispatchMemKeeps
<1>17. CASE Exit
  BY <1>17, ExitKeeps
<1>18. CASE DispatchEnds
  BY <1>18, StageEndsKeep
<1>19. CASE FetchBlocked \/ Fetch \/ FetchMiss \/ FetchEnds
  BY <1>19, FetchStepsKeep
<1>20. CASE Exited
  BY <1>20, ExitedKeeps DEF Exited
<1>21. QED
  BY <1>1, <1>2, <1>3, <1>4, <1>5, <1>6, <1>7, <1>8, <1>9, <1>10, <1>11, <1>12, <1>13, <1>14,
     <1>15, <1>16, <1>17, <1>18, <1>19, <1>20 DEF Next

\* Initially nothing is in flight.
LEMMA NothingInFlight ==
  ASSUME NEW p, NEW c \in CoreType, NEW v, NEW que,
         \A o \in Stations : c.st[o].odep_list = <<>>,
         c.ready = <<>>, c.events = <<>>, c.free = MAX_RS_LINKS,
         DOMAIN v.cv = Names, DOMAIN v.scv = Names, v.ucv = {}, \A r \in Names : v.cv[r] = NULL,
         Queues(que), \A q \in {"RUU", "LSQ"} : que[q] = [head |-> 0, tail |-> 0, num |-> 0]
  PROVE  Machine(p, c, <<>>, que, 0, v)
<1>1. PICK st, W, R, L, E : /\ st = c.st /\ W = Flight(que)
                            /\ R = Entries(que, "RUU") /\ L = Entries(que, "LSQ") /\ E = {}
  OBVIOUS
<1>2. \A q \in {"RUU", "LSQ"} : que[q].head = 0 /\ que[q].tail = 0 /\ que[q].num = 0
  OBVIOUS
<1>3. \A q \in {"RUU", "LSQ"} : Entries(que, q) = {}
  BY <1>2 DEF Entries
<1>4. W = {} /\ R = {} /\ L = {}
  BY <1>1, <1>3 DEF Flight
<1>5. QueuesOK(st, que)
  <2>1. ASSUME NEW q \in {"RUU", "LSQ"}
        PROVE  RingOK(que, q) /\ InOrder(st, que, q)
    <3>1. size[q] \in Nat \ {0}
      BY SizesAre
    <3>2. 0 \in 0 .. size[q] - 1 /\ 0 \in 0 .. size[q] /\ (0 + 0) % size[q] = 0
      BY <3>1
    <3>3. RingOK(que, q)
      BY <1>2, <3>2 DEF RingOK
    <3>4. InOrder(st, que, q)
      BY <1>2 DEF InOrder
    <3>5. QED
      BY <3>3, <3>4
  <2>2. QED
    BY <2>1 DEF QueuesOK, Queues
<1>6. OperationsOK(p, st, R, L)
  BY <1>4 DEF OperationsOK
<1>7. st \in [Stations -> StationType]
  BY <1>1, CoreParts
<1>8. PICK none : none = <<>>
  OBVIOUS
<1>9. /\ none \in Seq(LinkType) /\ Len(none) = 0 /\ DOMAIN none = {}
      /\ SoundUses(none, st) /\ Uses(none, st) = {}
  BY <1>8, EmptySeq, NoUses
<1>10. OrderOK(st, W, 0) /\ StatusOK(st, W, E) /\ LoadsOK(st, W)
  BY <1>4 DEF OrderOK, StatusOK, LoadsOK
<1>11. ListsOK(st, none, none, none, W, E)
  <2>1. Sound(none, st) /\ In(none, st) = {}
    BY <1>9 DEF Sound, In
  <2>2. QED
    BY <1>4, <2>1 DEF ListsOK
<1>12. DependsOK(p, st, W)
  <2>1. \A o \in Stations : st[o].odep_list = none
    BY <1>1, <1>8
  <2>2. \A o \in Stations : ConsumersOK(p, st, W, o)
    BY <1>4, <1>9, <2>1, <1>8 DEF ConsumersOK
  <2>3. QED
    BY <1>4, <2>2 DEF DependsOK
<1>13. VectorsOK(st, W, v.cv, v.scv, v.ucv)
  <2>1. Wrong(st, W) = {} /\ Right(st, W) = {}
    BY <1>4 DEF Wrong, Right
  <2>2. ASSUME NEW r \in Names
        PROVE  Named(st, Right(st, W), r, NULL)
    <3>1. NULL \notin Stations
      BY StationsFinite
    <3>2. \A o \in Stations : ~Creates(st, Right(st, W), r, o)
      BY <2>1 DEF Creates
    <3>3. QED
      BY <3>1, <3>2 DEF Named
  <2>3. QED
    BY <2>1, <2>2 DEF VectorsOK
<1>14. Body(p, c, none, W, 0, v, E, E)
  <2>1. W \in SUBSET Stations /\ 0 \in Nat
    BY <1>4
  <2>2. c.ready = none /\ c.events = none
    BY <1>8
  <2>3. QED
    BY <1>1, <1>9, <1>10, <1>11, <1>12, <1>13, <2>1, <2>2 DEF Body
<1>15. Total(c, none) = MAX_RS_LINKS
  <2>1. Consumers(st, Stations) = {}
    <3>1. \A o \in Stations : DOMAIN st[o].odep_list = {}
      BY <1>1, <1>8, <1>9
    <3>2. QED
      BY <3>1 DEF Consumers
  <2>2. Cardinality(Consumers(st, Stations)) = 0
    BY <2>1, FS_EmptySet
  <2>3. MAX_RS_LINKS \in Nat
    BY CoreAssumption DEF Sizes
  <2>4. Len(c.ready) = 0 /\ Len(c.events) = 0 /\ Len(none) = 0
    BY <1>8, <1>9
  <2>5. QED
    BY <1>1, <2>2, <2>3, <2>4 DEF Total, LinksOf
<1>16. QED
  BY <1>1, <1>5, <1>6, <1>8, <1>14, <1>15 DEF Machine

LEMMA InitKeeps ==
  ASSUME Init
  PROVE  IInv
<1>1. MachineOK
  <2>1. PICK p, c, v, que : p = prog /\ c = Core /\ v = Vec /\ que = queue
    OBVIOUS
  <2>2. PICK s : s = NewStation
    OBVIOUS
  <2>3. s \in StationType /\ s.odep_list = <<>>
    BY <2>2, NewStationIs DEF NewStation
  <2>4. station = [o \in Stations |-> s]
    BY <2>2 DEF Init
  <2>5. /\ c.st = station /\ c.ready = <<>> /\ c.events = <<>>
        /\ c.free = MAX_RS_LINKS
    BY <2>1, CoreIsCore DEF Init
  <2>6. c \in CoreType
    <3>1. station \in [Stations -> StationType]
      BY <2>3, <2>4
    <3>2. PICK none : none = <<>>
      OBVIOUS
    <3>3. none \in Seq(LinkType)
      BY <3>2, EmptySeq
    <3>4. MAX_RS_LINKS \in Int /\ FALSE \in BOOLEAN
      BY CoreAssumption DEF Sizes
    <3>5. c = [st |-> station, ready |-> none, events |-> none, free |-> MAX_RS_LINKS, panic |-> FALSE]
      BY <2>1, <3>2 DEF Init, Core
    <3>6. QED
      BY <3>1, <3>3, <3>4, <3>5 DEF CoreType
  <2>7. \A o \in Stations : c.st[o].odep_list = <<>>
    BY <2>3, <2>4, <2>5
  <2>8. /\ DOMAIN v.cv = Names /\ DOMAIN v.scv = Names /\ v.ucv = {}
        /\ \A r \in Names : v.cv[r] = NULL
    BY <2>1, CoreIsCore DEF Init
  <2>9. Queues(que) /\ \A q \in {"RUU", "LSQ"} : que[q] = [head |-> 0, tail |-> 0, num |-> 0]
    <3>1. PICK ring : ring = [head |-> 0, tail |-> 0, num |-> 0]
      OBVIOUS
    <3>2. que = [q \in {"RUU", "LSQ"} |-> ring]
      BY <2>1, <3>1 DEF Init
    <3>3. Queues(que)
      BY <3>2 DEF Queues
    <3>4. QED
      BY <3>1, <3>2, <3>3
  <2>10. Machine(p, c, <<>>, que, 0, v)
    BY <2>5, <2>6, <2>7, <2>8, <2>9, NothingInFlight
  <2>11. issuing = <<>> /\ inst_seq = 0
    BY DEF Init
  <2>12. QED
    BY <2>1, <2>10, <2>11 DEF MachineOK
<1>2. PICK kept : kept = Kept(prog, executed)
  OBVIOUS
<1>3. /\ executed = <<>> /\ retired = <<>> /\ spec_mode = FALSE /\ done = FALSE /\ prog \in Programs
      /\ fetch_data = <<>> /\ fetch_pred_PC = 1 /\ recover_PC = 0 /\ stage = "commit" /\ issuing = <<>>
      /\ queue["RUU"].num = 0
  BY DEF Init
<1>4. kept = <<>>
  BY <1>2, <1>3, KeptEmpty
<1>5. kept \in Seq(Int) /\ Len(kept) = 0 /\ retired \in Seq(Int) /\ Len(retired) = 0
  BY <1>3, <1>4, EmptySeq
<1>6. PipelineOK
  <2>1. Unretired = 0
    BY <1>2, <1>5 DEF Unretired
  <2>2. Retirement(kept, retired)
    BY <1>5 DEF Retirement
  <2>3. Line(station, queue, kept, 0, 0, FALSE)
    BY <1>3, <1>5 DEF Line
  <2>4. QED
    BY <1>2, <1>3, <1>5, <2>1, <2>2, <2>3 DEF PipelineOK
<1>7. FetchedOK
  <2>1. PICK fd, ex : fd = fetch_data /\ ex = executed
    OBVIOUS
  <2>2. FetchOK(prog, fd, 1) /\ First(fd, 1) = 1
    BY <1>3, <2>1, FetchNone
  <2>3. FollowerOf(prog, ex) = 1
    BY <1>3, <2>1 DEF FollowerOf
  <2>4. 1 \in DOMAIN prog
    BY <1>3, ProgramIs
  <2>5. ex \in Seq(DOMAIN prog)
    BY <1>3, <2>1, EmptySeq
  <2>6. FrontOK(prog, fd, 1, ex, FALSE, 0, FALSE)
    BY <2>2, <2>3, <2>4, <2>5 DEF FrontOK
  <2>7. QED
    BY <1>3, <2>1, <2>6 DEF FetchedOK
<1>8. LoopOK
  BY <1>3 DEF LoopOK
<1>9. QED
  BY <1>1, <1>6, <1>7, <1>8 DEF IInv

\* Whatever the program and the predictions, the queues, the lists, the links,
\* the create vectors and the place where fetch goes on always fit together.
THEOREM InvariantKept == Spec => []IInv
<1>1. Init => IInv
  BY InitKeeps
<1>2. IInv /\ [Next]_vars => IInv'
  BY StepKeeps DEF Preserved
<1>3. QED
  BY <1>1, <1>2, PTL DEF Spec

-----------------------------------------------------------------------------
(* What the invariant says in the words of the properties *)

LEMMA WindowIs ==
  ASSUME Queues(queue)
  PROVE  Window = Flight(queue)
<1>1. DOMAIN queue = {"RUU", "LSQ"}
  BY DEF Queues
<1>2. \A q \in DOMAIN queue : {<<q, (queue[q].head + i) % size[q]>> : i \in 0 .. queue[q].num - 1}
                                = Entries(queue, q)
  BY DEF Entries, At
<1>3. Window = UNION {Entries(queue, q) : q \in DOMAIN queue}
  BY <1>2 DEF Window
<1>4. QED
  BY <1>1, <1>3 DEF Flight

\* The last writer at work is the one that the invariant names.
LEMMA PendingIs ==
  ASSUME station \in [Stations -> StationType], NEW W \in SUBSET Stations,
         \A x, y \in W : station[x].seq = station[y].seq => x = y,
         \A x \in W : station[x].seq <= inst_seq, inst_seq \in Nat,
         NEW r, NEW S \in SUBSET W
  PROVE  Named(station, S, r, Pending(Writer(r, S)))
<1>1. PICK writers : writers = {rs \in S : station[rs].oname = r}
  OBVIOUS
<1>2. \A x \in S : station[x].seq \in Nat /\ x \in Stations
  BY StationParts
<1>3. CASE writers = {}
  <2>1. Pending(Writer(r, S)) = NULL
    BY <1>1, <1>3 DEF Writer, Pending
  <2>2. \A o : ~Creates(station, S, r, o)
    BY <1>1, <1>3 DEF Creates
  <2>3. QED
    BY <2>1, <2>2, StationsFinite DEF Named
<1>4. CASE writers # {}
  <2>1. \E w \in writers : \A y \in writers : station[y].seq <= station[w].seq
    <3>1. PICK nums : nums = {station[x].seq + 1 : x \in writers}
      OBVIOUS
    <3>2. /\ inst_seq + 1 \in Nat /\ nums \in SUBSET (1 .. inst_seq + 1) /\ nums # {}
          /\ \A x \in writers : station[x].seq \in Nat
      BY <1>1, <1>2, <1>4, <3>1
    <3>3. PICK m \in nums : \A k \in nums : k <= m
      BY <3>2, Greatest
    <3>4. PICK w \in writers : m = station[w].seq + 1
      BY <3>1
    <3>5. \A y \in writers : station[y].seq + 1 <= station[w].seq + 1
      BY <3>1, <3>3, <3>4
    <3>6. QED
      BY <3>2, <3>4, <3>5
  <2>2. PICK w : w = Writer(r, S)
    OBVIOUS
  <2>3. w \in writers /\ \A y \in writers : station[y].seq <= station[w].seq
    BY <1>1, <1>4, <2>1, <2>2 DEF Writer
  <2>4. w \in S /\ w \in Stations /\ w # NULL /\ station[w].oname = r
    BY <1>1, <1>2, <2>3, StationsFinite
  <2>5. \A o \in S : Creates(station, S, r, o) <=> o = w /\ ~station[w].completed
    <3>1. Creates(station, S, r, w) <=> ~station[w].completed
      BY <1>1, <2>3, <2>4 DEF Creates
    <3>2. ASSUME NEW o \in S, Creates(station, S, r, o)
          PROVE  o = w
      <4>1. o \in writers /\ station[w].seq <= station[o].seq
        BY <1>1, <2>4, <3>2 DEF Creates
      <4>2. station[o].seq <= station[w].seq
        BY <2>3, <4>1
      <4>3. station[o].seq = station[w].seq
        BY <1>2, <2>4, <3>2, <4>1, <4>2
      <4>4. QED
        BY <2>4, <3>2, <4>3
    <3>3. QED
      BY <3>1, <3>2
  <2>6. Pending(w) = IF station[w].completed THEN NULL ELSE w
    BY <2>4 DEF Pending
  <2>7. \A o : Creates(station, S, r, o) => o \in S
    BY DEF Creates
  <2>8. Named(station, S, r, Pending(w))
    BY <2>4, <2>5, <2>6, <2>7, StationsFinite DEF Named
  <2>9. QED
    BY <2>2, <2>8
<1>5. QED
  BY <1>3, <1>4

\* What is named is named once.
LEMMA NamedOnce ==
  ASSUME NEW st, NEW S, NEW r, NEW a, NEW b, Named(st, S, r, a), Named(st, S, r, b)
  PROVE  a = b
BY StationsFinite DEF Named

\* What the invariant gives, with the window by name.
LEMMA WindowParts ==
  ASSUME IInv, NEW W, W = Window
  PROVE  /\ W = Flight(queue) /\ W \in SUBSET Stations /\ station \in [Stations -> StationType]
         /\ \A x, y \in W : station[x].seq = station[y].seq => x = y
         /\ \A x \in W : station[x].seq <= inst_seq
         /\ inst_seq \in Nat
         /\ StatusOK(station, W, {}) /\ DependsOK(prog, station, W) /\ LoadsOK(station, W)
         /\ VectorsOK(station, W, create_vector, spec_create_vector, use_spec_cv)
         /\ ListsOK(station, ready_queue, issuing, event_queue, W, {})
<1>1. W = Flight(queue) /\ W \in SUBSET Stations /\ station \in [Stations -> StationType] /\ inst_seq \in Nat
  BY WindowIs, Invariants
<1>2. PICK c, v : c = Core /\ v = Vec
  OBVIOUS
<1>3. Body(prog, c, issuing, W, inst_seq, v, {}, {})
  BY <1>1, <1>2, Invariants
<1>4. /\ c.st = station /\ c.ready = ready_queue /\ c.events = event_queue
      /\ v.cv = create_vector /\ v.scv = spec_create_vector /\ v.ucv = use_spec_cv
  BY <1>2, CoreIsCore
<1>5. OrderOK(station, W, inst_seq)
  BY <1>3, <1>4 DEF Body
<1>6. \A x, y \in W : station[x].seq = station[y].seq => x = y
  BY <1>5 DEF OrderOK
<1>7. \A x \in W : station[x].seq <= inst_seq
  BY <1>5 DEF OrderOK
<1>8. /\ StatusOK(station, W, {}) /\ DependsOK(prog, station, W) /\ LoadsOK(station, W)
      /\ VectorsOK(station, W, create_vector, spec_create_vector, use_spec_cv)
      /\ ListsOK(station, ready_queue, issuing, event_queue, W, {})
  BY <1>3, <1>4 DEF Body
<1>9. QED
  BY <1>1, <1>6, <1>7, <1>8

LEMMA InputsAre ==
  ASSUME IInv, NEW rs, NEW k \in 1 .. 3
  PROVE  Inputs(rs)[k] = Reads(prog, station, rs, k - 1)
<1>1. Inst(station[rs].pc) = InstOf(prog, station[rs].pc) /\ InstructionOK(Inst(station[rs].pc))
  BY InstIs
<1>2. PICK ins : ins = Inst(station[rs].pc).ins
  OBVIOUS
<1>3. DOMAIN ins = 1 .. 3
  BY <1>1, <1>2, InstructionParts
<1>4. Inputs(rs) = IF in_LSQ(rs) THEN <<ins[1], "DTMP", NA>>
                   ELSE IF station[rs].ea_comp THEN <<NA, ins[2], ins[3]>> ELSE ins
  BY <1>2 DEF Inputs
<1>5. CASE k = 1
  BY <1>1, <1>2, <1>4, <1>5 DEF Reads
<1>6. CASE k = 2
  BY <1>1, <1>2, <1>4, <1>6 DEF Reads
<1>7. CASE k = 3
  BY <1>1, <1>2, <1>4, <1>7 DEF Reads
<1>8. QED
  BY <1>5, <1>6, <1>7

LEMMA DependenciesFollow == IInv => DependenciesKept
<1> SUFFICES ASSUME IInv
             PROVE  DependenciesKept
  OBVIOUS
<1>1. PICK W : W = Window
  OBVIOUS
<1>2. /\ W \in SUBSET Stations /\ station \in [Stations -> StationType]
      /\ \A x, y \in W : station[x].seq = station[y].seq => x = y
      /\ \A x \in W : station[x].seq <= inst_seq
      /\ inst_seq \in Nat
      /\ StatusOK(station, W, {}) /\ DependsOK(prog, station, W)
      /\ VectorsOK(station, W, create_vector, spec_create_vector, use_spec_cv)
  BY <1>1, WindowParts
<1>3. \A r : \A S \in SUBSET W : Named(station, S, r, Pending(Writer(r, S)))
  BY <1>2, PendingIs
<1>4. ASSUME NEW rs \in W, NEW k \in 1 .. 3
      PROVE  station[rs].idep_ready[k - 1] <=>
               \/ Inputs(rs)[k] = NA
               \/ Pending(Writer(Inputs(rs)[k], OlderThan(rs))) = NULL
  <2>1. PICK r, S, j : r = Inputs(rs)[k] /\ S = OlderThan(rs) /\ j = k - 1
    OBVIOUS
  <2>2. j \in Operands /\ r = Reads(prog, station, rs, j)
    BY <2>1, InputsAre DEF Operands
  <2>3. S = Older(station, W, rs) /\ S \in SUBSET W
    BY <1>1, <2>1 DEF OlderThan, Older
  <2>4. station[rs].idep_ready[j] <=> \A o \in W : ~Awaits(prog, station, W, rs, j, o)
    BY <1>2, <2>2 DEF DependsOK, OperandsOK
  <2>5. \A o \in W : Awaits(prog, station, W, rs, j, o) <=> r # NA /\ Creates(station, S, r, o)
    BY <2>2, <2>3 DEF Awaits
  <2>6. PICK w : w = Pending(Writer(r, S))
    OBVIOUS
  <2>7. w \in Stations \cup {NULL} /\ \A o \in Stations : w = o <=> Creates(station, S, r, o)
    BY <1>3, <2>3, <2>6 DEF Named
  <2>8. \A o : Creates(station, S, r, o) => o \in W
    BY <2>3 DEF Creates
  <2>9. w = NULL <=> \A o \in W : ~Creates(station, S, r, o)
    BY <1>2, <2>7, <2>8, StationsFinite
  <2>10. QED
    BY <2>1, <2>4, <2>5, <2>6, <2>9
<1>5. \A rs \in W : station[rs].issued => OPERANDS_READY(station[rs])
  BY <1>2 DEF StatusOK
<1>6. ASSUME NEW r \in Names
      PROVE  /\ CREATE_VECTOR(r) = Pending(Writer(r, W))
             /\ create_vector[r] = Pending(Writer(r, {rs \in W : ~station[rs].spec_mode}))
  <2>1. PICK S : S = Right(station, W)
    OBVIOUS
  <2>2. S \in SUBSET W /\ S = {rs \in W : ~station[rs].spec_mode}
    BY <2>1 DEF Right
  <2>3. PICK v : v = Vec
    OBVIOUS
  <2>4. Named(station, W, r, CREATE_VECTOR(r))
    <3>1. VectorsOK(station, W, v.cv, v.scv, v.ucv)
      BY <1>2, <2>3, CoreIsCore
    <3>2. Named(station, W, r, Creator(v, r))
      BY <3>1, CreatorIs
    <3>3. QED
      BY <2>3, <3>2, VectorIs
  <2>5. Named(station, S, r, create_vector[r])
    BY <1>2, <2>1 DEF VectorsOK
  <2>6. Named(station, W, r, Pending(Writer(r, W))) /\ Named(station, S, r, Pending(Writer(r, S)))
    BY <1>3, <2>2
  <2>7. CREATE_VECTOR(r) = Pending(Writer(r, W)) /\ create_vector[r] = Pending(Writer(r, S))
    BY <2>4, <2>5, <2>6, NamedOnce
  <2>8. QED
    BY <2>2, <2>7
<1>7. QED
  BY <1>1, <1>4, <1>5, <1>6 DEF DependenciesKept

LEMMA MemoryOrderFollows == IInv => MemoryOrder
<1> SUFFICES ASSUME IInv
             PROVE  MemoryOrder
  OBVIOUS
<1>1. PICK W : W = Window
  OBVIOUS
<1>2. LoadsOK(station, W)
  BY <1>1, WindowParts
<1>3. ASSUME NEW load \in W, IsLoad(station, load), station[load].issued
      PROVE  LET stores == {rs \in OlderThan(load) : IsStore(station, rs)}
                 same == {rs \in stores : station[rs].addr = station[load].addr}
             IN /\ \A rs \in stores : STORE_ADDR_READY(station[rs])
                /\ same # {} =>
                     \E rs \in same : /\ OPERANDS_READY(station[rs])
                                      /\ \A other \in same : station[other].seq <= station[rs].seq
  <2>1. LoadOK(station, W, load)
    BY <1>2, <1>3 DEF LoadsOK
  <2>2. PICK S, E : S = Stores(station, W, load) /\ E = Same(station, W, load)
    OBVIOUS
  <2>3. S = {rs \in OlderThan(load) : IsStore(station, rs)}
    BY <1>1, <2>2 DEF Stores, Older, OlderThan
  <2>4. E = {rs \in S : station[rs].addr = station[load].addr}
    BY <2>2 DEF Same
  <2>5. /\ \A rs \in S : STORE_ADDR_READY(station[rs])
        /\ E # {} => \E rs \in E : /\ OPERANDS_READY(station[rs])
                                   /\ \A other \in E : station[other].seq <= station[rs].seq
    BY <2>1, <2>2 DEF LoadOK
  <2>6. QED
    BY <2>3, <2>4, <2>5
<1>4. QED
  BY <1>1, <1>3 DEF MemoryOrder

-----------------------------------------------------------------------------
(* The queues *)

LEMMA NodesAre ==
  ASSUME NEW list \in Seq(LinkType), Sound(list, station), NEW rs \in Stations
  PROVE  Cardinality(Nodes(rs, list)) = IF rs \in In(list, station) THEN 1 ELSE 0
<1>1. PICK N : N = Nodes(rs, list)
  OBVIOUS
<1>2. \A i, j \in N : i = j
  BY <1>1 DEF Nodes, Sound
<1>3. rs \in In(list, station) <=> N # {}
  BY <1>1 DEF Nodes, In
<1>4. CASE N = {}
  BY <1>1, <1>3, <1>4, FS_EmptySet
<1>5. CASE N # {}
  <2>1. PICK i \in N : N = {i}
    BY <1>2, <1>5
  <2>2. Cardinality(N) = 1
    BY <2>1, FS_Singleton
  <2>3. QED
    BY <1>1, <1>3, <1>5, <2>2
<1>6. QED
  BY <1>4, <1>5

LEMMA QueuesFollow == IInv /\ ~panicked => QueuesSound
<1> SUFFICES ASSUME IInv, ~panicked
             PROVE  QueuesSound
  OBVIOUS
<1>1. PICK W, st, ready, iss, events :
        W = Window /\ st = station /\ ready = ready_queue /\ iss = issuing /\ events = event_queue
  OBVIOUS
<1>2. /\ W \in SUBSET Stations /\ StatusOK(st, W, {}) /\ ListsOK(st, ready, iss, events, W, {})
      /\ ready \in Seq(LinkType) /\ iss \in Seq(LinkType) /\ events \in Seq(LinkType)
      /\ st \in [Stations -> StationType]
  BY <1>1, WindowParts, Invariants
<1>3. /\ Sound(ready, st) /\ Sound(iss, st) /\ Sound(events, st)
      /\ In(ready, st) \cap In(iss, st) = {}
      /\ In(ready, st) \cup In(iss, st) = {x \in W : st[x].queued}
      /\ In(events, st) = {x \in W : st[x].issued /\ ~st[x].completed}
  BY <1>2 DEF ListsOK
<1>4. \A rs \in Stations :
        /\ Cardinality(Nodes(rs, ready)) = IF rs \in In(ready, st) THEN 1 ELSE 0
        /\ Cardinality(Nodes(rs, iss)) = IF rs \in In(iss, st) THEN 1 ELSE 0
        /\ Cardinality(Nodes(rs, events)) = IF rs \in In(events, st) THEN 1 ELSE 0
  <2>1. \A list \in {ready, iss, events} : list \in Seq(LinkType) /\ Sound(list, station)
    BY <1>1, <1>2, <1>3
  <2>2. QED
    BY <1>1, <2>1, NodesAre
<1>5. ASSUME NEW rs \in W
      PROVE  /\ Cardinality(Nodes(rs, ready)) + Cardinality(Nodes(rs, iss))
                  = IF st[rs].queued THEN 1 ELSE 0
             /\ Cardinality(Nodes(rs, events)) = IF st[rs].issued /\ ~st[rs].completed THEN 1 ELSE 0
             /\ OPERANDS_READY(st[rs]) => st[rs].queued \/ st[rs].issued \/ IsLoad(st, rs)
  <2>1. rs \in Stations
    BY <1>2
  <2>2. st[rs].queued <=> rs \in In(ready, st) \/ rs \in In(iss, st)
    BY <1>3
  <2>3. ~(rs \in In(ready, st) /\ rs \in In(iss, st))
    BY <1>3
  <2>4. Cardinality(Nodes(rs, ready)) + Cardinality(Nodes(rs, iss)) = IF st[rs].queued THEN 1 ELSE 0
    BY <1>4, <2>1, <2>2, <2>3
  <2>5. rs \in In(events, st) <=> st[rs].issued /\ ~st[rs].completed
    BY <1>3
  <2>6. OPERANDS_READY(st[rs]) => st[rs].queued \/ st[rs].issued \/ IsLoad(st, rs)
    BY <1>2 DEF StatusOK
  <2>7. QED
    BY <1>4, <2>1, <2>4, <2>5, <2>6
<1>6. ASSUME NEW rs \in Stations \ W
      PROVE  Nodes(rs, ready \o iss) \cup Nodes(rs, events) = {}
  <2>1. /\ \A i \in DOMAIN ready : ~(ready[i].rs = rs /\ RSLINK_VALID(st, ready[i]))
        /\ \A i \in DOMAIN iss : ~(iss[i].rs = rs /\ RSLINK_VALID(st, iss[i]))
        /\ \A i \in DOMAIN events : ~(events[i].rs = rs /\ RSLINK_VALID(st, events[i]))
    BY <1>3, <1>6 DEF In
  <2>2. /\ DOMAIN ready = 1 .. Len(ready) /\ DOMAIN iss = 1 .. Len(iss)
        /\ Len(ready) \in Nat /\ Len(iss) \in Nat
    BY <1>2, LinksAre
  <2>3. PICK both : both = ready \o iss
    OBVIOUS
  <2>4. /\ both \in Seq(LinkType) /\ Len(both) = Len(ready) + Len(iss)
        /\ \A i \in 1 .. Len(ready) + Len(iss) :
             both[i] = IF i <= Len(ready) THEN ready[i] ELSE iss[i - Len(ready)]
    BY <1>2, <2>3, ConcatProperties
  <2>5. DOMAIN both = 1 .. Len(ready) + Len(iss)
    BY <2>4, LinksAre
  <2>6. ASSUME NEW i \in DOMAIN both
        PROVE  ~(both[i].rs = rs /\ RSLINK_VALID(st, both[i]))
    <3>1. CASE i <= Len(ready)
      BY <2>1, <2>2, <2>4, <2>5, <3>1
    <3>2. CASE ~(i <= Len(ready))
      <4>1. i - Len(ready) \in DOMAIN iss /\ both[i] = iss[i - Len(ready)]
        BY <2>2, <2>4, <2>5, <3>2
      <4>2. QED
        BY <2>1, <4>1
    <3>3. QED
      BY <3>1, <3>2
  <2>7. QED
    BY <1>1, <2>1, <2>3, <2>6 DEF Nodes
<1>7. Links + rslink_free = MAX_RS_LINKS
  <2>1. PICK c : c = Core
    OBVIOUS
  <2>2. Total(c, iss) = MAX_RS_LINKS
    BY <1>1, <2>1, Invariants
  <2>3. c.st = st /\ c.ready = ready /\ c.events = events /\ c.free = rslink_free
    BY <1>1, <2>1, CoreIsCore
  <2>4. rslink_free + Cardinality(Consumers(st, Stations)) + Len(ready) + Len(iss) + Len(events) = MAX_RS_LINKS
    BY <2>2, <2>3 DEF Total, LinksOf
  <2>5. Len(ready) \in Nat /\ Len(iss) \in Nat /\ Len(events) \in Nat /\ rslink_free \in Int
    BY <1>2, LinksAre, Invariants
  <2>6. Cardinality(Consumers(st, Stations)) \in Nat
    BY <1>2, ConsumersFinite, FS_CardinalityType
  <2>7. QED
    BY <1>1, <2>4, <2>5, <2>6 DEF Links
<1>8. QED
  BY <1>1, <1>5, <1>6, <1>7 DEF QueuesSound

-----------------------------------------------------------------------------
(* The architecture is implemented *)

LEMMA InitImplements == Init => Promised!Init
BY DEF Init, Promised!Init

\* What is dispatched off the wrong path is executed next.
LEMMA DispatchImplements ==
  ASSUME IInv, stage = "dispatch", CanDispatch, ~spec_mode,
         executed' = Append(executed, FetchedPC), UNCHANGED <<prog, retired>>,
         done' = Is("EXIT", FetchedPC)
  PROVE  Promised!Execute
<1>1. PICK fd, fp, ex, pc : /\ fd = fetch_data /\ fp = fetch_pred_PC /\ ex = executed
                            /\ pc = FollowerOf(prog, ex)
  OBVIOUS
<1>2. ~done /\ fd # <<>>
  BY <1>1 DEF IInv, LoopOK, CanDispatch
<1>3. pc \in DOMAIN prog /\ First(fd, fp) = pc
  BY <1>1, <1>2 DEF IInv, FetchedOK, FrontOK
<1>4. FetchedPC = pc
  BY <1>1, <1>2, <1>3 DEF First, FetchedPC
<1>5. Promised!NextPC = pc
  BY <1>1, FollowerIsNext
<1>6. Inst(pc) = prog[pc]
  BY <1>3 DEF Inst
<1>7. "TRAP" \in prog[pc].flags => retired = Promised!ToRetire
  <2>1. SUFFICES ASSUME "TRAP" \in prog[pc].flags
                 PROVE  retired = Promised!ToRetire
    OBVIOUS
  <2>2. Unretired = 0
    BY <1>4, <1>6, <2>1, TrapsAreRight DEF Is
  <2>3. PICK kept : kept = Kept(prog, executed)
    OBVIOUS
  <2>4. Retirement(kept, retired)
    BY <2>3 DEF IInv, PipelineOK
  <2>5. kept \in Seq(Int) /\ retired \in Seq(Int) /\ Len(kept) \in Nat /\ Len(retired) \in Nat
    BY <2>4, LenProperties DEF Retirement
  <2>6. Len(kept) = Len(retired)
    BY <2>2, <2>3, <2>5 DEF Unretired
  <2>7. \A i \in 1 .. Len(retired) : retired[i] = kept[i]
    BY <2>4 DEF Retirement
  <2>8. retired = kept
    BY <2>5, <2>6, <2>7, SeqEqual
  <2>9. QED
    BY <2>3, <2>8, KeptIsToRetire
<1>8. done' = ("EXIT" \in prog[pc].flags)
  BY <1>4, <1>6 DEF Is
<1>9. QED
  BY <1>2, <1>3, <1>4, <1>5, <1>7, <1>8 DEF Promised!Execute

\* Commit retires what comes next.
LEMMA CommitImplements ==
  ASSUME IInv, Commit
  PROVE  Promised!Retire
<1>1. PICK x0, m, u, kept : /\ x0 = At(queue, "RUU", 0) /\ m = Len(retired) /\ u = Unretired
                            /\ kept = Kept(prog, executed)
  OBVIOUS
<1>2. Queues(queue) /\ RingOK(queue, "RUU")
  BY Invariants
<1>3. HeadOf("RUU") = x0
  BY <1>1, <1>2, HeadIs DEF HeadOf
<1>4. /\ queue["RUU"].num > 0 /\ station[x0].completed
      /\ retired' = Append(retired, station[x0].pc)
      /\ UNCHANGED <<prog, executed, done>>
  BY <1>3 DEF Commit, CanCommit, dispatchVars, runVars
<1>5. Line(station, queue, kept, m, u, spec_mode)
  BY <1>1 DEF IInv, PipelineOK
<1>6. queue["RUU"].num \in Nat /\ 0 \in 0 .. queue["RUU"].num - 1
  <2>1. queue["RUU"].num \in 0 .. size["RUU"] /\ size["RUU"] \in Nat
    BY <1>2, SizesAre DEF RingOK
  <2>2. QED
    BY <1>4, <2>1
<1>7. m \in Nat /\ u \in Nat /\ Len(kept) = m + u
  BY <1>5 DEF Line
<1>8. /\ station[x0].spec_mode <=> u <= 0
      /\ 0 < u => station[x0].pc = kept[m + 0 + 1]
      /\ station[x0].recover_inst /\ ~station[x0].completed <=> spec_mode /\ 0 = u - 1
      /\ spec_mode => u > 0
      /\ ~spec_mode => u = queue["RUU"].num
  BY <1>1, <1>5, <1>6 DEF Line
<1>9. u > 0 /\ station[x0].pc = kept[m + 1]
  BY <1>4, <1>6, <1>7, <1>8
<1>10. Promised!ToRetire = kept
  BY <1>1, KeptIsToRetire
<1>11. Len(retired) < Len(kept) /\ retired' = Append(retired, kept[Len(retired) + 1])
  BY <1>1, <1>4, <1>7, <1>9
<1>12. QED
  BY <1>4, <1>10, <1>11 DEF Promised!Retire

LEMMA StutterImplements ==
  ASSUME UNCHANGED <<prog, executed, retired, done>>
  PROVE  [Promised!Next]_(Promised!vars)
BY DEF Promised!vars

\* A dispatch, on the wrong path or off it.
LEMMA DispatchedImplements ==
  ASSUME IInv, stage = "dispatch", CanDispatch, ~Is("EXIT", FetchedPC), NEW npc, Dispatched(npc)
  PROVE  [Promised!Next]_(Promised!vars)
<1>1. /\ executed' = IF spec_mode THEN executed ELSE Append(executed, FetchedPC)
      /\ UNCHANGED <<prog, retired, done>>
  BY DEF Dispatched, runVars
<1>2. done = FALSE
  BY DEF IInv, LoopOK
<1>3. CASE spec_mode
  BY <1>1, <1>3, StutterImplements
<1>4. CASE ~spec_mode
  <2>1. done' = Is("EXIT", FetchedPC)
    <3>1. Is("EXIT", FetchedPC) \in BOOLEAN
      BY DEF Is
    <3>2. Is("EXIT", FetchedPC) = FALSE
      BY <3>1
    <3>3. QED
      BY <1>1, <1>2, <3>2
  <2>2. Promised!Execute
    BY <1>1, <1>4, <2>1, DispatchImplements
  <2>3. QED
    BY <2>2 DEF Promised!Next
<1>5. QED
  BY <1>3, <1>4

LEMMA StepImplements ==
  ASSUME IInv, [Next]_vars
  PROVE  [Promised!Next]_(Promised!vars)
<1>1. CASE Commit
  BY <1>1, CommitImplements DEF Promised!Next
<1>2. CASE DispatchNop
  <2>1. ~Is("EXIT", FetchedPC)
    BY <1>2, InstIs DEF DispatchNop, Is, InstructionOK
  <2>2. QED
    BY <1>2, <2>1, DispatchedImplements DEF DispatchNop
<1>3. CASE DispatchOp
  <2>1. PICK npc : Dispatched(npc)
    BY <1>3 DEF DispatchOp
  <2>2. QED
    BY <1>3, <2>1, DispatchedImplements DEF DispatchOp
<1>4. CASE DispatchMem
  <2>1. ~Is("EXIT", FetchedPC)
    <3>1. PICK i : i = Inst(FetchedPC)
      OBVIOUS
    <3>2. InstructionOK(i)
      BY <3>1, InstIs
    <3>3. "LOAD" \in i.flags \/ "STORE" \in i.flags
      BY <1>4, <3>1 DEF DispatchMem, IsMem, Is
    <3>4. "EXIT" \notin i.flags
      BY <3>2, <3>3 DEF InstructionOK
    <3>5. QED
      BY <3>1, <3>4 DEF Is
  <2>2. Dispatched(NPC(FetchedPC)) /\ stage = "dispatch" /\ CanDispatch
    BY <1>4 DEF DispatchMem
  <2>3. QED
    BY <2>1, <2>2, DispatchedImplements
<1>5. CASE Exit
  <2>1. /\ stage = "dispatch" /\ CanDispatch /\ Is("EXIT", FetchedPC) /\ done' = TRUE
        /\ executed' = Append(executed, FetchedPC) /\ UNCHANGED <<prog, retired>>
    BY <1>5 DEF Exit
  <2>2. PICK i : i = Inst(FetchedPC)
    OBVIOUS
  <2>3. Is("TRAP", FetchedPC)
    BY <2>1, InstIs DEF Is, InstructionOK
  <2>4. ~spec_mode
    BY <2>1, <2>3, TrapsAreRight
  <2>5. done' = Is("EXIT", FetchedPC)
    BY <2>1 DEF Is
  <2>6. Promised!Execute
    BY <2>1, <2>4, <2>5, DispatchImplements
  <2>7. QED
    BY <2>6 DEF Promised!Next
<1>6. CASE ruu_release_fu \/ WritebackSquashed \/ Writeback \/ WritebackEnds \/ lsq_refresh
  BY <1>6, StutterImplements
     DEF ruu_release_fu, WritebackSquashed, Writeback, WritebackEnds, lsq_refresh, dispatchVars, runVars
<1>7. CASE IssueSquashed \/ IssueStore \/ IssueToUnit \/ IssueWithoutUnit \/ NotIssued \/ IssueEnds
  <2>1. ASSUME NEW c, IssueStep(c)
        PROVE  UNCHANGED <<prog, executed, retired, done>>
    BY <2>1 DEF IssueStep, dispatchVars, runVars
  <2>2. CASE IssueEnds
    BY <2>2, StutterImplements DEF IssueEnds, dispatchVars, runVars
  <2>3. CASE ~IssueEnds
    <3>1. \E c : IssueStep(c)
      BY <1>7, <2>3 DEF IssueSquashed, IssueStore, IssueToUnit, IssueWithoutUnit, NotIssued
    <3>2. QED
      BY <2>1, <3>1, StutterImplements
  <2>4. QED
    BY <2>2, <2>3
<1>8. CASE DispatchEnds \/ FetchBlocked \/ Fetch \/ FetchMiss \/ FetchEnds
  BY <1>8, StutterImplements
     DEF DispatchEnds, FetchBlocked, Fetch, FetchMiss, FetchEnds, NextCycle, dispatchVars, runVars
<1>9. CASE Exited \/ UNCHANGED vars
  BY <1>9, StutterImplements DEF Exited, vars, dispatchVars, runVars
<1>10. QED
  BY <1>1, <1>2, <1>3, <1>4, <1>5, <1>6, <1>7, <1>8, <1>9 DEF Next

-----------------------------------------------------------------------------
(* The theorems *)

\* An operand is ready exactly when its nearest older writer in flight has
\* completed, nothing issues before its operands, and the create vectors name
\* the last writers (ruu_link_idep, ruu_writeback, ruu_recover).
THEOREM DependenciesAlwaysKept == Spec => []DependenciesKept
<1>1. Spec => []IInv
  BY InvariantKept
<1>2. IInv => DependenciesKept
  BY DependenciesFollow
<1>3. QED
  BY <1>1, <1>2, PTL

\* No load goes to memory before an older store whose address is not known or
\* is the load's and whose data is not there (lsq_refresh).
THEOREM MemoryAlwaysInOrder == Spec => []MemoryOrder
<1>1. Spec => []IInv
  BY InvariantKept
<1>2. IInv => MemoryOrder
  BY MemoryOrderFollows
<1>3. QED
  BY <1>1, <1>2, PTL

\* While there are links for one more step, none of the code's panics happens.
THEOREM PanicsOnlyForLinks == Spec => [][LinksSuffice => (panicked' <=> panicked)]_vars
<1>1. Spec => []IInv
  BY InvariantKept
<1>2. IInv /\ [Next]_vars => [LinksSuffice => (panicked' <=> panicked)]_vars
  BY StepKeeps DEF Preserved
<1>3. QED
  BY <1>1, <1>2, PTL DEF Spec

\* Every operation in flight waits in exactly the one list that will move it
\* on, nothing else is in a list, every link is in one or free, and as long as
\* the pool of links does not run low none of the code's panics happens.
THEOREM QueuesAlwaysSound == Spec /\ []LinksSuffice => []QueuesSound
<1>1. Spec => []IInv
  BY InvariantKept
<1>2. Init => ~panicked
  BY DEF Init
<1>3. IInv /\ [Next]_vars /\ LinksSuffice /\ ~panicked => ~panicked'
  BY StepKeeps DEF Preserved
<1>4. IInv /\ ~panicked => QueuesSound
  BY QueuesFollow
<1>5. QED
  BY <1>1, <1>2, <1>3, <1>4, PTL DEF Spec

\* The core implements the architecture: prediction, the wrong path and its
\* recovery are invisible (ruu_dispatch, ruu_commit, tracer_recover).
THEOREM ArchitectureImplemented == Spec => ImplementsArchitecture
<1>1. Spec => []IInv
  BY InvariantKept
<1>2. Init => Promised!Init
  BY InitImplements
<1>3. IInv /\ [Next]_vars => [Promised!Next]_(Promised!vars)
  BY StepImplements
<1>4. QED
  BY <1>1, <1>2, <1>3, PTL DEF Spec, ImplementsArchitecture, Promised!Spec
=============================================================================
