--------------------------- MODULE StationProofs ---------------------------
(***************************************************************************)
(* The stations of the out-of-order core, for every program, number of     *)
(* stations, width, latency and prediction: what every operation on them   *)
(* and on the lists that refer to them (Stations, OutOfOrder) returns and  *)
(* keeps.                                                                  *)
(*                                                                         *)
(* A list of links is a sequence, and what the code finds by walking it is *)
(* said of its indices.  Body collects what holds of the operations in     *)
(* flight and of all that refers to them: their order, the list that each  *)
(* waits in, the links between them, the operands that are ready, and the  *)
(* create vectors.                                                         *)
(***************************************************************************)
EXTENDS OutOfOrder, InductionLemmas, FiniteSetTheorems, SequenceTheorems, TLAPS

\* The numbers of a station's operands.
Operands == 0 .. 2

LinkType == [rs : Stations, tag : Nat, x : Int]

StationType ==
  [op : [flags : SUBSET Flags, class : Classes], pc : Int, ea_comp : BOOLEAN,
   recover_inst : BOOLEAN, spec_mode : BOOLEAN, addr : Nat, tag : Nat, seq : Nat,
   queued : BOOLEAN, issued : BOOLEAN, completed : BOOLEAN,
   oname : Regs \cup {"DTMP", NA}, odep_list : Seq(LinkType),
   idep_ready : [Operands -> BOOLEAN]]

CoreType ==
  [st : [Stations -> StationType], ready : Seq(LinkType), events : Seq(LinkType),
   free : Int, panic : BOOLEAN]

-----------------------------------------------------------------------------
(* Lists of links *)

\* A link is never of a tag that its station has not had, and at most one valid
\* link of a list refers to a station.
Sound(list, st) ==
  /\ \A i \in DOMAIN list : list[i].tag <= st[list[i].rs].tag
  /\ \A i, j \in DOMAIN list :
       /\ RSLINK_VALID(st, list[i]) /\ RSLINK_VALID(st, list[j])
       /\ list[i].rs = list[j].rs
       => i = j

\* The stations that the valid links of a list refer to.
In(list, st) ==
  {rs \in Stations : \E i \in DOMAIN list : list[i].rs = rs /\ RSLINK_VALID(st, list[i])}

LEMMA StationsFinite ==
  IsFiniteSet(Stations) /\ NULL \notin Stations
  /\ \A rs \in Stations : rs = <<rs[1], rs[2]>> /\ rs[1] \in {"RUU", "LSQ"} /\ rs[2] \in Nat
<1>1. RUU_size \in Nat /\ LSQ_size \in Nat
  BY CoreAssumption DEF Sizes
<1>2. IsFiniteSet(0 .. RUU_size - 1) /\ IsFiniteSet(0 .. LSQ_size - 1)
  BY <1>1, FS_Interval
<1>3. IsFiniteSet({"RUU"}) /\ IsFiniteSet({"LSQ"})
  BY FS_Singleton
<1>4. IsFiniteSet({"RUU"} \X (0 .. RUU_size - 1)) /\ IsFiniteSet({"LSQ"} \X (0 .. LSQ_size - 1))
  BY <1>2, <1>3, FS_Product
<1>5. IsFiniteSet(Stations)
  BY <1>4, FS_Union DEF Stations
<1>6. \A rs \in Stations : rs = <<rs[1], rs[2]>> /\ rs[1] \in {"RUU", "LSQ"} /\ rs[2] \in Nat
  BY <1>1 DEF Stations
<1>7. NULL \notin Stations
  BY DEF Stations, NULL
<1>8. QED
  BY <1>5, <1>6, <1>7

\* new is s with e after its first k elements.
Inserted(new, s, k, e) ==
  /\ Len(new) = Len(s) + 1
  /\ \A i \in 1 .. Len(s) + 1 :
       new[i] = IF i <= k THEN s[i] ELSE IF i = k + 1 THEN e ELSE s[i - 1]

LEMMA InsertIs ==
  ASSUME NEW T, NEW s \in Seq(T), NEW k \in 0 .. Len(s), NEW e \in T
  PROVE  InsertAt(s, k + 1, e) \in Seq(T) /\ Inserted(InsertAt(s, k + 1, e), s, k, e)
<1> DEFINE a == SubSeq(s, 1, k)
           b == SubSeq(s, k + 1, Len(s))
<1>1. /\ a \in Seq(T) /\ Len(a) = k
      /\ \A i \in 1 .. k : a[i] = s[i]
  BY SubSeqProperties
<1>2. /\ b \in Seq(T) /\ Len(b) = Len(s) - k
      /\ \A i \in 1 .. Len(s) - k : b[i] = s[k + i]
  BY SubSeqProperties
<1>3. InsertAt(s, k + 1, e) = a \o <<e>> \o b
  <2>1. (k + 1) - 1 = k
    OBVIOUS
  <2>2. QED
    BY <2>1 DEF InsertAt
<1> HIDE DEF a, b
<1>4. /\ a \o <<e>> \in Seq(T) /\ Len(a \o <<e>>) = k + 1
      /\ \A i \in 1 .. k + 1 : (a \o <<e>>)[i] = IF i <= k THEN s[i] ELSE e
  BY <1>1
<1>5. PICK c : c = a \o <<e>>
  OBVIOUS
<1>6. c \o b \in Seq(T) /\ Len(c \o b) = Len(s) + 1
  BY <1>2, <1>4, <1>5
<1>7. ASSUME NEW i \in 1 .. Len(s) + 1
      PROVE  (c \o b)[i] = IF i <= k THEN s[i] ELSE IF i = k + 1 THEN e ELSE s[i - 1]
  <2>0. i \in Int /\ k \in Int /\ Len(s) \in Nat
    OBVIOUS
  <2>1. CASE i <= k + 1
    BY <1>2, <1>4, <1>5, <2>1
  <2>2. CASE ~(i <= k + 1)
    <3>1. (c \o b)[i] = b[i - (k + 1)]
      BY <1>2, <1>4, <1>5, <2>2
    <3>2. i - (k + 1) \in 1 .. Len(s) - k /\ k + (i - (k + 1)) = i - 1
      BY <2>2
    <3>3. QED
      BY <1>2, <2>2, <3>1, <3>2
  <2>3. QED
    BY <2>1, <2>2
<1>8. Inserted(c \o b, s, k, e)
  BY <1>6, <1>7 DEF Inserted
<1>9. QED
  BY <1>3, <1>5, <1>6, <1>8

LEMMA LinksAre ==
  ASSUME NEW list \in Seq(LinkType)
  PROVE  /\ DOMAIN list = 1 .. Len(list) /\ Len(list) \in Nat
         /\ \A i \in DOMAIN list :
              /\ list[i] \in LinkType /\ list[i].rs \in Stations
              /\ list[i].tag \in Nat /\ list[i].x \in Int
<1>1. \A i \in DOMAIN list : list[i] \in LinkType
  BY ElementOfSeq
<1>2. \A l \in LinkType : l.rs \in Stations /\ l.tag \in Nat /\ l.x \in Int
  BY DEF LinkType
<1>3. QED
  BY <1>1, <1>2

LEMMA PassedIs ==
  ASSUME NEW T, NEW list \in Seq(T), NEW stops \in SUBSET DOMAIN list
  PROVE  Passed(list, stops) \in 0 .. Len(list)
<1>1. CASE stops = {}
  BY <1>1 DEF Passed
<1>2. CASE stops # {}
  <2>1. stops \in SUBSET Nat
    OBVIOUS
  <2>2. PICK m \in stops : \A k \in stops : m <= k
    BY <1>2, <2>1, Least
  <2>3. Min(stops) \in stops
    BY <2>2 DEF Min
  <2>4. QED
    BY <1>2, <2>3 DEF Passed
<1>3. QED
  BY <1>1, <1>2

\* A new link for a station that the list had no valid link to.
LEMMA InsertSound ==
  ASSUME NEW st, NEW list \in Seq(LinkType), Sound(list, st), NEW k \in 0 .. Len(list),
         NEW e \in LinkType, e.tag = st[e.rs].tag, e.rs \notin In(list, st)
  PROVE  /\ Sound(InsertAt(list, k + 1, e), st)
         /\ In(InsertAt(list, k + 1, e), st) = In(list, st) \cup {e.rs}
<1>1. PICK new : new = InsertAt(list, k + 1, e)
  OBVIOUS
<1>2. /\ new \in Seq(LinkType) /\ Len(new) = Len(list) + 1
      /\ \A i \in 1 .. Len(list) + 1 :
           new[i] = IF i <= k THEN list[i] ELSE IF i = k + 1 THEN e ELSE list[i - 1]
  <2>1. new \in Seq(LinkType) /\ Inserted(new, list, k, e)
    BY <1>1, InsertIs
  <2>2. QED
    BY <2>1 DEF Inserted
<1>3. DOMAIN new = 1 .. Len(list) + 1 /\ DOMAIN list = 1 .. Len(list) /\ Len(list) \in Nat
  BY <1>2
<1> DEFINE old(i) == IF i <= k THEN i ELSE i - 1
<1>4. \A i \in DOMAIN new : i # k + 1 => old(i) \in DOMAIN list /\ new[i] = list[old(i)]
  BY <1>2, <1>3
<1>5. \A i, j \in DOMAIN new : i # k + 1 /\ j # k + 1 /\ old(i) = old(j) => i = j
  BY <1>3
<1>6. new[k + 1] = e /\ k + 1 \in DOMAIN new
  BY <1>2, <1>3
<1>7. \A i \in DOMAIN list : \E j \in DOMAIN new : j # k + 1 /\ old(j) = i
  <2>1. TAKE i \in DOMAIN list
  <2>2. CASE i <= k
    <3>1. i \in DOMAIN new /\ i # k + 1 /\ old(i) = i
      BY <1>3, <2>2
    <3>2. QED
      BY <3>1
  <2>3. CASE i > k
    <3>1. i + 1 \in DOMAIN new /\ i + 1 # k + 1 /\ old(i + 1) = i
      BY <1>3, <2>3
    <3>2. QED
      BY <3>1
  <2>4. QED
    BY <1>3, <2>2, <2>3
<1> HIDE DEF old
<1>8. \A i \in DOMAIN new : i # k + 1 /\ RSLINK_VALID(st, new[i]) => new[i].rs \in In(list, st)
  <2>1. \A i \in DOMAIN list : list[i].rs \in Stations
    BY LinksAre
  <2>2. QED
    BY <1>4, <2>1 DEF In
<1>9. Sound(new, st)
  <2>1. \A i \in DOMAIN new : new[i].tag <= st[new[i].rs].tag
    <3>1. e.tag <= st[e.rs].tag
      BY DEF LinkType
    <3>2. QED
      BY <1>4, <1>6, <3>1 DEF Sound
  <2>2. ASSUME NEW i \in DOMAIN new, NEW j \in DOMAIN new, RSLINK_VALID(st, new[i]),
               RSLINK_VALID(st, new[j]), new[i].rs = new[j].rs
        PROVE  i = j
    <3>1. CASE i # k + 1 /\ j # k + 1
      BY <1>4, <1>5, <2>2, <3>1 DEF Sound
    <3>2. CASE i = k + 1 \/ j = k + 1
      BY <1>6, <1>8, <2>2, <3>2
    <3>3. QED
      BY <3>1, <3>2
  <2>3. QED
    BY <2>1, <2>2 DEF Sound
<1>10. In(new, st) = In(list, st) \cup {e.rs}
  <2>1. e.rs \in Stations /\ RSLINK_VALID(st, e)
    BY DEF LinkType, RSLINK_VALID
  <2>2. \A i \in DOMAIN list : \E j \in DOMAIN new : new[j] = list[i]
    BY <1>4, <1>7
  <2>3. In(list, st) \subseteq In(new, st)
    BY <2>2 DEF In
  <2>4. e.rs \in In(new, st)
    BY <1>6, <2>1 DEF In
  <2>5. In(new, st) \subseteq In(list, st) \cup {e.rs}
    BY <1>6, <1>8 DEF In
  <2>6. QED
    BY <2>3, <2>4, <2>5
<1>11. QED
  BY <1>1, <1>9, <1>10

LEMMA TailSound ==
  ASSUME NEW st, NEW list \in Seq(LinkType), list # <<>>, Sound(list, st)
  PROVE  /\ Sound(Tail(list), st) /\ Tail(list) \in Seq(LinkType)
         /\ Len(Tail(list)) = Len(list) - 1
         /\ Head(list) \in LinkType
         /\ RSLINK_VALID(st, Head(list)) =>
              Head(list).rs \in In(list, st) /\ In(Tail(list), st) = In(list, st) \ {Head(list).rs}
         /\ ~RSLINK_VALID(st, Head(list)) => In(Tail(list), st) = In(list, st)
<1>1. PICK new, h : new = Tail(list) /\ h = Head(list)
  OBVIOUS
<1>2. /\ new \in Seq(LinkType) /\ Len(new) = Len(list) - 1 /\ h = list[1]
      /\ \A i \in 1 .. Len(list) - 1 : new[i] = list[i + 1]
      /\ Len(list) \in Nat \ {0} /\ h \in LinkType
  BY <1>1
<1>3. DOMAIN new = 1 .. Len(list) - 1 /\ DOMAIN list = 1 .. Len(list)
  BY <1>2
<1>4. \A i \in DOMAIN new : i + 1 \in DOMAIN list /\ new[i] = list[i + 1] /\ i + 1 # 1
  BY <1>2, <1>3
<1>5. \A i \in DOMAIN list : i # 1 => i - 1 \in DOMAIN new /\ new[i - 1] = list[i]
  BY <1>2, <1>3
<1>6. 1 \in DOMAIN list
  BY <1>2, <1>3
<1>7. Sound(new, st)
  <2>1. \A i, j \in DOMAIN new : i + 1 = j + 1 => i = j
    BY <1>3
  <2>2. QED
    BY <1>4, <2>1 DEF Sound
<1>8. In(new, st) \subseteq In(list, st)
  BY <1>4 DEF In
<1>9. CASE RSLINK_VALID(st, h)
  <2>1. h.rs \in In(list, st)
    BY <1>2, <1>6, <1>9 DEF In, LinkType
  <2>2. h.rs \notin In(new, st)
    BY <1>2, <1>4, <1>6, <1>9 DEF In, Sound
  <2>3. In(list, st) \ {h.rs} \subseteq In(new, st)
    BY <1>2, <1>5 DEF In
  <2>4. QED
    BY <1>1, <1>2, <1>7, <1>8, <1>9, <2>1, <2>2, <2>3
<1>10. CASE ~RSLINK_VALID(st, h)
  <2>1. In(list, st) \subseteq In(new, st)
    BY <1>2, <1>5, <1>10 DEF In
  <2>2. QED
    BY <1>1, <1>2, <1>7, <1>8, <1>10, <2>1
<1>11. QED
  BY <1>9, <1>10

\* From st to st2, the stations in S get a new tag, so that the links to them
\* are no longer valid.
Retagging(st, st2, S) ==
  \A rs \in Stations : st2[rs].tag = IF rs \in S THEN st[rs].tag + 1 ELSE st[rs].tag

LEMMA RetagLater ==
  ASSUME NEW st, NEW st2, NEW S, Retagging(st, st2, S),
         NEW rs \in Stations, st[rs].tag \in Nat, NEW t \in Nat, t <= st[rs].tag
  PROVE  t <= st2[rs].tag
<1>1. st2[rs].tag = st[rs].tag \/ st2[rs].tag = st[rs].tag + 1
  BY DEF Retagging
<1>2. QED
  BY <1>1

LEMMA RetagSound ==
  ASSUME NEW st \in [Stations -> StationType], NEW st2 \in [Stations -> StationType],
         NEW list \in Seq(LinkType), Sound(list, st), NEW S,
         Retagging(st, st2, S)
  PROVE  Sound(list, st2) /\ In(list, st2) = In(list, st) \ S
<1>1. \A i \in DOMAIN list : list[i].rs \in Stations /\ list[i].tag \in Nat
  BY LinksAre
<1>2. \A rs \in Stations : st[rs].tag \in Nat
  BY DEF StationType
<1>3. \A i \in DOMAIN list :
        RSLINK_VALID(st2, list[i]) <=> RSLINK_VALID(st, list[i]) /\ list[i].rs \notin S
  BY <1>1, <1>2 DEF RSLINK_VALID, Sound, Retagging
<1>4. \A i \in DOMAIN list : list[i].tag <= st2[list[i].rs].tag
  BY <1>1, <1>2, RetagLater DEF Sound
<1>5. QED
  BY <1>3, <1>4 DEF Sound, In

\* Only the stations' tags matter, and of a link what it refers to and its tag.
SameTags(st, st2) == \A o \in Stations : st2[o].tag = st[o].tag

SameLinks(list, list2) ==
  /\ Len(list2) = Len(list)
  /\ \A i \in DOMAIN list : list2[i].rs = list[i].rs /\ list2[i].tag = list[i].tag

LEMMA SameSound ==
  ASSUME NEW st, NEW st2, NEW list \in Seq(LinkType), NEW list2 \in Seq(LinkType),
         Sound(list, st), SameTags(st, st2), SameLinks(list, list2)
  PROVE  Sound(list2, st2) /\ In(list2, st2) = In(list, st)
<1>1. DOMAIN list2 = DOMAIN list
  BY DEF SameLinks
<1>2. \A i \in DOMAIN list : list2[i].rs = list[i].rs /\ list2[i].tag = list[i].tag
  BY DEF SameLinks
<1>3. \A i \in DOMAIN list : list[i].rs \in Stations
  BY LinksAre
<1>4. \A i \in DOMAIN list : RSLINK_VALID(st2, list2[i]) <=> RSLINK_VALID(st, list[i])
  BY <1>2, <1>3 DEF RSLINK_VALID, SameTags
<1>5. Sound(list2, st2)
  BY <1>1, <1>2, <1>3, <1>4 DEF Sound, SameTags
<1>6. In(list2, st2) = In(list, st)
  BY <1>1, <1>2, <1>4 DEF In
<1>7. QED
  BY <1>5, <1>6

LEMMA SameTagsSound ==
  ASSUME NEW st, NEW st2, NEW list \in Seq(LinkType),
         Sound(list, st), SameTags(st, st2)
  PROVE  Sound(list, st2) /\ In(list, st2) = In(list, st)
<1>1. SameLinks(list, list)
  BY DEF SameLinks
<1>2. QED
  BY <1>1, SameSound

-----------------------------------------------------------------------------
(* Lists of consumers *)

\* Of a list of consumers, a valid link stands for an operand of a station, and
\* for each at most one.
SoundUses(list, st) ==
  /\ \A i \in DOMAIN list : list[i].tag <= st[list[i].rs].tag /\ list[i].x \in Operands
  /\ \A i, j \in DOMAIN list :
       /\ RSLINK_VALID(st, list[i]) /\ RSLINK_VALID(st, list[j])
       /\ list[i].rs = list[j].rs /\ list[i].x = list[j].x
       => i = j

\* The operands among the first seen links of a list.
UsesUpTo(list, st, seen) ==
  {u \in Stations \X Operands :
     \E i \in DOMAIN list : /\ i <= seen /\ list[i].rs = u[1] /\ list[i].x = u[2]
                            /\ RSLINK_VALID(st, list[i])}
Uses(list, st) == UsesUpTo(list, st, Len(list))

LEMMA UsesAre ==
  ASSUME NEW list \in Seq(LinkType), NEW st, NEW rs \in Stations, NEW k \in Operands
  PROVE  <<rs, k>> \in Uses(list, st) <=>
           \E i \in DOMAIN list : list[i].rs = rs /\ list[i].x = k /\ RSLINK_VALID(st, list[i])
<1>1. DOMAIN list = 1 .. Len(list) /\ Len(list) \in Nat
  BY LinksAre
<1>2. \A i \in DOMAIN list : i <= Len(list)
  BY <1>1
<1>3. QED
  BY <1>2 DEF Uses, UsesUpTo

LEMMA NoUses ==
  ASSUME NEW st
  PROVE  SoundUses(<<>>, st) /\ Uses(<<>>, st) = {}
BY DEF SoundUses, Uses, UsesUpTo

LEMMA RetagUses ==
  ASSUME NEW st \in [Stations -> StationType], NEW st2 \in [Stations -> StationType],
         NEW list \in Seq(LinkType), SoundUses(list, st), NEW S,
         Retagging(st, st2, S)
  PROVE  /\ SoundUses(list, st2)
         /\ Uses(list, st2) = {u \in Uses(list, st) : u[1] \notin S}
<1>1. \A i \in DOMAIN list : list[i].rs \in Stations /\ list[i].tag \in Nat
  BY LinksAre
<1>2. \A rs \in Stations : st[rs].tag \in Nat
  BY DEF StationType
<1>3. \A i \in DOMAIN list :
        RSLINK_VALID(st2, list[i]) <=> RSLINK_VALID(st, list[i]) /\ list[i].rs \notin S
  BY <1>1, <1>2 DEF RSLINK_VALID, SoundUses, Retagging
<1>4. \A i \in DOMAIN list : list[i].tag <= st2[list[i].rs].tag /\ list[i].x \in Operands
  <2>1. \A i \in DOMAIN list : list[i].tag <= st2[list[i].rs].tag
    BY <1>1, <1>2, RetagLater DEF SoundUses
  <2>2. \A i \in DOMAIN list : list[i].x \in Operands
    BY DEF SoundUses
  <2>3. QED
    BY <2>1, <2>2
<1>5. SoundUses(list, st2)
  BY <1>3, <1>4 DEF SoundUses
<1>6. Uses(list, st2) = {u \in Uses(list, st) : u[1] \notin S}
  BY <1>3 DEF Uses, UsesUpTo
<1>7. QED
  BY <1>5, <1>6

LEMMA SameUses ==
  ASSUME NEW st, NEW st2, NEW list \in Seq(LinkType),
         SoundUses(list, st), \A rs \in Stations : st2[rs].tag = st[rs].tag
  PROVE  SoundUses(list, st2) /\ Uses(list, st2) = Uses(list, st)
<1>1. \A i \in DOMAIN list : list[i].rs \in Stations
  BY LinksAre
<1>2. \A i \in DOMAIN list : RSLINK_VALID(st2, list[i]) <=> RSLINK_VALID(st, list[i])
  BY <1>1 DEF RSLINK_VALID
<1>3. QED
  BY <1>1, <1>2 DEF SoundUses, Uses, UsesUpTo

\* A new first link, for an operand that the list had no link for.
LEMMA PrependUses ==
  ASSUME NEW st, NEW list \in Seq(LinkType), SoundUses(list, st),
         NEW e \in LinkType, e.tag = st[e.rs].tag, e.x \in Operands,
         <<e.rs, e.x>> \notin Uses(list, st)
  PROVE  /\ <<e>> \o list \in Seq(LinkType) /\ Len(<<e>> \o list) = Len(list) + 1
         /\ SoundUses(<<e>> \o list, st)
         /\ Uses(<<e>> \o list, st) = Uses(list, st) \cup {<<e.rs, e.x>>}
<1>1. PICK new : new = <<e>> \o list
  OBVIOUS
<1>2. /\ new \in Seq(LinkType) /\ Len(new) = Len(list) + 1 /\ new[1] = e
      /\ \A i \in 2 .. Len(list) + 1 : new[i] = list[i - 1]
  BY <1>1
<1>3. DOMAIN new = 1 .. Len(list) + 1 /\ DOMAIN list = 1 .. Len(list) /\ Len(list) \in Nat
  BY <1>2
<1>4. \A i \in DOMAIN new : i # 1 => i - 1 \in DOMAIN list /\ new[i] = list[i - 1]
  BY <1>2, <1>3
<1>5. \A i \in DOMAIN list : i + 1 \in DOMAIN new /\ i + 1 # 1 /\ new[i + 1] = list[i]
  BY <1>2, <1>3
<1>6. 1 \in DOMAIN new /\ e.rs \in Stations /\ e.x \in Operands /\ RSLINK_VALID(st, e) /\ e.tag \in Nat
  BY <1>3 DEF LinkType, RSLINK_VALID
<1>7. \A i \in DOMAIN list : list[i].rs \in Stations /\ list[i].x \in Operands
  BY LinksAre DEF SoundUses
<1>8. \A i \in DOMAIN list : RSLINK_VALID(st, list[i]) => <<list[i].rs, list[i].x>> \in Uses(list, st)
  BY <1>7, UsesAre
<1>9. SoundUses(new, st)
  <2>1. \A i \in DOMAIN new : new[i].tag <= st[new[i].rs].tag /\ new[i].x \in Operands
    <3>1. e.tag <= st[e.rs].tag
      BY <1>6
    <3>2. QED
      BY <1>2, <1>4, <1>6, <3>1 DEF SoundUses
  <2>2. ASSUME NEW i \in DOMAIN new, NEW j \in DOMAIN new, RSLINK_VALID(st, new[i]),
               RSLINK_VALID(st, new[j]), new[i].rs = new[j].rs, new[i].x = new[j].x
        PROVE  i = j
    <3>1. CASE i # 1 /\ j # 1
      <4>1. i - 1 = j - 1
        BY <1>4, <2>2, <3>1 DEF SoundUses
      <4>2. QED
        BY <1>3, <4>1
    <3>2. CASE i = 1 \/ j = 1
      BY <1>2, <1>4, <1>8, <2>2, <3>2
    <3>3. QED
      BY <3>1, <3>2
  <2>3. QED
    BY <2>1, <2>2 DEF SoundUses
<1>10. Uses(new, st) = Uses(list, st) \cup {<<e.rs, e.x>>}
  <2>1. \A rs \in Stations : \A k \in Operands :
          <<rs, k>> \in Uses(new, st) <=> <<rs, k>> \in Uses(list, st) \/ (rs = e.rs /\ k = e.x)
    <3>1. TAKE rs \in Stations
    <3>2. TAKE k \in Operands
    <3>3. ASSUME <<rs, k>> \in Uses(new, st)
          PROVE  <<rs, k>> \in Uses(list, st) \/ (rs = e.rs /\ k = e.x)
      <4>1. PICK i \in DOMAIN new : new[i].rs = rs /\ new[i].x = k /\ RSLINK_VALID(st, new[i])
        BY <1>2, <3>3, UsesAre
      <4>2. QED
        BY <1>2, <1>4, <1>8, <4>1
    <3>4. ASSUME <<rs, k>> \in Uses(list, st) PROVE <<rs, k>> \in Uses(new, st)
      <4>1. PICK i \in DOMAIN list : list[i].rs = rs /\ list[i].x = k /\ RSLINK_VALID(st, list[i])
        BY <3>4, UsesAre
      <4>2. QED
        BY <1>2, <1>5, <4>1, UsesAre
    <3>5. ASSUME rs = e.rs, k = e.x PROVE <<rs, k>> \in Uses(new, st)
      BY <1>2, <1>6, <3>5, UsesAre
    <3>6. QED
      BY <3>3, <3>4, <3>5
  <2>2. \A l : Uses(l, st) \subseteq Stations \X Operands
    BY DEF Uses, UsesUpTo
  <2>3. <<e.rs, e.x>> \in Stations \X Operands
    BY <1>6
  <2>4. \A u \in Stations \X Operands :
          u \in Uses(new, st) <=> u \in Uses(list, st) \cup {<<e.rs, e.x>>}
    BY <2>1
  <2>5. QED
    BY <2>2, <2>3, <2>4
<1>11. QED
  BY <1>1, <1>2, <1>9, <1>10

-----------------------------------------------------------------------------
(* How many links the lists of consumers have *)

LEMMA ConsumersOfOne ==
  ASSUME NEW len \in Nat, NEW rs
  PROVE  IsFiniteSet({rs} \X (1 .. len)) /\ Cardinality({rs} \X (1 .. len)) = len
<1>1. IsFiniteSet({rs}) /\ Cardinality({rs}) = 1
  BY FS_Singleton
<1>2. IsFiniteSet(1 .. len) /\ Cardinality(1 .. len) = len
  BY FS_Interval
<1>3. /\ IsFiniteSet({rs} \X (1 .. len))
      /\ Cardinality({rs} \X (1 .. len)) = Cardinality({rs}) * Cardinality(1 .. len)
  BY <1>1, <1>2, FS_Product
<1>4. 1 * len = len
  OBVIOUS
<1>5. QED
  BY <1>1, <1>2, <1>3, <1>4

LEMMA ConsumersFinite ==
  ASSUME NEW st \in [Stations -> StationType], NEW S \in SUBSET Stations
  PROVE  IsFiniteSet(Consumers(st, S))
<1> DEFINE part(rs) == {rs} \X DOMAIN st[rs].odep_list
<1>1. IsFiniteSet(S)
  BY StationsFinite, FS_Subset
<1>2. ASSUME NEW rs \in S PROVE IsFiniteSet(part(rs))
  <2>1. st[rs].odep_list \in Seq(LinkType)
    BY DEF StationType
  <2>2. DOMAIN st[rs].odep_list = 1 .. Len(st[rs].odep_list) /\ Len(st[rs].odep_list) \in Nat
    BY <2>1, LinksAre
  <2>3. QED
    BY <2>2, ConsumersOfOne
<1> HIDE DEF part
<1>3. IsFiniteSet({part(rs) : rs \in S})
  <2> DEFINE f == [rs \in S |-> part(rs)]
  <2>1. f \in Surjection(S, {part(rs) : rs \in S})
    BY DEF Surjection
  <2>2. QED
    BY <1>1, <2>1, FS_Surjection
<1>4. \A P \in {part(rs) : rs \in S} : IsFiniteSet(P)
  BY <1>2
<1>5. IsFiniteSet(UNION {part(rs) : rs \in S})
  BY <1>3, <1>4, FS_UNION
<1>6. QED
  BY <1>5 DEF Consumers, part

LEMMA ConsumersSplit ==
  ASSUME NEW st \in [Stations -> StationType], NEW S \in SUBSET Stations,
         NEW R \in SUBSET S
  PROVE  Cardinality(Consumers(st, S)) =
           Cardinality(Consumers(st, S \ R)) + Cardinality(Consumers(st, R))
<1>1. Consumers(st, S) = Consumers(st, S \ R) \cup Consumers(st, R)
  BY DEF Consumers
<1>2. Consumers(st, S \ R) \cap Consumers(st, R) = {}
  BY DEF Consumers
<1>3. IsFiniteSet(Consumers(st, S \ R)) /\ IsFiniteSet(Consumers(st, R))
  BY ConsumersFinite
<1>4. Cardinality(Consumers(st, S \ R) \cap Consumers(st, R)) = 0
  BY <1>2, FS_EmptySet
<1>5. /\ Cardinality(Consumers(st, S \ R)) \in Nat /\ Cardinality(Consumers(st, R)) \in Nat
  BY <1>3, FS_CardinalityType
<1>6. Cardinality(Consumers(st, S \ R) \cup Consumers(st, R)) =
        Cardinality(Consumers(st, S \ R)) + Cardinality(Consumers(st, R))
          - Cardinality(Consumers(st, S \ R) \cap Consumers(st, R))
  BY <1>3, FS_Union
<1>7. QED
  BY <1>1, <1>4, <1>5, <1>6

\* Stations with their lists unchanged have as many links.
LEMMA ConsumersSame ==
  ASSUME NEW st, NEW st2, NEW S, \A rs \in S : st2[rs].odep_list = st[rs].odep_list
  PROVE  Consumers(st2, S) = Consumers(st, S)
BY DEF Consumers

\* When the list of one station changes.
LEMMA ConsumersChange ==
  ASSUME NEW st \in [Stations -> StationType], NEW st2 \in [Stations -> StationType],
         NEW rs \in Stations, \A o \in Stations \ {rs} : st2[o].odep_list = st[o].odep_list
  PROVE  Cardinality(Consumers(st2, Stations)) =
           Cardinality(Consumers(st, Stations)) - Len(st[rs].odep_list) + Len(st2[rs].odep_list)
<1> DEFINE one(t) == Cardinality(Consumers(t, {rs}))
<1>1. ASSUME NEW t \in [Stations -> StationType] PROVE one(t) = Len(t[rs].odep_list) /\ one(t) \in Nat
  <2>1. t[rs].odep_list \in Seq(LinkType)
    BY DEF StationType
  <2>2. DOMAIN t[rs].odep_list = 1 .. Len(t[rs].odep_list) /\ Len(t[rs].odep_list) \in Nat
    BY <2>1, LinksAre
  <2>3. Consumers(t, {rs}) = {rs} \X (1 .. Len(t[rs].odep_list))
    BY <2>2 DEF Consumers
  <2>4. QED
    BY <2>2, <2>3, ConsumersOfOne
<1>2. \A t \in [Stations -> StationType] :
        Cardinality(Consumers(t, Stations)) = Cardinality(Consumers(t, Stations \ {rs})) + one(t)
  BY ConsumersSplit
<1>3. Consumers(st2, Stations \ {rs}) = Consumers(st, Stations \ {rs})
  BY ConsumersSame
<1>4. Cardinality(Consumers(st, Stations \ {rs})) \in Nat
  BY ConsumersFinite, FS_CardinalityType
<1> HIDE DEF one
<1>5. QED
  BY <1>1, <1>2, <1>3, <1>4

-----------------------------------------------------------------------------
(* What the operations on lists do *)

LEMMA CoreParts ==
  ASSUME NEW c \in CoreType
  PROVE  /\ c.st \in [Stations -> StationType]
         /\ c.ready \in Seq(LinkType) /\ c.events \in Seq(LinkType)
         /\ c.free \in Int /\ c.panic \in BOOLEAN
BY DEF CoreType

LEMMA StationParts ==
  ASSUME NEW s \in StationType
  PROVE  /\ s.tag \in Nat /\ s.seq \in Nat /\ s.queued \in BOOLEAN /\ s.issued \in BOOLEAN
         /\ s.completed \in BOOLEAN /\ s.odep_list \in Seq(LinkType) /\ s.addr \in Nat
         /\ s.idep_ready \in [Operands -> BOOLEAN] /\ s.ea_comp \in BOOLEAN
         /\ s.recover_inst \in BOOLEAN /\ s.spec_mode \in BOOLEAN /\ s.pc \in Int
         /\ s.oname \in Regs \cup {"DTMP", NA} /\ s.op.class \in Classes
         /\ s.op.flags \in SUBSET Flags
BY DEF StationType

LEMMA LinkIs ==
  ASSUME NEW st \in [Stations -> StationType], NEW rs \in Stations, NEW x \in Int
  PROVE  /\ RSLINK(st, rs, x) \in LinkType
         /\ RSLINK(st, rs, x).rs = rs /\ RSLINK(st, rs, x).tag = st[rs].tag
         /\ RSLINK(st, rs, x).x = x
BY DEF RSLINK, LinkType, StationType

LEMMA FreeIs ==
  ASSUME NEW c \in CoreType
  PROVE  /\ RSLINK_FREE(c) \in CoreType
         /\ RSLINK_FREE(c).st = c.st /\ RSLINK_FREE(c).ready = c.ready
         /\ RSLINK_FREE(c).events = c.events /\ RSLINK_FREE(c).panic = c.panic
         /\ RSLINK_FREE(c).free = c.free + 1
BY DEF RSLINK_FREE, CoreType

LEMMA PanicIs ==
  ASSUME NEW c \in CoreType, NEW b \in BOOLEAN
  PROVE  /\ Panic(c, b) \in CoreType
         /\ Panic(c, b).st = c.st /\ Panic(c, b).ready = c.ready
         /\ Panic(c, b).events = c.events /\ Panic(c, b).free = c.free
         /\ Panic(c, b).panic = (c.panic \/ b)
BY DEF Panic, CoreType

LEMMA LinkedIs ==
  ASSUME NEW c \in CoreType
  PROVE  /\ Linked(c) \in CoreType
         /\ Linked(c).st = c.st /\ Linked(c).ready = c.ready
         /\ Linked(c).events = c.events /\ Linked(c).free = c.free - 1
         /\ Linked(c).panic = (c.panic \/ c.free = 0)
<1>1. PICK b : b = (c.panic \/ c.free = 0)
  OBVIOUS
<1>2. b \in BOOLEAN
  BY <1>1, Zenon
<1>3. Linked(c) = [c EXCEPT !.free = @ - 1, !.panic = b]
  BY <1>1 DEF Linked, CoreType
<1>4. PICK d : d = [c EXCEPT !.free = @ - 1, !.panic = b]
  OBVIOUS
<1>5. /\ d.st = c.st /\ d.ready = c.ready /\ d.events = c.events /\ d.free = c.free - 1
      /\ d \in CoreType
  <2>1. c.free \in Int /\ c.free - 1 \in Int
    BY DEF CoreType
  <2>2. PICK f \in Int : f = c.free - 1
    BY <2>1
  <2>3. d = [c EXCEPT !.free = f, !.panic = b]
    BY <1>4, <2>2 DEF CoreType
  <2>4. d.st = c.st /\ d.ready = c.ready /\ d.events = c.events /\ d.free = f
    BY <2>3 DEF CoreType
  <2>5. d \in CoreType
    BY <1>2, <2>3 DEF CoreType
  <2>6. QED
    BY <2>2, <2>4, <2>5
<1>6. "panic" \in DOMAIN c
  BY DEF CoreType
<1>7. d.panic = b
  BY <1>4, <1>6, Zenon
<1>8. QED
  BY <1>1, <1>3, <1>4, <1>5, <1>7

\* d is c after rs was put on the ready list.
Enqueued(c, d, rs) ==
  /\ d \in CoreType
  /\ d.st = [c.st EXCEPT ![rs].queued = TRUE]
  /\ d.events = c.events
  /\ Len(d.ready) = Len(c.ready) + 1
  /\ d.free = c.free - 1
  /\ d.panic = (c.panic \/ c.free = 0 \/ c.st[rs].queued)
  /\ Sound(c.ready, c.st) /\ rs \notin In(c.ready, c.st) =>
       Sound(d.ready, d.st) /\ In(d.ready, d.st) = In(c.ready, c.st) \cup {rs}

LEMMA EnqueueIs ==
  ASSUME NEW c \in CoreType, NEW rs \in Stations
  PROVE  Enqueued(c, readyq_enqueue(c, rs), rs)
<1> DEFINE s == c.st[rs]
           stops == {i \in DOMAIN c.ready : c.ready[i].x >= s.seq}
           front == in_LSQ(rs) \/ s.op.flags \cap {"LONGLAT", "CTRL"} # {}
           at == IF front THEN 0 ELSE Passed(c.ready, stops)
<1>1. c.st \in [Stations -> StationType] /\ c.ready \in Seq(LinkType) /\ s \in StationType
      /\ s.seq \in Int /\ s.queued \in BOOLEAN
  BY CoreParts, StationParts
<1>2. Passed(c.ready, stops) \in 0 .. Len(c.ready) /\ Len(c.ready) \in Nat
  BY <1>1, PassedIs
<1>3. at \in 0 .. Len(c.ready)
  BY <1>2
<1>4. PICK k \in 0 .. Len(c.ready) : k = at
  BY <1>3
<1>5. PICK new : new = InsertAt(c.ready, k + 1, RSLINK(c.st, rs, s.seq))
  OBVIOUS
<1>6. RSLINK(c.st, rs, s.seq) \in LinkType /\ RSLINK(c.st, rs, s.seq).rs = rs
      /\ RSLINK(c.st, rs, s.seq).tag = c.st[rs].tag
  BY <1>1, LinkIs
<1>7. new \in Seq(LinkType) /\ Len(new) = Len(c.ready) + 1
  <2>1. new \in Seq(LinkType) /\ Inserted(new, c.ready, k, RSLINK(c.st, rs, s.seq))
    BY <1>1, <1>5, <1>6, InsertIs
  <2>2. QED
    BY <2>1 DEF Inserted
<1>8. PICK st2 : st2 = [c.st EXCEPT ![rs].queued = TRUE]
  OBVIOUS
<1>9. st2 \in [Stations -> StationType] /\ \A o \in Stations : st2[o].tag = c.st[o].tag
  BY <1>1, <1>8 DEF StationType
<1>10. PICK e : e = [c EXCEPT !.ready = new, !.st = st2]
  OBVIOUS
<1>11. /\ e \in CoreType /\ e.st = st2 /\ e.ready = new /\ e.events = c.events
       /\ e.free = c.free /\ e.panic = c.panic
  BY <1>7, <1>9, <1>10 DEF CoreType
<1>12. readyq_enqueue(c, rs) = Panic(Linked(e), s.queued)
  <2>1. e = [c EXCEPT !.ready = InsertAt(@, at + 1, RSLINK(c.st, rs, s.seq)), !.st[rs].queued = TRUE]
    BY <1>4, <1>5, <1>8, <1>10 DEF CoreType
  <2>2. QED
    BY <2>1 DEF readyq_enqueue
<1>13. PICK d : d = Panic(Linked(e), s.queued)
  OBVIOUS
<1>14. /\ d \in CoreType /\ d.st = st2 /\ d.ready = new /\ d.events = c.events
       /\ d.free = c.free - 1 /\ d.panic = (c.panic \/ c.free = 0 \/ c.st[rs].queued)
  <2>1. /\ Linked(e) \in CoreType /\ Linked(e).st = st2 /\ Linked(e).ready = new
        /\ Linked(e).events = c.events /\ Linked(e).free = c.free - 1
        /\ Linked(e).panic = (c.panic \/ c.free = 0)
    BY <1>11, LinkedIs
  <2>2. PICK b : b = s.queued /\ b \in BOOLEAN
    BY <1>1
  <2>3. PICK l : l = Linked(e)
    OBVIOUS
  <2>4. /\ d \in CoreType /\ d.st = l.st /\ d.ready = l.ready /\ d.events = l.events
        /\ d.free = l.free /\ d.panic = (l.panic \/ b)
    BY <1>13, <2>1, <2>2, <2>3, PanicIs
  <2>5. d.panic = (c.panic \/ c.free = 0 \/ c.st[rs].queued)
    BY <2>1, <2>2, <2>3, <2>4, Zenon
  <2>6. QED
    BY <2>1, <2>3, <2>4, <2>5
<1>15. ASSUME Sound(c.ready, c.st), rs \notin In(c.ready, c.st)
       PROVE  Sound(new, st2) /\ In(new, st2) = In(c.ready, c.st) \cup {rs}
  <2>1. Sound(new, c.st) /\ In(new, c.st) = In(c.ready, c.st) \cup {rs}
    BY <1>1, <1>5, <1>6, <1>15, InsertSound
  <2>2. new \in Seq(LinkType) /\ \A o \in Stations : st2[o].tag = c.st[o].tag
    BY <1>7, <1>9
  <2>3. PICK st : st = c.st
    OBVIOUS
  <2>4. Sound(new, st) /\ SameTags(st, st2)
    BY <2>1, <2>2, <2>3 DEF SameTags
  <2>5. Sound(new, st2) /\ In(new, st2) = In(new, st)
    BY <2>2, <2>4, SameTagsSound
  <2>6. QED
    BY <2>1, <2>3, <2>5
<1>16. QED
  BY <1>7, <1>8, <1>12, <1>13, <1>14, <1>15 DEF Enqueued

\* d is c with an event for rs.
Scheduled(c, d, rs, lat) ==
  /\ d \in CoreType
  /\ d.st = c.st /\ d.ready = c.ready
  /\ Len(d.events) = Len(c.events) + 1
  /\ d.free = c.free - 1
  /\ d.panic = (c.panic \/ c.free = 0 \/ c.st[rs].completed \/ lat <= 0)
  /\ Sound(c.events, c.st) /\ rs \notin In(c.events, c.st) =>
       Sound(d.events, d.st) /\ In(d.events, d.st) = In(c.events, c.st) \cup {rs}

LEMMA ScheduleIs ==
  ASSUME NEW c \in CoreType, NEW rs \in Stations, NEW lat \in Int
  PROVE  Scheduled(c, eventq_queue_event(c, rs, lat), rs, lat)
<1> DEFINE stops == {i \in DOMAIN c.events : c.events[i].x >= lat}
           e == RSLINK(c.st, rs, lat)
<1>1. c.st \in [Stations -> StationType] /\ c.events \in Seq(LinkType)
      /\ c.st[rs].completed \in BOOLEAN /\ (lat <= 0) \in BOOLEAN
  BY CoreParts, StationParts
<1>2. PICK k \in 0 .. Len(c.events) : k = Passed(c.events, stops)
  BY <1>1, PassedIs
<1>3. PICK new : new = InsertAt(c.events, k + 1, e)
  OBVIOUS
<1>4. e \in LinkType /\ e.rs = rs /\ e.tag = c.st[rs].tag
  BY <1>1, LinkIs
<1>5. new \in Seq(LinkType) /\ Len(new) = Len(c.events) + 1
  <2>1. new \in Seq(LinkType) /\ Inserted(new, c.events, k, e)
    BY <1>1, <1>3, <1>4, InsertIs
  <2>2. QED
    BY <2>1 DEF Inserted
<1>6. PICK f : f = [c EXCEPT !.events = new]
  OBVIOUS
<1>7. /\ f \in CoreType /\ f.st = c.st /\ f.ready = c.ready /\ f.events = new
      /\ f.free = c.free /\ f.panic = c.panic
  BY <1>5, <1>6 DEF CoreType
<1>8. eventq_queue_event(c, rs, lat) = Panic(Linked(f), c.st[rs].completed \/ lat <= 0)
  <2>1. f = [c EXCEPT !.events = InsertAt(@, Passed(c.events, stops) + 1, e)]
    BY <1>2, <1>3, <1>6 DEF CoreType
  <2>2. QED
    BY <2>1 DEF eventq_queue_event
<1>9. PICK d : d = Panic(Linked(f), c.st[rs].completed \/ lat <= 0)
  OBVIOUS
<1>10. /\ d \in CoreType /\ d.st = c.st /\ d.ready = c.ready /\ d.events = new
       /\ d.free = c.free - 1
       /\ d.panic = (c.panic \/ c.free = 0 \/ c.st[rs].completed \/ lat <= 0)
  <2>1. /\ Linked(f) \in CoreType /\ Linked(f).st = c.st /\ Linked(f).ready = c.ready
        /\ Linked(f).events = new /\ Linked(f).free = c.free - 1
        /\ Linked(f).panic = (c.panic \/ c.free = 0)
    BY <1>7, LinkedIs
  <2>2. (c.st[rs].completed \/ lat <= 0) \in BOOLEAN
    BY <1>1
  <2>3. QED
    BY <1>1, <1>9, <2>1, <2>2, PanicIs
<1>11. ASSUME Sound(c.events, c.st), rs \notin In(c.events, c.st)
       PROVE  Sound(new, c.st) /\ In(new, c.st) = In(c.events, c.st) \cup {rs}
  BY <1>1, <1>3, <1>4, <1>11, InsertSound
<1>12. QED
  BY <1>5, <1>8, <1>9, <1>10, <1>11 DEF Scheduled

-----------------------------------------------------------------------------
(* Giving results *)

\* What an operation is does not change while it has its station.
SameOps(st, st2) ==
  \A o \in Stations :
    /\ st2[o].op = st[o].op /\ st2[o].pc = st[o].pc /\ st2[o].addr = st[o].addr
    /\ st2[o].seq = st[o].seq /\ st2[o].oname = st[o].oname
    /\ st2[o].ea_comp = st[o].ea_comp /\ st2[o].spec_mode = st[o].spec_mode
    /\ st2[o].recover_inst = st[o].recover_inst

\* The stations that get the last of their operands in G and then are queued.
Woken(st, G) ==
  {o \in Stations : /\ ~IsLoad(st, o) /\ \E k \in Operands : <<o, k>> \in G
                    /\ \A k \in Operands : st[o].idep_ready[k] \/ <<o, k>> \in G}

\* From st to st2, rs completes and the operands in G are given.
Given(st, st2, rs, G) ==
  /\ SameOps(st, st2) /\ SameTags(st, st2)
  /\ \A o \in Stations :
       /\ st2[o].odep_list = IF o = rs THEN <<>> ELSE st[o].odep_list
       /\ st2[o].issued <=> st[o].issued
       /\ st2[o].completed <=> st[o].completed \/ o = rs
       /\ \A k \in Operands : st2[o].idep_ready[k] <=> st[o].idep_ready[k] \/ <<o, k>> \in G
       /\ st2[o].queued <=> st[o].queued \/ o \in Woken(st, G)

\* c and d differ in what Wake gives the operand x of rs.
OneGiven(c, d, rs, x) ==
  /\ d \in CoreType
  /\ SameOps(c.st, d.st) /\ SameTags(c.st, d.st)
  /\ \A o \in Stations :
       /\ d.st[o].odep_list = c.st[o].odep_list
       /\ d.st[o].issued <=> c.st[o].issued
       /\ d.st[o].completed <=> c.st[o].completed
       /\ \A k \in Operands : d.st[o].idep_ready[k] <=> c.st[o].idep_ready[k] \/ (o = rs /\ k = x)
  /\ d.events = c.events

LEMMA GiveOne ==
  ASSUME NEW c \in CoreType, NEW rs \in Stations, NEW x \in Operands, NEW d,
         d = [c EXCEPT !.st[rs].idep_ready[x] = TRUE]
  PROVE  /\ OneGiven(c, d, rs, x)
         /\ \A o \in Stations : d.st[o].queued <=> c.st[o].queued
         /\ d.ready = c.ready /\ d.free = c.free /\ d.panic = c.panic
<1>1. PICK st : st = c.st
  OBVIOUS
<1>2. st \in [Stations -> StationType] /\ st[rs] \in StationType
      /\ st[rs].idep_ready \in [Operands -> BOOLEAN]
  BY <1>1, CoreParts, StationParts
<1>3. PICK ready : ready = [st[rs].idep_ready EXCEPT ![x] = TRUE]
  OBVIOUS
<1>4. ready \in [Operands -> BOOLEAN]
      /\ \A k \in Operands : ready[k] <=> st[rs].idep_ready[k] \/ k = x
  BY <1>2, <1>3
<1>5. PICK s : s = [st[rs] EXCEPT !.idep_ready = ready]
  OBVIOUS
<1>6. /\ s \in StationType /\ s.op = st[rs].op /\ s.pc = st[rs].pc /\ s.addr = st[rs].addr
      /\ s.seq = st[rs].seq /\ s.oname = st[rs].oname /\ s.ea_comp = st[rs].ea_comp
      /\ s.spec_mode = st[rs].spec_mode /\ s.recover_inst = st[rs].recover_inst
      /\ s.tag = st[rs].tag /\ s.odep_list = st[rs].odep_list /\ s.issued = st[rs].issued
      /\ s.completed = st[rs].completed /\ s.idep_ready = ready /\ s.queued = st[rs].queued
  BY <1>2, <1>4, <1>5 DEF StationType
<1>7. PICK st2 : st2 = [st EXCEPT ![rs] = s]
  OBVIOUS
<1>8. /\ st2 \in [Stations -> StationType] /\ st2[rs] = s
      /\ \A o \in Stations : o # rs => st2[o] = st[o]
  BY <1>2, <1>6, <1>7
<1>9. d = [c EXCEPT !.st = st2]
  BY <1>1, <1>2, <1>3, <1>5, <1>7 DEF CoreType, StationType
<1>10. /\ d \in CoreType /\ d.st = st2 /\ d.ready = c.ready /\ d.events = c.events
       /\ d.free = c.free /\ d.panic = c.panic
  BY <1>8, <1>9 DEF CoreType
<1>11. SameOps(st, st2) /\ SameTags(st, st2)
  BY <1>6, <1>8 DEF SameOps, SameTags
<1>12. ASSUME NEW o \in Stations
       PROVE  /\ st2[o].odep_list = st[o].odep_list /\ (st2[o].issued <=> st[o].issued)
              /\ st2[o].completed <=> st[o].completed
              /\ \A k \in Operands : st2[o].idep_ready[k] <=> st[o].idep_ready[k] \/ (o = rs /\ k = x)
              /\ st2[o].queued <=> st[o].queued
  <2>1. CASE o = rs
    BY <1>4, <1>6, <1>8, <2>1
  <2>2. CASE o # rs
    BY <1>8, <2>2
  <2>3. QED
    BY <2>1, <2>2
<1>13. OneGiven(c, d, rs, x)
  <2>1. SameOps(c.st, d.st) /\ SameTags(c.st, d.st)
    BY <1>1, <1>10, <1>11, Zenon
  <2>2. \A o \in Stations :
          /\ d.st[o].odep_list = c.st[o].odep_list
          /\ d.st[o].issued <=> c.st[o].issued
          /\ d.st[o].completed <=> c.st[o].completed
          /\ \A k \in Operands :
               d.st[o].idep_ready[k] <=> c.st[o].idep_ready[k] \/ (o = rs /\ k = x)
    <3> TAKE o \in Stations
    <3>1. PICK a, b : a = d.st[o] /\ b = c.st[o]
      OBVIOUS
    <3>2. a = st2[o] /\ b = st[o]
      BY <1>1, <1>10, <3>1
    <3>3. a.odep_list = b.odep_list /\ (a.issued <=> b.issued)
      BY <1>12, <3>2
    <3>4. a.completed <=> b.completed
      BY <1>12, <3>2
    <3>5. \A k \in Operands :
            a.idep_ready[k] <=> b.idep_ready[k] \/ (o = rs /\ k = x)
      BY <1>12, <3>2
    <3>6. QED
      BY <3>1, <3>3, <3>4, <3>5, Zenon
  <2>3. QED
    BY <1>10, <2>1, <2>2, Zenon DEF OneGiven
<1>14. \A o \in Stations : d.st[o].queued <=> c.st[o].queued
  BY <1>1, <1>10, <1>12
<1>15. QED
  BY <1>10, <1>13, <1>14

\* A station is marked as queued.
Marked(st, st2, rs) ==
  /\ st2 \in [Stations -> StationType]
  /\ SameOps(st, st2) /\ SameTags(st, st2)
  /\ \A o \in Stations :
       /\ st2[o].odep_list = st[o].odep_list
       /\ st2[o].issued <=> st[o].issued
       /\ st2[o].completed <=> st[o].completed
       /\ \A k \in Operands : st2[o].idep_ready[k] <=> st[o].idep_ready[k]
       /\ st2[o].queued <=> st[o].queued \/ o = rs

LEMMA MarkIs ==
  ASSUME NEW st \in [Stations -> StationType], NEW rs \in Stations, NEW st2,
         st2 = [st EXCEPT ![rs].queued = TRUE]
  PROVE  Marked(st, st2, rs)
<1>1. PICK s : s = [st[rs] EXCEPT !.queued = TRUE]
  OBVIOUS
<1>2. /\ s \in StationType /\ s.op = st[rs].op /\ s.pc = st[rs].pc /\ s.addr = st[rs].addr
      /\ s.seq = st[rs].seq /\ s.oname = st[rs].oname /\ s.ea_comp = st[rs].ea_comp
      /\ s.spec_mode = st[rs].spec_mode /\ s.recover_inst = st[rs].recover_inst
      /\ s.tag = st[rs].tag /\ s.odep_list = st[rs].odep_list /\ s.issued = st[rs].issued
      /\ s.completed = st[rs].completed /\ s.idep_ready = st[rs].idep_ready /\ s.queued
  <2>1. PICK t \in StationType : t = st[rs]
    OBVIOUS
  <2>2. s = [t EXCEPT !.queued = TRUE]
    BY <1>1, <2>1
  <2>3. s \in StationType
    BY <2>2 DEF StationType
  <2>4. /\ s.op = t.op /\ s.pc = t.pc /\ s.addr = t.addr /\ s.seq = t.seq
        /\ s.oname = t.oname /\ s.ea_comp = t.ea_comp /\ s.spec_mode = t.spec_mode
        /\ s.recover_inst = t.recover_inst /\ s.tag = t.tag /\ s.odep_list = t.odep_list
        /\ s.issued = t.issued /\ s.completed = t.completed
        /\ s.idep_ready = t.idep_ready /\ s.queued = TRUE
    BY <2>2 DEF StationType
  <2>5. QED
    BY <2>1, <2>3, <2>4, Zenon
<1>3. /\ st2 \in [Stations -> StationType] /\ st2[rs] = s
      /\ \A o \in Stations : o # rs => st2[o] = st[o]
  BY <1>1, <1>2
<1>4. SameOps(st, st2) /\ SameTags(st, st2)
  BY <1>2, <1>3 DEF SameOps, SameTags
<1>5. ASSUME NEW o \in Stations
      PROVE  /\ st2[o].odep_list = st[o].odep_list /\ (st2[o].issued <=> st[o].issued)
             /\ st2[o].completed <=> st[o].completed
             /\ \A k \in Operands : st2[o].idep_ready[k] <=> st[o].idep_ready[k]
             /\ st2[o].queued <=> st[o].queued \/ o = rs
  <2>1. CASE o = rs
    BY <1>2, <1>3, <2>1
  <2>2. CASE o # rs
    BY <1>3, <2>2
  <2>3. QED
    BY <2>1, <2>2
<1>6. QED
  BY <1>3, <1>4, <1>5 DEF Marked

\* d is c after a valid link gave its station an operand.
WokenBy(c, d, link, w) ==
  LET rs == link.rs
  IN /\ w <=> ~IsLoad(c.st, rs) /\ \A k \in Operands : c.st[rs].idep_ready[k] \/ k = link.x
     /\ OneGiven(c, d, rs, link.x)
     /\ \A o \in Stations : d.st[o].queued <=> c.st[o].queued \/ (w /\ o = rs)
     /\ ~w => d.ready = c.ready /\ d.free = c.free + 1
     /\ w => /\ Len(d.ready) = Len(c.ready) + 1 /\ d.free = c.free
             /\ Sound(c.ready, c.st) /\ rs \notin In(c.ready, c.st) =>
                  Sound(d.ready, d.st) /\ In(d.ready, d.st) = In(c.ready, c.st) \cup {rs}
     /\ d.panic <=> \/ c.panic \/ c.st[rs].idep_ready[link.x]
                    \/ w /\ (c.free = 0 \/ c.st[rs].queued)

LEMMA WakeIs ==
  ASSUME NEW c \in CoreType, NEW link \in LinkType, NEW d, d = Wake(c, link), NEW rs, rs = link.rs
  PROVE  /\ link.x \in Operands => d \in CoreType
         /\ ~RSLINK_VALID(c.st, link) => d = RSLINK_FREE(c)
         /\ RSLINK_VALID(c.st, link) /\ link.x \in Operands =>
              \E w \in BOOLEAN : WokenBy(c, d, link, w)
<1>1. CASE ~RSLINK_VALID(c.st, link)
  <2>1. d = RSLINK_FREE(c)
    BY <1>1 DEF Wake
  <2>2. QED
    BY <1>1, <2>1, FreeIs
<1>2. CASE RSLINK_VALID(c.st, link) /\ link.x \in Operands
  <2>1. PICK x \in Operands : x = link.x
    BY <1>2
  <2>2. rs \in Stations
    BY DEF LinkType
  <2>3. PICK g : g = [c EXCEPT !.st[rs].idep_ready[x] = TRUE]
    OBVIOUS
  <2>4. /\ OneGiven(c, g, rs, x) /\ g.ready = c.ready /\ g.free = c.free /\ g.panic = c.panic
        /\ \A o \in Stations : g.st[o].queued <=> c.st[o].queued
    BY <2>2, <2>3, GiveOne
  <2>5. g \in CoreType
    BY <2>4 DEF OneGiven
  <2>6. PICK given : given = Panic(g, c.st[rs].idep_ready[x])
    OBVIOUS
  <2>7. PICK b : b = c.st[rs].idep_ready[x] /\ b \in BOOLEAN
    BY <2>2, CoreParts, StationParts
  <2>8. /\ given \in CoreType /\ given.st = g.st /\ given.ready = c.ready
        /\ given.events = g.events /\ given.free = c.free /\ given.panic = (g.panic \/ b)
    <3>1. given = Panic(g, b) /\ b \in BOOLEAN
      BY <2>6, <2>7
    <3>2. /\ given \in CoreType /\ given.st = g.st /\ given.ready = g.ready
          /\ given.events = g.events /\ given.free = g.free /\ given.panic = (g.panic \/ b)
      BY <2>5, <3>1, PanicIs
    <3>3. QED
      BY <2>4, <3>2
  <2>9. OneGiven(c, given, rs, x)
    BY <2>4, <2>8 DEF OneGiven
  <2>10. given.panic <=> c.panic \/ c.st[rs].idep_ready[x]
    BY <2>4, <2>7, <2>8
  <2>11. d = RSLINK_FREE(IF OPERANDS_READY(given.st[rs]) /\ ~IsLoad(c.st, rs)
                         THEN readyq_enqueue(given, rs) ELSE given)
    BY <1>2, <2>1, <2>3, <2>6 DEF Wake
  <2>12. PICK w \in BOOLEAN : w <=> OPERANDS_READY(given.st[rs]) /\ ~IsLoad(c.st, rs)
    <3>1. (OPERANDS_READY(given.st[rs]) /\ ~IsLoad(c.st, rs)) \in BOOLEAN
      OBVIOUS
    <3>2. QED
      BY <3>1, Zenon
  <2>13. OPERANDS_READY(given.st[rs]) <=> \A k \in Operands : c.st[rs].idep_ready[k] \/ k = x
    BY <2>2, <2>9 DEF OneGiven, OPERANDS_READY, Operands
  <2>14. CASE ~w
    <3>1. d = RSLINK_FREE(given)
      BY <2>11, <2>12, <2>14
    <3>2. /\ d \in CoreType /\ d.st = given.st /\ d.ready = c.ready /\ d.events = given.events
          /\ d.free = c.free + 1 /\ d.panic = given.panic
      BY <2>8, <3>1, FreeIs
    <3>3. OneGiven(c, d, rs, x)
      BY <2>9, <3>2 DEF OneGiven
    <3>4. \A o \in Stations : d.st[o].queued <=> c.st[o].queued
      BY <2>4, <2>8, <3>2
    <3>5. d.panic <=> c.panic \/ c.st[rs].idep_ready[x]
      BY <2>10, <3>2
    <3>6. QED
      BY <1>2, <2>1, <2>12, <2>13, <2>14, <3>2, <3>3, <3>4, <3>5 DEF OneGiven, WokenBy
  <2>15. CASE w
    <3>1. d = RSLINK_FREE(readyq_enqueue(given, rs))
      BY <2>11, <2>12, <2>15
    <3>2. PICK e : e = readyq_enqueue(given, rs)
      OBVIOUS
    <3>3. Enqueued(given, e, rs)
      BY <2>2, <2>8, <3>2, EnqueueIs
    <3>4. /\ d \in CoreType /\ d.st = e.st /\ d.ready = e.ready /\ d.events = e.events
          /\ d.free = e.free + 1 /\ d.panic = e.panic
      BY <3>1, <3>2, <3>3, FreeIs DEF Enqueued
    <3>5. given.st \in [Stations -> StationType]
      BY <2>8, CoreParts
    <3>6. /\ e.st = [given.st EXCEPT ![rs].queued = TRUE] /\ e.events = given.events
          /\ Len(e.ready) = Len(c.ready) + 1 /\ e.free = c.free - 1
          /\ e.panic = (given.panic \/ c.free = 0 \/ given.st[rs].queued)
      BY <2>8, <3>3 DEF Enqueued
    <3>7. Marked(given.st, d.st, rs)
      BY <2>2, <3>4, <3>5, <3>6, MarkIs
    <3>8. OneGiven(c, d, rs, x)
      <4>1. SameOps(c.st, d.st) /\ SameTags(c.st, d.st)
        BY <2>9, <3>7 DEF OneGiven, Marked, SameOps, SameTags
      <4>2. ASSUME NEW o \in Stations
            PROVE  /\ d.st[o].odep_list = c.st[o].odep_list
                   /\ d.st[o].issued <=> c.st[o].issued
                   /\ d.st[o].completed <=> c.st[o].completed
                   /\ \A k \in Operands :
                        d.st[o].idep_ready[k] <=> c.st[o].idep_ready[k] \/ (o = rs /\ k = x)
        BY <2>9, <3>7 DEF OneGiven, Marked
      <4>3. d.events = c.events
        BY <2>9, <3>4, <3>6 DEF OneGiven
      <4>4. QED
        BY <3>4, <4>1, <4>2, <4>3 DEF OneGiven
    <3>9. \A o \in Stations : d.st[o].queued <=> c.st[o].queued \/ o = rs
      BY <2>4, <2>8, <3>7 DEF Marked
    <3>10. d.panic <=> c.panic \/ c.st[rs].idep_ready[x] \/ c.free = 0 \/ c.st[rs].queued
      <4>1. given.st[rs].queued <=> c.st[rs].queued
        BY <2>2, <2>4, <2>8
      <4>2. d.panic <=> given.panic \/ c.free = 0 \/ given.st[rs].queued
        BY <3>4, <3>6
      <4>3. QED
        BY <2>10, <4>1, <4>2
    <3>11. d.free = c.free
      BY <3>4, <3>6, CoreParts
    <3>12. ASSUME Sound(c.ready, c.st), rs \notin In(c.ready, c.st)
           PROVE  Sound(d.ready, d.st) /\ In(d.ready, d.st) = In(c.ready, c.st) \cup {rs}
      <4>1. SameTags(c.st, given.st)
        BY <2>9 DEF OneGiven
      <4>2. c.ready \in Seq(LinkType)
        BY CoreParts
      <4>3. Sound(given.ready, given.st) /\ In(given.ready, given.st) = In(c.ready, c.st)
        <5>1. Sound(c.ready, given.st) /\ In(c.ready, given.st) = In(c.ready, c.st)
          <6>1. Sound(c.ready, c.st)
            BY <3>12
          <6>2. QED
            BY <4>1, <4>2, <6>1, SameTagsSound
        <5>2. given.ready = c.ready
          BY <2>8
        <5>3. QED
          BY <5>1, <5>2
      <4>4. QED
        BY <3>3, <3>4, <3>12, <4>3 DEF Enqueued
    <3>13. Len(d.ready) = Len(c.ready) + 1
      BY <3>4, <3>6
    <3>14. QED
      BY <1>2, <2>1, <2>12, <2>13, <2>15, <3>8, <3>9, <3>10, <3>11, <3>12, <3>13 DEF OneGiven, WokenBy
  <2>16. QED
    BY <2>12, <2>14, <2>15
<1>3. QED
  BY <1>1, <1>2

\* w is c when rs is complete and the first seen of its links have been followed.
Waking(c, w, rs, links, seen) ==
  LET G == UsesUpTo(links, c.st, seen)
  IN /\ w \in CoreType /\ w.events = c.events
     /\ Given(c.st, w.st, rs, G)
     /\ Sound(w.ready, w.st) /\ In(w.ready, w.st) = In(c.ready, c.st) \cup Woken(c.st, G)
     /\ w.free + Len(w.ready) = c.free + Len(c.ready) + seen /\ w.free >= c.free
     /\ c.free >= 1 => (w.panic <=> c.panic)

\* The consumers wait: they are not ready, nor queued.
Waiting(c, links) ==
  \A u \in Uses(links, c.st) :
    /\ ~c.st[u[1]].idep_ready[u[2]] /\ ~c.st[u[1]].queued
    /\ u[1] \notin In(c.ready, c.st)

LEMMA WakingStep ==
  ASSUME NEW c \in CoreType, NEW rs \in Stations, NEW links \in Seq(LinkType),
         SoundUses(links, c.st), Waiting(c, links),
         NEW seen \in Nat, seen < Len(links), NEW w, Waking(c, w, rs, links, seen)
  PROVE  Waking(c, Wake(w, links[seen + 1]), rs, links, seen + 1)
<1>1. PICK link, d, G, H : /\ link = links[seen + 1] /\ d = Wake(w, link)
                           /\ G = UsesUpTo(links, c.st, seen) /\ H = UsesUpTo(links, c.st, seen + 1)
  OBVIOUS
<1>2. /\ seen + 1 \in DOMAIN links /\ link \in LinkType /\ link.rs \in Stations /\ link.x \in Operands
      /\ \A i \in DOMAIN links : i \in Nat
  <2>1. seen + 1 \in DOMAIN links /\ \A i \in DOMAIN links : i \in Nat
    BY LinksAre
  <2>2. QED
    BY <1>1, <2>1, LinksAre DEF SoundUses
<1>3. /\ w \in CoreType /\ w.events = c.events
      /\ Given(c.st, w.st, rs, G)
      /\ Sound(w.ready, w.st) /\ In(w.ready, w.st) = In(c.ready, c.st) \cup Woken(c.st, G)
      /\ w.free + Len(w.ready) = c.free + Len(c.ready) + seen /\ w.free >= c.free
      /\ c.free >= 1 => (w.panic <=> c.panic)
  BY <1>1 DEF Waking
<1>4. /\ w.free \in Int /\ c.free \in Int /\ Len(w.ready) \in Nat /\ Len(c.ready) \in Nat
  BY <1>3, CoreParts
<1>5. SameTags(c.st, w.st) /\ SameOps(c.st, w.st)
  BY <1>3 DEF Given
<1>6. RSLINK_VALID(w.st, link) <=> RSLINK_VALID(c.st, link)
  BY <1>2, <1>5 DEF SameTags, RSLINK_VALID
<1>7. \A i \in DOMAIN links : i <= seen + 1 <=> i <= seen \/ i = seen + 1
  BY <1>2
<1>8. CASE ~RSLINK_VALID(c.st, link)
  <2>1. H = G
    BY <1>1, <1>7, <1>8 DEF UsesUpTo
  <2>2. d = RSLINK_FREE(w)
    BY <1>1, <1>2, <1>3, <1>6, <1>8, WakeIs
  <2>3. /\ d \in CoreType /\ d.st = w.st /\ d.ready = w.ready /\ d.events = w.events
        /\ d.panic = w.panic /\ d.free = w.free + 1
    BY <1>3, <2>2, FreeIs
  <2>4. d.free + Len(d.ready) = c.free + Len(c.ready) + (seen + 1) /\ d.free >= c.free
    <3>1. PICK a \in Int, b \in Int, l \in Int, m \in Int :
            a = w.free /\ b = c.free /\ l = Len(w.ready) /\ m = Len(c.ready)
      BY <1>4
    <3>2. a + l = b + m + seen /\ a >= b
      BY <1>3, <3>1
    <3>3. (a + 1) + l = b + m + (seen + 1) /\ a + 1 >= b
      BY <3>2
    <3>4. QED
      BY <2>3, <3>1, <3>3
  <2>5. Waking(c, d, rs, links, seen + 1)
    BY <1>1, <1>3, <2>1, <2>3, <2>4 DEF Waking
  <2>6. QED
    BY <1>1, <2>5
<1>9. CASE RSLINK_VALID(c.st, link)
  <2>1. PICK o \in Stations, x \in Operands : o = link.rs /\ x = link.x
    BY <1>2
  <2>2. <<o, x>> \in Uses(links, c.st)
    BY <1>1, <1>2, <1>9, <2>1, UsesAre
  <2>3. ~c.st[o].idep_ready[x] /\ ~c.st[o].queued /\ o \notin In(c.ready, c.st)
    BY <2>2 DEF Waiting
  <2>4. \A y \in Stations : \A k \in Operands :
          <<y, k>> \in H <=> <<y, k>> \in G \/ (y = o /\ k = x)
    BY <1>1, <1>2, <1>7, <1>9, <2>1 DEF UsesUpTo
  <2>5. <<o, x>> \notin G
    <3>1. ASSUME NEW i \in DOMAIN links, i <= seen, links[i].rs = o, links[i].x = x,
                 RSLINK_VALID(c.st, links[i])
          PROVE  FALSE
      <4>1. i = seen + 1
        BY <1>1, <1>2, <1>9, <2>1, <3>1 DEF SoundUses
      <4>2. QED
        BY <3>1, <4>1
    <3>2. QED
      BY <1>1, <3>1 DEF UsesUpTo
  <2>6. PICK wk \in BOOLEAN : WokenBy(w, d, link, wk)
    BY <1>1, <1>2, <1>3, <1>6, <1>9, WakeIs
  <2>7. /\ wk <=> ~IsLoad(w.st, o) /\ \A k \in Operands : w.st[o].idep_ready[k] \/ k = x
        /\ OneGiven(w, d, o, x)
        /\ \A y \in Stations : d.st[y].queued <=> w.st[y].queued \/ (wk /\ y = o)
        /\ ~wk => d.ready = w.ready /\ d.free = w.free + 1
        /\ wk => /\ Len(d.ready) = Len(w.ready) + 1 /\ d.free = w.free
                 /\ Sound(w.ready, w.st) /\ o \notin In(w.ready, w.st) =>
                      Sound(d.ready, d.st) /\ In(d.ready, d.st) = In(w.ready, w.st) \cup {o}
        /\ d.panic <=> \/ w.panic \/ w.st[o].idep_ready[x]
                       \/ wk /\ (w.free = 0 \/ w.st[o].queued)
    BY <2>1, <2>6 DEF WokenBy
  <2>8. o \notin Woken(c.st, G)
    BY <2>3, <2>5 DEF Woken
  <2>9. \A k \in Operands : w.st[o].idep_ready[k] <=> c.st[o].idep_ready[k] \/ <<o, k>> \in G
    BY <1>3 DEF Given
  <2>10. IsLoad(w.st, o) <=> IsLoad(c.st, o)
    BY <1>5 DEF SameOps, IsLoad
  <2>11. wk <=> ~IsLoad(c.st, o) /\ \A k \in Operands : c.st[o].idep_ready[k] \/ <<o, k>> \in H
    <3>1. \A k \in Operands : w.st[o].idep_ready[k] \/ k = x
                               <=> c.st[o].idep_ready[k] \/ <<o, k>> \in H
      BY <2>4, <2>9
    <3>2. QED
      BY <2>7, <2>10, <3>1
  <2>12. Woken(c.st, H) = IF wk THEN Woken(c.st, G) \cup {o} ELSE Woken(c.st, G)
    <3>1. \A y \in Stations : y # o => (y \in Woken(c.st, H) <=> y \in Woken(c.st, G))
      BY <2>4 DEF Woken
    <3>2. <<o, x>> \in H
      BY <2>4
    <3>3. o \in Woken(c.st, H) <=> wk
      BY <2>11, <3>2 DEF Woken
    <3>4. Woken(c.st, H) \subseteq Stations /\ Woken(c.st, G) \subseteq Stations
      BY DEF Woken
    <3>5. CASE wk
      BY <3>1, <3>3, <3>4, <3>5
    <3>6. CASE ~wk
      <4>1. o \notin Woken(c.st, H)
        BY <3>3, <3>6
      <4>2. Woken(c.st, H) = Woken(c.st, G)
        <5>1. PICK A, B : A = Woken(c.st, H) /\ B = Woken(c.st, G)
          OBVIOUS
        <5>2. /\ A \subseteq Stations /\ B \subseteq Stations /\ o \notin A /\ o \notin B
              /\ \A y \in Stations : y # o => (y \in A <=> y \in B)
          BY <2>8, <3>1, <3>4, <4>1, <5>1
        <5>3. ASSUME NEW y \in A PROVE y \in B
          BY <5>2
        <5>4. ASSUME NEW y \in B PROVE y \in A
          BY <5>2
        <5>5. A = B
          BY <5>3, <5>4
        <5>6. QED
          BY <5>1, <5>5
      <4>3. QED
        BY <3>6, <4>2
    <3>7. QED
      BY <3>5, <3>6
  <2>13. d \in CoreType /\ d.events = c.events
    BY <1>3, <2>7 DEF OneGiven
  <2>14. Given(c.st, d.st, rs, H)
    <3>1. SameOps(c.st, d.st) /\ SameTags(c.st, d.st)
      BY <1>5, <2>7 DEF OneGiven, SameOps, SameTags
    <3>2. ASSUME NEW y \in Stations
          PROVE  /\ d.st[y].odep_list = IF y = rs THEN <<>> ELSE c.st[y].odep_list
                 /\ d.st[y].issued <=> c.st[y].issued
                 /\ d.st[y].completed <=> c.st[y].completed \/ y = rs
      BY <1>3, <2>7 DEF Given, OneGiven
    <3>3. ASSUME NEW y \in Stations, NEW k \in Operands
          PROVE  d.st[y].idep_ready[k] <=> c.st[y].idep_ready[k] \/ <<y, k>> \in H
      BY <1>3, <2>4, <2>7 DEF Given, OneGiven
    <3>4. ASSUME NEW y \in Stations
          PROVE  d.st[y].queued <=> c.st[y].queued \/ y \in Woken(c.st, H)
      <4>1. w.st[y].queued <=> c.st[y].queued \/ y \in Woken(c.st, G)
        BY <1>3 DEF Given
      <4>2. QED
        BY <2>7, <2>12, <4>1
    <3>5. QED
      BY <3>1, <3>2, <3>3, <3>4 DEF Given
  <2>15. ~w.st[o].idep_ready[x] /\ ~w.st[o].queued /\ o \notin In(w.ready, w.st)
    <3>1. ~w.st[o].idep_ready[x]
      BY <2>3, <2>5, <2>9
    <3>2. ~w.st[o].queued
      BY <1>3, <2>3, <2>8 DEF Given
    <3>3. QED
      BY <1>3, <2>3, <2>8, <3>1, <3>2
  <2>16. Sound(d.ready, d.st) /\ In(d.ready, d.st) = In(c.ready, c.st) \cup Woken(c.st, H)
    <3>1. CASE wk
      BY <1>3, <2>7, <2>12, <2>15, <3>1
    <3>2. CASE ~wk
      <4>1. SameTags(w.st, d.st)
        BY <2>7 DEF OneGiven
      <4>2. w.ready \in Seq(LinkType)
        BY <1>3, CoreParts
      <4>3. Sound(w.ready, w.st)
        BY <1>3
      <4>5. Sound(w.ready, d.st) /\ In(w.ready, d.st) = In(w.ready, w.st)
        BY <4>1, <4>2, <4>3, SameTagsSound, Zenon
      <4>6. QED
        BY <1>3, <2>7, <2>12, <3>2, <4>5
    <3>3. QED
      BY <3>1, <3>2
  <2>17. d.free + Len(d.ready) = c.free + Len(c.ready) + (seen + 1) /\ d.free >= c.free
    <3>1. PICK a \in Int, b \in Int, l \in Int, m \in Int :
            a = w.free /\ b = c.free /\ l = Len(w.ready) /\ m = Len(c.ready)
      BY <1>4
    <3>2. a + l = b + m + seen /\ a >= b
      BY <1>3, <3>1
    <3>3. (a + 1) + l = b + m + (seen + 1) /\ a + (l + 1) = b + m + (seen + 1) /\ a + 1 >= b
      BY <3>2
    <3>4. CASE wk
      BY <2>7, <3>1, <3>2, <3>3, <3>4
    <3>5. CASE ~wk
      BY <2>7, <3>1, <3>3, <3>5
    <3>6. QED
      BY <3>4, <3>5
  <2>18. c.free >= 1 => (d.panic <=> c.panic)
    BY <1>3, <1>4, <2>7, <2>15
  <2>19. Waking(c, d, rs, links, seen + 1)
    BY <1>1, <2>13, <2>14, <2>16, <2>17, <2>18 DEF Waking
  <2>20. QED
    BY <1>1, <2>19
<1>10. QED
  BY <1>8, <1>9

\* d is c after rs has completed.
Broadcasted(c, d, rs) == Waking(c, d, rs, c.st[rs].odep_list, Len(c.st[rs].odep_list))

LEMMA BroadcastIs ==
  ASSUME NEW c \in CoreType, NEW rs \in Stations, SoundUses(c.st[rs].odep_list, c.st),
         Sound(c.ready, c.st), Waiting(c, c.st[rs].odep_list)
  PROVE  Broadcasted(c, Broadcast(c, rs), rs)
<1> DEFINE L == c.st[rs].odep_list
           init == [c EXCEPT !.st[rs].completed = TRUE, !.st[rs].odep_list = <<>>]
           Waked(f) == f = [k \in 0 .. Len(L) |-> IF k = 0 THEN init ELSE Wake(f[k - 1], L[k])]
           woken == CHOOSE f : Waked(f)
           step == [y \in Nat \X CoreType |->
                      IF y[1] < Len(L) THEN Wake(y[2], L[y[1] + 1]) ELSE y[2]]
<1>1. PICK links : links = L
  OBVIOUS
<1>2. links \in Seq(LinkType) /\ c.st \in [Stations -> StationType]
  BY <1>1, CoreParts, StationParts
<1>3. PICK N \in Nat : N = Len(links) /\ \A i \in 1 .. N : i \in DOMAIN links
  BY <1>2, LinksAre
<1>4. \A i \in 1 .. N : links[i] \in LinkType /\ links[i].x \in Operands
  BY <1>1, <1>2, <1>3, LinksAre DEF SoundUses
<1>5. PICK s : s = [c.st[rs] EXCEPT !.completed = TRUE, !.odep_list = <<>>]
  OBVIOUS
<1>6. /\ s \in StationType /\ s.op = c.st[rs].op /\ s.pc = c.st[rs].pc /\ s.addr = c.st[rs].addr
      /\ s.seq = c.st[rs].seq /\ s.oname = c.st[rs].oname /\ s.ea_comp = c.st[rs].ea_comp
      /\ s.spec_mode = c.st[rs].spec_mode /\ s.recover_inst = c.st[rs].recover_inst
      /\ s.tag = c.st[rs].tag /\ s.odep_list = <<>> /\ s.issued = c.st[rs].issued
      /\ s.completed /\ s.idep_ready = c.st[rs].idep_ready /\ s.queued = c.st[rs].queued
  <2>1. c.st[rs] \in StationType /\ <<>> \in Seq(LinkType)
    BY <1>2
  <2>2. QED
    BY <1>5, <2>1 DEF StationType
<1>7. PICK st2 : st2 = [c.st EXCEPT ![rs] = s]
  OBVIOUS
<1>8. /\ st2 \in [Stations -> StationType] /\ st2[rs] = s
      /\ \A o \in Stations : o # rs => st2[o] = c.st[o]
  BY <1>2, <1>6, <1>7
<1>9. PICK first : first = init
  OBVIOUS
<1>10. first = [c EXCEPT !.st = st2]
  BY <1>2, <1>5, <1>7, <1>9 DEF CoreType, StationType
<1>11. /\ first \in CoreType /\ first.st = st2 /\ first.ready = c.ready
       /\ first.events = c.events /\ first.free = c.free /\ first.panic = c.panic
  BY <1>8, <1>10 DEF CoreType
<1>12. Waking(c, first, rs, links, 0)
  <2>1. UsesUpTo(links, c.st, 0) = {}
    <3>1. \A i \in DOMAIN links : ~(i <= 0)
      BY <1>2, LinksAre
    <3>2. QED
      BY <3>1 DEF UsesUpTo
  <2>2. Woken(c.st, {}) = {}
    BY DEF Woken
  <2>3. SameOps(c.st, st2) /\ SameTags(c.st, st2)
    BY <1>6, <1>8 DEF SameOps, SameTags
  <2>4. ASSUME NEW o \in Stations
        PROVE  /\ st2[o].odep_list = IF o = rs THEN <<>> ELSE c.st[o].odep_list
               /\ st2[o].issued <=> c.st[o].issued
               /\ st2[o].completed <=> c.st[o].completed \/ o = rs
               /\ st2[o].idep_ready = c.st[o].idep_ready
               /\ st2[o].queued <=> c.st[o].queued
    <3>1. CASE o = rs
      BY <1>6, <1>8, <3>1
    <3>2. CASE o # rs
      BY <1>8, <3>2
    <3>3. QED
      BY <3>1, <3>2
  <2>5. Given(c.st, st2, rs, {})
    BY <2>2, <2>3, <2>4 DEF Given
  <2>6. Sound(c.ready, st2) /\ In(c.ready, st2) = In(c.ready, c.st)
    <3>1. c.ready \in Seq(LinkType)
      BY CoreParts
    <3>2. QED
      BY <2>3, <3>1, SameTagsSound
  <2>7. /\ first.free + Len(first.ready) = c.free + Len(c.ready) + 0 /\ first.free >= c.free
    BY <1>11, CoreParts
  <2>8. QED
    BY <1>11, <2>1, <2>2, <2>5, <2>6, <2>7 DEF Waking
<1>13. step \in [Nat \X CoreType -> CoreType]
  <2>1. ASSUME NEW y \in Nat \X CoreType
        PROVE  (IF y[1] < Len(L) THEN Wake(y[2], L[y[1] + 1]) ELSE y[2]) \in CoreType
    <3>1. CASE y[1] < Len(L)
      <4>1. y[1] + 1 \in 1 .. N
        BY <1>1, <1>3, <3>1
      <4>2. L[y[1] + 1] \in LinkType /\ L[y[1] + 1].x \in Operands /\ y[2] \in CoreType
        BY <1>1, <1>4, <4>1
      <4>3. Wake(y[2], L[y[1] + 1]) \in CoreType
        BY <4>2, WakeIs
      <4>4. QED
        BY <3>1, <4>3
    <3>2. CASE ~(y[1] < Len(L))
      BY <3>2
    <3>3. QED
      BY <3>1, <3>2
  <2>2. QED
    BY <2>1
<1>14. PICK f \in [0 .. N -> CoreType] : Follows(f, N, first, step)
  <2> HIDE DEF step
  <2>1. QED
    BY <1>11, <1>13, Recursion
<1>15. f[0] = init /\ \A k \in 0 .. N - 1 : f[k + 1] = Wake(f[k], L[k + 1])
  <2>1. \A k \in 0 .. N - 1 : k \in Nat /\ k < Len(L) /\ k \in 0 .. N /\ f[k] \in CoreType
    BY <1>1, <1>3
  <2>2. \A k \in 0 .. N - 1 : step[<<k, f[k]>>] = Wake(f[k], L[k + 1])
    BY <2>1
  <2> HIDE DEF step
  <2>3. QED
    BY <1>9, <1>14, <2>2 DEF Follows
<1> HIDE DEF step, init
<1>16. Waked(f)
  <2>1. \A k \in 0 .. N : k # 0 => k - 1 \in 0 .. N - 1 /\ (k - 1) + 1 = k
    OBVIOUS
  <2>2. \A k \in 0 .. N : f[k] = IF k = 0 THEN init ELSE Wake(f[k - 1], L[k])
    BY <1>15, <2>1
  <2>3. f = [k \in 0 .. N |-> f[k]]
    OBVIOUS
  <2>4. QED
    BY <1>1, <1>3, <2>2, <2>3
<1>17. Waked(woken)
  BY <1>16, Zenon
<1>18. PICK v : v = woken
  OBVIOUS
<1>19. v[0] = init /\ \A k \in 0 .. N - 1 : v[k + 1] = Wake(v[k], L[k + 1])
  <2>1. v = [k \in 0 .. N |-> IF k = 0 THEN init ELSE Wake(v[k - 1], L[k])]
    BY <1>1, <1>3, <1>17, <1>18
  <2>2. \A k \in 0 .. N - 1 : k + 1 \in 0 .. N /\ k + 1 # 0 /\ (k + 1) - 1 = k
    OBVIOUS
  <2>3. 0 \in 0 .. N
    OBVIOUS
  <2>4. v[0] = init
    BY <2>1, <2>3
  <2>5. \A k \in 0 .. N : k # 0 => v[k] = Wake(v[k - 1], L[k])
    BY <2>1
  <2>6. QED
    BY <2>2, <2>4, <2>5
<1> DEFINE S == {k \in Nat : k <= N => Waking(c, v[k], rs, links, k)}
<1>20. 0 \in S
  BY <1>9, <1>12, <1>19
<1>21. ASSUME NEW k \in Nat, k \in S PROVE k + 1 \in S
  <2>1. CASE k + 1 <= N
    <3>1. k \in 0 .. N - 1 /\ k < Len(links)
      BY <1>3, <2>1
    <3>2. Waking(c, v[k], rs, links, k)
      BY <1>21, <3>1
    <3>3. v[k + 1] = Wake(v[k], links[k + 1])
      BY <1>1, <1>19, <3>1
    <3>4. Waking(c, Wake(v[k], links[k + 1]), rs, links, k + 1)
      BY <1>1, <1>2, <3>1, <3>2, WakingStep
    <3>5. QED
      BY <3>3, <3>4
  <2>2. CASE ~(k + 1 <= N)
    BY <2>2
  <2>3. QED
    BY <2>1, <2>2
<1> HIDE DEF S
<1>22. Nat \subseteq S
  BY <1>20, <1>21, Induction
<1>23. Waking(c, v[N], rs, links, N)
  BY <1>22 DEF S
<1>24. Broadcast(c, rs) = woken[Len(L)]
  BY Zenon DEF Broadcast, woken, Waked, init, L
<1>25. QED
  BY <1>1, <1>3, <1>18, <1>23, <1>24 DEF Broadcasted

-----------------------------------------------------------------------------
(* The invariant.  Its parts are stated of the stations st, the queues que   *)
(* and the operations in flight W, which are R in the RUU and L in the LSQ.  *)

\* The i-th entry of a queue, from 0.
At(que, q, i) == <<q, (que[q].head + i) % size[q]>>
Entries(que, q) == {At(que, q, i) : i \in 0 .. que[q].num - 1}
Flight(que) == Entries(que, "RUU") \cup Entries(que, "LSQ")

\* Each queue is a ring.
RingOK(que, q) ==
  /\ que[q] = [head |-> que[q].head, tail |-> que[q].tail, num |-> que[q].num]
  /\ que[q].head \in 0 .. size[q] - 1 /\ que[q].num \in 0 .. size[q]
  /\ que[q].tail = (que[q].head + que[q].num) % size[q]

\* Its operations are in the order of dispatch.
InOrder(st, que, q) ==
  \A i, j \in 0 .. que[q].num - 1 : i < j => st[At(que, q, i)].seq < st[At(que, q, j)].seq

QueuesOK(st, que) ==
  /\ que = [RUU |-> que["RUU"], LSQ |-> que["LSQ"]]
  /\ RingOK(que, "RUU") /\ InOrder(st, que, "RUU")
  /\ RingOK(que, "LSQ") /\ InOrder(st, que, "LSQ")

InstOf(p, pc) == IF pc \in DOMAIN p THEN p[pc] ELSE Nop
IsAccess(i) == i.flags \cap {"LOAD", "STORE"} # {}

\* An operation in the RUU is what its instruction says: an address computation
\* is followed by its access.
IsAgen(st, x, L) ==
  /\ st[x].op = AGEN /\ st[x].oname = "DTMP" /\ ~st[x].recover_inst
  /\ \E y \in L : st[y].seq = st[x].seq + 1 /\ st[y].pc = st[x].pc
                  /\ (st[y].spec_mode <=> st[x].spec_mode)
InRUU(p, st, x, L) ==
  LET i == InstOf(p, st[x].pc)
  IN /\ i.flags \cap {"NOP", "EXIT"} = {}
     /\ st[x].ea_comp <=> IsAccess(i)
     /\ st[x].ea_comp => IsAgen(st, x, L)
     /\ ~st[x].ea_comp => /\ st[x].op = [flags |-> i.flags, class |-> i.class]
                          /\ st[x].oname = i.out

\* And in the LSQ.
InLSQ(p, st, y, R) ==
  LET i == InstOf(p, st[y].pc)
  IN /\ IsAccess(i) /\ ~st[y].ea_comp /\ ~st[y].recover_inst
     /\ st[y].op = [flags |-> i.flags, class |-> i.class] /\ st[y].oname = i.out
     /\ \E x \in R : st[x].ea_comp /\ st[y].seq = st[x].seq + 1

OperationsOK(p, st, R, L) ==
  (\A x \in R : InRUU(p, st, x, L)) /\ (\A y \in L : InLSQ(p, st, y, R))

\* Operations are numbered in the order of dispatch, those of the wrong path last.
OrderOK(st, W, sq) ==
  /\ \A x \in W : st[x].seq <= sq
  /\ \A x, y \in W : st[x].seq = st[y].seq => x = y
  /\ \A x, y \in W : st[x].spec_mode /\ ~st[y].spec_mode => st[y].seq < st[x].seq

\* What an operation has been through; those in E still have to be queued.
StatusOK(st, W, E) ==
  \A x \in W :
    /\ st[x].queued => ~st[x].issued
    /\ st[x].queued \/ st[x].issued => OPERANDS_READY(st[x])
    /\ st[x].completed => st[x].issued
    /\ IsStore(st, x) /\ st[x].issued => st[x].completed
    /\ OPERANDS_READY(st[x]) /\ x \notin E => st[x].queued \/ st[x].issued \/ IsLoad(st, x)

\* The lists have the links that the states of the operations call for; D is
\* completing.
ListsOK(st, ready, iss, events, W, D) ==
  /\ Sound(ready, st) /\ Sound(iss, st) /\ Sound(events, st)
  /\ In(ready, st) \cap In(iss, st) = {}
  /\ In(ready, st) \cup In(iss, st) = {x \in W : st[x].queued}
  /\ In(events, st) = {x \in W : st[x].issued /\ ~st[x].completed} \ D

\* Of the operations in S, o is the last to write r, and it is at work.
Creates(st, S, r, o) ==
  /\ o \in S /\ st[o].oname = r /\ ~st[o].completed
  /\ \A v \in S : st[v].oname = r => st[v].seq <= st[o].seq

Older(st, W, x) == {o \in W : st[o].seq < st[x].seq}

\* The register that an operand is.
Reads(p, st, x, k) ==
  LET ins == InstOf(p, st[x].pc).ins
  IN IF in_LSQ(x) THEN (IF k = 0 THEN ins[1] ELSE IF k = 1 THEN "DTMP" ELSE NA)
     ELSE IF st[x].ea_comp /\ k = 0 THEN NA ELSE ins[k + 1]

Awaits(p, st, W, x, k, o) ==
  Reads(p, st, x, k) # NA /\ Creates(st, Older(st, W, x), Reads(p, st, x, k), o)

\* The list of an operation's consumers is that of the operands that await it.
ConsumersOK(p, st, W, o) ==
  /\ SoundUses(st[o].odep_list, st)
  /\ \A x \in Stations : \A k \in Operands :
       <<x, k>> \in Uses(st[o].odep_list, st) <=> x \in W /\ Awaits(p, st, W, x, k, o)
  /\ o \notin W \/ st[o].completed \/ st[o].oname = NA => st[o].odep_list = <<>>

\* An operand is ready when it awaits no operation.
OperandsOK(p, st, W, x) ==
  \A k \in Operands : st[x].idep_ready[k] <=> \A o \in W : ~Awaits(p, st, W, x, k, o)

DependsOK(p, st, W) ==
  /\ \A o \in Stations : ConsumersOK(p, st, W, o)
  /\ \A x \in W : OperandsOK(p, st, W, x)

\* The create vectors name the last writers.
Right(st, W) == {x \in W : ~st[x].spec_mode}
Wrong(st, W) == {r \in Names : \E x \in W : st[x].spec_mode /\ st[x].oname = r}
Named(st, S, r, v) == v \in Stations \cup {NULL} /\ \A o \in Stations : v = o <=> Creates(st, S, r, o)
VectorsOK(st, W, cv, scv, ucv) ==
  /\ DOMAIN cv = Names /\ DOMAIN scv = Names
  /\ ucv = Wrong(st, W)
  /\ \A r \in Names : Named(st, Right(st, W), r, cv[r])
  /\ \A r \in ucv : Named(st, W, r, scv[r])

\* What a load that may go was promised.
Stores(st, W, load) == {o \in Older(st, W, load) : IsStore(st, o)}
Same(st, W, load) == {o \in Stores(st, W, load) : st[o].addr = st[load].addr}
LoadOK(st, W, load) ==
  /\ \A o \in Stores(st, W, load) : STORE_ADDR_READY(st[o])
  /\ Same(st, W, load) # {} =>
       \E o \in Same(st, W, load) :
         /\ OPERANDS_READY(st[o])
         /\ \A other \in Same(st, W, load) : st[other].seq <= st[o].seq
LoadsOK(st, W) ==
  \A x \in W : IsLoad(st, x) /\ (st[x].queued \/ st[x].issued) => LoadOK(st, W, x)

-----------------------------------------------------------------------------
(* What an operation is does not change *)

LEMMA SameKinds ==
  ASSUME NEW st, NEW st2, SameOps(st, st2), NEW W \in SUBSET Stations, NEW x \in Stations
  PROVE  /\ IsStore(st2, x) <=> IsStore(st, x)
         /\ IsLoad(st2, x) <=> IsLoad(st, x)
         /\ Older(st2, W, x) = Older(st, W, x)
         /\ Right(st2, W) = Right(st, W) /\ Wrong(st2, W) = Wrong(st, W)
         /\ Stores(st2, W, x) = Stores(st, W, x) /\ Same(st2, W, x) = Same(st, W, x)
<1>1. \A o \in Stations : /\ IsStore(st2, o) <=> IsStore(st, o)
                          /\ IsLoad(st2, o) <=> IsLoad(st, o)
  BY DEF SameOps, IsStore, IsLoad
<1>2. Older(st2, W, x) = Older(st, W, x)
  BY DEF SameOps, Older
<1>3. Right(st2, W) = Right(st, W) /\ Wrong(st2, W) = Wrong(st, W)
  BY DEF SameOps, Right, Wrong
<1>4. Stores(st2, W, x) = Stores(st, W, x)
  <2>1. Older(st, W, x) \subseteq Stations
    BY DEF Older
  <2>2. QED
    BY <1>1, <1>2, <2>1 DEF Stores
<1>5. Same(st2, W, x) = Same(st, W, x)
  <2>1. Stores(st, W, x) \subseteq Stations
    BY DEF Stores, Older
  <2>2. QED
    BY <1>4, <2>1 DEF Same, SameOps
<1>6. QED
  BY <1>1, <1>2, <1>3, <1>4, <1>5

LEMMA SameReads ==
  ASSUME NEW st, NEW st2, SameOps(st, st2), NEW p, NEW x \in Stations, NEW k
  PROVE  Reads(p, st2, x, k) = Reads(p, st, x, k)
BY DEF Reads, SameOps

LEMMA SameOperations ==
  ASSUME NEW st, NEW st2, SameOps(st, st2), NEW p, NEW R \in SUBSET Stations,
         NEW L \in SUBSET Stations, OperationsOK(p, st, R, L)
  PROVE  OperationsOK(p, st2, R, L)
<1>1. ASSUME NEW x \in R PROVE InRUU(p, st2, x, L)
  <2>1. InRUU(p, st, x, L) /\ x \in Stations
    BY DEF OperationsOK
  <2>2. ASSUME IsAgen(st, x, L) PROVE IsAgen(st2, x, L)
    BY <2>1, <2>2 DEF IsAgen, SameOps
  <2>3. st2[x].ea_comp = st[x].ea_comp /\ st2[x].pc = st[x].pc /\ st2[x].op = st[x].op
        /\ st2[x].oname = st[x].oname
    BY <2>1 DEF SameOps
  <2>4. QED
    BY <2>1, <2>2, <2>3 DEF InRUU
<1>2. ASSUME NEW y \in L PROVE InLSQ(p, st2, y, R)
  <2>1. InLSQ(p, st, y, R) /\ y \in Stations
    BY DEF OperationsOK
  <2>2. PICK x \in R : st[x].ea_comp /\ st[y].seq = st[x].seq + 1
    BY <2>1 DEF InLSQ
  <2>3. st2[x].ea_comp /\ st2[y].seq = st2[x].seq + 1
    BY <2>1, <2>2 DEF SameOps
  <2>4. st2[y].ea_comp = st[y].ea_comp /\ st2[y].pc = st[y].pc /\ st2[y].op = st[y].op
        /\ st2[y].oname = st[y].oname /\ st2[y].recover_inst = st[y].recover_inst
    BY <2>1 DEF SameOps
  <2>5. QED
    BY <2>1, <2>3, <2>4 DEF InLSQ
<1>3. QED
  BY <1>1, <1>2 DEF OperationsOK

LEMMA SameOrder ==
  ASSUME NEW st, NEW st2, SameOps(st, st2), NEW W \in SUBSET Stations, NEW sq, OrderOK(st, W, sq),
         NEW W2 \in SUBSET W
  PROVE  OrderOK(st2, W2, sq)
BY DEF OrderOK, SameOps

-----------------------------------------------------------------------------
(* Operations complete, and the oldest leave *)

\* From st to st2, those in C complete.
Completing(st, st2, C) ==
  /\ st \in [Stations -> StationType] /\ st2 \in [Stations -> StationType]
  /\ SameOps(st, st2)
  /\ \A o \in Stations : st2[o].completed <=> st[o].completed \/ o \in C

\* S2 are those of S but for some of the oldest, which are complete.
Leaving(st, S, S2) ==
  /\ S \in SUBSET Stations /\ S2 \in SUBSET S
  /\ \A v \in S \ S2 : st[v].completed /\ \A o \in S2 : st[v].seq < st[o].seq

LEMMA CreatesAfter ==
  ASSUME NEW st, NEW st2, NEW C, Completing(st, st2, C), NEW S, NEW S2, Leaving(st, S, S2),
         NEW r, NEW o \in Stations
  PROVE  Creates(st2, S2, r, o) <=> Creates(st, S, r, o) /\ o \notin C
<1>1. \A x \in Stations : st[x].seq \in Nat
  BY StationParts DEF Completing
<1>2. S \subseteq Stations /\ S2 \subseteq S
  BY DEF Leaving
<1>3. \A x \in Stations : /\ st2[x].oname = st[x].oname /\ st2[x].seq = st[x].seq
                          /\ st2[x].completed <=> st[x].completed \/ x \in C
  BY DEF Completing, SameOps
<1>4. ASSUME Creates(st2, S2, r, o) PROVE Creates(st, S, r, o) /\ o \notin C
  <2>1. /\ o \in S2 /\ st[o].oname = r /\ ~st[o].completed /\ o \notin C
    BY <1>3, <1>4 DEF Creates
  <2>2. ASSUME NEW v \in S, st[v].oname = r PROVE st[v].seq <= st[o].seq
    <3>1. CASE v \in S2
      BY <1>2, <1>3, <1>4, <2>2, <3>1 DEF Creates
    <3>2. CASE v \notin S2
      BY <1>1, <1>2, <2>1, <3>2 DEF Leaving
    <3>3. QED
      BY <3>1, <3>2
  <2>3. QED
    BY <1>2, <2>1, <2>2 DEF Creates
<1>5. ASSUME Creates(st, S, r, o), o \notin C PROVE Creates(st2, S2, r, o)
  <2>1. o \in S /\ st[o].oname = r /\ ~st[o].completed
    BY <1>5 DEF Creates
  <2>2. o \in S2
    BY <2>1 DEF Leaving
  <2>3. \A v \in S2 : st2[v].oname = r => st2[v].seq <= st2[o].seq
    BY <1>2, <1>3, <1>5, <2>2 DEF Creates
  <2>4. QED
    BY <1>3, <1>5, <2>1, <2>2, <2>3 DEF Creates
<1>6. QED
  BY <1>4, <1>5

LEMMA OlderLeaving ==
  ASSUME NEW st, NEW W, NEW W2, Leaving(st, W, W2), NEW x \in W2
  PROVE  Leaving(st, Older(st, W, x), Older(st, W2, x))
BY DEF Leaving, Older

LEMMA AwaitsAfter ==
  ASSUME NEW st, NEW st2, NEW C, Completing(st, st2, C), NEW W, NEW W2, Leaving(st, W, W2),
         NEW p, NEW x \in W2, NEW k \in Operands, NEW o \in Stations
  PROVE  Awaits(p, st2, W2, x, k, o) <=> Awaits(p, st, W, x, k, o) /\ o \notin C
<1>1. x \in Stations /\ SameOps(st, st2) /\ W2 \in SUBSET Stations
  BY DEF Leaving, Completing
<1>2. Reads(p, st2, x, k) = Reads(p, st, x, k) /\ Older(st2, W2, x) = Older(st, W2, x)
  BY <1>1, SameReads, SameKinds
<1>3. Leaving(st, Older(st, W, x), Older(st, W2, x))
  BY OlderLeaving
<1>4. PICK r : r = Reads(p, st, x, k)
  OBVIOUS
<1>5. Creates(st2, Older(st, W2, x), r, o) <=> Creates(st, Older(st, W, x), r, o) /\ o \notin C
  BY <1>3, CreatesAfter
<1>6. QED
  BY <1>2, <1>4, <1>5 DEF Awaits

\* The operands that await those in C are given, and the lists of those emptied.
Giving(st, st2, W2, C) ==
  /\ \A o \in Stations :
       /\ o \in C => st2[o].odep_list = <<>>
       /\ o \notin C => st2[o].odep_list = st[o].odep_list
  /\ \A x \in W2 : \A k \in Operands :
       st2[x].idep_ready[k] <=>
         st[x].idep_ready[k] \/ \E o \in C : <<x, k>> \in Uses(st[o].odep_list, st)

LEMMA DependsAfter ==
  ASSUME NEW st, NEW st2, NEW C \in SUBSET Stations, Completing(st, st2, C),
         NEW W, NEW W2, Leaving(st, W, W2), NEW p, DependsOK(p, st, W),
         Giving(st, st2, W2, C), Retagging(st, st2, W \ W2),
         \A x \in W \ W2 : OPERANDS_READY(st[x]),
         \A x, y \in W : st[x].seq = st[y].seq => x = y
  PROVE  DependsOK(p, st2, W2)
<1>1. /\ st \in [Stations -> StationType] /\ st2 \in [Stations -> StationType]
      /\ SameOps(st, st2)
      /\ W \subseteq Stations /\ W2 \subseteq W
  BY DEF Completing, Leaving
<1>2. \A o \in Stations : ConsumersOK(p, st, W, o)
  BY DEF DependsOK
<1>3. \A x \in W : OperandsOK(p, st, W, x)
  BY DEF DependsOK
<1>4. \A x \in W \ W2 : \A k \in Operands : \A o \in W : ~Awaits(p, st, W, x, k, o)
  BY <1>3 DEF OperandsOK, OPERANDS_READY, Operands
<1>5. \A x \in W : \A k \in Operands : \A o \in Stations : Awaits(p, st, W, x, k, o) => o \in W
  BY DEF Awaits, Creates, Older
<1>6. ASSUME NEW o \in Stations PROVE ConsumersOK(p, st2, W2, o)
  <2>1. CASE o \in C
    <3>1. st2[o].odep_list = <<>>
      BY <2>1 DEF Giving
    <3>2. SoundUses(<<>>, st2) /\ Uses(<<>>, st2) = {}
      BY NoUses
    <3>3. \A x \in W2 : \A k \in Operands : ~Awaits(p, st2, W2, x, k, o)
      BY <2>1, AwaitsAfter
    <3>4. QED
      BY <3>1, <3>2, <3>3 DEF ConsumersOK
  <2>2. CASE o \notin C
    <3>1. PICK list : list = st[o].odep_list
      OBVIOUS
    <3>2. st2[o].odep_list = list /\ list \in Seq(LinkType)
      BY <1>1, <2>2, <3>1, StationParts DEF Giving
    <3>3. SoundUses(list, st)
      BY <1>2, <3>1 DEF ConsumersOK
    <3>4. SoundUses(list, st2) /\ Uses(list, st2) = {u \in Uses(list, st) : u[1] \notin W \ W2}
      BY <1>1, <3>2, <3>3, RetagUses
    <3>5. ASSUME NEW x \in Stations, NEW k \in Operands
          PROVE  <<x, k>> \in Uses(list, st2) <=> x \in W2 /\ Awaits(p, st2, W2, x, k, o)
      <4>1. <<x, k>> \in Uses(list, st) <=> x \in W /\ Awaits(p, st, W, x, k, o)
        BY <1>2, <3>1 DEF ConsumersOK
      <4>2. <<x, k>> \in Uses(list, st2) <=> <<x, k>> \in Uses(list, st) /\ x \notin W \ W2
        BY <3>4
      <4>3. x \in W2 => (Awaits(p, st2, W2, x, k, o) <=> Awaits(p, st, W, x, k, o))
        BY <2>2, AwaitsAfter
      <4>4. x \in W \ W2 => ~Awaits(p, st, W, x, k, o)
        BY <1>4, <1>5
      <4>5. QED
        BY <1>1, <4>1, <4>2, <4>3, <4>4
    <3>6. o \notin W2 \/ st2[o].completed \/ st2[o].oname = NA => list = <<>>
      <4>1. o \notin W \/ st[o].completed \/ st[o].oname = NA => list = <<>>
        BY <1>2, <3>1 DEF ConsumersOK
      <4>2. st2[o].oname = st[o].oname /\ (st2[o].completed <=> st[o].completed)
        BY <2>2 DEF Completing, SameOps
      <4>3. o \in W \ W2 => st[o].completed
        BY DEF Leaving
      <4>4. QED
        BY <4>1, <4>2, <4>3
    <3>7. QED
      BY <3>2, <3>4, <3>5, <3>6 DEF ConsumersOK
  <2>3. QED
    BY <2>1, <2>2
<1>7. ASSUME NEW x \in W2 PROVE OperandsOK(p, st2, W2, x)
  <2>1. ASSUME NEW k \in Operands
        PROVE  st2[x].idep_ready[k] <=> \A o \in W2 : ~Awaits(p, st2, W2, x, k, o)
    <3>1. st[x].idep_ready[k] <=> \A o \in W : ~Awaits(p, st, W, x, k, o)
      BY <1>1, <1>3 DEF OperandsOK
    <3>2. \A o \in C : <<x, k>> \in Uses(st[o].odep_list, st) <=> Awaits(p, st, W, x, k, o)
      BY <1>1, <1>2 DEF ConsumersOK
    <3>3. st2[x].idep_ready[k] <=>
            st[x].idep_ready[k] \/ \E o \in C : <<x, k>> \in Uses(st[o].odep_list, st)
      BY DEF Giving
    <3>4. \A o \in Stations :
            Awaits(p, st2, W2, x, k, o) <=> Awaits(p, st, W, x, k, o) /\ o \notin C
      BY AwaitsAfter
    <3>5. \A o \in Stations : Awaits(p, st, W, x, k, o) => ~st[o].completed /\ o \in W
      BY DEF Awaits, Creates, Older
    <3>6. \A o \in W \ W2 : st[o].completed
      BY DEF Leaving
    <3>7. \A o, q \in W : Awaits(p, st, W, x, k, o) /\ Awaits(p, st, W, x, k, q) =>
            st[o].seq = st[q].seq
      <4>1. \A o \in W : st[o].seq \in Nat
        BY <1>1, StationParts
      <4>2. QED
        BY <4>1 DEF Awaits, Creates, Older
    <3>8. \A o \in W : \A q \in W2 : Awaits(p, st, W, x, k, o) /\ Awaits(p, st, W, x, k, q) => o = q
      BY <1>1, <3>7
    <3>9. ASSUME st2[x].idep_ready[k], NEW q \in W2 PROVE ~Awaits(p, st2, W2, x, k, q)
      BY <1>1, <3>1, <3>2, <3>3, <3>4, <3>5, <3>8, <3>9
    <3>10. ASSUME \A q \in W2 : ~Awaits(p, st2, W2, x, k, q) PROVE st2[x].idep_ready[k]
      BY <1>1, <3>1, <3>2, <3>3, <3>4, <3>5, <3>6, <3>10
    <3>11. QED
      BY <3>9, <3>10
  <2>2. QED
    BY <2>1 DEF OperandsOK
<1>8. QED
  BY <1>6, <1>7 DEF DependsOK

LEMMA NamedAfter ==
  ASSUME NEW st, NEW st2, NEW C \in SUBSET Stations, Completing(st, st2, C),
         NEW S, NEW S2, Leaving(st, S, S2), NEW r, NEW v, Named(st, S, r, v),
         NEW v2, v2 = IF v \in C THEN NULL ELSE v
  PROVE  Named(st2, S2, r, v2)
<1>1. v2 \in Stations \cup {NULL} /\ \A o \in Stations : v2 = o <=> v = o /\ o \notin C
  BY StationsFinite DEF Named
<1>2. \A o \in Stations : v = o <=> Creates(st, S, r, o)
  BY DEF Named
<1>3. \A o \in Stations : Creates(st2, S2, r, o) <=> Creates(st, S, r, o) /\ o \notin C
  BY CreatesAfter
<1>4. QED
  BY <1>1, <1>2, <1>3 DEF Named

\* The vector no longer names those in C.
Forgetting(v, v2, N, C) == \A r \in N : v2[r] = IF v[r] \in C THEN NULL ELSE v[r]

LEMMA VectorsAfter ==
  ASSUME NEW st, NEW st2, NEW C \in SUBSET Stations, Completing(st, st2, C),
         NEW W, NEW W2, Leaving(st, W, W2), \A x \in W \ W2 : ~st[x].spec_mode,
         NEW cv, NEW cv2, NEW scv, NEW scv2, NEW ucv, VectorsOK(st, W, cv, scv, ucv),
         DOMAIN cv2 = Names, DOMAIN scv2 = Names,
         Forgetting(cv, cv2, Names, C), Forgetting(scv, scv2, ucv, C)
  PROVE  VectorsOK(st2, W2, cv2, scv2, ucv)
<1>1. SameOps(st, st2) /\ W \subseteq Stations /\ W2 \subseteq W
  BY DEF Completing, Leaving
<1>2. Wrong(st2, W2) = Wrong(st, W2) /\ Right(st2, W2) = Right(st, W2)
  BY <1>1 DEF Wrong, Right, SameOps
<1>3. Wrong(st, W2) = Wrong(st, W)
  BY <1>1 DEF Wrong
<1>4. Leaving(st, Right(st, W), Right(st, W2))
  BY DEF Leaving, Right
<1>5. ASSUME NEW r \in Names PROVE Named(st2, Right(st2, W2), r, cv2[r])
  <2>1. Named(st, Right(st, W), r, cv[r])
    BY DEF VectorsOK
  <2>2. cv2[r] = IF cv[r] \in C THEN NULL ELSE cv[r]
    BY DEF Forgetting
  <2>3. PICK S, S2, v, v2 : /\ S = Right(st, W) /\ S2 = Right(st, W2)
                            /\ v = cv[r] /\ v2 = cv2[r]
    OBVIOUS
  <2>4. Named(st2, S2, r, v2)
    BY <1>4, <2>1, <2>2, <2>3, NamedAfter
  <2>5. QED
    BY <1>2, <2>3, <2>4
<1>6. ASSUME NEW r \in ucv PROVE Named(st2, W2, r, scv2[r])
  <2>1. Named(st, W, r, scv[r])
    BY DEF VectorsOK
  <2>2. scv2[r] = IF scv[r] \in C THEN NULL ELSE scv[r]
    BY DEF Forgetting
  <2>3. PICK v, v2 : v = scv[r] /\ v2 = scv2[r]
    OBVIOUS
  <2>4. Named(st2, W2, r, v2)
    BY <2>1, <2>2, <2>3, NamedAfter
  <2>5. QED
    BY <2>3, <2>4
<1>7. ucv = Wrong(st2, W2)
  BY <1>2, <1>3 DEF VectorsOK
<1>8. QED
  BY <1>5, <1>6, <1>7 DEF VectorsOK

\* Operands that are ready stay ready.
Readier(st, st2, W) ==
  \A x \in W : \A k \in Operands : st[x].idep_ready[k] => st2[x].idep_ready[k]

LEMMA ReadierIs ==
  ASSUME NEW st, NEW st2, NEW W, Readier(st, st2, W), NEW x \in W
  PROVE  /\ OPERANDS_READY(st[x]) => OPERANDS_READY(st2[x])
         /\ STORE_ADDR_READY(st[x]) => STORE_ADDR_READY(st2[x])
BY DEF Readier, OPERANDS_READY, STORE_ADDR_READY, Operands

LEMMA LoadAfter ==
  ASSUME NEW st \in [Stations -> StationType], NEW st2, SameOps(st, st2), NEW W, NEW W2,
         W \in SUBSET Stations, W2 \in SUBSET W,
         NEW x \in W2, LoadOK(st, W, x), Readier(st, st2, W2),
         \A v \in W \ W2 : \A o \in W2 : st[v].seq < st[x].seq => st[v].seq < st[o].seq
  PROVE  LoadOK(st2, W2, x)
<1>1. x \in Stations /\ W2 \in SUBSET Stations
  OBVIOUS
<1>2. Stores(st2, W2, x) = Stores(st, W2, x) /\ Same(st2, W2, x) = Same(st, W2, x)
  BY <1>1, SameKinds
<1>3. /\ Stores(st, W2, x) = Stores(st, W, x) \cap W2
      /\ Same(st, W2, x) = Same(st, W, x) \cap W2
  BY DEF Stores, Same, Older
<1>4. \A o \in Stores(st2, W2, x) : STORE_ADDR_READY(st2[o])
  <2>1. ASSUME NEW o \in Stores(st, W, x), o \in W2 PROVE STORE_ADDR_READY(st2[o])
    BY <2>1, ReadierIs DEF LoadOK
  <2>2. QED
    BY <1>2, <1>3, <2>1
<1>5. ASSUME Same(st2, W2, x) # {}
      PROVE  \E o \in Same(st2, W2, x) :
               /\ OPERANDS_READY(st2[o])
               /\ \A other \in Same(st2, W2, x) : st2[other].seq <= st2[o].seq
  <2>1. PICK o \in Same(st, W, x) :
               /\ OPERANDS_READY(st[o])
               /\ \A other \in Same(st, W, x) : st[other].seq <= st[o].seq
    BY <1>2, <1>3, <1>5 DEF LoadOK
  <2>2. PICK q \in W2 : q \in Same(st, W, x)
    BY <1>2, <1>3, <1>5
  <2>3. \A z \in W : st[z].seq \in Nat
    BY StationParts
  <2>4. o \in W /\ st[o].seq < st[x].seq
    BY DEF Same, Stores, Older
  <2>5. o \in W2
    <3>1. SUFFICES ASSUME o \notin W2 PROVE FALSE
      OBVIOUS
    <3>2. st[o].seq < st[q].seq
      BY <2>2, <2>4, <3>1
    <3>3. st[q].seq <= st[o].seq
      BY <2>1, <2>2
    <3>4. QED
      BY <2>2, <2>3, <2>4, <3>2, <3>3
  <2>6. OPERANDS_READY(st2[o])
    BY <2>1, <2>5, ReadierIs
  <2>7. \A other \in Same(st2, W2, x) : st2[other].seq <= st2[o].seq
    <3>1. \A z \in W : st2[z].seq = st[z].seq
      BY DEF SameOps
    <3>2. QED
      BY <1>2, <1>3, <2>1, <2>4, <3>1
  <2>8. QED
    BY <1>2, <1>3, <2>5, <2>6, <2>7
<1>6. QED
  BY <1>4, <1>5 DEF LoadOK

\* Those that leave are the oldest.
LEMMA LoadsAfter ==
  ASSUME NEW st \in [Stations -> StationType], NEW st2, SameOps(st, st2),
         NEW W, NEW W2, Leaving(st, W, W2), LoadsOK(st, W), Readier(st, st2, W2),
         \A x \in W2 : IsLoad(st, x) /\ (st2[x].queued \/ st2[x].issued) =>
                         st[x].queued \/ st[x].issued \/ LoadOK(st, W, x)
  PROVE  LoadsOK(st2, W2)
<1>1. W \in SUBSET Stations /\ W2 \in SUBSET W
  BY DEF Leaving
<1>2. SUFFICES ASSUME NEW x \in W2, IsLoad(st2, x), st2[x].queued \/ st2[x].issued
               PROVE  LoadOK(st2, W2, x)
  BY DEF LoadsOK
<1>3. IsLoad(st, x)
  BY <1>1, <1>2, SameKinds
<1>4. LoadOK(st, W, x)
  BY <1>1, <1>2, <1>3 DEF LoadsOK
<1>5. \A v \in W \ W2 : \A o \in W2 : st[v].seq < st[o].seq
  BY DEF Leaving
<1>6. QED
  BY <1>1, <1>4, <1>5, LoadAfter

-----------------------------------------------------------------------------
(* The wrong path is squashed *)

\* From st to st2, the operations of W that are not in W2, younger than all of
\* W2, are squashed.
Squashing(st, st2, W, W2) ==
  /\ st \in [Stations -> StationType] /\ st2 \in [Stations -> StationType]
  /\ W \in SUBSET Stations /\ W2 \in SUBSET W
  /\ SameOps(st, st2) /\ Retagging(st, st2, W \ W2)
  /\ \A o \in Stations :
       /\ st2[o].odep_list = IF o \in W \ W2 THEN <<>> ELSE st[o].odep_list
       /\ st2[o].idep_ready = st[o].idep_ready /\ st2[o].queued = st[o].queued
       /\ st2[o].issued = st[o].issued /\ st2[o].completed = st[o].completed
  /\ \A x \in W2 : \A v \in W \ W2 : st[x].seq < st[v].seq

LEMMA SquashOlder ==
  ASSUME NEW st, NEW st2, NEW W, NEW W2, Squashing(st, st2, W, W2), NEW x \in W2
  PROVE  /\ Older(st2, W2, x) = Older(st, W, x)
         /\ Stores(st2, W2, x) = Stores(st, W, x) /\ Same(st2, W2, x) = Same(st, W, x)
<1>1. x \in Stations /\ SameOps(st, st2) /\ W2 \in SUBSET Stations
  BY DEF Squashing
<1>2. Older(st, W2, x) = Older(st, W, x)
  <2>1. \A z \in W : st[z].seq \in Nat
    BY StationParts DEF Squashing
  <2>2. QED
    BY <2>1 DEF Squashing, Older
<1>3. Stores(st, W2, x) = Stores(st, W, x) /\ Same(st, W2, x) = Same(st, W, x)
  BY <1>2 DEF Stores, Same
<1>4. QED
  BY <1>1, <1>2, <1>3, SameKinds

LEMMA SquashAwaits ==
  ASSUME NEW st, NEW st2, NEW W, NEW W2, Squashing(st, st2, W, W2), NEW x \in W2,
         NEW p, NEW k \in Operands, NEW o \in Stations
  PROVE  /\ Awaits(p, st2, W2, x, k, o) <=> Awaits(p, st, W, x, k, o)
         /\ Awaits(p, st2, W2, x, k, o) => o \in W2
<1>1. x \in Stations /\ SameOps(st, st2) /\ W \in SUBSET Stations
  BY DEF Squashing
<1>2. Reads(p, st2, x, k) = Reads(p, st, x, k) /\ Older(st2, W2, x) = Older(st, W, x)
  BY <1>1, SameReads, SquashOlder
<1>3. PICK S : S = Older(st, W, x) /\ S \subseteq Stations
  BY <1>1 DEF Older
<1>4. \A r : Creates(st2, S, r, o) <=> Creates(st, S, r, o)
  BY <1>1, <1>3 DEF Creates, SameOps, Squashing
<1>5. Awaits(p, st2, W2, x, k, o) => o \in W2
  BY DEF Awaits, Creates, Older
<1>6. QED
  BY <1>2, <1>3, <1>4, <1>5 DEF Awaits

LEMMA SquashDepends ==
  ASSUME NEW st, NEW st2, NEW W, NEW W2, Squashing(st, st2, W, W2), NEW p, DependsOK(p, st, W)
  PROVE  DependsOK(p, st2, W2)
<1>1. /\ st \in [Stations -> StationType] /\ st2 \in [Stations -> StationType]
      /\ SameOps(st, st2) /\ W \subseteq Stations /\ W2 \subseteq W
      /\ Retagging(st, st2, W \ W2)
  BY DEF Squashing
<1>2. ASSUME NEW o \in Stations PROVE ConsumersOK(p, st2, W2, o)
  <2>1. CASE o \in W \ W2
    <3>1. st2[o].odep_list = <<>>
      BY <2>1 DEF Squashing
    <3>2. SoundUses(<<>>, st2) /\ Uses(<<>>, st2) = {}
      BY NoUses
    <3>3. \A x \in W2 : \A k \in Operands : ~Awaits(p, st2, W2, x, k, o)
      BY <2>1, SquashAwaits
    <3>4. QED
      BY <3>1, <3>2, <3>3 DEF ConsumersOK
  <2>2. CASE o \notin W \ W2
    <3>1. PICK list : list = st[o].odep_list
      OBVIOUS
    <3>2. st2[o].odep_list = list /\ list \in Seq(LinkType)
      BY <1>1, <2>2, <3>1, StationParts DEF Squashing
    <3>3. ConsumersOK(p, st, W, o)
      BY DEF DependsOK
    <3>4. SoundUses(list, st2) /\ Uses(list, st2) = {u \in Uses(list, st) : u[1] \notin W \ W2}
      BY <1>1, <3>1, <3>2, <3>3, RetagUses DEF ConsumersOK
    <3>5. ASSUME NEW x \in Stations, NEW k \in Operands
          PROVE  <<x, k>> \in Uses(list, st2) <=> x \in W2 /\ Awaits(p, st2, W2, x, k, o)
      <4>1. <<x, k>> \in Uses(list, st) <=> x \in W /\ Awaits(p, st, W, x, k, o)
        BY <3>1, <3>3 DEF ConsumersOK
      <4>2. <<x, k>> \in Uses(list, st2) <=> <<x, k>> \in Uses(list, st) /\ x \notin W \ W2
        BY <3>4
      <4>3. x \in W2 => (Awaits(p, st2, W2, x, k, o) <=> Awaits(p, st, W, x, k, o))
        BY SquashAwaits
      <4>4. QED
        BY <1>1, <4>1, <4>2, <4>3
    <3>6. o \notin W2 \/ st2[o].completed \/ st2[o].oname = NA => list = <<>>
      <4>1. st2[o].oname = st[o].oname /\ st2[o].completed = st[o].completed
        BY DEF Squashing, SameOps
      <4>2. QED
        BY <2>2, <3>1, <3>3, <4>1 DEF ConsumersOK
    <3>7. QED
      BY <3>2, <3>4, <3>5, <3>6 DEF ConsumersOK
  <2>3. QED
    BY <2>1, <2>2
<1>3. ASSUME NEW x \in W2 PROVE OperandsOK(p, st2, W2, x)
  <2>1. OperandsOK(p, st, W, x)
    BY <1>1 DEF DependsOK
  <2>2. st2[x].idep_ready = st[x].idep_ready
    BY <1>1 DEF Squashing
  <2>3. ASSUME NEW k \in Operands
        PROVE  (\A o \in W : ~Awaits(p, st, W, x, k, o)) <=> \A o \in W2 : ~Awaits(p, st2, W2, x, k, o)
    BY <1>1, SquashAwaits
  <2>4. QED
    BY <2>1, <2>2, <2>3 DEF OperandsOK
<1>4. QED
  BY <1>2, <1>3 DEF DependsOK

LEMMA SquashLoads ==
  ASSUME NEW st, NEW st2, NEW W, NEW W2, Squashing(st, st2, W, W2), LoadsOK(st, W)
  PROVE  LoadsOK(st2, W2)
<1>1. /\ SameOps(st, st2) /\ W \subseteq Stations /\ W2 \subseteq W
  BY DEF Squashing
<1>2. SUFFICES ASSUME NEW x \in W2, IsLoad(st2, x), st2[x].queued \/ st2[x].issued
               PROVE  LoadOK(st2, W2, x)
  BY DEF LoadsOK
<1>3. x \in Stations /\ x \in W /\ W2 \in SUBSET Stations
  BY <1>1
<1>4. IsLoad(st, x)
  BY <1>1, <1>2, <1>3, SameKinds
<1>5. LoadOK(st, W, x)
  BY <1>2, <1>3, <1>4 DEF LoadsOK, Squashing
<1>6. PICK S, T : /\ S = Stores(st, W, x) /\ T = Same(st, W, x)
                  /\ S \subseteq Stations /\ T \subseteq Stations
  BY <1>1 DEF Stores, Same, Older
<1>7. Stores(st2, W2, x) = S /\ Same(st2, W2, x) = T
  BY <1>6, SquashOlder
<1>8. \A o \in Stations : /\ st2[o].idep_ready = st[o].idep_ready /\ st2[o].seq = st[o].seq
                          /\ STORE_ADDR_READY(st2[o]) <=> STORE_ADDR_READY(st[o])
                          /\ OPERANDS_READY(st2[o]) <=> OPERANDS_READY(st[o])
  BY <1>1 DEF Squashing, SameOps, STORE_ADDR_READY, OPERANDS_READY
<1>9. QED
  BY <1>5, <1>6, <1>7, <1>8 DEF LoadOK

LEMMA SquashVectors ==
  ASSUME NEW st, NEW st2, NEW W, NEW W2, Squashing(st, st2, W, W2), W2 = Right(st, W),
         NEW cv, NEW scv, NEW ucv, VectorsOK(st, W, cv, scv, ucv)
  PROVE  VectorsOK(st2, W2, cv, scv, {})
<1>1. /\ SameOps(st, st2) /\ W \subseteq Stations /\ W2 \subseteq W
  BY DEF Squashing
<1>2. Wrong(st2, W2) = {} /\ Right(st2, W2) = W2
  BY <1>1 DEF Wrong, Right, SameOps
<1>3. \A r : \A o \in Stations : Creates(st2, W2, r, o) <=> Creates(st, W2, r, o)
  BY <1>1 DEF Creates, SameOps, Squashing
<1>4. \A r \in Names : Named(st, W2, r, cv[r])
  BY DEF VectorsOK
<1>5. \A r \in Names : Named(st2, W2, r, cv[r])
  BY <1>3, <1>4 DEF Named
<1>6. QED
  BY <1>2, <1>5 DEF VectorsOK

-----------------------------------------------------------------------------
(* An operation is linked to the creators of its operands *)

\* st2 is st but for what the operands of rs and the lists of consumers are.
SameStates(st, st2) ==
  /\ SameOps(st, st2) /\ SameTags(st, st2)
  /\ \A o \in Stations : /\ st2[o].queued <=> st[o].queued
                         /\ st2[o].issued <=> st[o].issued
                         /\ st2[o].completed <=> st[o].completed

\* d is c after the operand k of rs was linked.
OneLinked(c, d, rs, k, creator) ==
  /\ d \in CoreType /\ SameStates(c.st, d.st)
  /\ d.ready = c.ready /\ d.events = c.events
  /\ \A o \in Stations : \A j \in Operands :
       d.st[o].idep_ready[j] <=> IF o = rs /\ j = k THEN creator = NULL ELSE c.st[o].idep_ready[j]
  /\ \A o \in Stations :
       d.st[o].odep_list = IF o = creator THEN <<RSLINK(c.st, rs, k)>> \o c.st[o].odep_list
                           ELSE c.st[o].odep_list
  /\ d.free = IF creator = NULL THEN c.free ELSE c.free - 1
  /\ creator = NULL => (d.panic <=> c.panic)
  /\ creator # NULL => (d.panic <=> c.panic \/ c.free = 0)

\* d is c but for one operand.
OperandSet(c, d, rs, k, b) ==
  /\ d \in CoreType /\ SameStates(c.st, d.st)
  /\ d.ready = c.ready /\ d.events = c.events /\ d.free = c.free /\ d.panic = c.panic
  /\ \A o \in Stations : d.st[o].odep_list = c.st[o].odep_list
  /\ \A o \in Stations : \A j \in Operands :
       d.st[o].idep_ready[j] <=> IF o = rs /\ j = k THEN b ELSE c.st[o].idep_ready[j]

LEMMA SetOperand ==
  ASSUME NEW c \in CoreType, NEW rs \in Stations, NEW k \in Operands, NEW b \in BOOLEAN, NEW d,
         d = [c EXCEPT !.st[rs].idep_ready[k] = b]
  PROVE  OperandSet(c, d, rs, k, b)
<1>1. PICK st : st = c.st
  OBVIOUS
<1>2. st \in [Stations -> StationType] /\ st[rs] \in StationType
      /\ st[rs].idep_ready \in [Operands -> BOOLEAN]
  BY <1>1, CoreParts, StationParts
<1>3. PICK ready : ready = [st[rs].idep_ready EXCEPT ![k] = b]
  OBVIOUS
<1>4. ready \in [Operands -> BOOLEAN] /\ (ready[k] <=> b)
      /\ \A j \in Operands : j # k => (ready[j] <=> st[rs].idep_ready[j])
  BY <1>2, <1>3
<1>5. PICK s : s = [st[rs] EXCEPT !.idep_ready = ready]
  OBVIOUS
<1>6. /\ s \in StationType /\ s.op = st[rs].op /\ s.pc = st[rs].pc /\ s.addr = st[rs].addr
      /\ s.seq = st[rs].seq /\ s.oname = st[rs].oname /\ s.ea_comp = st[rs].ea_comp
      /\ s.spec_mode = st[rs].spec_mode /\ s.recover_inst = st[rs].recover_inst
      /\ s.tag = st[rs].tag /\ s.odep_list = st[rs].odep_list /\ s.issued = st[rs].issued
      /\ s.completed = st[rs].completed /\ s.idep_ready = ready /\ s.queued = st[rs].queued
  BY <1>2, <1>4, <1>5 DEF StationType
<1>7. PICK st2 : st2 = [st EXCEPT ![rs] = s]
  OBVIOUS
<1>8. /\ st2 \in [Stations -> StationType] /\ st2[rs] = s
      /\ \A o \in Stations : o # rs => st2[o] = st[o]
  BY <1>2, <1>6, <1>7
<1>9. d = [c EXCEPT !.st = st2]
  BY <1>1, <1>2, <1>3, <1>5, <1>7 DEF CoreType, StationType
<1>10. /\ d \in CoreType /\ d.st = st2 /\ d.ready = c.ready /\ d.events = c.events
       /\ d.free = c.free /\ d.panic = c.panic
  BY <1>8, <1>9 DEF CoreType
<1>11. SameOps(st, st2) /\ SameTags(st, st2)
  BY <1>6, <1>8 DEF SameOps, SameTags
<1>12. ASSUME NEW o \in Stations
       PROVE  /\ st2[o].odep_list = st[o].odep_list /\ (st2[o].issued <=> st[o].issued)
              /\ st2[o].completed <=> st[o].completed
              /\ st2[o].queued <=> st[o].queued
              /\ o # rs => st2[o].idep_ready = st[o].idep_ready
              /\ o = rs => st2[o].idep_ready = ready
  <2>1. CASE o = rs
    BY <1>6, <1>8, <2>1
  <2>2. CASE o # rs
    BY <1>8, <2>2
  <2>3. QED
    BY <2>1, <2>2
<1>13. ASSUME NEW o \in Stations, NEW j \in Operands
       PROVE  st2[o].idep_ready[j] <=> IF o = rs /\ j = k THEN b ELSE st[o].idep_ready[j]
  BY <1>4, <1>12
<1>14. SameStates(st, st2)
  BY <1>11, <1>12 DEF SameStates
<1>15. \A o \in Stations : d.st[o].odep_list = c.st[o].odep_list
  BY <1>1, <1>10, <1>12
<1>16. \A o \in Stations : \A j \in Operands :
         d.st[o].idep_ready[j] <=> IF o = rs /\ j = k THEN b ELSE c.st[o].idep_ready[j]
  BY <1>1, <1>10, <1>13
<1>17. SameStates(c.st, d.st)
  BY <1>1, <1>10, <1>14
<1>18. QED
  BY <1>10, <1>15, <1>16, <1>17 DEF OperandSet

\* d is c but for one list of consumers.
ConsumersSet(c, d, rs, list) ==
  /\ d \in CoreType /\ SameStates(c.st, d.st)
  /\ d.ready = c.ready /\ d.events = c.events /\ d.free = c.free /\ d.panic = c.panic
  /\ \A o \in Stations : /\ o = rs => d.st[o].odep_list = list
                         /\ o # rs => d.st[o].odep_list = c.st[o].odep_list
                         /\ d.st[o].idep_ready = c.st[o].idep_ready

LEMMA SetConsumers ==
  ASSUME NEW c \in CoreType, NEW rs \in Stations, NEW list \in Seq(LinkType), NEW d,
         d = [c EXCEPT !.st[rs].odep_list = list]
  PROVE  ConsumersSet(c, d, rs, list)
<1>1. PICK st : st = c.st
  OBVIOUS
<1>2. st \in [Stations -> StationType] /\ st[rs] \in StationType
  BY <1>1, CoreParts
<1>3. PICK s : s = [st[rs] EXCEPT !.odep_list = list]
  OBVIOUS
<1>4. /\ s \in StationType /\ s.op = st[rs].op /\ s.pc = st[rs].pc /\ s.addr = st[rs].addr
      /\ s.seq = st[rs].seq /\ s.oname = st[rs].oname /\ s.ea_comp = st[rs].ea_comp
      /\ s.spec_mode = st[rs].spec_mode /\ s.recover_inst = st[rs].recover_inst
      /\ s.tag = st[rs].tag /\ s.odep_list = list /\ s.issued = st[rs].issued
      /\ s.completed = st[rs].completed /\ s.idep_ready = st[rs].idep_ready
      /\ s.queued = st[rs].queued
  BY <1>2, <1>3 DEF StationType
<1>5. PICK st2 : st2 = [st EXCEPT ![rs] = s]
  OBVIOUS
<1>6. /\ st2 \in [Stations -> StationType] /\ st2[rs] = s
      /\ \A o \in Stations : o # rs => st2[o] = st[o]
  BY <1>2, <1>4, <1>5
<1>7. d = [c EXCEPT !.st = st2]
  BY <1>1, <1>2, <1>3, <1>5 DEF CoreType, StationType
<1>8. /\ d \in CoreType /\ d.st = st2 /\ d.ready = c.ready /\ d.events = c.events
      /\ d.free = c.free /\ d.panic = c.panic
  BY <1>6, <1>7 DEF CoreType
<1>9. SameOps(st, st2) /\ SameTags(st, st2)
  BY <1>4, <1>6 DEF SameOps, SameTags
<1>10. ASSUME NEW o \in Stations
       PROVE  /\ st2[o].idep_ready = st[o].idep_ready /\ (st2[o].issued <=> st[o].issued)
              /\ st2[o].completed <=> st[o].completed
              /\ st2[o].queued <=> st[o].queued
              /\ o # rs => st2[o].odep_list = st[o].odep_list
              /\ o = rs => st2[o].odep_list = list
  <2>1. CASE o = rs
    BY <1>4, <1>6, <2>1
  <2>2. CASE o # rs
    BY <1>6, <2>2
  <2>3. QED
    BY <2>1, <2>2
<1>11. SameStates(st, st2)
  BY <1>9, <1>10 DEF SameStates
<1>12. QED
  BY <1>1, <1>8, <1>10, <1>11 DEF ConsumersSet

LEMMA LinkOneIs ==
  ASSUME NEW c \in CoreType, NEW rs \in Stations, NEW k \in Operands,
         NEW creator \in Stations \cup {NULL}
  PROVE  OneLinked(c, ruu_link_idep(c, rs, k, creator), rs, k, creator)
<1>1. CASE creator = NULL
  <2>1. PICK d : d = [c EXCEPT !.st[rs].idep_ready[k] = TRUE]
    OBVIOUS
  <2>2. ruu_link_idep(c, rs, k, creator) = d
    BY <1>1, <2>1 DEF ruu_link_idep
  <2>3. \A o \in Stations : o # creator
    BY <1>1, StationsFinite
  <2>4. PICK b \in BOOLEAN : b
    OBVIOUS
  <2>5. d = [c EXCEPT !.st[rs].idep_ready[k] = b]
    BY <2>1, <2>4
  <2>6. OperandSet(c, d, rs, k, b)
    BY <2>5, SetOperand
  <2>7. QED
    BY <1>1, <2>2, <2>3, <2>4, <2>6 DEF OneLinked, OperandSet
<1>2. CASE creator # NULL
  <2>0. creator \in Stations
    BY <1>2
  <2>1. PICK e : e = [c EXCEPT !.st[rs].idep_ready[k] = FALSE]
    OBVIOUS
  <2>2. OperandSet(c, e, rs, k, FALSE)
    BY <2>1, SetOperand
  <2>3. PICK list : list = <<RSLINK(c.st, rs, k)>> \o c.st[creator].odep_list
    OBVIOUS
  <2>4. list \in Seq(LinkType)
    <3>1. RSLINK(c.st, rs, k) \in LinkType /\ c.st[creator].odep_list \in Seq(LinkType)
      BY <2>0, CoreParts, StationParts, LinkIs DEF Operands
    <3>2. QED
      BY <2>3, <3>1
  <2>5. PICK f : f = [e EXCEPT !.st[creator].odep_list = list]
    OBVIOUS
  <2>6. ConsumersSet(e, f, creator, list)
    BY <2>0, <2>2, <2>4, <2>5, SetConsumers DEF OperandSet
  <2>7. ruu_link_idep(c, rs, k, creator) = Linked(f)
    <3>1. f = [c EXCEPT !.st[rs].idep_ready[k] = FALSE,
                        !.st[creator].odep_list = <<RSLINK(c.st, rs, k)>> \o @]
      <4>1. e.st[creator].odep_list = c.st[creator].odep_list
        BY <2>0, <2>2 DEF OperandSet
      <4>2. f = [e EXCEPT !.st[creator].odep_list = <<RSLINK(c.st, rs, k)>> \o @]
        <5>1. [e EXCEPT !.st[creator].odep_list = <<RSLINK(c.st, rs, k)>> \o @]
                = [e EXCEPT !.st[creator].odep_list = <<RSLINK(c.st, rs, k)>> \o e.st[creator].odep_list]
          OBVIOUS
        <5>2. QED
          BY <2>3, <2>5, <4>1, <5>1
      <4>3. QED
        BY <2>1, <4>2
    <3>2. QED
      BY <1>2, <3>1 DEF ruu_link_idep
  <2>8. PICK d : d = Linked(f)
    OBVIOUS
  <2>9. /\ d \in CoreType /\ d.st = f.st /\ d.ready = f.ready /\ d.events = f.events
        /\ d.free = f.free - 1 /\ d.panic = (f.panic \/ f.free = 0)
    BY <2>6, <2>8, LinkedIs DEF ConsumersSet
  <2>10. SameStates(c.st, f.st)
    BY <2>2, <2>6 DEF SameStates, SameOps, SameTags, OperandSet, ConsumersSet
  <2>11. /\ d.ready = c.ready /\ d.events = c.events /\ d.free = c.free - 1
         /\ d.panic <=> c.panic \/ c.free = 0
    BY <2>2, <2>6, <2>9 DEF OperandSet, ConsumersSet
  <2>12. ASSUME NEW o \in Stations
         PROVE  /\ d.st[o].odep_list = IF o = creator THEN list ELSE c.st[o].odep_list
                /\ \A j \in Operands :
                     d.st[o].idep_ready[j] <=> IF o = rs /\ j = k THEN FALSE
                                               ELSE c.st[o].idep_ready[j]
    <3>1. d.st[o].odep_list = IF o = creator THEN list ELSE c.st[o].odep_list
      BY <2>2, <2>6, <2>9 DEF OperandSet, ConsumersSet
    <3>2. d.st[o].idep_ready = e.st[o].idep_ready
      BY <2>6, <2>9 DEF ConsumersSet
    <3>3. QED
      BY <2>2, <3>1, <3>2 DEF OperandSet
  <2>13. QED
    BY <1>2, <2>3, <2>7, <2>8, <2>9, <2>10, <2>11, <2>12 DEF OneLinked
<1>3. QED
  BY <1>1, <1>2

\* No list of consumers has a valid link to rs.
Unused(c, rs) ==
  \A o \in Stations : /\ SoundUses(c.st[o].odep_list, c.st)
                      /\ \A k \in Operands : <<rs, k>> \notin Uses(c.st[o].odep_list, c.st)

\* o's list of consumers in d, after the first m operands of rs were linked.
ListLinked(c, d, rs, creators, m, o) ==
  /\ SoundUses(d.st[o].odep_list, c.st)
  /\ \A x \in Stations : \A k \in Operands :
       <<x, k>> \in Uses(d.st[o].odep_list, c.st) <=>
         \/ <<x, k>> \in Uses(c.st[o].odep_list, c.st)
         \/ x = rs /\ k < m /\ creators[k + 1] = o
  /\ (\A k \in Operands : creators[k + 1] # o) => d.st[o].odep_list = c.st[o].odep_list

LinksOf(c) == c.free + Cardinality(Consumers(c.st, Stations))

\* d is c after the first m operands of rs were linked.
Linking(c, d, rs, creators, m) ==
  /\ d \in CoreType /\ SameStates(c.st, d.st)
  /\ d.ready = c.ready /\ d.events = c.events
  /\ \A o \in Stations \ {rs} : \A k \in Operands :
       d.st[o].idep_ready[k] <=> c.st[o].idep_ready[k]
  /\ \A k \in Operands : k < m => (d.st[rs].idep_ready[k] <=> creators[k + 1] = NULL)
  /\ \A o \in Stations : ListLinked(c, d, rs, creators, m, o)
  /\ LinksOf(d) = LinksOf(c) /\ d.free >= c.free - m
  /\ c.free >= m => (d.panic <=> c.panic)

LEMMA OperandsAre ==
  /\ Operands = {0, 1, 2} /\ Operands \subseteq Nat
  /\ \A k \in Operands : k + 1 \in 1 .. 3
BY DEF Operands

LEMMA LinkingStep ==
  ASSUME NEW c \in CoreType, NEW rs \in Stations, Unused(c, rs),
         NEW creators \in [1 .. 3 -> Stations \cup {NULL}],
         NEW m \in Operands, NEW d, Linking(c, d, rs, creators, m)
  PROVE  Linking(c, ruu_link_idep(d, rs, m, creators[m + 1]), rs, creators, m + 1)
<1>1. PICK creator, e : creator = creators[m + 1] /\ e = ruu_link_idep(d, rs, m, creator)
  OBVIOUS
<1>2. creator \in Stations \cup {NULL} /\ m \in Nat
  BY <1>1, OperandsAre
<1>3. d \in CoreType
  BY DEF Linking
<1>4. OneLinked(d, e, rs, m, creator)
  BY <1>1, <1>2, <1>3, LinkOneIs
<1>5. e \in CoreType /\ SameStates(d.st, e.st) /\ e.ready = d.ready /\ e.events = d.events
  BY <1>4 DEF OneLinked
<1>6. /\ c.st \in [Stations -> StationType] /\ d.st \in [Stations -> StationType]
      /\ e.st \in [Stations -> StationType]
      /\ c.free \in Int /\ d.free \in Int /\ e.free \in Int
  BY <1>3, <1>5, CoreParts
<1>7. SameStates(c.st, e.st)
  BY <1>5 DEF SameStates, SameOps, SameTags, Linking
<1>8. \A k \in Operands : k < m + 1 <=> k < m \/ k = m
  BY <1>2, OperandsAre
<1>9. ASSUME NEW o \in Stations, NEW k \in Operands, o # rs
      PROVE  e.st[o].idep_ready[k] <=> c.st[o].idep_ready[k]
  <2>1. e.st[o].idep_ready[k] <=> d.st[o].idep_ready[k]
    BY <1>4, <1>9 DEF OneLinked
  <2>2. d.st[o].idep_ready[k] <=> c.st[o].idep_ready[k]
    BY <1>9 DEF Linking
  <2>3. QED
    BY <2>1, <2>2
<1>10. ASSUME NEW k \in Operands, k < m + 1
       PROVE  e.st[rs].idep_ready[k] <=> creators[k + 1] = NULL
  <2>1. CASE k = m
    BY <1>1, <1>4, <2>1 DEF OneLinked
  <2>2. CASE k # m
    <3>1. d.st[rs].idep_ready[k] <=> creators[k + 1] = NULL
      BY <1>8, <1>10, <2>2 DEF Linking
    <3>2. e.st[rs].idep_ready[k] <=> d.st[rs].idep_ready[k]
      BY <1>4, <2>2 DEF OneLinked
    <3>3. QED
      BY <3>1, <3>2
  <2>3. QED
    BY <2>1, <2>2
<1>11. PICK link : link = RSLINK(d.st, rs, m)
  OBVIOUS
<1>12. link \in LinkType /\ link.rs = rs /\ link.x = m /\ link.tag = c.st[rs].tag
  <2>1. link \in LinkType /\ link.rs = rs /\ link.x = m /\ link.tag = d.st[rs].tag
    BY <1>2, <1>6, <1>11, LinkIs
  <2>2. d.st[rs].tag = c.st[rs].tag
    BY DEF Linking, SameStates, SameTags
  <2>3. QED
    BY <2>1, <2>2
<1>13. ASSUME NEW o \in Stations PROVE ListLinked(c, e, rs, creators, m + 1, o)
  <2>1. ListLinked(c, d, rs, creators, m, o)
    BY DEF Linking
  <2>2. PICK list, new : list = d.st[o].odep_list /\ new = e.st[o].odep_list
    OBVIOUS
  <2>3. list \in Seq(LinkType) /\ SoundUses(list, c.st)
    BY <1>6, <2>1, <2>2, StationParts DEF ListLinked
  <2>4. \A x \in Stations : \A k \in Operands :
          <<x, k>> \in Uses(list, c.st) <=>
            \/ <<x, k>> \in Uses(c.st[o].odep_list, c.st)
            \/ x = rs /\ k < m /\ creators[k + 1] = o
    BY <2>1, <2>2 DEF ListLinked
  <2>5. CASE o = creator
    <3>1. new = <<link>> \o list
      BY <1>4, <1>11, <2>2, <2>5 DEF OneLinked
    <3>2. <<rs, m>> \notin Uses(list, c.st)
      BY <1>2, <2>4 DEF Unused
    <3>3. SoundUses(<<link>> \o list, c.st)
          /\ Uses(<<link>> \o list, c.st) = Uses(list, c.st) \cup {<<rs, m>>}
      BY <1>12, <2>3, <3>2, PrependUses
    <3>4. ASSUME NEW x \in Stations, NEW k \in Operands
          PROVE  <<x, k>> \in Uses(new, c.st) <=>
                   \/ <<x, k>> \in Uses(c.st[o].odep_list, c.st)
                   \/ x = rs /\ k < m + 1 /\ creators[k + 1] = o
      <4>1. <<x, k>> \in Uses(new, c.st) <=> <<x, k>> \in Uses(list, c.st) \/ (x = rs /\ k = m)
        BY <3>1, <3>3
      <4>2. k = m => creators[k + 1] = o
        BY <1>1, <2>5
      <4>3. QED
        BY <1>8, <2>4, <4>1, <4>2
    <3>5. ~(\A k \in Operands : creators[k + 1] # o)
      BY <1>1, <2>5
    <3>6. QED
      BY <2>2, <3>1, <3>3, <3>4, <3>5 DEF ListLinked
  <2>6. CASE o # creator
    <3>1. new = list
      BY <1>4, <2>2, <2>6 DEF OneLinked
    <3>2. ASSUME NEW x \in Stations, NEW k \in Operands
          PROVE  <<x, k>> \in Uses(list, c.st) <=>
                   \/ <<x, k>> \in Uses(c.st[o].odep_list, c.st)
                   \/ x = rs /\ k < m + 1 /\ creators[k + 1] = o
      <4>1. k = m => creators[k + 1] # o
        BY <1>1, <2>6
      <4>2. QED
        BY <1>8, <2>4, <4>1
    <3>3. (\A k \in Operands : creators[k + 1] # o) => list = c.st[o].odep_list
      BY <2>1, <2>2 DEF ListLinked
    <3>4. QED
      BY <2>2, <2>3, <3>1, <3>2, <3>3 DEF ListLinked
  <2>7. QED
    BY <2>5, <2>6
<1>14. LinksOf(e) = LinksOf(c) /\ e.free >= c.free - (m + 1)
       /\ (c.free >= m + 1 => (e.panic <=> c.panic))
  <2>1. LinksOf(d) = LinksOf(c) /\ d.free >= c.free - m /\ (c.free >= m => (d.panic <=> c.panic))
    BY DEF Linking
  <2>2. CASE creator = NULL
    <3>1. e.free = d.free /\ (e.panic <=> d.panic)
      BY <1>4, <2>2 DEF OneLinked
    <3>2. \A o \in Stations : e.st[o].odep_list = d.st[o].odep_list
      BY <1>4, <2>2, StationsFinite DEF OneLinked
    <3>3. LinksOf(e) = LinksOf(d)
      BY <3>1, <3>2, ConsumersSame DEF LinksOf
    <3>4. QED
      BY <1>2, <1>6, <2>1, <3>1, <3>3
  <2>3. CASE creator # NULL
    <3>0. creator \in Stations
      BY <1>2, <2>3
    <3>1. e.free = d.free - 1 /\ (e.panic <=> d.panic \/ d.free = 0)
      BY <1>4, <2>3 DEF OneLinked
    <3>2. \A o \in Stations \ {creator} : e.st[o].odep_list = d.st[o].odep_list
      BY <1>4 DEF OneLinked
    <3>3. PICK list, new : list = d.st[creator].odep_list /\ new = e.st[creator].odep_list
      OBVIOUS
    <3>4. new = <<link>> \o list /\ list \in Seq(LinkType)
      BY <1>4, <1>6, <1>11, <3>0, <3>3, StationParts DEF OneLinked
    <3>5. Len(new) = Len(list) + 1 /\ Len(list) \in Nat
      BY <1>12, <3>4
    <3>6. PICK a, b : a = Cardinality(Consumers(d.st, Stations))
                      /\ b = Cardinality(Consumers(e.st, Stations))
      OBVIOUS
    <3>7. a \in Nat
      BY <1>6, <3>6, ConsumersFinite, FS_CardinalityType
    <3>8. b = a - Len(list) + Len(new)
      BY <1>6, <3>0, <3>2, <3>3, <3>6, ConsumersChange
    <3>9. LinksOf(e) = LinksOf(d)
      <4>1. PICK f \in Int, m1 \in Nat : f = d.free /\ m1 = Len(list)
        BY <1>6, <3>5, CoreParts
      <4>2. e.free = f - 1 /\ b = a - m1 + (m1 + 1)
        BY <3>1, <3>5, <3>8, <4>1
      <4>3. (f - 1) + (a - m1 + (m1 + 1)) = f + a
        BY <3>7
      <4>4. QED
        BY <3>6, <4>1, <4>2, <4>3, Zenon DEF LinksOf
    <3>10. QED
      BY <1>2, <1>6, <2>1, <3>1, <3>9
  <2>4. QED
    BY <2>2, <2>3
<1>15. e.ready = c.ready /\ e.events = c.events
  BY <1>5 DEF Linking
<1>16. Linking(c, e, rs, creators, m + 1)
  BY <1>5, <1>7, <1>9, <1>10, <1>13, <1>14, <1>15 DEF Linking
<1>17. QED
  BY <1>1, <1>16

LEMMA LinkIsAll ==
  ASSUME NEW c \in CoreType, NEW rs \in Stations, Unused(c, rs),
         NEW creators \in [1 .. 3 -> Stations \cup {NULL}]
  PROVE  Linking(c, Link(c, rs, creators), rs, creators, 3)
<1>1. 0 \in Operands /\ 1 \in Operands /\ 2 \in Operands
      /\ 0 + 1 = 1 /\ 1 + 1 = 2 /\ 2 + 1 = 3
  BY OperandsAre
<1>2. Linking(c, c, rs, creators, 0)
  <2>1. SameStates(c.st, c.st)
    BY DEF SameStates, SameOps, SameTags
  <2>2. \A k \in Operands : ~(k < 0)
    BY OperandsAre
  <2>3. \A o \in Stations : ListLinked(c, c, rs, creators, 0, o)
    BY <2>2 DEF ListLinked, Unused
  <2>4. c.free >= c.free - 0
    BY CoreParts
  <2>5. QED
    BY <2>1, <2>2, <2>3, <2>4 DEF Linking
<1>3. PICK one : one = ruu_link_idep(c, rs, 0, creators[1])
  OBVIOUS
<1>4. PICK two : two = ruu_link_idep(one, rs, 1, creators[2])
  OBVIOUS
<1>5. Linking(c, one, rs, creators, 1)
  <2>1. Linking(c, ruu_link_idep(c, rs, 0, creators[0 + 1]), rs, creators, 0 + 1)
    BY <1>1, <1>2, LinkingStep, Zenon
  <2>2. QED
    BY <1>1, <1>3, <2>1
<1>6. Linking(c, two, rs, creators, 2)
  <2>1. Linking(c, ruu_link_idep(one, rs, 1, creators[1 + 1]), rs, creators, 1 + 1)
    BY <1>1, <1>5, LinkingStep, Zenon
  <2>2. QED
    BY <1>1, <1>4, <2>1
<1>7. Linking(c, ruu_link_idep(two, rs, 2, creators[3]), rs, creators, 3)
  <2>1. Linking(c, ruu_link_idep(two, rs, 2, creators[2 + 1]), rs, creators, 2 + 1)
    BY <1>1, <1>6, LinkingStep, Zenon
  <2>2. QED
    BY <1>1, <2>1
<1>8. QED
  BY <1>3, <1>4, <1>7 DEF Link

-----------------------------------------------------------------------------
(* An operation enters its queue *)

\* From st to st2, all stations but rs keep their operations.
SameBut(st, st2, rs) ==
  \A o \in Stations \ {rs} :
    /\ st2[o].op = st[o].op /\ st2[o].pc = st[o].pc /\ st2[o].addr = st[o].addr
    /\ st2[o].seq = st[o].seq /\ st2[o].oname = st[o].oname
    /\ st2[o].ea_comp = st[o].ea_comp /\ st2[o].spec_mode = st[o].spec_mode
    /\ st2[o].recover_inst = st[o].recover_inst
    /\ st2[o].queued <=> st[o].queued
    /\ st2[o].issued <=> st[o].issued
    /\ st2[o].completed <=> st[o].completed
    /\ \A k \in Operands : st2[o].idep_ready[k] <=> st[o].idep_ready[k]

ListEntered(st, st2, rs, creators, o) ==
  /\ SoundUses(st2[o].odep_list, st2)
  /\ \A x \in Stations : \A k \in Operands :
       <<x, k>> \in Uses(st2[o].odep_list, st2) <=>
         \/ <<x, k>> \in Uses(st[o].odep_list, st)
         \/ x = rs /\ creators[k + 1] = o
  /\ (\A k \in Operands : creators[k + 1] # o) => st2[o].odep_list = st[o].odep_list

\* rs is a new operation, younger than those of W; its operands have creators.
Entering(st, st2, W, rs, creators) ==
  /\ st \in [Stations -> StationType] /\ st2 \in [Stations -> StationType]
  /\ W \in SUBSET Stations /\ rs \in Stations /\ rs \notin W
  /\ SameTags(st, st2) /\ SameBut(st, st2, rs)
  /\ ~st2[rs].queued /\ ~st2[rs].issued /\ ~st2[rs].completed
  /\ \A x \in W : st[x].seq < st2[rs].seq
  /\ \A k \in Operands : st2[rs].idep_ready[k] <=> creators[k + 1] = NULL
  /\ \A o \in Stations : ListEntered(st, st2, rs, creators, o)

LEMMA EnterOlder ==
  ASSUME NEW st, NEW st2, NEW W, NEW rs, NEW creators, Entering(st, st2, W, rs, creators)
  PROVE  /\ \A V : V = W \cup {rs} => Older(st2, V, rs) = W
         /\ \A V : V = W \cup {rs} => \A x \in W : Older(st2, V, x) = Older(st, W, x)
         /\ \A x \in W : IsStore(st2, x) <=> IsStore(st, x)
         /\ \A x \in W : IsLoad(st2, x) <=> IsLoad(st, x)
<1>1. /\ W \subseteq Stations /\ rs \in Stations /\ rs \notin W
      /\ \A x \in W : st2[x].seq = st[x].seq /\ st2[x].op = st[x].op
  BY DEF Entering, SameBut
<1>2. (\A x \in W : st2[x].seq \in Nat) /\ st2[rs].seq \in Nat
  BY <1>1, StationParts DEF Entering
<1>3. \A x \in W : st2[x].seq < st2[rs].seq
  BY <1>1 DEF Entering
<1>4. Older(st2, W \cup {rs}, rs) = W
  BY <1>2, <1>3 DEF Older
<1>5. \A x \in W : Older(st2, W \cup {rs}, x) = Older(st, W, x)
  BY <1>1, <1>2, <1>3 DEF Older
<1>6. QED
  BY <1>1, <1>4, <1>5 DEF IsStore, IsLoad

LEMMA EnterCreates ==
  ASSUME NEW st, NEW st2, NEW W, NEW rs, NEW creators, Entering(st, st2, W, rs, creators),
         NEW S \in SUBSET W, NEW r, NEW o
  PROVE  /\ Creates(st2, S, r, o) <=> Creates(st, S, r, o)
         /\ Creates(st2, S \cup {rs}, r, o) <=>
              IF r = st2[rs].oname THEN o = rs ELSE Creates(st, S, r, o)
<1>1. /\ W \subseteq Stations /\ rs \in Stations /\ rs \notin W /\ ~st2[rs].completed
      /\ \A x \in W : st2[x].oname = st[x].oname /\ st2[x].seq = st[x].seq
                      /\ (st2[x].completed <=> st[x].completed)
  BY DEF Entering, SameBut
<1>2. (\A x \in W : st2[x].seq \in Nat) /\ st2[rs].seq \in Nat
  BY <1>1, StationParts DEF Entering
<1>3. \A x \in W : st2[x].seq < st2[rs].seq
  BY <1>1 DEF Entering
<1>4. Creates(st2, S, r, o) <=> Creates(st, S, r, o)
  BY <1>1 DEF Creates
<1>5. CASE r = st2[rs].oname
  <2>1. Creates(st2, S \cup {rs}, r, rs)
    BY <1>1, <1>2, <1>3, <1>5 DEF Creates
  <2>2. ASSUME Creates(st2, S \cup {rs}, r, o) PROVE o = rs
    <3>1. st2[rs].seq <= st2[o].seq /\ (o \in W \/ o = rs)
      BY <1>5, <2>2 DEF Creates
    <3>2. QED
      BY <1>2, <1>3, <3>1
  <2>3. QED
    BY <1>4, <1>5, <2>1, <2>2
<1>6. CASE r # st2[rs].oname
  <2>1. Creates(st2, S \cup {rs}, r, o) <=> Creates(st2, S, r, o)
    BY <1>1, <1>6 DEF Creates
  <2>2. QED
    BY <1>4, <1>6, <2>1
<1>7. QED
  BY <1>5, <1>6

LEMMA EnterDepends ==
  ASSUME NEW st, NEW st2, NEW W, NEW rs, NEW creators, Entering(st, st2, W, rs, creators),
         NEW p, DependsOK(p, st, W),
         \A k \in Operands : \A o \in Stations :
           creators[k + 1] = o <=>
             Reads(p, st2, rs, k) # NA /\ Creates(st, W, Reads(p, st2, rs, k), o),
         \A k \in Operands : creators[k + 1] \in Stations \cup {NULL}
  PROVE  DependsOK(p, st2, W \cup {rs})
<1>1. /\ W \subseteq Stations /\ rs \in Stations /\ rs \notin W /\ ~st2[rs].completed
      /\ SameBut(st, st2, rs) /\ NULL \notin Stations
  BY StationsFinite DEF Entering
<1>2. PICK V : V = W \cup {rs}
  OBVIOUS
<1>3. ASSUME NEW x \in W, NEW k \in Operands, NEW o \in Stations
      PROVE  Awaits(p, st2, V, x, k, o) <=> Awaits(p, st, W, x, k, o)
  <2>1. Reads(p, st2, x, k) = Reads(p, st, x, k)
    BY <1>1 DEF Reads, SameBut
  <2>2. Older(st2, V, x) = Older(st, W, x) /\ Older(st, W, x) \subseteq W
    BY <1>2, EnterOlder DEF Older
  <2>3. PICK S, r : S = Older(st, W, x) /\ r = Reads(p, st, x, k)
    OBVIOUS
  <2>4. Creates(st2, S, r, o) <=> Creates(st, S, r, o)
    BY <2>2, <2>3, EnterCreates
  <2>5. QED
    BY <2>1, <2>2, <2>3, <2>4 DEF Awaits
<1>4. ASSUME NEW k \in Operands, NEW o \in Stations
      PROVE  Awaits(p, st2, V, rs, k, o) <=> creators[k + 1] = o
  <2>1. Older(st2, V, rs) = W
    BY <1>2, EnterOlder
  <2>2. PICK r : r = Reads(p, st2, rs, k)
    OBVIOUS
  <2>3. Creates(st2, W, r, o) <=> Creates(st, W, r, o)
    BY EnterCreates
  <2>4. QED
    BY <2>1, <2>2, <2>3 DEF Awaits
<1>5. \A k \in Operands : \A o \in Stations : creators[k + 1] = o =>
        o \in W /\ ~st[o].completed /\ st[o].oname # NA
  BY DEF Creates
<1>6. ASSUME NEW o \in Stations PROVE ConsumersOK(p, st2, V, o)
  <2>1. ListEntered(st, st2, rs, creators, o)
    BY DEF Entering
  <2>2. ConsumersOK(p, st, W, o)
    BY DEF DependsOK
  <2>3. ASSUME NEW x \in Stations, NEW k \in Operands
        PROVE  <<x, k>> \in Uses(st2[o].odep_list, st2) <=> x \in V /\ Awaits(p, st2, V, x, k, o)
    <3>1. <<x, k>> \in Uses(st2[o].odep_list, st2) <=>
            \/ <<x, k>> \in Uses(st[o].odep_list, st)
            \/ x = rs /\ creators[k + 1] = o
      BY <2>1 DEF ListEntered
    <3>2. <<x, k>> \in Uses(st[o].odep_list, st) <=> x \in W /\ Awaits(p, st, W, x, k, o)
      BY <2>2 DEF ConsumersOK
    <3>3. QED
      BY <1>1, <1>2, <1>3, <1>4, <3>1, <3>2
  <2>4. o \notin V \/ st2[o].completed \/ st2[o].oname = NA => st2[o].odep_list = <<>>
    <3>1. SUFFICES ASSUME o \notin V \/ st2[o].completed \/ st2[o].oname = NA
                   PROVE  st2[o].odep_list = <<>>
      OBVIOUS
    <3>2. o \notin W \/ st[o].completed \/ st[o].oname = NA
      BY <1>1, <1>2, <3>1 DEF SameBut
    <3>3. st[o].odep_list = <<>>
      BY <2>2, <3>2 DEF ConsumersOK
    <3>4. \A k \in Operands : creators[k + 1] # o
      BY <1>5, <3>2
    <3>5. QED
      BY <2>1, <3>3, <3>4 DEF ListEntered
  <2>5. QED
    BY <2>1, <2>3, <2>4 DEF ConsumersOK, ListEntered
<1>7. ASSUME NEW x \in W PROVE OperandsOK(p, st2, V, x)
  <2>1. OperandsOK(p, st, W, x)
    BY DEF DependsOK
  <2>2. ASSUME NEW k \in Operands
        PROVE  st2[x].idep_ready[k] <=> \A o \in V : ~Awaits(p, st2, V, x, k, o)
    <3>1. st2[x].idep_ready[k] <=> st[x].idep_ready[k]
      BY <1>1 DEF SameBut
    <3>2. st[x].idep_ready[k] <=> \A o \in W : ~Awaits(p, st, W, x, k, o)
      BY <2>1 DEF OperandsOK
    <3>3. \A o \in Stations : Awaits(p, st, W, x, k, o) => o \in W
      BY DEF Awaits, Creates, Older
    <3>4. QED
      BY <1>1, <1>2, <1>3, <3>1, <3>2, <3>3
  <2>3. QED
    BY <2>2 DEF OperandsOK
<1>8. OperandsOK(p, st2, V, rs)
  <2>1. ASSUME NEW k \in Operands
        PROVE  st2[rs].idep_ready[k] <=> \A o \in V : ~Awaits(p, st2, V, rs, k, o)
    <3>1. st2[rs].idep_ready[k] <=> creators[k + 1] = NULL
      BY DEF Entering
    <3>2. creators[k + 1] \in W \cup {NULL}
      BY <1>5
    <3>3. QED
      BY <1>1, <1>2, <1>4, <3>1, <3>2
  <2>2. QED
    BY <2>1 DEF OperandsOK
<1>9. QED
  BY <1>2, <1>6, <1>7, <1>8 DEF DependsOK

LEMMA EnterNamed ==
  ASSUME NEW st, NEW st2, NEW W, NEW rs, NEW creators, Entering(st, st2, W, rs, creators),
         NEW S \in SUBSET W, NEW r, NEW v, r # st2[rs].oname => Named(st, S, r, v),
         NEW v2, v2 = IF r = st2[rs].oname THEN rs ELSE v
  PROVE  Named(st2, S \cup {rs}, r, v2)
<1>1. \A o \in Stations : Creates(st2, S \cup {rs}, r, o) <=>
                            IF r = st2[rs].oname THEN o = rs ELSE Creates(st, S, r, o)
  BY EnterCreates
<1>2. rs \in Stations
  BY DEF Entering
<1>3. CASE r = st2[rs].oname
  <2>1. v2 = rs
    BY <1>3
  <2>2. QED
    BY <1>1, <1>2, <1>3, <2>1 DEF Named
<1>4. CASE r # st2[rs].oname
  <2>1. v2 = v /\ Named(st, S, r, v)
    BY <1>4
  <2>2. QED
    BY <1>1, <1>4, <2>1 DEF Named
<1>5. QED
  BY <1>3, <1>4

LEMMA EnterOthers ==
  ASSUME NEW st, NEW st2, NEW W, NEW rs, NEW creators, Entering(st, st2, W, rs, creators),
         NEW S \in SUBSET W, NEW r, NEW v, Named(st, S, r, v)
  PROVE  Named(st2, S, r, v)
<1>1. \A o \in Stations : Creates(st2, S, r, o) <=> Creates(st, S, r, o)
  BY EnterCreates
<1>2. QED
  BY <1>1 DEF Named

\* From v to v2, rs is now the creator of r.
Installing(v, v2, r, rs) ==
  DOMAIN v2 = DOMAIN v /\ \A q \in DOMAIN v : v2[q] = IF q = r THEN rs ELSE v[q]

LEMMA EnterVectors ==
  ASSUME NEW st, NEW st2, NEW W, NEW rs, NEW creators, Entering(st, st2, W, rs, creators),
         NEW cv, NEW scv, NEW ucv, VectorsOK(st, W, cv, scv, ucv),
         NEW cv2, NEW scv2, NEW ucv2,
         st2[rs].spec_mode =>
           cv2 = cv /\ Installing(scv, scv2, st2[rs].oname, rs)
           /\ ucv2 = ucv \cup ({st2[rs].oname} \cap Names),
         ~st2[rs].spec_mode =>
           /\ scv2 = scv /\ ucv2 = ucv /\ Installing(cv, cv2, st2[rs].oname, rs)
           /\ \A x \in W : ~st[x].spec_mode
  PROVE  VectorsOK(st2, W \cup {rs}, cv2, scv2, ucv2)
<1>1. /\ W \subseteq Stations /\ rs \in Stations /\ rs \notin W
      /\ \A x \in W : st2[x].spec_mode = st[x].spec_mode /\ st2[x].oname = st[x].oname
  BY DEF Entering, SameBut
<1>2. PICK a : a = st2[rs].oname
  OBVIOUS
<1>3. Right(st, W) \in SUBSET W /\ W \in SUBSET W
  BY DEF Right
<1>4. CASE st2[rs].spec_mode
  <2>1. Right(st2, W \cup {rs}) = Right(st, W)
    BY <1>1, <1>4 DEF Right
  <2>2. Wrong(st2, W \cup {rs}) = ucv2
    BY <1>1, <1>4 DEF Wrong, VectorsOK
  <2>3. \A r \in Names : Named(st2, Right(st, W), r, cv2[r])
    BY <1>3, <1>4, EnterOthers DEF VectorsOK
  <2>4. ASSUME NEW r \in ucv2 PROVE Named(st2, W \cup {rs}, r, scv2[r])
    <3>1. r \in Names /\ r \in DOMAIN scv
      BY <1>4 DEF VectorsOK, Wrong
    <3>2. scv2[r] = IF r = st2[rs].oname THEN rs ELSE scv[r]
      BY <1>4, <3>1 DEF Installing
    <3>3. r # st2[rs].oname => Named(st, W, r, scv[r])
      BY <1>4 DEF VectorsOK
    <3>4. PICK v, v2 : v = scv[r] /\ v2 = scv2[r]
      OBVIOUS
    <3>5. Named(st2, W \cup {rs}, r, v2)
      BY <1>3, <3>2, <3>3, <3>4, EnterNamed
    <3>6. QED
      BY <3>4, <3>5
  <2>5. QED
    BY <1>4, <2>1, <2>2, <2>3, <2>4 DEF VectorsOK, Installing
<1>5. CASE ~st2[rs].spec_mode
  <2>1. Right(st2, W \cup {rs}) = Right(st, W) \cup {rs} /\ Right(st, W) = W
    BY <1>1, <1>5 DEF Right
  <2>2. Wrong(st2, W \cup {rs}) = {} /\ ucv = {}
    BY <1>1, <1>5 DEF Wrong, VectorsOK
  <2>3. ASSUME NEW r \in Names PROVE Named(st2, W \cup {rs}, r, cv2[r])
    <3>1. r \in DOMAIN cv
      BY DEF VectorsOK
    <3>2. cv2[r] = IF r = st2[rs].oname THEN rs ELSE cv[r]
      BY <1>5, <3>1 DEF Installing
    <3>3. Named(st, W, r, cv[r])
      BY <2>1 DEF VectorsOK
    <3>4. PICK v, v2 : v = cv[r] /\ v2 = cv2[r]
      OBVIOUS
    <3>5. Named(st2, W \cup {rs}, r, v2)
      BY <1>3, <3>2, <3>3, <3>4, EnterNamed
    <3>6. QED
      BY <3>4, <3>5
  <2>4. QED
    BY <1>5, <2>1, <2>2, <2>3 DEF VectorsOK, Installing
<1>6. QED
  BY <1>4, <1>5

LEMMA EnterLoads ==
  ASSUME NEW st, NEW st2, NEW W, NEW rs, NEW creators, Entering(st, st2, W, rs, creators),
         LoadsOK(st, W)
  PROVE  LoadsOK(st2, W \cup {rs})
<1>1. /\ W \subseteq Stations /\ rs \in Stations /\ rs \notin W
      /\ ~st2[rs].queued /\ ~st2[rs].issued /\ SameBut(st, st2, rs)
  BY DEF Entering
<1>2. SUFFICES ASSUME NEW x \in W, IsLoad(st2, x), st2[x].queued \/ st2[x].issued
               PROVE  LoadOK(st2, W \cup {rs}, x)
  BY <1>1 DEF LoadsOK
<1>3. IsLoad(st, x) /\ (st[x].queued \/ st[x].issued)
  BY <1>1, <1>2, EnterOlder DEF SameBut
<1>4. LoadOK(st, W, x)
  BY <1>3 DEF LoadsOK
<1>5. PICK O : O = Older(st, W, x) /\ O \subseteq W
  BY DEF Older
<1>6. Older(st2, W \cup {rs}, x) = O
  BY <1>5, EnterOlder
<1>7. Stores(st2, W \cup {rs}, x) = Stores(st, W, x) /\ Stores(st, W, x) \subseteq W
  <2>1. \A o \in W : IsStore(st2, o) <=> IsStore(st, o)
    BY EnterOlder
  <2>2. QED
    BY <1>5, <1>6, <2>1 DEF Stores
<1>8. \A o \in W : st2[o].addr = st[o].addr /\ st2[o].seq = st[o].seq
  BY <1>1 DEF SameBut
<1>9. Same(st2, W \cup {rs}, x) = Same(st, W, x) /\ Same(st, W, x) \subseteq W
  BY <1>7, <1>8 DEF Same
<1>10. \A o \in W : /\ OPERANDS_READY(st2[o]) <=> OPERANDS_READY(st[o])
                    /\ STORE_ADDR_READY(st2[o]) <=> STORE_ADDR_READY(st[o])
  BY <1>1 DEF SameBut, OPERANDS_READY, STORE_ADDR_READY, Operands
<1>11. QED
  BY <1>4, <1>7, <1>8, <1>9, <1>10 DEF LoadOK

LEMMA EnterStatus ==
  ASSUME NEW st, NEW st2, NEW W, NEW rs, NEW creators, Entering(st, st2, W, rs, creators),
         NEW E, StatusOK(st, W, E)
  PROVE  StatusOK(st2, W \cup {rs}, E \cup {rs})
<1>1. /\ W \subseteq Stations /\ rs \in Stations /\ rs \notin W
      /\ ~st2[rs].queued /\ ~st2[rs].issued /\ ~st2[rs].completed /\ SameBut(st, st2, rs)
  BY DEF Entering
<1>2. \A x \in W : /\ IsStore(st2, x) <=> IsStore(st, x)
                   /\ IsLoad(st2, x) <=> IsLoad(st, x)
                   /\ OPERANDS_READY(st2[x]) <=> OPERANDS_READY(st[x])
                   /\ st2[x].queued <=> st[x].queued
                   /\ st2[x].issued <=> st[x].issued
                   /\ st2[x].completed <=> st[x].completed
  <2>1. \A x \in W : /\ IsStore(st2, x) <=> IsStore(st, x)
                     /\ IsLoad(st2, x) <=> IsLoad(st, x)
    BY EnterOlder
  <2>2. QED
    BY <1>1, <2>1 DEF SameBut, OPERANDS_READY, Operands
<1>3. QED
  BY <1>1, <1>2 DEF StatusOK

LEMMA EnterLists ==
  ASSUME NEW st, NEW st2, NEW W, NEW rs, NEW creators, Entering(st, st2, W, rs, creators),
         NEW ready \in Seq(LinkType), NEW iss \in Seq(LinkType), NEW events \in Seq(LinkType),
         ListsOK(st, ready, iss, events, W, {})
  PROVE  ListsOK(st2, ready, iss, events, W \cup {rs}, {})
<1>1. /\ W \subseteq Stations /\ rs \in Stations /\ rs \notin W
      /\ ~st2[rs].queued /\ ~st2[rs].issued /\ SameBut(st, st2, rs)
      /\ SameTags(st, st2)
  BY DEF Entering
<1>2. \A list \in Seq(LinkType) : Sound(list, st) => Sound(list, st2) /\ In(list, st2) = In(list, st)
  BY <1>1, SameTagsSound
<1>3. {x \in W \cup {rs} : st2[x].queued} = {x \in W : st[x].queued}
  BY <1>1 DEF SameBut
<1>4. {x \in W \cup {rs} : st2[x].issued /\ ~st2[x].completed} = {x \in W : st[x].issued /\ ~st[x].completed}
  BY <1>1 DEF SameBut
<1>5. QED
  BY <1>2, <1>3, <1>4 DEF ListsOK

LEMMA EnterOrder ==
  ASSUME NEW st, NEW st2, NEW W, NEW rs, NEW creators, Entering(st, st2, W, rs, creators),
         NEW sq \in Nat, OrderOK(st, W, sq), NEW sq2 \in Nat, sq <= sq2, st2[rs].seq <= sq2,
         ~st2[rs].spec_mode => \A x \in W : ~st[x].spec_mode
  PROVE  OrderOK(st2, W \cup {rs}, sq2)
<1>1. /\ W \subseteq Stations /\ rs \in Stations /\ rs \notin W
      /\ \A x \in W : st2[x].seq = st[x].seq /\ st2[x].spec_mode = st[x].spec_mode
  BY DEF Entering, SameBut
<1>2. (\A x \in W : st2[x].seq \in Nat) /\ st2[rs].seq \in Nat
  BY <1>1, StationParts DEF Entering
<1>3. \A x \in W : st2[x].seq < st2[rs].seq
  BY <1>1 DEF Entering
<1>4. \A x \in W \cup {rs} : st2[x].seq <= sq2
  BY <1>1, <1>2 DEF OrderOK
<1>5. \A x, y \in W \cup {rs} : st2[x].seq = st2[y].seq => x = y
  BY <1>1, <1>2, <1>3 DEF OrderOK
<1>6. \A x, y \in W \cup {rs} : st2[x].spec_mode /\ ~st2[y].spec_mode => st2[y].seq < st2[x].seq
  BY <1>1, <1>2, <1>3 DEF OrderOK
<1>7. QED
  BY <1>4, <1>5, <1>6 DEF OrderOK

\* What a station becomes when s is dispatched to it.
IsOperation(t, s, pc, spec) ==
  /\ t.op = s.op /\ t.oname = s.oname /\ t.ea_comp = s.ea_comp /\ t.addr = s.addr
  /\ t.seq = s.seq /\ t.recover_inst = s.recover_inst
  /\ t.pc = pc /\ t.spec_mode = spec

\* d is c after rs was given to the operation s.
Allocated(c, d, rs, s, pc, spec) ==
  /\ d \in CoreType /\ d.ready = c.ready /\ d.events = c.events
  /\ d.free = c.free /\ d.panic = c.panic
  /\ SameTags(c.st, d.st) /\ \A o \in Stations \ {rs} : d.st[o] = c.st[o]
  /\ d.st[rs].odep_list = c.st[rs].odep_list
  /\ d.st[rs].queued = s.queued /\ d.st[rs].issued = s.issued
  /\ d.st[rs].completed = s.completed
  /\ IsOperation(d.st[rs], s, pc, spec)

LEMMA AllocateIs ==
  ASSUME NEW c \in CoreType, NEW rs \in Stations, NEW s \in StationType,
         FetchedPC \in Int, spec_mode \in BOOLEAN
  PROVE  Allocated(c, Allocate(c, rs, s), rs, s, FetchedPC, spec_mode)
<1>1. PICK st : st = c.st
  OBVIOUS
<1>2. st \in [Stations -> StationType] /\ st[rs] \in StationType
  BY <1>1, CoreParts
<1>3. st[rs].tag \in Nat /\ st[rs].odep_list \in Seq(LinkType)
  BY <1>2, StationParts
<1>4. PICK pc, spec, tag, list : /\ pc = FetchedPC /\ spec = spec_mode
                                 /\ tag = st[rs].tag /\ list = st[rs].odep_list
  OBVIOUS
<1>5. PICK t : t = [s EXCEPT !.tag = tag, !.odep_list = list, !.pc = pc, !.spec_mode = spec]
  OBVIOUS
<1>6. /\ t \in StationType /\ t.tag = tag /\ t.odep_list = list /\ t.queued = s.queued
      /\ t.issued = s.issued /\ t.completed = s.completed
      /\ t.op = s.op /\ t.oname = s.oname /\ t.ea_comp = s.ea_comp /\ t.addr = s.addr
      /\ t.seq = s.seq /\ t.recover_inst = s.recover_inst /\ t.pc = pc /\ t.spec_mode = spec
  BY <1>3, <1>4, <1>5 DEF StationType
<1>7. PICK st2 : st2 = [st EXCEPT ![rs] = t]
  OBVIOUS
<1>8. /\ st2 \in [Stations -> StationType] /\ st2[rs] = t
      /\ \A o \in Stations \ {rs} : st2[o] = st[o]
  BY <1>2, <1>6, <1>7
<1>9. PICK d : d = Allocate(c, rs, s)
  OBVIOUS
<1>10. d = [c EXCEPT !.st = st2]
  BY <1>1, <1>4, <1>5, <1>7, <1>9 DEF Allocate, CoreType
<1>11. /\ d \in CoreType /\ d.st = st2 /\ d.ready = c.ready /\ d.events = c.events
       /\ d.free = c.free /\ d.panic = c.panic
  BY <1>8, <1>10 DEF CoreType
<1>12. SameTags(st, st2)
  BY <1>4, <1>6, <1>8 DEF SameTags
<1>13. IsOperation(t, s, pc, spec)
  BY <1>6 DEF IsOperation
<1>14. QED
  BY <1>1, <1>4, <1>6, <1>8, <1>9, <1>11, <1>12, <1>13 DEF Allocated

\* d is c after s was dispatched to rs and linked to its creators.
Entered(c, d, W, rs, s, creators, pc, spec) ==
  /\ d \in CoreType /\ d.ready = c.ready /\ d.events = c.events
  /\ Entering(c.st, d.st, W, rs, creators)
  /\ IsOperation(d.st[rs], s, pc, spec)
  /\ LinksOf(d) = LinksOf(c) /\ d.free >= c.free - 3
  /\ c.free >= 3 => (d.panic <=> c.panic)

LEMMA EnterIs ==
  ASSUME NEW c \in CoreType, NEW rs \in Stations, NEW s \in StationType,
         FetchedPC \in Int, spec_mode \in BOOLEAN,
         NEW W \in SUBSET Stations, rs \notin W, NEW p, DependsOK(p, c.st, W),
         NEW creators \in [1 .. 3 -> Stations \cup {NULL}],
         ~s.queued, ~s.issued, ~s.completed, \A x \in W : c.st[x].seq < s.seq
  PROVE  Entered(c, Link(Allocate(c, rs, s), rs, creators), W, rs, s, creators,
                 FetchedPC, spec_mode)
<1>1. PICK pc, spec, e : pc = FetchedPC /\ spec = spec_mode /\ e = Allocate(c, rs, s)
  OBVIOUS
<1>2. Allocated(c, e, rs, s, pc, spec)
  BY <1>1, AllocateIs
<1>3. e \in CoreType
  BY <1>2 DEF Allocated
<1>4. c.st \in [Stations -> StationType] /\ e.st \in [Stations -> StationType]
      /\ c.free \in Int /\ e.free \in Int
  BY <1>3, CoreParts
<1>5. \A o \in Stations : e.st[o].odep_list = c.st[o].odep_list /\ e.st[o].tag = c.st[o].tag
  BY <1>2 DEF Allocated, SameTags
<1>6. ASSUME NEW o \in Stations
      PROVE  /\ SoundUses(e.st[o].odep_list, e.st)
             /\ Uses(e.st[o].odep_list, e.st) = Uses(c.st[o].odep_list, c.st)
             /\ \A k \in Operands : <<rs, k>> \notin Uses(c.st[o].odep_list, c.st)
  <2>1. ConsumersOK(p, c.st, W, o)
    BY DEF DependsOK
  <2>2. PICK list : list = c.st[o].odep_list /\ list \in Seq(LinkType)
    BY <1>4, StationParts
  <2>3. SoundUses(list, e.st) /\ Uses(list, e.st) = Uses(list, c.st)
    <3>1. PICK st, st2 : st = c.st /\ st2 = e.st
      OBVIOUS
    <3>2. SoundUses(list, st) /\ list \in Seq(LinkType)
      BY <2>1, <2>2, <3>1 DEF ConsumersOK
    <3>3. \A y \in Stations : st2[y].tag = st[y].tag
      BY <1>5, <3>1
    <3>4. SoundUses(list, st2) /\ Uses(list, st2) = Uses(list, st)
      BY <3>2, <3>3, SameUses
    <3>5. QED
      BY <3>1, <3>4, Zenon
  <2>4. QED
    BY <1>5, <2>1, <2>2, <2>3 DEF ConsumersOK
<1>7. Unused(e, rs)
  BY <1>6 DEF Unused
<1>8. PICK d : d = Link(e, rs, creators)
  OBVIOUS
<1>9. Linking(e, d, rs, creators, 3)
  BY <1>3, <1>7, <1>8, LinkIsAll
<1>10. /\ d \in CoreType /\ d.ready = c.ready /\ d.events = c.events
       /\ SameStates(e.st, d.st)
  BY <1>2, <1>9 DEF Linking, Allocated
<1>11. d.st \in [Stations -> StationType]
  BY <1>10, CoreParts
<1>12. IsOperation(d.st[rs], s, pc, spec) /\ d.st[rs].seq = s.seq
       /\ ~d.st[rs].queued /\ ~d.st[rs].issued /\ ~d.st[rs].completed
  BY <1>2, <1>10 DEF Allocated, SameStates, SameOps, IsOperation
<1>13. SameTags(c.st, d.st)
  BY <1>5, <1>10 DEF SameStates, SameTags
<1>14. SameBut(c.st, d.st, rs)
  <2>1. ASSUME NEW o \in Stations \ {rs}
        PROVE  /\ d.st[o].op = c.st[o].op /\ d.st[o].pc = c.st[o].pc
               /\ d.st[o].addr = c.st[o].addr
               /\ d.st[o].seq = c.st[o].seq /\ d.st[o].oname = c.st[o].oname
               /\ d.st[o].ea_comp = c.st[o].ea_comp /\ d.st[o].spec_mode = c.st[o].spec_mode
               /\ d.st[o].recover_inst = c.st[o].recover_inst
               /\ d.st[o].queued <=> c.st[o].queued
               /\ d.st[o].issued <=> c.st[o].issued
               /\ d.st[o].completed <=> c.st[o].completed
    <3>1. e.st[o] = c.st[o]
      BY <1>2 DEF Allocated
    <3>2. QED
      BY <1>10, <3>1 DEF SameStates, SameOps
  <2>2. ASSUME NEW o \in Stations \ {rs}, NEW k \in Operands
        PROVE  d.st[o].idep_ready[k] <=> c.st[o].idep_ready[k]
    <3>1. e.st[o] = c.st[o]
      BY <1>2 DEF Allocated
    <3>2. QED
      BY <1>9, <3>1 DEF Linking
  <2>3. QED
    BY <2>1, <2>2 DEF SameBut
<1>15. \A k \in Operands : k < 3
  BY OperandsAre
<1>16. ASSUME NEW k \in Operands PROVE d.st[rs].idep_ready[k] <=> creators[k + 1] = NULL
  BY <1>9, <1>15 DEF Linking
<1>17. ASSUME NEW o \in Stations PROVE ListEntered(c.st, d.st, rs, creators, o)
  <2>1. ListLinked(e, d, rs, creators, 3, o)
    BY <1>9 DEF Linking
  <2>2. PICK list : list = d.st[o].odep_list /\ list \in Seq(LinkType)
    BY <1>11, StationParts
  <2>3. SoundUses(list, d.st) /\ Uses(list, d.st) = Uses(list, e.st)
    <3>1. SoundUses(list, e.st)
      BY <2>1, <2>2 DEF ListLinked
    <3>2. \A q \in Stations : d.st[q].tag = e.st[q].tag
      BY <1>10 DEF SameStates, SameTags
    <3>3. QED
      BY <2>2, <3>1, <3>2, SameUses
  <2>4. \A x \in Stations : \A k \in Operands :
          <<x, k>> \in Uses(list, e.st) <=>
            \/ <<x, k>> \in Uses(e.st[o].odep_list, e.st)
            \/ x = rs /\ k < 3 /\ creators[k + 1] = o
    BY <2>1, <2>2 DEF ListLinked
  <2>5. (\A k \in Operands : creators[k + 1] # o) => list = c.st[o].odep_list
    BY <1>5, <2>1, <2>2 DEF ListLinked
  <2>6. QED
    BY <1>6, <1>15, <2>2, <2>3, <2>4, <2>5 DEF ListEntered
<1>18. Entering(c.st, d.st, W, rs, creators)
  BY <1>4, <1>11, <1>12, <1>13, <1>14, <1>16, <1>17 DEF Entering
<1>19. LinksOf(d) = LinksOf(c) /\ d.free >= c.free - 3
       /\ (c.free >= 3 => (d.panic <=> c.panic))
  <2>1. e.free = c.free /\ e.panic = c.panic
    BY <1>2 DEF Allocated
  <2>2. LinksOf(e) = LinksOf(c)
    BY <1>5, <2>1, ConsumersSame DEF LinksOf
  <2>3. QED
    BY <1>9, <2>1, <2>2 DEF Linking
<1>20. QED
  BY <1>1, <1>8, <1>10, <1>12, <1>18, <1>19 DEF Entered

-----------------------------------------------------------------------------
(* Squashing, and the steps of issue *)

\* d is c after the operations of X were squashed.
Squashed(c, d, X) ==
  /\ d \in CoreType /\ d.ready = c.ready /\ d.events = c.events /\ d.panic = c.panic
  /\ SameOps(c.st, d.st) /\ Retagging(c.st, d.st, X)
  /\ \A o \in Stations :
       /\ d.st[o].odep_list = IF o \in X THEN <<>> ELSE c.st[o].odep_list
       /\ d.st[o].idep_ready = c.st[o].idep_ready /\ d.st[o].queued = c.st[o].queued
       /\ d.st[o].issued = c.st[o].issued /\ d.st[o].completed = c.st[o].completed
  /\ LinksOf(d) = LinksOf(c) /\ d.free >= c.free

LEMMA SquashIs ==
  ASSUME NEW c \in CoreType, NEW X \in SUBSET Stations
  PROVE  Squashed(c, Squash(c, X), X)
<1>1. PICK st : st = c.st /\ st \in [Stations -> StationType]
  BY CoreParts
<1>2. PICK st2 : st2 = [rs \in Stations |->
                          IF rs \in X THEN [st[rs] EXCEPT !.tag = @ + 1, !.odep_list = <<>>]
                          ELSE st[rs]]
  OBVIOUS
<1>3. ASSUME NEW o \in Stations, o \in X
      PROVE  /\ st2[o] \in StationType /\ st2[o].op = st[o].op /\ st2[o].pc = st[o].pc
             /\ st2[o].addr = st[o].addr
             /\ st2[o].seq = st[o].seq /\ st2[o].oname = st[o].oname
             /\ st2[o].ea_comp = st[o].ea_comp
             /\ st2[o].spec_mode = st[o].spec_mode /\ st2[o].recover_inst = st[o].recover_inst
             /\ st2[o].tag = st[o].tag + 1 /\ st2[o].odep_list = <<>>
             /\ st2[o].issued = st[o].issued /\ st2[o].completed = st[o].completed
             /\ st2[o].idep_ready = st[o].idep_ready /\ st2[o].queued = st[o].queued
  <2>1. st[o] \in StationType /\ <<>> \in Seq(LinkType)
    BY <1>1
  <2>2. PICK tag \in Nat : tag = st[o].tag + 1
    BY <2>1, StationParts
  <2>3. PICK list \in Seq(LinkType) : list = <<>>
    BY <2>1
  <2>4. st2[o] = [st[o] EXCEPT !.tag = tag, !.odep_list = list]
    BY <1>2, <1>3, <2>1, <2>2, <2>3 DEF StationType
  <2>5. QED
    BY <2>1, <2>2, <2>3, <2>4 DEF StationType
<1>4. \A o \in Stations : o \notin X => st2[o] = st[o]
  BY <1>2
<1>5. st2 \in [Stations -> StationType]
  <2>1. \A o \in Stations : st2[o] \in StationType
    BY <1>1, <1>3, <1>4
  <2>2. QED
    BY <1>2, <2>1
<1>6. PICK k, d : k = Cardinality(Consumers(st, X)) /\ d = Squash(c, X)
  OBVIOUS
<1>7. k \in Nat
  BY <1>1, <1>6, ConsumersFinite, FS_CardinalityType
<1>8. PICK free \in Int : free = c.free + k
  BY <1>7, CoreParts
<1>9. /\ d \in CoreType /\ d.st = st2 /\ d.ready = c.ready /\ d.events = c.events
      /\ d.panic = c.panic /\ d.free = c.free + k /\ c.free \in Int
  <2>1. st2 = Retagged(c.st, X)
    BY <1>1, <1>2 DEF Retagged
  <2>2. d = [c EXCEPT !.st = Retagged(@, X), !.free = @ + Cardinality(Consumers(c.st, X))]
    BY <1>6 DEF Squash
  <2>4. d = [c EXCEPT !.st = st2, !.free = free]
    BY <1>1, <1>6, <1>8, <2>1, <2>2 DEF CoreType
  <2>5. QED
    BY <1>5, <1>8, <2>4, CoreParts DEF CoreType
<1>10. SameOps(st, st2) /\ Retagging(st, st2, X)
  BY <1>3, <1>4 DEF SameOps, Retagging
<1>11. ASSUME NEW o \in Stations
       PROVE  /\ st2[o].odep_list = IF o \in X THEN <<>> ELSE st[o].odep_list
              /\ st2[o].idep_ready = st[o].idep_ready /\ st2[o].queued = st[o].queued
              /\ st2[o].issued = st[o].issued /\ st2[o].completed = st[o].completed
  BY <1>3, <1>4
<1>12. LinksOf(d) = LinksOf(c)
  <2>1. Cardinality(Consumers(st, Stations)) = Cardinality(Consumers(st, Stations \ X)) + k
    BY <1>1, <1>6, ConsumersSplit
  <2>2. Cardinality(Consumers(st2, Stations)) =
          Cardinality(Consumers(st2, Stations \ X)) + Cardinality(Consumers(st2, X))
    BY <1>5, ConsumersSplit
  <2>3. Consumers(st2, Stations \ X) = Consumers(st, Stations \ X)
    BY <1>4, ConsumersSame
  <2>4. Consumers(st2, X) = {}
    <3>1. \A o \in X : DOMAIN st2[o].odep_list = {}
      BY <1>3
    <3>2. QED
      BY <3>1 DEF Consumers
  <2>5. Cardinality(Consumers(st2, X)) = 0
    BY <2>4, FS_EmptySet
  <2>6. Cardinality(Consumers(st, Stations \ X)) \in Nat
    BY <1>1, ConsumersFinite, FS_CardinalityType
  <2>7. QED
    BY <1>1, <1>7, <1>9, <2>1, <2>2, <2>3, <2>5, <2>6 DEF LinksOf
<1>13. QED
  BY <1>1, <1>6, <1>7, <1>9, <1>10, <1>11, <1>12 DEF Squashed

\* From st to st2, of all stations only rs is marked anew.
Flagged(st, st2, rs, queued, issued, completed) ==
  /\ st2 \in [Stations -> StationType]
  /\ SameOps(st, st2) /\ SameTags(st, st2)
  /\ \A o \in Stations :
       /\ st2[o].odep_list = st[o].odep_list /\ st2[o].idep_ready = st[o].idep_ready
       /\ o # rs => /\ st2[o].queued = st[o].queued
                    /\ st2[o].issued = st[o].issued
                    /\ st2[o].completed = st[o].completed
  /\ st2[rs].queued = queued /\ st2[rs].issued = issued /\ st2[rs].completed = completed

LEMMA FlagIs ==
  ASSUME NEW st \in [Stations -> StationType], NEW rs \in Stations,
         NEW q \in BOOLEAN, NEW i \in BOOLEAN, NEW f \in BOOLEAN, NEW st2,
         st2 = [st EXCEPT ![rs] = [@ EXCEPT !.queued = q, !.issued = i, !.completed = f]]
  PROVE  Flagged(st, st2, rs, q, i, f)
<1>1. PICK s : s = [st[rs] EXCEPT !.queued = q, !.issued = i, !.completed = f]
  OBVIOUS
<1>2. st[rs] \in StationType
  OBVIOUS
<1>3. /\ s \in StationType /\ s.op = st[rs].op /\ s.pc = st[rs].pc /\ s.addr = st[rs].addr
      /\ s.seq = st[rs].seq /\ s.oname = st[rs].oname /\ s.ea_comp = st[rs].ea_comp
      /\ s.spec_mode = st[rs].spec_mode /\ s.recover_inst = st[rs].recover_inst
      /\ s.tag = st[rs].tag /\ s.odep_list = st[rs].odep_list
      /\ s.idep_ready = st[rs].idep_ready /\ s.queued = q /\ s.issued = i /\ s.completed = f
  <2>1. PICK t \in StationType : t = st[rs]
    BY <1>2
  <2>2. s = [t EXCEPT !.queued = q, !.issued = i, !.completed = f]
    BY <1>1, <2>1
  <2>3. s \in StationType
    <3>1. q \in BOOLEAN /\ i \in BOOLEAN /\ f \in BOOLEAN /\ t \in StationType
      OBVIOUS
    <3>2. PICK s1 : s1 = [t EXCEPT !.queued = q]
      OBVIOUS
    <3>3. PICK s2 : s2 = [s1 EXCEPT !.issued = i]
      OBVIOUS
    <3>4. s1 \in StationType
      BY <3>1, <3>2 DEF StationType
    <3>5. s2 \in StationType
      BY <3>1, <3>3, <3>4 DEF StationType
    <3>6. s = [s2 EXCEPT !.completed = f]
      BY <2>2, <3>1, <3>2, <3>3 DEF StationType
    <3>7. QED
      BY <3>1, <3>5, <3>6 DEF StationType
  <2>4. /\ s.op = t.op /\ s.pc = t.pc /\ s.addr = t.addr /\ s.seq = t.seq
        /\ s.oname = t.oname /\ s.ea_comp = t.ea_comp /\ s.spec_mode = t.spec_mode
        /\ s.recover_inst = t.recover_inst /\ s.tag = t.tag /\ s.odep_list = t.odep_list
        /\ s.idep_ready = t.idep_ready /\ s.queued = q /\ s.issued = i /\ s.completed = f
    BY <2>2 DEF StationType
  <2>5. QED
    BY <2>1, <2>3, <2>4, Zenon
<1>4. /\ st2 \in [Stations -> StationType] /\ st2[rs] = s
      /\ \A o \in Stations : o # rs => st2[o] = st[o]
  BY <1>1, <1>3
<1>5. SameOps(st, st2) /\ SameTags(st, st2)
  BY <1>3, <1>4 DEF SameOps, SameTags
<1>6. ASSUME NEW o \in Stations
      PROVE  /\ st2[o].odep_list = st[o].odep_list /\ st2[o].idep_ready = st[o].idep_ready
             /\ o # rs => /\ st2[o].queued = st[o].queued
                          /\ st2[o].issued = st[o].issued
                          /\ st2[o].completed = st[o].completed
  BY <1>3, <1>4
<1>7. QED
  BY <1>3, <1>4, <1>5, <1>6 DEF Flagged

-----------------------------------------------------------------------------
(* The rings *)

LEMMA Remainders ==
  ASSUME NEW N \in Nat \ {0}, NEW x \in Int
  PROVE  /\ 0 <= x /\ x < N => x % N = x
         /\ N <= x /\ x < 2 * N => x % N = x - N
         /\ -N <= x /\ x < 0 => x % N = x + N
         /\ x % N \in 0 .. N - 1
OBVIOUS

LEMMA SizesAre ==
  /\ size["RUU"] = RUU_size /\ size["LSQ"] = LSQ_size
  /\ RUU_size \in Nat \ {0} /\ LSQ_size \in Nat \ {0}
  /\ \A q \in {"RUU", "LSQ"} : size[q] \in Nat \ {0}
<1>1. RUU_size \in Nat \ {0} /\ LSQ_size \in Nat \ {0}
  BY CoreAssumption DEF Sizes
<1>2. size["RUU"] = RUU_size /\ size["LSQ"] = LSQ_size
  BY DEF size
<1>3. QED
  BY <1>1, <1>2

\* Where an entry is, without a remainder.
Slot(h, N, i) == IF h + i < N THEN h + i ELSE h + i - N

LEMMA RingIs ==
  ASSUME NEW que, NEW q \in {"RUU", "LSQ"}, RingOK(que, q)
  PROVE  /\ que[q].head \in 0 .. size[q] - 1 /\ que[q].num \in 0 .. size[q]
         /\ que[q].tail \in 0 .. size[q] - 1 /\ size[q] \in Nat \ {0}
         /\ que[q].tail = (que[q].head + que[q].num) % size[q]
<1>1. /\ que[q].head \in 0 .. size[q] - 1 /\ que[q].num \in 0 .. size[q]
      /\ que[q].tail = (que[q].head + que[q].num) % size[q]
  BY DEF RingOK
<1>2. size[q] \in Nat \ {0}
  BY SizesAre
<1>3. PICK N, x : N = size[q] /\ x = que[q].head + que[q].num
  OBVIOUS
<1>4. x \in Int /\ N \in Nat \ {0}
  BY <1>1, <1>2, <1>3
<1>5. x % N \in 0 .. N - 1
  BY <1>4, Remainders
<1>6. QED
  BY <1>1, <1>2, <1>3, <1>5

LEMMA AtIs ==
  ASSUME NEW que, NEW q \in {"RUU", "LSQ"}, RingOK(que, q), NEW i \in 0 .. size[q] - 1
  PROVE  /\ At(que, q, i) = <<q, Slot(que[q].head, size[q], i)>>
         /\ At(que, q, i) \in Stations
<1>1. PICK h, N : h = que[q].head /\ N = size[q]
  OBVIOUS
<1>2. h \in 0 .. N - 1 /\ N \in Nat \ {0}
  BY <1>1, RingIs
<1>3. i \in 0 .. N - 1
  BY <1>1
<1>4. PICK x \in Int : x = h + i
  BY <1>2, <1>3
<1>5. 0 <= x /\ x < 2 * N
  BY <1>2, <1>3, <1>4
<1>6. At(que, q, i) = <<q, Slot(h, N, i)>>
  <2>1. At(que, q, i) = <<q, x % N>>
    BY <1>1, <1>4 DEF At
  <2>2. CASE x < N
    <3>1. x % N = x
      BY <1>2, <1>5, <2>2, Remainders
    <3>2. Slot(h, N, i) = x
      BY <1>4, <2>2 DEF Slot
    <3>3. QED
      BY <2>1, <3>1, <3>2
  <2>3. CASE ~(x < N)
    <3>1. x % N = x - N
      <4>1. N <= x
        BY <1>2, <1>4, <2>3
      <4>2. QED
        BY <1>2, <1>4, <1>5, <4>1, Remainders
    <3>2. Slot(h, N, i) = x - N
      BY <1>2, <1>3, <1>4, <2>3 DEF Slot
    <3>3. QED
      BY <2>1, <3>1, <3>2
  <2>4. QED
    BY <2>2, <2>3
<1>7. Slot(h, N, i) \in 0 .. N - 1
  BY <1>2, <1>3 DEF Slot
<1>8. <<q, Slot(h, N, i)>> \in Stations
  <2>1. CASE q = "RUU"
    BY <1>1, <1>7, <2>1, SizesAre DEF Stations
  <2>2. CASE q = "LSQ"
    BY <1>1, <1>7, <2>2, SizesAre DEF Stations
  <2>3. QED
    BY <2>1, <2>2
<1>9. QED
  BY <1>1, <1>6, <1>8

LEMMA AtsDiffer ==
  ASSUME NEW que, NEW q \in {"RUU", "LSQ"}, RingOK(que, q),
         NEW i \in 0 .. size[q] - 1, NEW j \in 0 .. size[q] - 1,
         At(que, q, i) = At(que, q, j)
  PROVE  i = j
<1>1. PICK h, N : h = que[q].head /\ N = size[q]
  OBVIOUS
<1>2. h \in 0 .. N - 1 /\ N \in Nat \ {0} /\ i \in 0 .. N - 1 /\ j \in 0 .. N - 1
  BY <1>1, RingIs
<1>3. At(que, q, i) = <<q, Slot(h, N, i)>> /\ At(que, q, j) = <<q, Slot(h, N, j)>>
  BY <1>1, AtIs
<1>4. Slot(h, N, i) = Slot(h, N, j)
  <2>1. PICK a, b : a = Slot(h, N, i) /\ b = Slot(h, N, j)
    OBVIOUS
  <2>2. <<q, a>> = <<q, b>>
    BY <1>3, <2>1
  <2>3. QED
    BY <2>1, <2>2
<1>5. QED
  BY <1>2, <1>4 DEF Slot

LEMMA EntriesAre ==
  ASSUME NEW que, NEW q \in {"RUU", "LSQ"}, RingOK(que, q)
  PROVE  /\ Entries(que, q) \subseteq Stations
         /\ \A x \in Entries(que, q) : x[1] = q
         /\ \A x \in Entries(que, q) : \E i \in 0 .. que[q].num - 1 : x = At(que, q, i)
         /\ \A i \in 0 .. que[q].num - 1 : At(que, q, i) \in Entries(que, q)
         /\ 0 .. que[q].num - 1 \subseteq 0 .. size[q] - 1
<1>1. 0 .. que[q].num - 1 \subseteq 0 .. size[q] - 1
  BY RingIs
<1>2. \A i \in 0 .. que[q].num - 1 : At(que, q, i) \in Stations
  BY <1>1, AtIs
<1>3. \A i : At(que, q, i)[1] = q
  BY DEF At
<1>4. QED
  BY <1>1, <1>2, <1>3 DEF Entries

\* The tail is the place of the next entry.
LEMMA TailIsNext ==
  ASSUME NEW que, NEW q \in {"RUU", "LSQ"}, RingOK(que, q), que[q].num < size[q]
  PROVE  /\ <<q, que[q].tail>> = At(que, q, que[q].num)
         /\ At(que, q, que[q].num) \in Stations
         /\ At(que, q, que[q].num) \notin Entries(que, q)
<1>1. /\ que[q].num \in 0 .. size[q] - 1 /\ que[q].num \in Int
      /\ \A i \in 0 .. que[q].num - 1 : i # que[q].num
  BY RingIs
<1>2. <<q, que[q].tail>> = At(que, q, que[q].num)
  BY RingIs DEF At
<1>3. At(que, q, que[q].num) \in Stations
  BY <1>1, AtIs
<1>4. At(que, q, que[q].num) \notin Entries(que, q)
  <2>1. SUFFICES ASSUME NEW i \in 0 .. que[q].num - 1, At(que, q, que[q].num) = At(que, q, i)
                 PROVE  FALSE
    BY EntriesAre
  <2>2. i \in 0 .. size[q] - 1
    BY EntriesAre
  <2>3. QED
    BY <1>1, <2>1, <2>2, AtsDiffer
<1>5. QED
  BY <1>2, <1>3, <1>4

-----------------------------------------------------------------------------
(* The operations in flight and what refers to them, as one *)

\* v is a record of the create vectors.  D is completing and those in E still
\* have to be queued.
Body(p, c, iss, W, sq, v, D, E) ==
  /\ c \in CoreType /\ iss \in Seq(LinkType) /\ W \in SUBSET Stations /\ sq \in Nat
  /\ OrderOK(c.st, W, sq) /\ StatusOK(c.st, W, E)
  /\ ListsOK(c.st, c.ready, iss, c.events, W, D)
  /\ DependsOK(p, c.st, W)
  /\ VectorsOK(c.st, W, v.cv, v.scv, v.ucv)
  /\ LoadsOK(c.st, W)

\* All links.
Total(c, iss) == LinksOf(c) + Len(c.ready) + Len(iss) + Len(c.events)

LEMMA BodyParts ==
  ASSUME NEW p, NEW c, NEW iss, NEW W, NEW sq, NEW v, NEW D, NEW E,
         Body(p, c, iss, W, sq, v, D, E)
  PROVE  /\ c \in CoreType /\ c.st \in [Stations -> StationType]
         /\ c.ready \in Seq(LinkType) /\ c.events \in Seq(LinkType) /\ c.free \in Int
         /\ c.panic \in BOOLEAN /\ iss \in Seq(LinkType) /\ W \in SUBSET Stations /\ sq \in Nat
         /\ \A x \in Stations : c.st[x] \in StationType /\ c.st[x].seq \in Nat
                                /\ c.st[x].tag \in Nat
BY CoreParts, StationParts DEF Body

\* What has to be shown when operations complete.
LEMMA BodyCompletes ==
  ASSUME NEW p, NEW c, NEW iss, NEW W, NEW sq, NEW v, NEW D, NEW E,
         Body(p, c, iss, W, sq, v, D, E),
         NEW C \in SUBSET Stations, NEW d \in CoreType, NEW iss2 \in Seq(LinkType), NEW v2, NEW D2, NEW E2,
         Completing(c.st, d.st, C), Giving(c.st, d.st, W, C), SameTags(c.st, d.st),
         DOMAIN v2.cv = Names, DOMAIN v2.scv = Names, v2.ucv = v.ucv,
         Forgetting(v.cv, v2.cv, Names, C), Forgetting(v.scv, v2.scv, v.ucv, C),
         StatusOK(d.st, W, E2), ListsOK(d.st, d.ready, iss2, d.events, W, D2),
         \A x \in W : IsLoad(c.st, x) /\ (d.st[x].queued \/ d.st[x].issued) =>
                        c.st[x].queued \/ c.st[x].issued \/ LoadOK(c.st, W, x)
  PROVE  Body(p, d, iss2, W, sq, v2, D2, E2)
<1>1. PICK st, st2 : st = c.st /\ st2 = d.st
  OBVIOUS
<1>2. st \in [Stations -> StationType] /\ st2 \in [Stations -> StationType]
      /\ W \in SUBSET Stations /\ sq \in Nat
  BY <1>1, BodyParts, CoreParts
<1>3. Leaving(st, W, W)
  BY <1>2 DEF Leaving
<1>4. Completing(st, st2, C) /\ Giving(st, st2, W, C) /\ SameOps(st, st2)
  BY <1>1 DEF Completing
<1>5. OrderOK(st, W, sq) /\ DependsOK(p, st, W) /\ LoadsOK(st, W)
      /\ VectorsOK(st, W, v.cv, v.scv, v.ucv)
  BY <1>1 DEF Body
<1>6. OrderOK(st2, W, sq)
  BY <1>2, <1>4, <1>5, SameOrder
<1>7. DependsOK(p, st2, W)
  <2>1. Retagging(st, st2, W \ W)
    BY <1>1 DEF Retagging, SameTags
  <2>2. \A x, y \in W : st[x].seq = st[y].seq => x = y
    BY <1>5 DEF OrderOK
  <2>3. QED
    BY <1>3, <1>4, <1>5, <2>1, <2>2, DependsAfter
<1>8. VectorsOK(st2, W, v2.cv, v2.scv, v2.ucv)
  <2>1. PICK cv, cv2, scv, scv2, ucv :
          cv = v.cv /\ cv2 = v2.cv /\ scv = v.scv /\ scv2 = v2.scv /\ ucv = v.ucv
    OBVIOUS
  <2>2. VectorsOK(st2, W, cv2, scv2, ucv)
    BY <1>3, <1>4, <1>5, <2>1, VectorsAfter
  <2>3. QED
    BY <2>1, <2>2
<1>9. LoadsOK(st2, W)
  <2>1. Readier(st, st2, W)
    BY <1>4 DEF Readier, Giving
  <2>2. \A x \in W : IsLoad(st, x) /\ (st2[x].queued \/ st2[x].issued) =>
                        st[x].queued \/ st[x].issued \/ LoadOK(st, W, x)
    BY <1>1
  <2>3. QED
    BY <1>2, <1>3, <1>4, <1>5, <2>1, <2>2, LoadsAfter
<1>10. QED
  BY <1>1, <1>2, <1>6, <1>7, <1>8, <1>9 DEF Body

\* From st to st2, operations are at most queued and issued.
Still(st, st2) ==
  /\ SameOps(st, st2) /\ SameTags(st, st2)
  /\ \A o \in Stations :
       /\ st2[o].odep_list = st[o].odep_list
       /\ st2[o].completed <=> st[o].completed
       /\ \A k \in Operands : st2[o].idep_ready[k] <=> st[o].idep_ready[k]

\* Loads are queued only when they may go.
LoadsGo(st, st2, W) ==
  \A x \in W : IsLoad(st, x) /\ (st2[x].queued \/ st2[x].issued) =>
                 st[x].queued \/ st[x].issued \/ LoadOK(st, W, x)

LEMMA BodyStill ==
  ASSUME NEW p, NEW c, NEW iss, NEW W, NEW sq, NEW v, NEW D, NEW E,
         Body(p, c, iss, W, sq, v, D, E),
         NEW d \in CoreType, NEW iss2 \in Seq(LinkType), NEW D2, NEW E2, Still(c.st, d.st),
         StatusOK(d.st, W, E2), ListsOK(d.st, d.ready, iss2, d.events, W, D2),
         LoadsGo(c.st, d.st, W)
  PROVE  /\ Body(p, d, iss2, W, sq, v, D2, E2)
         /\ Consumers(d.st, Stations) = Consumers(c.st, Stations)
<1>1. c.st \in [Stations -> StationType] /\ d.st \in [Stations -> StationType]
      /\ W \in SUBSET Stations
  BY BodyParts, CoreParts
<1>2. Completing(c.st, d.st, {})
  BY <1>1 DEF Completing, Still
<1>3. Giving(c.st, d.st, W, {})
  BY <1>1 DEF Giving, Still
<1>4. Forgetting(v.cv, v.cv, Names, {}) /\ Forgetting(v.scv, v.scv, v.ucv, {})
  BY DEF Forgetting
<1>5. DOMAIN v.cv = Names /\ DOMAIN v.scv = Names
  BY DEF Body, VectorsOK
<1>6. SameTags(c.st, d.st)
  BY DEF Still
<1>7. Body(p, d, iss2, W, sq, v, D2, E2)
  BY <1>2, <1>3, <1>4, <1>5, <1>6, BodyCompletes DEF LoadsGo
<1>8. QED
  BY <1>7, ConsumersSame DEF Still

-----------------------------------------------------------------------------
(* The lists lose their heads *)

LEMMA TotalType ==
  ASSUME NEW c \in CoreType, NEW iss \in Seq(LinkType)
  PROVE  Total(c, iss) \in Int /\ LinksOf(c) \in Int
         /\ Cardinality(Consumers(c.st, Stations)) \in Nat
<1>1. PICK x, m, a, b, l :
        /\ x = c.free /\ m = Cardinality(Consumers(c.st, Stations)) /\ a = Len(c.ready)
        /\ b = Len(iss) /\ l = Len(c.events)
  OBVIOUS
<1>2. m \in Nat
  BY <1>1, CoreParts, ConsumersFinite, FS_CardinalityType
<1>3. x \in Int /\ a \in Int /\ b \in Int /\ l \in Int
  BY <1>1, CoreParts, LinksAre
<1>4. x + m \in Int /\ x + m + a + b + l \in Int
  BY <1>2, <1>3
<1>5. QED
  BY <1>1, <1>2, <1>4 DEF Total, LinksOf

LEMMA SumMoves ==
  ASSUME NEW x \in Int, NEW y \in Int, NEW m \in Int, NEW a \in Int, NEW b \in Int, NEW l \in Int,
         NEW f \in Int, NEW r \in Int, NEW i \in Int, NEW e \in Int, NEW t, NEW t2,
         t = x + m + a + b + l, t2 = (x + f) + m + (a + r) + (b + i) + (l + e)
  PROVE  t2 = t + (f + r + i + e)
OBVIOUS

Moved(c, d, iss, iss2, f, r, i, e) ==
  /\ d.free = c.free + f /\ Len(d.ready) = Len(c.ready) + r
  /\ Len(iss2) = Len(iss) + i /\ Len(d.events) = Len(c.events) + e
  /\ Consumers(d.st, Stations) = Consumers(c.st, Stations)
  /\ f \in Int /\ r \in Int /\ i \in Int /\ e \in Int /\ f + r + i + e = 0

\* Links only move.
LEMMA TotalMoves ==
  ASSUME NEW c \in CoreType, NEW d \in CoreType,
         NEW iss \in Seq(LinkType), NEW iss2 \in Seq(LinkType),
         NEW f, NEW r, NEW i, NEW e, Moved(c, d, iss, iss2, f, r, i, e)
  PROVE  Total(d, iss2) = Total(c, iss)
<1>0. /\ d.free = c.free + f /\ Len(d.ready) = Len(c.ready) + r
      /\ Len(iss2) = Len(iss) + i /\ Len(d.events) = Len(c.events) + e
      /\ Consumers(d.st, Stations) = Consumers(c.st, Stations)
      /\ f \in Int /\ r \in Int /\ i \in Int /\ e \in Int /\ f + r + i + e = 0
  BY DEF Moved
<1>1. PICK x, m, a, b, l, t, t2 :
        /\ x = c.free /\ m = Cardinality(Consumers(c.st, Stations)) /\ a = Len(c.ready)
        /\ b = Len(iss) /\ l = Len(c.events) /\ t = Total(c, iss) /\ t2 = Total(d, iss2)
  OBVIOUS
<1>2. m \in Int
  BY <1>1, TotalType
<1>3. x \in Int /\ a \in Int /\ b \in Int /\ l \in Int
  BY <1>1, CoreParts, LinksAre
<1>4. t = x + m + a + b + l
  BY <1>1 DEF Total, LinksOf
<1>5. t2 = (x + f) + m + (a + r) + (b + i) + (l + e)
  BY <1>0, <1>1 DEF Total, LinksOf
<1>6. t2 = t + (f + r + i + e)
  BY <1>0, <1>2, <1>3, <1>4, <1>5, SumMoves
<1>8. t2 = t
  BY <1>0, <1>2, <1>3, <1>4, <1>6
<1>7. QED
  BY <1>1, <1>8

\* The first event is taken.
EventTaken(c) == RSLINK_FREE([c EXCEPT !.events = Tail(@)])

\* d is c after that; if the event is valid its operation is due.
Due(p, c, d, iss, W, sq, v) ==
  /\ d \in CoreType /\ d.st = c.st /\ d.ready = c.ready /\ d.panic = c.panic
  /\ d.free = c.free + 1 /\ Total(d, iss) = Total(c, iss)
  /\ Head(c.events) \in LinkType
  /\ ~RSLINK_VALID(c.st, Head(c.events)) => Body(p, d, iss, W, sq, v, {}, {})
  /\ RSLINK_VALID(c.st, Head(c.events)) =>
       LET rs == Head(c.events).rs
       IN /\ rs \in W /\ c.st[rs].issued /\ ~c.st[rs].completed
          /\ Body(p, d, iss, W, sq, v, {rs}, {})

LEMMA TakeEvent ==
  ASSUME NEW p, NEW c, NEW iss, NEW W, NEW sq, NEW v, Body(p, c, iss, W, sq, v, {}, {}),
         c.events # <<>>, NEW d, d = EventTaken(c)
  PROVE  Due(p, c, d, iss, W, sq, v)
<1>1. PICK st, list, e : st = c.st /\ list = c.events /\ e = [c EXCEPT !.events = Tail(@)]
  OBVIOUS
<1>2. c \in CoreType /\ st \in [Stations -> StationType] /\ c.ready \in Seq(LinkType)
      /\ list \in Seq(LinkType) /\ list # <<>> /\ iss \in Seq(LinkType) /\ c.free \in Int
  BY <1>1, BodyParts
<1>3. ListsOK(st, c.ready, iss, list, W, {})
  BY <1>1 DEF Body
<1>4. Sound(list, st)
  BY <1>3 DEF ListsOK
<1>5. /\ Sound(Tail(list), st) /\ Tail(list) \in Seq(LinkType)
      /\ Len(Tail(list)) = Len(list) - 1 /\ Head(list) \in LinkType
      /\ RSLINK_VALID(st, Head(list)) =>
           Head(list).rs \in In(list, st) /\ In(Tail(list), st) = In(list, st) \ {Head(list).rs}
      /\ ~RSLINK_VALID(st, Head(list)) => In(Tail(list), st) = In(list, st)
  BY <1>2, <1>4, TailSound
<1>6. /\ e \in CoreType /\ e.st = st /\ e.ready = c.ready /\ e.events = Tail(list)
      /\ e.free = c.free /\ e.panic = c.panic
  BY <1>1, <1>2, <1>5 DEF CoreType
<1>7. /\ d \in CoreType /\ d.st = st /\ d.ready = c.ready /\ d.events = Tail(list)
      /\ d.free = c.free + 1 /\ d.panic = c.panic
  <2>1. d = RSLINK_FREE(e)
    BY <1>1 DEF EventTaken
  <2>2. QED
    BY <1>1, <1>6, <2>1, FreeIs
<1>8. Total(d, iss) = Total(c, iss)
  <2>1. Consumers(d.st, Stations) = Consumers(c.st, Stations)
    BY <1>1, <1>7
  <2>2. PICK f, z, e1 : f = 1 /\ z = 0 /\ e1 = -1
    OBVIOUS
  <2>3. Len(c.ready) \in Int /\ Len(iss) \in Int /\ Len(list) \in Int
    BY <1>2, LinksAre
  <2>4. d.free = c.free + f
    BY <1>7, <2>2
  <2>5. Len(d.events) = Len(c.events) + e1
    BY <1>1, <1>5, <1>7, <2>2, <2>3
  <2>6. Len(d.ready) = Len(c.ready) + z /\ Len(iss) = Len(iss) + z
    BY <1>7, <2>2, <2>3
  <2>7. f \in Int /\ z \in Int /\ e1 \in Int /\ f + z + z + e1 = 0
    BY <2>2
  <2>8. Moved(c, d, iss, iss, f, z, z, e1)
    BY <2>1, <2>4, <2>5, <2>6, <2>7 DEF Moved
  <2>9. QED
    BY <1>2, <1>7, <2>8, TotalMoves
<1>9. ASSUME NEW D, ListsOK(st, c.ready, iss, Tail(list), W, D)
      PROVE  Body(p, d, iss, W, sq, v, D, {})
  BY <1>1, <1>7, <1>9 DEF Body
<1>10. ~RSLINK_VALID(st, Head(list)) => ListsOK(st, c.ready, iss, Tail(list), W, {})
  BY <1>3, <1>5 DEF ListsOK
<1>11. RSLINK_VALID(st, Head(list)) =>
         /\ Head(list).rs \in W /\ st[Head(list).rs].issued /\ ~st[Head(list).rs].completed
         /\ ListsOK(st, c.ready, iss, Tail(list), W, {Head(list).rs})
  BY <1>3, <1>5 DEF ListsOK
<1>12. QED
  BY <1>1, <1>5, <1>7, <1>8, <1>9, <1>10, <1>11 DEF Due

\* The operation that the issue loop comes to.
Visit(c, iss, rs) == iss # <<>> /\ RSLINK_VALID(c.st, Head(iss)) /\ rs = Head(iss).rs

LEMMA TakeIssuing ==
  ASSUME NEW p, NEW c, NEW iss, NEW W, NEW sq, NEW v, Body(p, c, iss, W, sq, v, {}, {}),
         iss # <<>>
  PROVE  /\ Tail(iss) \in Seq(LinkType) /\ Len(Tail(iss)) = Len(iss) - 1
         /\ Sound(Tail(iss), c.st)
         /\ ~RSLINK_VALID(c.st, Head(iss)) => In(Tail(iss), c.st) = In(iss, c.st)
         /\ RSLINK_VALID(c.st, Head(iss)) =>
              LET rs == Head(iss).rs
              IN /\ In(Tail(iss), c.st) = In(iss, c.st) \ {rs} /\ rs \in In(iss, c.st)
                 /\ rs \notin In(c.ready, c.st)
                 /\ rs \in W /\ c.st[rs].queued /\ ~c.st[rs].issued /\ ~c.st[rs].completed
                 /\ OPERANDS_READY(c.st[rs])
                 /\ IsLoad(c.st, rs) => LoadOK(c.st, W, rs)
<1>1. PICK st : st = c.st
  OBVIOUS
<1>2. ListsOK(st, c.ready, iss, c.events, W, {}) /\ StatusOK(st, W, {}) /\ LoadsOK(st, W)
      /\ iss \in Seq(LinkType)
  BY <1>1 DEF Body
<1>3. Sound(iss, st)
  BY <1>2 DEF ListsOK
<1>4. /\ Sound(Tail(iss), st) /\ Tail(iss) \in Seq(LinkType)
      /\ Len(Tail(iss)) = Len(iss) - 1
      /\ RSLINK_VALID(st, Head(iss)) =>
           Head(iss).rs \in In(iss, st) /\ In(Tail(iss), st) = In(iss, st) \ {Head(iss).rs}
      /\ ~RSLINK_VALID(st, Head(iss)) => In(Tail(iss), st) = In(iss, st)
  BY <1>2, <1>3, TailSound
<1>5. ASSUME NEW rs \in In(iss, st)
      PROVE  /\ rs \notin In(c.ready, st) /\ rs \in W /\ st[rs].queued
             /\ ~st[rs].issued /\ ~st[rs].completed /\ OPERANDS_READY(st[rs])
             /\ IsLoad(st, rs) => LoadOK(st, W, rs)
  <2>1. rs \notin In(c.ready, st) /\ rs \in W /\ st[rs].queued
    BY <1>2 DEF ListsOK
  <2>2. ~st[rs].issued /\ ~st[rs].completed /\ OPERANDS_READY(st[rs])
    BY <1>2, <2>1 DEF StatusOK
  <2>3. QED
    BY <1>2, <2>1, <2>2 DEF LoadsOK
<1>6. QED
  BY <1>1, <1>4, <1>5

-----------------------------------------------------------------------------
(* The steps of issue *)

\* From c to d, only rs is marked anew.
CoreFlagged(c, d, rs, q, i, f) ==
  /\ d \in CoreType /\ Flagged(c.st, d.st, rs, q, i, f)
  /\ d.ready = c.ready /\ d.events = c.events /\ d.free = c.free /\ d.panic = c.panic

Put(c, rs, s) == [c EXCEPT !.st[rs] = s]
Marking(s, t, q, i, f) == t = [s EXCEPT !.queued = q, !.issued = i, !.completed = f]

LEMMA SetStation ==
  ASSUME NEW c \in CoreType, NEW rs \in Stations,
         NEW q \in BOOLEAN, NEW i \in BOOLEAN, NEW f \in BOOLEAN, NEW d, NEW s,
         Marking(c.st[rs], s, q, i, f), d = Put(c, rs, s)
  PROVE  CoreFlagged(c, d, rs, q, i, f)
<1>1. PICK st, st2 : st = c.st /\ st2 = [st EXCEPT ![rs] = s]
  OBVIOUS
<1>2. st \in [Stations -> StationType]
  BY <1>1, CoreParts
<1>3. Flagged(st, st2, rs, q, i, f)
  BY <1>1, <1>2, FlagIs DEF Marking
<1>4. st2 \in [Stations -> StationType]
  BY <1>3 DEF Flagged
<1>5. /\ d \in CoreType /\ d.st = st2 /\ d.ready = c.ready /\ d.events = c.events
      /\ d.free = c.free /\ d.panic = c.panic
  BY <1>1, <1>4 DEF CoreType, Put
<1>6. QED
  BY <1>1, <1>3, <1>5 DEF CoreFlagged

LEMMA SetQueued ==
  ASSUME NEW c \in CoreType, NEW rs \in Stations, NEW q \in BOOLEAN, NEW d,
         d = [c EXCEPT !.st[rs].queued = q]
  PROVE  CoreFlagged(c, d, rs, q, c.st[rs].issued, c.st[rs].completed)
<1>1. PICK s, i, f : /\ s = [c.st[rs] EXCEPT !.queued = q]
                     /\ i = c.st[rs].issued /\ f = c.st[rs].completed
  OBVIOUS
<1>2. c.st[rs] \in StationType /\ i \in BOOLEAN /\ f \in BOOLEAN
  BY <1>1, CoreParts, StationParts
<1>3. Marking(c.st[rs], s, q, i, f)
  BY <1>1, <1>2 DEF StationType, Marking
<1>4. d = Put(c, rs, s)
  BY <1>1 DEF Put
<1>5. CoreFlagged(c, d, rs, q, i, f)
  BY <1>2, <1>3, <1>4, SetStation
<1>6. QED
  BY <1>1, <1>5

LEMMA SetIssued ==
  ASSUME NEW c \in CoreType, NEW rs \in Stations, NEW d,
         d = [c EXCEPT !.st[rs].issued = TRUE]
  PROVE  CoreFlagged(c, d, rs, c.st[rs].queued, TRUE, c.st[rs].completed)
<1>1. PICK s, q, i, f : /\ s = [c.st[rs] EXCEPT !.issued = TRUE]
                        /\ q = c.st[rs].queued /\ i = TRUE /\ f = c.st[rs].completed
  OBVIOUS
<1>2. c.st[rs] \in StationType /\ q \in BOOLEAN /\ f \in BOOLEAN /\ i \in BOOLEAN
  BY <1>1, CoreParts, StationParts
<1>3. Marking(c.st[rs], s, q, i, f)
  BY <1>1, <1>2 DEF StationType, Marking
<1>4. PICK e : e = Put(c, rs, s)
  OBVIOUS
<1>5. CoreFlagged(c, e, rs, q, i, f)
  BY <1>2, <1>3, <1>4, SetStation
<1>6. d = e
  BY <1>1, <1>4 DEF Put
<1>7. QED
  BY <1>1, <1>5, <1>6

LEMMA SetDone ==
  ASSUME NEW c \in CoreType, NEW rs \in Stations, NEW d,
         d = [c EXCEPT !.st[rs].issued = TRUE, !.st[rs].completed = TRUE]
  PROVE  CoreFlagged(c, d, rs, c.st[rs].queued, TRUE, TRUE)
<1>1. PICK s, q, i, f : /\ s = [c.st[rs] EXCEPT !.issued = TRUE, !.completed = TRUE]
                        /\ q = c.st[rs].queued /\ i = TRUE /\ f = TRUE
  OBVIOUS
<1>2. c.st[rs] \in StationType /\ q \in BOOLEAN /\ i \in BOOLEAN /\ f \in BOOLEAN
  BY <1>1, CoreParts, StationParts
<1>3. Marking(c.st[rs], s, q, i, f)
  BY <1>1, <1>2 DEF StationType, Marking
<1>4. d = Put(c, rs, s)
  <2>1. c.st \in [Stations -> StationType]
    BY CoreParts
  <2>2. QED
    BY <1>1, <2>1 DEF CoreType, Put
<1>5. CoreFlagged(c, d, rs, q, i, f)
  BY <1>2, <1>3, <1>4, SetStation
<1>6. QED
  BY <1>1, <1>5

\* What was flagged is still there.
LEMMA FlaggedStill ==
  ASSUME NEW st, NEW st2, NEW rs \in Stations, NEW q, NEW i, Flagged(st, st2, rs, q, i, st[rs].completed)
  PROVE  Still(st, st2)
BY DEF Flagged, Still

LEMMA FlaggedFrame ==
  ASSUME NEW st, NEW st2, NEW rs \in Stations, NEW q, NEW i, NEW f, Flagged(st, st2, rs, q, i, f)
  PROVE  /\ SameOps(st, st2) /\ SameTags(st, st2)
         /\ \A o \in Stations : /\ IsLoad(st2, o) <=> IsLoad(st, o)
                                /\ IsStore(st2, o) <=> IsStore(st, o)
                                /\ OPERANDS_READY(st2[o]) <=> OPERANDS_READY(st[o])
         /\ \A list \in Seq(LinkType) :
              Sound(list, st) => Sound(list, st2) /\ In(list, st2) = In(list, st)
<1>1. SameOps(st, st2) /\ SameTags(st, st2)
  BY DEF Flagged
<1>2. \A o \in Stations : IsLoad(st2, o) = IsLoad(st, o) /\ IsStore(st2, o) = IsStore(st, o)
  BY <1>1 DEF SameOps, IsLoad, IsStore
<1>3. \A o \in Stations : OPERANDS_READY(st2[o]) = OPERANDS_READY(st[o])
  BY DEF Flagged, OPERANDS_READY
<1>4. \A list \in Seq(LinkType) :
        Sound(list, st) => Sound(list, st2) /\ In(list, st2) = In(list, st)
  BY <1>1, SameTagsSound
<1>5. QED
  BY <1>1, <1>2, <1>3, <1>4

\* The operation visited is issued, and completes if it is a store.
LEMMA VisitedLists ==
  ASSUME NEW p, NEW c, NEW iss, NEW W, NEW sq, NEW v, Body(p, c, iss, W, sq, v, {}, {}),
         NEW rs, Visit(c, iss, rs), NEW f \in BOOLEAN, IsStore(c.st, rs) => f,
         NEW d \in CoreType, Flagged(c.st, d.st, rs, FALSE, TRUE, f), d.ready = c.ready,
         Sound(d.events, d.st),
         f => In(d.events, d.st) = In(c.events, c.st),
         ~f => In(d.events, d.st) = In(c.events, c.st) \cup {rs}
  PROVE  ListsOK(d.st, d.ready, Tail(iss), d.events, W, {}) /\ StatusOK(d.st, W, {})
<1>1. PICK st, st2, tail, ready, events, events2 :
        /\ st = c.st /\ st2 = d.st /\ tail = Tail(iss) /\ ready = c.ready
        /\ events = c.events /\ events2 = d.events
  OBVIOUS
<1>2. /\ ListsOK(st, ready, iss, events, W, {}) /\ StatusOK(st, W, {}) /\ W \in SUBSET Stations
      /\ ready \in Seq(LinkType)
  BY <1>1, BodyParts DEF Body
<1>3. /\ tail \in Seq(LinkType) /\ Sound(tail, st) /\ In(tail, st) = In(iss, st) \ {rs}
      /\ rs \in In(iss, st) /\ rs \notin In(ready, st) /\ rs \in W /\ st[rs].queued
      /\ ~st[rs].issued /\ ~st[rs].completed /\ OPERANDS_READY(st[rs])
  BY <1>1, TakeIssuing DEF Visit
<1>4. Flagged(st, st2, rs, FALSE, TRUE, f) /\ rs \in Stations
  BY <1>1, <1>2, <1>3
<1>5. /\ \A o \in Stations : /\ IsLoad(st2, o) <=> IsLoad(st, o)
                             /\ IsStore(st2, o) <=> IsStore(st, o)
                             /\ OPERANDS_READY(st2[o]) <=> OPERANDS_READY(st[o])
      /\ \A list \in Seq(LinkType) :
           Sound(list, st) => Sound(list, st2) /\ In(list, st2) = In(list, st)
  BY <1>4, FlaggedFrame
<1>6. \A o \in W \ {rs} : /\ st2[o].queued = st[o].queued /\ st2[o].issued = st[o].issued
                          /\ st2[o].completed = st[o].completed
  BY <1>2, <1>4 DEF Flagged
<1>7. ~st2[rs].queued /\ st2[rs].issued /\ (st2[rs].completed <=> f)
  BY <1>4 DEF Flagged
<1>8. StatusOK(st2, W, {})
  <2>1. ASSUME NEW x \in W
        PROVE  /\ st2[x].queued => ~st2[x].issued
               /\ st2[x].queued \/ st2[x].issued => OPERANDS_READY(st2[x])
               /\ st2[x].completed => st2[x].issued
               /\ IsStore(st2, x) /\ st2[x].issued => st2[x].completed
               /\ OPERANDS_READY(st2[x]) => st2[x].queued \/ st2[x].issued \/ IsLoad(st2, x)
    <3>1. CASE x = rs
      BY <1>1, <1>3, <1>4, <1>5, <1>7, <3>1
    <3>2. CASE x # rs
      BY <1>2, <1>5, <1>6, <3>2 DEF StatusOK
    <3>3. QED
      BY <3>1, <3>2
  <2>2. QED
    BY <2>1 DEF StatusOK
<1>9. ListsOK(st2, ready, tail, events2, W, {})
  <2>1. /\ Sound(ready, st) /\ In(ready, st) \cap In(iss, st) = {}
        /\ In(ready, st) \cup In(iss, st) = {x \in W : st[x].queued}
        /\ In(events, st) = {x \in W : st[x].issued /\ ~st[x].completed}
    BY <1>2 DEF ListsOK
  <2>2. /\ Sound(ready, st2) /\ In(ready, st2) = In(ready, st)
        /\ Sound(tail, st2) /\ In(tail, st2) = In(iss, st) \ {rs}
    BY <1>2, <1>3, <1>5, <2>1
  <2>3. {x \in W : st2[x].queued} = {x \in W : st[x].queued} \ {rs}
    BY <1>6, <1>7
  <2>4. In(ready, st2) \cup In(tail, st2) = {x \in W : st2[x].queued}
    BY <1>3, <2>1, <2>2, <2>3
  <2>5. In(ready, st2) \cap In(tail, st2) = {}
    BY <2>1, <2>2
  <2>6. In(events2, st2) = {x \in W : st2[x].issued /\ ~st2[x].completed}
    <3>1. CASE f
      <4>1. {x \in W : st2[x].issued /\ ~st2[x].completed} = {x \in W : st[x].issued /\ ~st[x].completed}
        BY <1>3, <1>6, <1>7, <3>1
      <4>2. QED
        BY <1>1, <2>1, <3>1, <4>1
    <3>2. CASE ~f
      <4>1. {x \in W : st2[x].issued /\ ~st2[x].completed}
              = {x \in W : st[x].issued /\ ~st[x].completed} \cup {rs}
        BY <1>3, <1>6, <1>7, <3>2
      <4>2. QED
        BY <1>1, <2>1, <3>2, <4>1
    <3>3. QED
      BY <3>1, <3>2
  <2>7. QED
    BY <1>1, <2>2, <2>4, <2>5, <2>6 DEF ListsOK
<1>10. QED
  BY <1>1, <1>8, <1>9

\* What a step of the issue loop does to the operations and the links.
IssuedOne(p, c, d, iss, W, sq, v) ==
  /\ d \in CoreType /\ Body(p, d, Tail(iss), W, sq, v, {}, {})
  /\ Total(d, Tail(iss)) = Total(c, iss)
  /\ SameOps(c.st, d.st)
  /\ \A o \in Stations : ~IsStore(c.st, o) => (d.st[o].completed <=> c.st[o].completed)

\* The operation that is visited starts, as Starts has it.
Started(c, rs, b, lat) ==
  RSLINK_FREE(
    eventq_queue_event([Panic(Unqueue(c, rs), b) EXCEPT !.st[rs].issued = TRUE], rs, lat))

LEMMA StartIs ==
  ASSUME NEW p, NEW c, NEW iss, NEW W, NEW sq, NEW v, Body(p, c, iss, W, sq, v, {}, {}),
         NEW rs, Visit(c, iss, rs), ~IsStore(c.st, rs), NEW lat \in Int, NEW b \in BOOLEAN,
         NEW d, d = Started(c, rs, b, lat)
  PROVE  /\ IssuedOne(p, c, d, iss, W, sq, v)
         /\ c.free >= 1 /\ ~b /\ lat > 0 => (d.panic <=> c.panic)
<1>1. PICK e1, e3, e4, e5 : /\ e1 = [c EXCEPT !.st[rs].queued = FALSE]
                            /\ e3 = Panic(e1, b)
                            /\ e4 = [e3 EXCEPT !.st[rs].issued = TRUE]
                            /\ e5 = eventq_queue_event(e4, rs, lat)
  OBVIOUS
<1>2. d = RSLINK_FREE(e5)
  BY <1>1 DEF Unqueue, Started
<1>3. /\ rs \in Stations /\ rs \in W /\ c \in CoreType /\ c.free \in Int /\ iss \in Seq(LinkType)
      /\ iss # <<>>
      /\ Tail(iss) \in Seq(LinkType) /\ Len(Tail(iss)) = Len(iss) - 1
      /\ ~c.st[rs].issued /\ ~c.st[rs].completed
  BY BodyParts, TakeIssuing DEF Visit
<1>4. CoreFlagged(c, e1, rs, FALSE, c.st[rs].issued, c.st[rs].completed)
  <2>1. PICK q : q = FALSE
    OBVIOUS
  <2>2. CoreFlagged(c, e1, rs, q, c.st[rs].issued, c.st[rs].completed)
    BY <1>1, <1>3, <2>1, SetQueued
  <2>3. QED
    BY <2>1, <2>2
<1>5. /\ e1 \in CoreType /\ e1.ready = c.ready /\ e1.events = c.events
      /\ e1.free = c.free /\ e1.panic = c.panic
  BY <1>4 DEF CoreFlagged
<1>6. /\ e3 \in CoreType /\ e3.st = e1.st /\ e3.ready = c.ready /\ e3.events = c.events
      /\ e3.free = c.free /\ e3.panic = (c.panic \/ b)
  <2>1. /\ e3 \in CoreType /\ e3.st = e1.st /\ e3.ready = e1.ready /\ e3.events = e1.events
        /\ e3.free = e1.free /\ e3.panic = (e1.panic \/ b)
    <3>1. /\ Panic(e1, b) \in CoreType /\ Panic(e1, b).st = e1.st /\ Panic(e1, b).ready = e1.ready
          /\ Panic(e1, b).events = e1.events /\ Panic(e1, b).free = e1.free
          /\ Panic(e1, b).panic = (e1.panic \/ b)
      BY <1>5, PanicIs
    <3>2. QED
      BY <1>1, <3>1
  <2>2. QED
    BY <1>5, <2>1
<1>7. CoreFlagged(e3, e4, rs, e3.st[rs].queued, TRUE, e3.st[rs].completed)
  BY <1>1, <1>3, <1>6, SetIssued
<1>8. /\ e4 \in CoreType /\ e4.ready = c.ready /\ e4.events = c.events
      /\ e4.free = c.free /\ e4.panic = (c.panic \/ b)
  BY <1>6, <1>7 DEF CoreFlagged
<1>9. Flagged(c.st, e4.st, rs, FALSE, TRUE, FALSE)
  <2>1. Flagged(c.st, e1.st, rs, FALSE, c.st[rs].issued, c.st[rs].completed)
    BY <1>4 DEF CoreFlagged
  <2>2. Flagged(e1.st, e4.st, rs, e1.st[rs].queued, TRUE, e1.st[rs].completed)
    BY <1>6, <1>7 DEF CoreFlagged
  <2>3. ~e1.st[rs].queued /\ ~e1.st[rs].completed
    BY <1>3, <2>1 DEF Flagged
  <2>4. e1.st[rs].queued = FALSE /\ e1.st[rs].completed = FALSE
    <3>1. e1.st \in [Stations -> StationType]
      BY <2>1 DEF Flagged
    <3>2. QED
      BY <1>3, <2>3, <3>1, StationParts
  <2>5. QED
    BY <2>1, <2>2, <2>4 DEF Flagged, SameOps, SameTags
<1>10. Scheduled(e4, e5, rs, lat)
  BY <1>1, <1>3, <1>8, ScheduleIs
<1>11. /\ d \in CoreType /\ d.st = e4.st /\ d.ready = c.ready /\ d.free = c.free
       /\ Len(d.events) = Len(c.events) + 1 /\ d.events = e5.events
       /\ d.panic = e5.panic
  <2>1. /\ e5 \in CoreType /\ e5.st = e4.st /\ e5.ready = c.ready
        /\ Len(e5.events) = Len(c.events) + 1
    BY <1>3, <1>8, <1>10 DEF Scheduled
  <2>2. e5.free = c.free - 1
    BY <1>8, <1>10 DEF Scheduled
  <2>3. /\ d \in CoreType /\ d.st = e5.st /\ d.ready = e5.ready /\ d.events = e5.events
        /\ d.panic = e5.panic /\ d.free = e5.free + 1
    BY <1>2, <2>1, FreeIs
  <2>4. PICK f, g : f = c.free /\ g = e5.free
    OBVIOUS
  <2>5. f \in Int /\ g = f - 1 /\ d.free = g + 1
    BY <1>3, <2>2, <2>3, <2>4
  <2>6. d.free = f
    BY <2>5
  <2>7. QED
    BY <2>1, <2>3, <2>4, <2>6
<1>12. Flagged(c.st, d.st, rs, FALSE, TRUE, FALSE)
  BY <1>9, <1>11
<1>13. Sound(d.events, d.st) /\ In(d.events, d.st) = In(c.events, c.st) \cup {rs}
  <2>1. PICK st, st4, events : st = c.st /\ st4 = e4.st /\ events = c.events
    OBVIOUS
  <2>2. ListsOK(st, c.ready, iss, events, W, {}) /\ events \in Seq(LinkType)
    BY <2>1, BodyParts DEF Body
  <2>3. Sound(events, st) /\ rs \notin In(events, st)
    BY <1>3, <2>1, <2>2 DEF ListsOK
  <2>4. Flagged(st, st4, rs, FALSE, TRUE, FALSE)
    BY <1>9, <2>1
  <2>5. Sound(events, st4) /\ In(events, st4) = In(events, st)
    BY <1>3, <2>2, <2>3, <2>4, FlaggedFrame
  <2>6. QED
    BY <1>8, <1>10, <1>11, <2>1, <2>3, <2>5 DEF Scheduled
<1>14. ListsOK(d.st, d.ready, Tail(iss), d.events, W, {}) /\ StatusOK(d.st, W, {})
  <2>1. PICK f : f = FALSE
    OBVIOUS
  <2>2. f \in BOOLEAN /\ (IsStore(c.st, rs) => f) /\ Flagged(c.st, d.st, rs, FALSE, TRUE, f)
        /\ (f => In(d.events, d.st) = In(c.events, c.st))
        /\ (~f => In(d.events, d.st) = In(c.events, c.st) \cup {rs})
    BY <1>12, <1>13, <2>1
  <2>3. QED
    BY <1>11, <1>13, <2>2, VisitedLists
<1>15. Still(c.st, d.st)
  <2>1. c.st[rs].completed = FALSE
    BY <1>3, BodyParts, StationParts
  <2>2. QED
    BY <1>3, <1>12, <2>1, FlaggedStill
<1>16. LoadsGo(c.st, d.st, W)
  <2>1. \A x \in Stations \ {rs} : d.st[x].queued = c.st[x].queued /\ d.st[x].issued = c.st[x].issued
    BY <1>12 DEF Flagged
  <2>2. IsLoad(c.st, rs) => LoadOK(c.st, W, rs)
    BY TakeIssuing DEF Visit
  <2>3. W \in SUBSET Stations
    BY BodyParts
  <2>4. QED
    BY <2>1, <2>2, <2>3 DEF LoadsGo
<1>17. /\ Body(p, d, Tail(iss), W, sq, v, {}, {})
       /\ Consumers(d.st, Stations) = Consumers(c.st, Stations)
  <2>1. PICK tail, D2 : tail = Tail(iss) /\ D2 = {} /\ Body(p, c, iss, W, sq, v, D2, D2)
    OBVIOUS
  <2>2. ListsOK(d.st, d.ready, tail, d.events, W, D2) /\ StatusOK(d.st, W, D2)
        /\ tail \in Seq(LinkType)
    BY <1>3, <1>14, <2>1
  <2>5. d \in CoreType
    BY <1>11
  <2>6. Body(p, c, iss, W, sq, v, D2, D2)
    BY <2>1
  <2>3. /\ Body(p, d, tail, W, sq, v, D2, D2)
        /\ Consumers(d.st, Stations) = Consumers(c.st, Stations)
    BY <1>15, <1>16, <2>2, <2>5, <2>6, BodyStill
  <2>4. QED
    BY <2>1, <2>3
<1>18. Total(d, Tail(iss)) = Total(c, iss)
  <2>1. PICK z, m, o : z = 0 /\ m = -1 /\ o = 1
    OBVIOUS
  <2>2. Len(c.ready) \in Int /\ Len(iss) \in Int
    BY <1>3, CoreParts, LinksAre
  <2>3. d.free = c.free + z /\ Len(d.ready) = Len(c.ready) + z
    BY <1>3, <1>11, <2>1, <2>2
  <2>4. Len(Tail(iss)) = Len(iss) + m /\ Len(d.events) = Len(c.events) + o
    BY <1>3, <1>11, <2>1, <2>2
  <2>5. z \in Int /\ m \in Int /\ o \in Int /\ z + z + m + o = 0
    BY <2>1
  <2>6. PICK tail : tail = Tail(iss)
    OBVIOUS
  <2>7. Moved(c, d, iss, tail, z, z, m, o)
    BY <1>17, <2>3, <2>4, <2>5, <2>6 DEF Moved
  <2>8. Total(d, tail) = Total(c, iss)
    <3>1. c \in CoreType /\ d \in CoreType /\ iss \in Seq(LinkType) /\ tail \in Seq(LinkType)
      BY <1>3, <1>11, <2>6
    <3>2. QED
      BY <2>7, <3>1, TotalMoves
  <2>9. QED
    BY <2>6, <2>8
<1>19. c.free >= 1 /\ ~b /\ lat > 0 => (d.panic <=> c.panic)
  <2>1. d.panic = (e4.panic \/ e4.free = 0 \/ e4.st[rs].completed \/ lat <= 0)
    BY <1>10, <1>11 DEF Scheduled
  <2>2. ~e4.st[rs].completed
    BY <1>9 DEF Flagged
  <2>3. e4.free = c.free /\ e4.panic = (c.panic \/ b)
    BY <1>8
  <2>4. PICK f, g : f = c.free /\ g = e4.free
    OBVIOUS
  <2>5. f \in Int /\ g = f
    BY <1>3, <2>3, <2>4
  <2>6. f >= 1 => g # 0
    BY <2>5
  <2>7. lat > 0 => ~(lat <= 0)
    OBVIOUS
  <2>8. QED
    BY <2>1, <2>2, <2>3, <2>4, <2>6, <2>7
<1>20. QED
  BY <1>11, <1>15, <1>17, <1>18, <1>19 DEF IssuedOne, Still

LEMMA NamesAre == NA \notin Names /\ "DTMP" \in Names /\ Regs \subseteq Names
BY CoreAssumption DEF Names, NA

\* What has no output has no consumers, and the create vectors do not name it.
LEMMA NoOutput ==
  ASSUME NEW p, NEW c, NEW iss, NEW W, NEW sq, NEW v, NEW D, NEW E, Body(p, c, iss, W, sq, v, D, E),
         NEW rs \in W, c.st[rs].oname = NA
  PROVE  /\ c.st[rs].odep_list = <<>>
         /\ \A r \in Names : v.cv[r] # rs
         /\ \A r \in v.ucv : v.scv[r] # rs
<1>1. DependsOK(p, c.st, W) /\ VectorsOK(c.st, W, v.cv, v.scv, v.ucv) /\ W \in SUBSET Stations
  BY DEF Body
<1>2. c.st[rs].odep_list = <<>>
  BY <1>1 DEF DependsOK, ConsumersOK
<1>3. ASSUME NEW r \in Names, NEW S PROVE ~Creates(c.st, S, r, rs)
  BY NamesAre DEF Creates
<1>4. \A r \in Names : v.cv[r] # rs
  BY <1>1, <1>3 DEF VectorsOK, Named
<1>5. \A r \in v.ucv : v.scv[r] # rs
  <2>1. v.ucv \subseteq Names
    BY <1>1 DEF VectorsOK, Wrong
  <2>2. QED
    BY <1>1, <1>3, <2>1 DEF VectorsOK, Named
<1>6. QED
  BY <1>2, <1>4, <1>5

\* The store that is visited is issued and completes.
StoreDone(c, rs, b) ==
  RSLINK_FREE(
    [Panic(Unqueue(c, rs), b) EXCEPT !.st[rs].issued = TRUE, !.st[rs].completed = TRUE])

LEMMA StoreIs ==
  ASSUME NEW p, NEW c, NEW iss, NEW W, NEW sq, NEW v, Body(p, c, iss, W, sq, v, {}, {}),
         NEW rs, Visit(c, iss, rs), IsStore(c.st, rs), c.st[rs].oname = NA, NEW b \in BOOLEAN,
         NEW d, d = StoreDone(c, rs, b)
  PROVE  IssuedOne(p, c, d, iss, W, sq, v) /\ (~b => (d.panic <=> c.panic))
<1>1. PICK e1, e3, e4 : /\ e1 = [c EXCEPT !.st[rs].queued = FALSE]
                        /\ e3 = Panic(e1, b)
                        /\ e4 = [e3 EXCEPT !.st[rs].issued = TRUE, !.st[rs].completed = TRUE]
  OBVIOUS
<1>2. d = RSLINK_FREE(e4)
  BY <1>1 DEF Unqueue, StoreDone
<1>3. /\ rs \in Stations /\ rs \in W /\ c \in CoreType /\ c.free \in Int /\ iss \in Seq(LinkType)
      /\ iss # <<>>
      /\ Tail(iss) \in Seq(LinkType) /\ Len(Tail(iss)) = Len(iss) - 1
      /\ ~c.st[rs].issued /\ ~c.st[rs].completed
  BY BodyParts, TakeIssuing DEF Visit
<1>4. CoreFlagged(c, e1, rs, FALSE, c.st[rs].issued, c.st[rs].completed)
  <2>1. PICK q : q = FALSE
    OBVIOUS
  <2>2. CoreFlagged(c, e1, rs, q, c.st[rs].issued, c.st[rs].completed)
    BY <1>1, <1>3, <2>1, SetQueued
  <2>3. QED
    BY <2>1, <2>2
<1>5. /\ e1 \in CoreType /\ e1.ready = c.ready /\ e1.events = c.events
      /\ e1.free = c.free /\ e1.panic = c.panic
  BY <1>4 DEF CoreFlagged
<1>6. /\ e3 \in CoreType /\ e3.st = e1.st /\ e3.ready = c.ready /\ e3.events = c.events
      /\ e3.free = c.free /\ e3.panic = (c.panic \/ b)
  <2>1. /\ e3 \in CoreType /\ e3.st = e1.st /\ e3.ready = e1.ready /\ e3.events = e1.events
        /\ e3.free = e1.free /\ e3.panic = (e1.panic \/ b)
    <3>1. /\ Panic(e1, b) \in CoreType /\ Panic(e1, b).st = e1.st /\ Panic(e1, b).ready = e1.ready
          /\ Panic(e1, b).events = e1.events /\ Panic(e1, b).free = e1.free
          /\ Panic(e1, b).panic = (e1.panic \/ b)
      BY <1>5, PanicIs
    <3>2. QED
      BY <1>1, <3>1
  <2>2. QED
    BY <1>5, <2>1
<1>7. CoreFlagged(e3, e4, rs, e3.st[rs].queued, TRUE, TRUE)
  BY <1>1, <1>3, <1>6, SetDone
<1>8. /\ d \in CoreType /\ d.ready = c.ready /\ d.events = c.events
      /\ d.free = c.free + 1 /\ d.panic = (c.panic \/ b) /\ d.st = e4.st
  <2>1. /\ e4 \in CoreType /\ e4.ready = c.ready /\ e4.events = c.events
        /\ e4.free = c.free /\ e4.panic = (c.panic \/ b)
    BY <1>6, <1>7 DEF CoreFlagged
  <2>2. /\ d \in CoreType /\ d.st = e4.st /\ d.ready = e4.ready /\ d.events = e4.events
        /\ d.panic = e4.panic /\ d.free = e4.free + 1
    BY <1>2, <2>1, FreeIs
  <2>3. QED
    BY <2>1, <2>2
<1>9. Flagged(c.st, d.st, rs, FALSE, TRUE, TRUE)
  <2>1. Flagged(c.st, e1.st, rs, FALSE, c.st[rs].issued, c.st[rs].completed)
    BY <1>4 DEF CoreFlagged
  <2>2. Flagged(e1.st, d.st, rs, e1.st[rs].queued, TRUE, TRUE)
    BY <1>6, <1>7, <1>8 DEF CoreFlagged
  <2>3. ~e1.st[rs].queued
    BY <1>3, <2>1 DEF Flagged
  <2>4. e1.st[rs].queued = FALSE
    <3>1. e1.st \in [Stations -> StationType]
      BY <2>1 DEF Flagged
    <3>2. QED
      BY <1>3, <2>3, <3>1, StationParts
  <2>5. PICK st, st1, st2 : st = c.st /\ st1 = e1.st /\ st2 = d.st
    OBVIOUS
  <2>6. Flagged(st, st1, rs, FALSE, st[rs].issued, st[rs].completed)
    BY <2>1, <2>5
  <2>7. Flagged(st1, st2, rs, FALSE, TRUE, TRUE)
    BY <2>2, <2>4, <2>5
  <2>8. Flagged(st, st2, rs, FALSE, TRUE, TRUE)
    BY <2>6, <2>7 DEF Flagged, SameOps, SameTags
  <2>9. QED
    BY <2>5, <2>8
<1>10. Sound(d.events, d.st) /\ In(d.events, d.st) = In(c.events, c.st)
  <2>1. PICK st, st4, events : st = c.st /\ st4 = d.st /\ events = c.events
    OBVIOUS
  <2>2. ListsOK(st, c.ready, iss, events, W, {}) /\ events \in Seq(LinkType)
    BY <2>1, BodyParts DEF Body
  <2>3. Sound(events, st)
    BY <2>2 DEF ListsOK
  <2>4. Flagged(st, st4, rs, FALSE, TRUE, TRUE)
    BY <1>9, <2>1
  <2>5. Sound(events, st4) /\ In(events, st4) = In(events, st)
    BY <1>3, <2>2, <2>3, <2>4, FlaggedFrame
  <2>6. QED
    BY <1>8, <2>1, <2>5
<1>11. ListsOK(d.st, d.ready, Tail(iss), d.events, W, {}) /\ StatusOK(d.st, W, {})
  <2>1. PICK f : f = TRUE
    OBVIOUS
  <2>2. f \in BOOLEAN /\ (IsStore(c.st, rs) => f) /\ Flagged(c.st, d.st, rs, FALSE, TRUE, f)
        /\ (f => In(d.events, d.st) = In(c.events, c.st))
        /\ (~f => In(d.events, d.st) = In(c.events, c.st) \cup {rs})
    BY <1>9, <1>10, <2>1
  <2>3. d \in CoreType /\ d.ready = c.ready /\ Sound(d.events, d.st)
    BY <1>8, <1>10
  <2>4. QED
    BY <2>2, <2>3, VisitedLists
<1>12. c.st[rs].odep_list = <<>> /\ (\A r \in Names : v.cv[r] # rs)
       /\ (\A r \in v.ucv : v.scv[r] # rs)
  BY <1>3, NoOutput
<1>13. Completing(c.st, d.st, {rs}) /\ SameTags(c.st, d.st) /\ Giving(c.st, d.st, W, {rs})
  <2>1. c.st \in [Stations -> StationType] /\ W \in SUBSET Stations
    BY BodyParts
  <2>2. Completing(c.st, d.st, {rs}) /\ SameTags(c.st, d.st)
    BY <1>3, <1>9, <2>1 DEF Completing, Flagged
  <2>3. \A o \in Stations : d.st[o].odep_list = c.st[o].odep_list
                            /\ d.st[o].idep_ready = c.st[o].idep_ready
    BY <1>9 DEF Flagged
  <2>4. Uses(c.st[rs].odep_list, c.st) = {}
    BY <1>12, NoUses
  <2>5. QED
    BY <1>12, <2>1, <2>2, <2>3, <2>4 DEF Giving
<1>14. Body(p, d, Tail(iss), W, sq, v, {}, {})
  <2>1. PICK tail, D, C : tail = Tail(iss) /\ D = {} /\ C = {rs}
    OBVIOUS
  <2>2. /\ ListsOK(d.st, d.ready, tail, d.events, W, D) /\ StatusOK(d.st, W, D)
        /\ tail \in Seq(LinkType) /\ Body(p, c, iss, W, sq, v, D, D)
        /\ C \in SUBSET Stations /\ d \in CoreType
    BY <1>3, <1>8, <1>11, <2>1
  <2>3. Completing(c.st, d.st, C) /\ SameTags(c.st, d.st) /\ Giving(c.st, d.st, W, C)
    BY <1>13, <2>1
  <2>4. DOMAIN v.cv = Names /\ DOMAIN v.scv = Names
    BY DEF Body, VectorsOK
  <2>5. Forgetting(v.cv, v.cv, Names, C) /\ Forgetting(v.scv, v.scv, v.ucv, C)
    BY <1>12, <2>1 DEF Forgetting
  <2>6. \A x \in W : IsLoad(c.st, x) /\ (d.st[x].queued \/ d.st[x].issued) =>
                       c.st[x].queued \/ c.st[x].issued \/ LoadOK(c.st, W, x)
    <3>1. \A x \in Stations \ {rs} : d.st[x].queued = c.st[x].queued /\ d.st[x].issued = c.st[x].issued
      BY <1>9 DEF Flagged
    <3>2. IsLoad(c.st, rs) => LoadOK(c.st, W, rs)
      BY TakeIssuing DEF Visit
    <3>3. W \in SUBSET Stations
      BY BodyParts
    <3>4. QED
      BY <3>1, <3>2, <3>3
  <2>7. Body(p, d, tail, W, sq, v, D, D)
    BY <2>2, <2>3, <2>4, <2>5, <2>6, BodyCompletes
  <2>8. QED
    BY <2>1, <2>7
<1>15. Total(d, Tail(iss)) = Total(c, iss)
  <2>1. PICK z, m, o : z = 0 /\ m = -1 /\ o = 1
    OBVIOUS
  <2>2. Len(c.ready) \in Int /\ Len(iss) \in Int /\ Len(c.events) \in Int
    BY <1>3, CoreParts, LinksAre
  <2>3. d.free = c.free + o /\ Len(d.ready) = Len(c.ready) + z
    BY <1>3, <1>8, <2>1, <2>2
  <2>4. Len(Tail(iss)) = Len(iss) + m /\ Len(d.events) = Len(c.events) + z
    BY <1>3, <1>8, <2>1, <2>2
  <2>5. z \in Int /\ m \in Int /\ o \in Int /\ o + z + m + z = 0
    BY <2>1
  <2>6. PICK tail : tail = Tail(iss)
    OBVIOUS
  <2>7. Consumers(d.st, Stations) = Consumers(c.st, Stations)
    BY <1>9, ConsumersSame DEF Flagged
  <2>8. Moved(c, d, iss, tail, o, z, m, z)
    BY <2>3, <2>4, <2>5, <2>6, <2>7 DEF Moved
  <2>9. Total(d, tail) = Total(c, iss)
    BY <1>3, <1>8, <2>6, <2>8, TotalMoves
  <2>10. QED
    BY <2>6, <2>9
<1>16. \A o \in Stations : ~IsStore(c.st, o) => (d.st[o].completed <=> c.st[o].completed)
  BY <1>9 DEF Flagged
<1>17. QED
  BY <1>8, <1>13, <1>14, <1>15, <1>16 DEF IssuedOne, Completing

\* The operation that is visited goes back to the ready queue; f is c, and may
\* have panicked.
LEMMA RequeueIs ==
  ASSUME NEW p, NEW c, NEW iss, NEW W, NEW sq, NEW v, Body(p, c, iss, W, sq, v, {}, {}),
         NEW rs, Visit(c, iss, rs),
         NEW f \in CoreType, f.st = c.st, f.ready = c.ready, f.events = c.events, f.free = c.free,
         NEW d, d = RSLINK_FREE(Requeue(f, rs))
  PROVE  IssuedOne(p, c, d, iss, W, sq, v) /\ (c.free >= 1 => (d.panic <=> f.panic))
<1>1. PICK e1, e2 : /\ e1 = [f EXCEPT !.st[rs].queued = FALSE] /\ e2 = readyq_enqueue(e1, rs)
  OBVIOUS
<1>2. d = RSLINK_FREE(e2)
  BY <1>1 DEF Requeue, Unqueue
<1>3. /\ rs \in Stations /\ rs \in W /\ c \in CoreType /\ c.free \in Int /\ iss \in Seq(LinkType)
      /\ iss # <<>>
      /\ Tail(iss) \in Seq(LinkType) /\ Len(Tail(iss)) = Len(iss) - 1
      /\ c.st[rs].queued /\ rs \notin In(c.ready, c.st) /\ rs \in In(iss, c.st)
      /\ Sound(Tail(iss), c.st) /\ In(Tail(iss), c.st) = In(iss, c.st) \ {rs}
  <2>1. /\ c \in CoreType /\ c.free \in Int /\ iss \in Seq(LinkType) /\ W \in SUBSET Stations
    BY BodyParts
  <2>2. /\ rs \in W /\ iss # <<>> /\ Tail(iss) \in Seq(LinkType) /\ Len(Tail(iss)) = Len(iss) - 1
        /\ c.st[rs].queued /\ rs \notin In(c.ready, c.st) /\ rs \in In(iss, c.st)
        /\ Sound(Tail(iss), c.st) /\ In(Tail(iss), c.st) = In(iss, c.st) \ {rs}
    BY TakeIssuing DEF Visit
  <2>3. QED
    BY <2>1, <2>2
<1>4. CoreFlagged(f, e1, rs, FALSE, f.st[rs].issued, f.st[rs].completed)
  <2>1. PICK q : q = FALSE
    OBVIOUS
  <2>2. CoreFlagged(f, e1, rs, q, f.st[rs].issued, f.st[rs].completed)
    BY <1>1, <1>3, <2>1, SetQueued
  <2>3. QED
    BY <2>1, <2>2
<1>5. /\ e1 \in CoreType /\ e1.ready = c.ready /\ e1.events = c.events /\ e1.free = c.free
      /\ e1.panic = f.panic /\ Flagged(c.st, e1.st, rs, FALSE, c.st[rs].issued, c.st[rs].completed)
  BY <1>4 DEF CoreFlagged
<1>6. Enqueued(e1, e2, rs)
  BY <1>1, <1>3, <1>5, EnqueueIs
<1>7. /\ e2 \in CoreType /\ e2.st = [e1.st EXCEPT ![rs].queued = TRUE] /\ e2.events = c.events
      /\ Len(e2.ready) = Len(c.ready) + 1 /\ e2.free = c.free - 1
      /\ e2.panic = (f.panic \/ c.free = 0 \/ e1.st[rs].queued)
  BY <1>5, <1>6 DEF Enqueued
<1>8. /\ d \in CoreType /\ d.st = e2.st /\ d.ready = e2.ready /\ d.events = c.events
      /\ d.free = (c.free - 1) + 1 /\ d.panic = e2.panic
  BY <1>2, <1>7, FreeIs
<1>9. Flagged(c.st, d.st, rs, TRUE, c.st[rs].issued, c.st[rs].completed)
  <2>1. e1.st \in [Stations -> StationType]
    BY <1>5, CoreParts
  <2>2. Marked(e1.st, d.st, rs)
    BY <1>3, <1>7, <1>8, <2>1, MarkIs
  <2>3. PICK st, st1, st2, i, g : /\ st = c.st /\ st1 = e1.st /\ st2 = d.st
                                  /\ i = c.st[rs].issued /\ g = c.st[rs].completed
    OBVIOUS
  <2>4. /\ st2 \in [Stations -> StationType] /\ st1 \in [Stations -> StationType]
        /\ st2 = [st1 EXCEPT ![rs].queued = TRUE]
    BY <1>7, <1>8, <2>1, <2>2, <2>3 DEF Marked
  <2>5. Flagged(st, st1, rs, FALSE, i, g)
    BY <1>5, <2>3
  <2>6. \A o \in Stations : /\ st2[o].odep_list = st1[o].odep_list
                            /\ st2[o].idep_ready = st1[o].idep_ready
                            /\ st2[o].issued = st1[o].issued /\ st2[o].completed = st1[o].completed
                            /\ o # rs => st2[o].queued = st1[o].queued
    <3> TAKE o \in Stations
    <3>1. CASE o # rs
      BY <2>4, <3>1
    <3>2. CASE o = rs
      <4>1. st2[rs] = [st1[rs] EXCEPT !.queued = TRUE]
        BY <1>3, <2>4
      <4>2. PICK t \in StationType : t = st1[rs]
        BY <1>3, <2>4
      <4>3. PICK t2 : t2 = st2[rs]
        OBVIOUS
      <4>4. t2 = [t EXCEPT !.queued = TRUE]
        BY <4>1, <4>2, <4>3
      <4>5. /\ t2.odep_list = t.odep_list /\ t2.idep_ready = t.idep_ready
            /\ t2.issued = t.issued /\ t2.completed = t.completed
        BY <4>4 DEF StationType
      <4>6. QED
        BY <3>2, <4>2, <4>3, <4>5
    <3>3. QED
      BY <3>1, <3>2
  <2>7. st2[rs].queued = TRUE
    BY <1>3, <2>4 DEF StationType
  <2>8. SameOps(st, st2) /\ SameTags(st, st2)
    BY <2>2, <2>3, <2>5 DEF Marked, Flagged, SameOps, SameTags
  <2>9. Flagged(st, st2, rs, TRUE, i, g)
    <3>1. /\ st1[rs].issued = i /\ st1[rs].completed = g
          /\ \A o \in Stations :
               /\ st1[o].odep_list = st[o].odep_list /\ st1[o].idep_ready = st[o].idep_ready
               /\ o # rs => /\ st1[o].queued = st[o].queued
                            /\ st1[o].issued = st[o].issued
                            /\ st1[o].completed = st[o].completed
      BY <2>5 DEF Flagged
    <3>2. ASSUME NEW o \in Stations
          PROVE  /\ st2[o].odep_list = st[o].odep_list /\ st2[o].idep_ready = st[o].idep_ready
                 /\ o # rs => /\ st2[o].queued = st[o].queued
                              /\ st2[o].issued = st[o].issued
                              /\ st2[o].completed = st[o].completed
      BY <2>6, <3>1
    <3>3. st2[rs].issued = i /\ st2[rs].completed = g
      BY <1>3, <2>6, <3>1
    <3>4. QED
      BY <2>4, <2>7, <2>8, <3>2, <3>3, Zenon DEF Flagged
  <2>10. QED
    BY <2>3, <2>9
<1>10. ListsOK(d.st, d.ready, Tail(iss), d.events, W, {})
  <2>1. PICK st, st1, st2, ready, tail, events, i, g :
          /\ i = c.st[rs].issued /\ g = c.st[rs].completed
          /\ st = c.st /\ st1 = e1.st /\ st2 = d.st /\ ready = c.ready /\ tail = Tail(iss)
          /\ events = c.events
    OBVIOUS
  <2>2. ListsOK(st, ready, iss, events, W, {}) /\ ready \in Seq(LinkType) /\ events \in Seq(LinkType)
        /\ tail \in Seq(LinkType) /\ W \in SUBSET Stations
    BY <1>3, <2>1, BodyParts DEF Body
  <2>3. /\ Sound(ready, st) /\ Sound(events, st) /\ In(ready, st) \cap In(iss, st) = {}
        /\ In(ready, st) \cup In(iss, st) = {x \in W : st[x].queued}
        /\ In(events, st) = {x \in W : st[x].issued /\ ~st[x].completed}
    BY <2>2 DEF ListsOK
  <2>4. Flagged(st, st1, rs, FALSE, i, g) /\ Flagged(st, st2, rs, TRUE, i, g)
    BY <1>5, <1>9, <2>1
  <2>5. Sound(ready, st1) /\ In(ready, st1) = In(ready, st)
    <3>1. rs \in Stations /\ ready \in Seq(LinkType) /\ Sound(ready, st)
          /\ Flagged(st, st1, rs, FALSE, i, g)
      BY <1>3, <2>2, <2>3, <2>4
    <3>2. QED
      BY <3>1, FlaggedFrame
  <2>6. Sound(d.ready, st2) /\ In(d.ready, st2) = In(ready, st) \cup {rs}
    BY <1>3, <1>5, <1>6, <1>8, <2>1, <2>5 DEF Enqueued
  <2>7. \A list \in Seq(LinkType) :
           Sound(list, st) => Sound(list, st2) /\ In(list, st2) = In(list, st)
    BY <1>3, <2>4, FlaggedFrame
  <2>8. /\ Sound(tail, st2) /\ In(tail, st2) = In(iss, st) \ {rs}
        /\ Sound(events, st2) /\ In(events, st2) = In(events, st)
    BY <1>3, <2>1, <2>2, <2>3, <2>7
  <2>9. \A x \in W : /\ st2[x].queued <=> st[x].queued
                     /\ st2[x].issued <=> st[x].issued
                     /\ st2[x].completed <=> st[x].completed
    <3>1. \A x \in W : /\ st2[x].queued = IF x = rs THEN TRUE ELSE st[x].queued
                       /\ st2[x].issued = st[x].issued /\ st2[x].completed = st[x].completed
      <4>1. \A x \in W \ {rs} : /\ st2[x].queued = st[x].queued
                                /\ st2[x].issued = st[x].issued /\ st2[x].completed = st[x].completed
        BY <2>2, <2>4 DEF Flagged
      <4>2. st2[rs].queued = TRUE /\ st2[rs].issued = i /\ st2[rs].completed = g
        BY <2>4 DEF Flagged
      <4>3. i = st[rs].issued /\ g = st[rs].completed
        BY <2>1
      <4>4. QED
        BY <4>1, <4>2, <4>3
    <3>2. QED
      BY <1>3, <2>1, <3>1
  <2>10. {x \in W : st2[x].queued} = {x \in W : st[x].queued}
         /\ {x \in W : st2[x].issued /\ ~st2[x].completed} = {x \in W : st[x].issued /\ ~st[x].completed}
    BY <2>9
  <2>11. In(d.ready, st2) \cup In(tail, st2) = {x \in W : st2[x].queued}
         /\ In(d.ready, st2) \cap In(tail, st2) = {}
    BY <1>3, <2>1, <2>3, <2>6, <2>8, <2>10
  <2>12. QED
    BY <1>8, <2>1, <2>3, <2>6, <2>8, <2>10, <2>11 DEF ListsOK
<1>11. StatusOK(d.st, W, {})
  <2>1. StatusOK(c.st, W, {}) /\ W \in SUBSET Stations
    BY BodyParts DEF Body
  <2>2. \A o \in Stations : /\ IsLoad(d.st, o) <=> IsLoad(c.st, o)
                            /\ IsStore(d.st, o) <=> IsStore(c.st, o)
                            /\ OPERANDS_READY(d.st[o]) <=> OPERANDS_READY(c.st[o])
    <3>1. PICK i, g : i = c.st[rs].issued /\ g = c.st[rs].completed
      OBVIOUS
    <3>2. Flagged(c.st, d.st, rs, TRUE, i, g)
      BY <1>9, <3>1
    <3>3. QED
      BY <1>3, <3>2, FlaggedFrame
  <2>3. \A x \in Stations : /\ d.st[x].queued <=> c.st[x].queued
                            /\ d.st[x].issued <=> c.st[x].issued
                            /\ d.st[x].completed <=> c.st[x].completed
    BY <1>3, <1>9 DEF Flagged
  <2>4. QED
    BY <2>1, <2>2, <2>3 DEF StatusOK
<1>12. Still(c.st, d.st)
  BY <1>3, <1>9, FlaggedStill
<1>13. LoadsGo(c.st, d.st, W)
  <2>1. \A x \in Stations : /\ d.st[x].queued <=> c.st[x].queued
                            /\ d.st[x].issued <=> c.st[x].issued
    BY <1>3, <1>9 DEF Flagged
  <2>2. W \in SUBSET Stations
    BY BodyParts
  <2>3. QED
    BY <2>1, <2>2 DEF LoadsGo
<1>14. /\ Body(p, d, Tail(iss), W, sq, v, {}, {})
       /\ Consumers(d.st, Stations) = Consumers(c.st, Stations)
  <2>1. PICK tail, D : tail = Tail(iss) /\ D = {}
    OBVIOUS
  <2>2. /\ ListsOK(d.st, d.ready, tail, d.events, W, D) /\ StatusOK(d.st, W, D)
        /\ tail \in Seq(LinkType) /\ Body(p, c, iss, W, sq, v, D, D) /\ d \in CoreType
    BY <1>3, <1>8, <1>10, <1>11, <2>1
  <2>3. /\ Body(p, d, tail, W, sq, v, D, D)
        /\ Consumers(d.st, Stations) = Consumers(c.st, Stations)
    BY <1>12, <1>13, <2>2, BodyStill
  <2>4. QED
    BY <2>1, <2>3
<1>15. Total(d, Tail(iss)) = Total(c, iss)
  <2>1. PICK z, m, o : z = 0 /\ m = -1 /\ o = 1
    OBVIOUS
  <2>2. Len(c.ready) \in Int /\ Len(iss) \in Int /\ Len(c.events) \in Int
    BY <1>3, CoreParts, LinksAre
  <2>3. d.free = c.free + z /\ Len(d.ready) = Len(c.ready) + o
    BY <1>3, <1>7, <1>8, <2>1, <2>2
  <2>4. Len(Tail(iss)) = Len(iss) + m /\ Len(d.events) = Len(c.events) + z
    BY <1>3, <1>8, <2>1, <2>2
  <2>5. z \in Int /\ m \in Int /\ o \in Int /\ z + o + m + z = 0
    BY <2>1
  <2>6. PICK tail : tail = Tail(iss)
    OBVIOUS
  <2>7. Moved(c, d, iss, tail, z, o, m, z)
    BY <1>14, <2>3, <2>4, <2>5, <2>6 DEF Moved
  <2>8. Total(d, tail) = Total(c, iss)
    <3>1. d \in CoreType /\ tail \in Seq(LinkType) /\ c \in CoreType /\ iss \in Seq(LinkType)
      BY <1>3, <1>8, <2>6
    <3>2. QED
      BY <2>7, <3>1, TotalMoves
  <2>9. QED
    BY <2>6, <2>8
<1>16. c.free >= 1 => (d.panic <=> f.panic)
  <2>1. ~e1.st[rs].queued
    BY <1>5 DEF Flagged
  <2>2. PICK fr : fr = c.free
    OBVIOUS
  <2>3. fr >= 1 => fr # 0
    BY <1>3, <2>2
  <2>4. QED
    BY <1>7, <1>8, <2>1, <2>2, <2>3
<1>17. QED
  BY <1>8, <1>12, <1>14, <1>15, <1>16 DEF IssuedOne, Still

-----------------------------------------------------------------------------
(* An operation is queued *)

Queued(p, c, d, iss, W, sq, v, D, E, x) ==
  /\ d \in CoreType /\ Body(p, d, iss, W, sq, v, D, E)
  /\ Marked(c.st, d.st, x)
  /\ Total(d, iss) = Total(c, iss) /\ d.free = c.free - 1
  /\ d.panic <=> c.panic \/ c.free = 0

LEMMA QueueOne ==
  ASSUME NEW p, NEW c, NEW iss, NEW W, NEW sq, NEW v, NEW D, NEW E, Body(p, c, iss, W, sq, v, D, E),
         NEW x \in W, ~c.st[x].queued, ~c.st[x].issued, OPERANDS_READY(c.st[x]),
         IsLoad(c.st, x) => LoadOK(c.st, W, x),
         NEW d, d = readyq_enqueue(c, x), NEW E2, E \subseteq E2 \cup {x}, E2 \subseteq E
  PROVE  Queued(p, c, d, iss, W, sq, v, D, E2, x)
<1>1. /\ c \in CoreType /\ c.free \in Int /\ iss \in Seq(LinkType) /\ W \in SUBSET Stations
      /\ x \in Stations /\ c.st \in [Stations -> StationType]
  BY BodyParts
<1>2. Enqueued(c, d, x)
  BY <1>1, EnqueueIs
<1>3. /\ d \in CoreType /\ d.st = [c.st EXCEPT ![x].queued = TRUE] /\ d.events = c.events
      /\ Len(d.ready) = Len(c.ready) + 1 /\ d.free = c.free - 1
      /\ d.panic = (c.panic \/ c.free = 0 \/ c.st[x].queued)
  BY <1>2 DEF Enqueued
<1>4. Marked(c.st, d.st, x)
  BY <1>1, <1>3, MarkIs
<1>5. ~c.st[x].completed
  BY DEF Body, StatusOK
<1>6. ListsOK(d.st, d.ready, iss, d.events, W, D)
  <2>1. PICK st, st2, ready, events : /\ st = c.st /\ st2 = d.st /\ ready = c.ready
                                      /\ events = c.events
    OBVIOUS
  <2>2. ListsOK(st, ready, iss, events, W, D) /\ ready \in Seq(LinkType) /\ events \in Seq(LinkType)
        /\ iss \in Seq(LinkType)
    BY <2>1, BodyParts DEF Body
  <2>3. /\ Sound(ready, st) /\ Sound(events, st) /\ Sound(iss, st)
        /\ In(ready, st) \cap In(iss, st) = {}
        /\ In(ready, st) \cup In(iss, st) = {y \in W : st[y].queued}
        /\ In(events, st) = {y \in W : st[y].issued /\ ~st[y].completed} \ D
    BY <2>2 DEF ListsOK
  <2>4. x \notin In(ready, st) /\ x \notin In(iss, st)
    BY <2>1, <2>3
  <2>5. Sound(d.ready, st2) /\ In(d.ready, st2) = In(ready, st) \cup {x}
    BY <1>2, <2>1, <2>3, <2>4 DEF Enqueued
  <2>6. SameTags(st, st2)
    BY <1>4, <2>1 DEF Marked, SameTags
  <2>7. /\ Sound(iss, st2) /\ In(iss, st2) = In(iss, st)
        /\ Sound(events, st2) /\ In(events, st2) = In(events, st)
    BY <2>2, <2>3, <2>6, SameTagsSound
  <2>8. \A y \in W : /\ st2[y].queued <=> st[y].queued \/ y = x
                     /\ st2[y].issued <=> st[y].issued
                     /\ st2[y].completed <=> st[y].completed
    BY <1>1, <1>4, <2>1 DEF Marked
  <2>9. {y \in W : st2[y].queued} = {y \in W : st[y].queued} \cup {x}
        /\ {y \in W : st2[y].issued /\ ~st2[y].completed} = {y \in W : st[y].issued /\ ~st[y].completed}
    BY <2>8
  <2>10. In(d.ready, st2) \cup In(iss, st2) = {y \in W : st2[y].queued}
         /\ In(d.ready, st2) \cap In(iss, st2) = {}
    BY <2>3, <2>4, <2>5, <2>7, <2>9
  <2>11. QED
    <3>1. d.events = events /\ d.st = st2
      BY <1>3, <2>1
    <3>2. In(events, st2) = {y \in W : st2[y].issued /\ ~st2[y].completed} \ D
      BY <2>3, <2>7, <2>9
    <3>3. ListsOK(st2, d.ready, iss, events, W, D)
      BY <2>3, <2>5, <2>7, <2>10, <3>2 DEF ListsOK
    <3>4. QED
      BY <3>1, <3>3
<1>7. Still(c.st, d.st)
  BY <1>4 DEF Marked, Still
<1>8. StatusOK(d.st, W, E2)
  <2>1. StatusOK(c.st, W, E)
    BY DEF Body
  <2>2. \A y \in Stations : /\ d.st[y].queued <=> c.st[y].queued \/ y = x
                            /\ d.st[y].issued <=> c.st[y].issued
                            /\ d.st[y].completed <=> c.st[y].completed
                            /\ \A k \in Operands : d.st[y].idep_ready[k] <=> c.st[y].idep_ready[k]
    BY <1>4 DEF Marked
  <2>3. \A y \in Stations : OPERANDS_READY(d.st[y]) <=> OPERANDS_READY(c.st[y])
    BY <2>2 DEF OPERANDS_READY, Operands
  <2>4. SameOps(c.st, d.st)
    BY <1>4 DEF Marked
  <2>5. \A y \in Stations : /\ IsStore(d.st, y) <=> IsStore(c.st, y)
                            /\ IsLoad(d.st, y) <=> IsLoad(c.st, y)
    BY <2>4 DEF SameOps, IsLoad, IsStore
  <2>6. ASSUME NEW y \in W
        PROVE  /\ d.st[y].queued => ~d.st[y].issued
               /\ d.st[y].queued \/ d.st[y].issued => OPERANDS_READY(d.st[y])
               /\ d.st[y].completed => d.st[y].issued
               /\ IsStore(d.st, y) /\ d.st[y].issued => d.st[y].completed
               /\ OPERANDS_READY(d.st[y]) /\ y \notin E2 =>
                    d.st[y].queued \/ d.st[y].issued \/ IsLoad(d.st, y)
    <3>1. y \in Stations
      BY <1>1
    <3>2. CASE y = x
      BY <1>5, <2>2, <2>3, <2>5, <3>1, <3>2
    <3>3. CASE y # x
      BY <2>1, <2>2, <2>3, <2>5, <3>1, <3>3 DEF StatusOK
    <3>4. QED
      BY <3>2, <3>3
  <2>7. QED
    BY <2>6 DEF StatusOK
<1>9. LoadsGo(c.st, d.st, W)
  <2>1. \A y \in Stations : /\ d.st[y].queued <=> c.st[y].queued \/ y = x
                            /\ d.st[y].issued <=> c.st[y].issued
    BY <1>4 DEF Marked
  <2>2. QED
    BY <1>1, <2>1 DEF LoadsGo
<1>10. /\ Body(p, d, iss, W, sq, v, D, E2)
       /\ Consumers(d.st, Stations) = Consumers(c.st, Stations)
  <2>1. d \in CoreType
    BY <1>3
  <2>2. QED
    BY <1>1, <1>6, <1>7, <1>8, <1>9, <2>1, BodyStill
<1>11. Total(d, iss) = Total(c, iss)
  <2>1. PICK z, m, o : z = 0 /\ m = -1 /\ o = 1
    OBVIOUS
  <2>2. Len(c.ready) \in Int /\ Len(iss) \in Int /\ Len(c.events) \in Int
    BY <1>1, CoreParts, LinksAre
  <2>3. d.free = c.free + m /\ Len(d.ready) = Len(c.ready) + o
    BY <1>1, <1>3, <2>1, <2>2
  <2>4. Len(iss) = Len(iss) + z /\ Len(d.events) = Len(c.events) + z
    BY <1>3, <2>1, <2>2
  <2>5. z \in Int /\ m \in Int /\ o \in Int /\ m + o + z + z = 0
    BY <2>1
  <2>6. Moved(c, d, iss, iss, m, o, z, z)
    BY <1>10, <2>3, <2>4, <2>5 DEF Moved
  <2>7. d \in CoreType
    BY <1>3
  <2>8. QED
    BY <1>1, <2>6, <2>7, TotalMoves
<1>12. QED
  BY <1>3, <1>4, <1>10, <1>11 DEF Queued

-----------------------------------------------------------------------------
(* The load/store queue is scanned *)

LEMMA Greatest ==
  ASSUME NEW N \in Nat, NEW S \in SUBSET (1 .. N), S # {}
  PROVE  \E m \in S : \A k \in S : k <= m
<1> DEFINE T == {N - k : k \in S}
<1>1. T \in SUBSET Nat /\ T # {}
  <2>1. \A k \in S : k \in 1 .. N /\ N - k \in Nat
    OBVIOUS
  <2>2. PICK k \in S : TRUE
    OBVIOUS
  <2>3. N - k \in T
    OBVIOUS
  <2>4. QED
    BY <2>1, <2>3
<1> HIDE DEF T
<1>2. PICK t \in T : \A u \in T : t <= u
  BY <1>1, Least
<1>3. PICK m \in S : t = N - m
  BY DEF T
<1>4. ASSUME NEW k \in S PROVE k <= m
  <2>1. N - k \in T
    BY DEF T
  <2>2. N - m <= N - k
    BY <1>2, <1>3, <2>1
  <2>3. QED
    BY <2>2
<1>5. QED
  BY <1>4

\* The entries of the LSQ, and those of the queue.
LEMMA LSQEntriesAre ==
  ASSUME RingOK(queue, "LSQ")
  PROVE  /\ queue["LSQ"].num \in Nat
         /\ \A i \in 1 .. queue["LSQ"].num :
              /\ i - 1 \in 0 .. queue["LSQ"].num - 1
              /\ LSQEntries[i] = At(queue, "LSQ", i - 1)
              /\ LSQEntries[i] \in Stations /\ LSQEntries[i] \in Entries(queue, "LSQ")
         /\ \A i, j \in 1 .. queue["LSQ"].num : LSQEntries[i] = LSQEntries[j] => i = j
         /\ \A o \in Entries(queue, "LSQ") : \E i \in 1 .. queue["LSQ"].num : o = LSQEntries[i]
<1>1. PICK h, num : h = queue["LSQ"].head /\ num = queue["LSQ"].num
  OBVIOUS
<1>2. "LSQ" \in {"RUU", "LSQ"} /\ size["LSQ"] = LSQ_size
  BY SizesAre
<1>3. h \in Nat /\ num \in Nat
  BY <1>1, <1>2, RingIs
<1>4. ASSUME NEW i \in 1 .. num
      PROVE  i - 1 \in 0 .. num - 1 /\ LSQEntries[i] = At(queue, "LSQ", i - 1)
  <2>1. h + i - 1 = h + (i - 1)
    BY <1>3
  <2>2. LSQEntries[i] = <<"LSQ", (h + i - 1) % LSQ_size>>
    BY <1>1 DEF LSQEntries
  <2>3. At(queue, "LSQ", i - 1) = <<"LSQ", (h + (i - 1)) % LSQ_size>>
    BY <1>1, <1>2 DEF At
  <2>4. QED
    BY <1>3, <2>1, <2>2, <2>3
<1>5. /\ Entries(queue, "LSQ") \subseteq Stations
      /\ \A x \in Entries(queue, "LSQ") : \E i \in 0 .. num - 1 : x = At(queue, "LSQ", i)
      /\ \A i \in 0 .. num - 1 : At(queue, "LSQ", i) \in Entries(queue, "LSQ")
      /\ 0 .. num - 1 \subseteq 0 .. size["LSQ"] - 1
  BY <1>1, <1>2, EntriesAre
<1>6. ASSUME NEW i \in 1 .. num, NEW j \in 1 .. num, LSQEntries[i] = LSQEntries[j]
      PROVE  i = j
  <2>1. PICK a, b : a = i - 1 /\ b = j - 1
    OBVIOUS
  <2>2. a \in 0 .. size["LSQ"] - 1 /\ b \in 0 .. size["LSQ"] - 1
        /\ At(queue, "LSQ", a) = At(queue, "LSQ", b)
    BY <1>4, <1>5, <1>6, <2>1
  <2>3. a = b
    BY <1>2, <2>2, AtsDiffer
  <2>4. QED
    BY <1>3, <2>1, <2>3
<1>7. ASSUME NEW o \in Entries(queue, "LSQ") PROVE \E i \in 1 .. num : o = LSQEntries[i]
  <2>1. PICK i \in 0 .. num - 1 : o = At(queue, "LSQ", i)
    BY <1>5
  <2>2. PICK j : j = i + 1
    OBVIOUS
  <2>3. j \in 1 .. num /\ j - 1 = i
    BY <1>3, <2>2
  <2>4. QED
    BY <1>4, <2>1, <2>3
<1>8. QED
  BY <1>1, <1>3, <1>4, <1>5, <1>6, <1>7

\* A load that lsq_refresh finds ready may go.
LEMMA ReadyMayGo ==
  ASSUME RingOK(queue, "LSQ"), InOrder(station, queue, "LSQ"),
         station \in [Stations -> StationType],
         NEW W, W = Flight(queue), NEW i \in 1 .. queue["LSQ"].num, LoadReady(i)
  PROVE  LoadOK(station, W, LSQEntries[i])
<1>1. PICK num, x : num = queue["LSQ"].num /\ x = LSQEntries[i]
  OBVIOUS
<1> DEFINE e(j) == station[LSQEntries[j]]
           stores == {j \in 1 .. i - 1 : IsStore(station, LSQEntries[j])}
           hidden(j) == \E k \in stores : k > j /\ OPERANDS_READY(e(k)) /\ e(k).addr = e(j).addr
<1>2. /\ num \in Nat /\ i \in 1 .. num
      /\ \A j \in 1 .. num : j - 1 \in 0 .. num - 1 /\ LSQEntries[j] = At(queue, "LSQ", j - 1)
                             /\ LSQEntries[j] \in Stations
      /\ \A o \in Entries(queue, "LSQ") : \E j \in 1 .. num : o = LSQEntries[j]
  BY <1>1, LSQEntriesAre
<1>3. \A j, k \in 1 .. num : j < k => e(j).seq < e(k).seq /\ e(j).seq \in Nat /\ e(k).seq \in Nat
  <2>1. ASSUME NEW j \in 1 .. num, NEW k \in 1 .. num, j < k
        PROVE  e(j).seq < e(k).seq
    <3>1. PICK a, b : a = j - 1 /\ b = k - 1
      OBVIOUS
    <3>2. a \in 0 .. num - 1 /\ b \in 0 .. num - 1 /\ a < b
      BY <1>2, <2>1, <3>1
    <3>3. station[At(queue, "LSQ", a)].seq < station[At(queue, "LSQ", b)].seq
      BY <1>1, <3>2 DEF InOrder
    <3>4. QED
      BY <1>2, <3>1, <3>3
  <2>2. \A j \in 1 .. num : e(j).seq \in Nat
    BY <1>2, StationParts
  <2>3. QED
    BY <2>1, <2>2
<1>4. ASSUME NEW o \in Stores(station, W, x) PROVE \E j \in stores : o = LSQEntries[j]
  <2>1. o \in W /\ station[o].seq < station[x].seq /\ IsStore(station, o)
    BY DEF Stores, Older
  <2>2. o \in Entries(queue, "LSQ")
    <3>1. o[1] = "LSQ"
      BY <2>1 DEF IsStore, in_LSQ
    <3>2. \A y \in Entries(queue, "RUU") : y[1] = "RUU"
      BY DEF Entries, At
    <3>3. QED
      BY <2>1, <3>1, <3>2 DEF Flight
  <2>3. PICK j \in 1 .. num : o = LSQEntries[j]
    BY <1>2, <2>2
  <2>4. j < i
    <3>1. e(j).seq < e(i).seq
      BY <1>1, <2>1, <2>3
    <3>2. ASSUME j >= i PROVE FALSE
      <4>1. CASE j = i
        BY <1>2, <1>3, <3>1, <4>1, StationParts
      <4>2. CASE j > i
        BY <1>2, <1>3, <3>1, <4>2
      <4>3. QED
        BY <1>2, <3>2, <4>1, <4>2
    <3>3. QED
      BY <1>2, <3>2
  <2>5. j \in stores
    BY <1>2, <2>1, <2>3, <2>4
  <2>6. QED
    BY <2>3, <2>5
<1>5. \A j \in stores : STORE_ADDR_READY(e(j))
  BY DEF LoadReady
<1>6. station[x].addr \notin {IF hidden(j) THEN 0 ELSE e(j).addr : j \in {j \in stores : ~OPERANDS_READY(e(j))}}
  BY <1>1, Zenon DEF LoadReady, std_unknowns
<1>7. ASSUME Same(station, W, x) # {}
      PROVE  \E o \in Same(station, W, x) :
               /\ OPERANDS_READY(station[o])
               /\ \A other \in Same(station, W, x) : station[other].seq <= station[o].seq
  <2> DEFINE S == {j \in stores : LSQEntries[j] \in Same(station, W, x)}
  <2>1. \A o \in Same(station, W, x) : \E j \in S : o = LSQEntries[j]
    BY <1>4 DEF Same
  <2>2. S # {} /\ S \in SUBSET (1 .. num)
    BY <1>2, <1>7, <2>1
  <2>3. PICK j \in S : \A k \in S : k <= j
    <3> HIDE DEF S
    <3>1. QED
      BY <1>2, <2>2, Greatest
  <2>4. LSQEntries[j] \in Same(station, W, x) /\ e(j).addr = station[x].addr /\ j \in stores
    BY DEF Same
  <2>5. \A k \in stores : e(k).addr = e(j).addr => k \in S
    <3>1. ASSUME NEW k \in stores, e(k).addr = e(j).addr PROVE k \in S
      <4>1. k \in 1 .. num /\ k < i /\ IsStore(station, LSQEntries[k])
        BY <1>2
      <4>2. station[LSQEntries[k]].seq < station[x].seq
        BY <1>1, <1>2, <1>3, <4>1
      <4>3. LSQEntries[k] \in W
        BY <1>1, <4>1, LSQEntriesAre DEF Flight
      <4>4. QED
        BY <2>4, <3>1, <4>1, <4>2, <4>3 DEF Same, Stores, Older
    <3>2. QED
      BY <3>1
  <2>6. ~hidden(j)
    <3>1. \A k \in S : ~(k > j)
      BY <2>2, <2>3
    <3>2. QED
      BY <2>5, <3>1
  <2>7. OPERANDS_READY(e(j))
    <3>1. CASE ~OPERANDS_READY(e(j))
      <4>1. (IF hidden(j) THEN 0 ELSE e(j).addr) = station[x].addr
        BY <2>4, <2>6
      <4>2. j \in {k \in stores : ~OPERANDS_READY(e(k))}
        BY <2>4, <3>1
      <4> HIDE DEF hidden, stores, e
      <4>3. QED
        BY <1>6, <4>1, <4>2
    <3>2. QED
      BY <3>1
  <2>8. \A other \in Same(station, W, x) : station[other].seq <= e(j).seq
    <3>1. ASSUME NEW other \in Same(station, W, x) PROVE station[other].seq <= e(j).seq
      <4>1. PICK k \in S : other = LSQEntries[k]
        BY <2>1
      <4>2. k <= j /\ k \in 1 .. num /\ j \in 1 .. num
        BY <2>2, <2>3
      <4>3. CASE k = j
        BY <1>2, <4>1, <4>2, <4>3, StationParts
      <4>4. CASE k < j
        BY <1>3, <4>1, <4>2, <4>4
      <4>5. QED
        BY <4>2, <4>3, <4>4
    <3>2. QED
      BY <3>1
  <2>9. QED
    BY <2>4, <2>7, <2>8
<1>8. \A o \in Stores(station, W, x) : STORE_ADDR_READY(station[o])
  BY <1>4, <1>5
<1>9. QED
  BY <1>1, <1>7, <1>8 DEF LoadOK

\* w is c after lsq_refresh has come to its first k entries.
Scanned(p, c, w, W, sq, v, k) ==
  /\ Body(p, w, <<>>, W, sq, v, {}, {})
  /\ SameOps(c.st, w.st)
  /\ \A o \in Stations : /\ w.st[o].issued <=> c.st[o].issued
                         /\ w.st[o].completed <=> c.st[o].completed
                         /\ \A m \in Operands : w.st[o].idep_ready[m] <=> c.st[o].idep_ready[m]
  /\ \A j \in 1 .. queue["LSQ"].num :
       j > k => (w.st[LSQEntries[j]].queued <=> c.st[LSQEntries[j]].queued)
  /\ Total(w, <<>>) = Total(c, <<>>)
  /\ w.free >= c.free - k
  /\ c.free >= k => (w.panic <=> c.panic)

LEMMA ScanStep ==
  ASSUME RingOK(queue, "LSQ"), InOrder(station, queue, "LSQ"), NEW c \in CoreType, c.st = station,
         NEW W \in SUBSET Stations, W = Flight(queue), NEW p, NEW sq, NEW v,
         NEW k \in 0 .. queue["LSQ"].num - 1, NEW w, Scanned(p, c, w, W, sq, v, k),
         NEW d, d = IF LoadReady(k + 1) THEN readyq_enqueue(w, LSQEntries[k + 1]) ELSE w
  PROVE  Scanned(p, c, d, W, sq, v, k + 1)
<1>1. PICK N, i, x : N = queue["LSQ"].num /\ i = k + 1 /\ x = LSQEntries[i]
  OBVIOUS
<1>2. /\ N \in Nat /\ k \in Nat /\ i \in 1 .. N /\ k < i
      /\ \A j \in 1 .. N : LSQEntries[j] \in Stations /\ LSQEntries[j] \in Entries(queue, "LSQ")
      /\ \A j \in 1 .. N : LSQEntries[j] = x => j = i
  BY <1>1, LSQEntriesAre
<1>3. Body(p, w, <<>>, W, sq, v, {}, {})
  BY DEF Scanned
<1>4. /\ SameOps(c.st, w.st)
      /\ \A o \in Stations : /\ w.st[o].issued <=> c.st[o].issued
                             /\ w.st[o].completed <=> c.st[o].completed
                             /\ \A m \in Operands : w.st[o].idep_ready[m] <=> c.st[o].idep_ready[m]
      /\ \A j \in 1 .. N : j > k => (w.st[LSQEntries[j]].queued <=> c.st[LSQEntries[j]].queued)
      /\ Total(w, <<>>) = Total(c, <<>>)
      /\ w.free >= c.free - k
      /\ c.free >= k => (w.panic <=> c.panic)
  BY <1>1 DEF Scanned
<1>5. c.free \in Int /\ w.free \in Int /\ w \in CoreType
  BY <1>3, BodyParts, CoreParts
<1>6. CASE ~LoadReady(i)
  <2>1. d = w
    BY <1>1, <1>6
  <2>2. d.free >= c.free - (k + 1) /\ (c.free >= k + 1 => c.free >= k)
    BY <1>2, <1>4, <1>5, <2>1
  <2>3. \A j \in 1 .. N : j > k + 1 => j > k
    BY <1>2
  <2>4. QED
    BY <1>1, <1>3, <1>4, <2>1, <2>2, <2>3 DEF Scanned
<1>7. CASE LoadReady(i)
  <2>1. d = readyq_enqueue(w, x)
    BY <1>1, <1>7
  <2>2. /\ IsLoad(station, x) /\ ~station[x].queued /\ ~station[x].issued
        /\ OPERANDS_READY(station[x])
    BY <1>1, <1>7 DEF LoadReady
  <2>3. x \in Stations /\ x \in W
    BY <1>1, <1>2 DEF Flight
  <2>4. LoadOK(c.st, W, x)
    BY <1>1, <1>2, <1>7, CoreParts, ReadyMayGo
  <2>5. Readier(c.st, w.st, W)
    BY <1>4 DEF Readier
  <2>6. LoadOK(w.st, W, x)
    <3>1. PICK st, st2 : st = c.st /\ st2 = w.st
      OBVIOUS
    <3>2. /\ st \in [Stations -> StationType] /\ SameOps(st, st2) /\ LoadOK(st, W, x)
          /\ Readier(st, st2, W)
      BY <1>4, <2>4, <2>5, <3>1, CoreParts
    <3>3. \A y \in W \ W : \A o \in W : st[y].seq < st[x].seq => st[y].seq < st[o].seq
      OBVIOUS
    <3>4. LoadOK(st2, W, x)
      BY <2>3, <3>2, <3>3, LoadAfter
    <3>5. QED
      BY <3>1, <3>4
  <2>7. ~w.st[x].queued /\ ~w.st[x].issued
    BY <1>1, <1>2, <1>4, <2>2, <2>3
  <2>8. OPERANDS_READY(w.st[x])
    BY <1>4, <2>2, <2>3 DEF OPERANDS_READY, Operands
  <2>9. Queued(p, w, d, <<>>, W, sq, v, {}, {}, x)
    <3>1. PICK none, iss : none = {} /\ iss = <<>>
      OBVIOUS
    <3>2. none \subseteq none \cup {x} /\ none \subseteq none /\ Body(p, w, iss, W, sq, v, none, none)
      BY <1>3, <3>1
    <3>3. Queued(p, w, d, iss, W, sq, v, none, none, x)
      BY <2>1, <2>3, <2>6, <2>7, <2>8, <3>2, QueueOne
    <3>4. QED
      BY <3>1, <3>3
  <2>10. /\ Body(p, d, <<>>, W, sq, v, {}, {}) /\ Marked(w.st, d.st, x)
         /\ Total(d, <<>>) = Total(w, <<>>) /\ d.free = w.free - 1
         /\ (d.panic <=> w.panic \/ w.free = 0)
    BY <2>9 DEF Queued
  <2>11. SameOps(c.st, d.st)
    <3>1. PICK st, st1, st2 : st = c.st /\ st1 = w.st /\ st2 = d.st
      OBVIOUS
    <3>2. SameOps(st, st1) /\ SameOps(st1, st2)
      BY <1>4, <2>10, <3>1 DEF Marked
    <3>3. SameOps(st, st2)
      BY <3>2 DEF SameOps
    <3>4. QED
      BY <3>1, <3>3
  <2>12. \A o \in Stations : /\ d.st[o].issued <=> c.st[o].issued
                             /\ d.st[o].completed <=> c.st[o].completed
                             /\ \A m \in Operands : d.st[o].idep_ready[m] <=> c.st[o].idep_ready[m]
    BY <1>4, <2>10 DEF Marked
  <2>13. \A j \in 1 .. N : j > k + 1 => (d.st[LSQEntries[j]].queued <=> c.st[LSQEntries[j]].queued)
    <3>1. ASSUME NEW j \in 1 .. N, j > k + 1
          PROVE  d.st[LSQEntries[j]].queued <=> c.st[LSQEntries[j]].queued
      <4>1. j > k /\ LSQEntries[j] # x /\ LSQEntries[j] \in Stations
        BY <1>1, <1>2, <3>1
      <4>2. d.st[LSQEntries[j]].queued <=> w.st[LSQEntries[j]].queued
        BY <2>10, <4>1 DEF Marked
      <4>3. QED
        BY <1>4, <4>1, <4>2
    <3>2. QED
      BY <3>1
  <2>14. d.free >= c.free - (k + 1) /\ (c.free >= k + 1 => c.free >= k /\ w.free # 0)
    BY <1>2, <1>4, <1>5, <2>10
  <2>15. QED
    BY <1>1, <1>4, <2>10, <2>11, <2>12, <2>13, <2>14 DEF Scanned
<1>8. QED
  BY <1>6, <1>7

\* The loads that may go were queued; issuing is then empty.
LEMMA ScanIs ==
  ASSUME RingOK(queue, "LSQ"), InOrder(station, queue, "LSQ"), NEW c, c = Core,
         NEW W, W = Flight(queue), NEW p, NEW sq, NEW v, Body(p, c, <<>>, W, sq, v, {}, {})
  PROVE  Scanned(p, c, Refreshed, W, sq, v, queue["LSQ"].num)
<1> DEFINE num == queue["LSQ"].num
           Scanning(f) == f = [i \in 0 .. num |->
                                 IF i = 0 THEN Core
                                 ELSE IF LoadReady(i) THEN readyq_enqueue(f[i - 1], LSQEntries[i])
                                 ELSE f[i - 1]]
           scanned == CHOOSE f : Scanning(f)
           step == [y \in Nat \X CoreType |->
                      IF y[1] < num /\ LoadReady(y[1] + 1) THEN readyq_enqueue(y[2], LSQEntries[y[1] + 1])
                      ELSE y[2]]
<1>1. PICK N : N = num
  OBVIOUS
<1>2. N \in Nat /\ \A i \in 1 .. N : LSQEntries[i] \in Stations
  BY <1>1, LSQEntriesAre
<1>3. c \in CoreType /\ c.st = station /\ W \in SUBSET Stations
  BY BodyParts DEF Core
<1>4. step \in [Nat \X CoreType -> CoreType]
  <2>1. ASSUME NEW y \in Nat \X CoreType
        PROVE  (IF y[1] < num /\ LoadReady(y[1] + 1) THEN readyq_enqueue(y[2], LSQEntries[y[1] + 1])
                ELSE y[2]) \in CoreType
    <3>1. CASE y[1] < num /\ LoadReady(y[1] + 1)
      <4>1. y[1] + 1 \in 1 .. N /\ y[2] \in CoreType
        BY <1>1, <1>2, <3>1
      <4>2. LSQEntries[y[1] + 1] \in Stations
        BY <1>2, <4>1
      <4>3. readyq_enqueue(y[2], LSQEntries[y[1] + 1]) \in CoreType
        BY <4>1, <4>2, EnqueueIs DEF Enqueued
      <4>4. QED
        BY <3>1, <4>3
    <3>2. CASE ~(y[1] < num /\ LoadReady(y[1] + 1))
      BY <3>2
    <3>3. QED
      BY <3>1, <3>2
  <2>2. QED
    BY <2>1
<1>5. PICK f \in [0 .. N -> CoreType] : Follows(f, N, c, step)
  <2> HIDE DEF step
  <2>1. QED
    BY <1>2, <1>3, <1>4, Recursion
<1> DEFINE Next1(w, k) == IF LoadReady(k + 1) THEN readyq_enqueue(w, LSQEntries[k + 1]) ELSE w
<1>6. f[0] = c /\ \A k \in 0 .. N - 1 : f[k + 1] = Next1(f[k], k)
  <2>1. \A k \in 0 .. N - 1 : k \in Nat /\ k < num /\ k \in 0 .. N /\ f[k] \in CoreType
    BY <1>1, <1>2
  <2>2. \A k \in 0 .. N - 1 : step[<<k, f[k]>>] = Next1(f[k], k)
    BY <2>1
  <2> HIDE DEF step, Next1
  <2>3. QED
    BY <1>5, <2>2 DEF Follows
<1> HIDE DEF step
<1>7. Scanning(f)
  <2>1. \A k \in 0 .. N : k # 0 => k - 1 \in 0 .. N - 1 /\ (k - 1) + 1 = k
    BY <1>2
  <2>2. \A k \in 0 .. N : f[k] = IF k = 0 THEN Core
                                 ELSE IF LoadReady(k) THEN readyq_enqueue(f[k - 1], LSQEntries[k])
                                 ELSE f[k - 1]
    <3>1. ASSUME NEW k \in 0 .. N, k # 0
          PROVE  f[k] = IF LoadReady(k) THEN readyq_enqueue(f[k - 1], LSQEntries[k]) ELSE f[k - 1]
      <4>1. PICK j \in 0 .. N - 1 : j = k - 1 /\ j + 1 = k
        BY <2>1, <3>1
      <4>2. f[j + 1] = Next1(f[j], j)
        BY <1>6
      <4>3. QED
        BY <4>1, <4>2
    <3>2. QED
      BY <1>6, <3>1
  <2>3. f = [k \in 0 .. N |-> f[k]]
    OBVIOUS
  <2>4. QED
    BY <1>1, <2>2, <2>3
<1>8. Scanning(scanned)
  BY <1>7, Zenon
<1>9. PICK g : g = scanned
  OBVIOUS
<1>10. g[0] = c /\ \A k \in 0 .. N - 1 : g[k + 1] = Next1(g[k], k)
  <2>1. g = [i \in 0 .. N |-> IF i = 0 THEN Core
                              ELSE IF LoadReady(i) THEN readyq_enqueue(g[i - 1], LSQEntries[i])
                              ELSE g[i - 1]]
    BY <1>1, <1>8, <1>9
  <2>2. \A k \in 0 .. N - 1 : k + 1 \in 0 .. N /\ k + 1 # 0 /\ (k + 1) - 1 = k
    BY <1>2
  <2>3. 0 \in 0 .. N
    BY <1>2
  <2>4. g[0] = c
    BY <2>1, <2>3
  <2>5. \A k \in 0 .. N : k # 0 => g[k] = IF LoadReady(k) THEN readyq_enqueue(g[k - 1], LSQEntries[k])
                                          ELSE g[k - 1]
    BY <2>1
  <2>6. QED
    BY <2>2, <2>4, <2>5
<1>11. Refreshed = scanned[num]
  BY Zenon DEF Refreshed, scanned, Scanning, num
<1> DEFINE S == {k \in Nat : k <= N => Scanned(p, c, g[k], W, sq, v, k)}
<1>12. 0 \in S
  <2>1. c.free \in Int /\ c.free - 0 = c.free
    BY <1>3, CoreParts
  <2>2. Scanned(p, c, c, W, sq, v, 0)
    BY <2>1 DEF Scanned, SameOps
  <2>3. QED
    BY <1>10, <2>2
<1>13. ASSUME NEW k \in Nat, k \in S PROVE k + 1 \in S
  <2>1. CASE k + 1 <= N
    <3>1. k \in 0 .. queue["LSQ"].num - 1 /\ k \in 0 .. N - 1
      BY <1>1, <1>2, <2>1
    <3>2. Scanned(p, c, g[k], W, sq, v, k)
      <4>1. k <= N
        BY <1>2, <2>1
      <4>2. QED
        BY <1>13, <4>1
    <3>3. g[k + 1] = Next1(g[k], k)
      BY <1>10, <3>1
    <3>4. PICK w, d : w = g[k] /\ d = g[k + 1]
      OBVIOUS
    <3>5. Scanned(p, c, w, W, sq, v, k) /\ d = IF LoadReady(k + 1) THEN readyq_enqueue(w, LSQEntries[k + 1]) ELSE w
      BY <3>2, <3>3, <3>4
    <3>6. Scanned(p, c, d, W, sq, v, k + 1)
      BY <1>3, <3>1, <3>5, ScanStep
    <3>7. QED
      BY <3>4, <3>6
  <2>2. CASE ~(k + 1 <= N)
    BY <2>2
  <2>3. QED
    BY <2>1, <2>2
<1> HIDE DEF S
<1>14. Nat \subseteq S
  BY <1>12, <1>13, Induction
<1>15. Scanned(p, c, g[N], W, sq, v, N)
  BY <1>2, <1>14 DEF S
<1>16. QED
  BY <1>1, <1>9, <1>11, <1>15

\* The ready list is taken to issue from.
LEMMA TakeList ==
  ASSUME NEW p, NEW c, NEW W, NEW sq, NEW v, Body(p, c, <<>>, W, sq, v, {}, {}),
         NEW d, d = [c EXCEPT !.ready = <<>>], NEW iss, iss = c.ready
  PROVE  /\ d \in CoreType /\ d.st = c.st /\ d.free = c.free /\ d.panic = c.panic
         /\ Body(p, d, iss, W, sq, v, {}, {}) /\ Total(d, iss) = Total(c, <<>>)
<1>1. PICK empty : empty = <<>>
  OBVIOUS
<1>2. empty \in Seq(LinkType) /\ Len(empty) = 0
  BY <1>1
<1>3. c \in CoreType /\ c.free \in Int /\ c.ready \in Seq(LinkType) /\ c.events \in Seq(LinkType)
  BY BodyParts
<1>4. /\ d \in CoreType /\ d.st = c.st /\ d.ready = empty /\ d.events = c.events
      /\ d.free = c.free /\ d.panic = c.panic
  BY <1>1, <1>2, <1>3 DEF CoreType
<1>5. ListsOK(d.st, d.ready, iss, d.events, W, {})
  <2>1. ListsOK(c.st, c.ready, empty, c.events, W, {})
    BY <1>1 DEF Body
  <2>2. QED
    BY <1>4, <2>1 DEF ListsOK
<1>6. Body(p, d, iss, W, sq, v, {}, {})
  BY <1>3, <1>4, <1>5 DEF Body
<1>7. Total(d, iss) = Total(c, empty)
  <2>1. LinksOf(d) = LinksOf(c)
    BY <1>4 DEF LinksOf
  <2>2. LinksOf(c) \in Int /\ Len(c.ready) \in Int /\ Len(c.events) \in Int
    BY <1>2, <1>3, TotalType, LinksAre
  <2>3. QED
    BY <1>2, <1>4, <2>1, <2>2 DEF Total
<1>8. QED
  BY <1>1, <1>4, <1>6, <1>7

\* A link to a squashed operation is dropped from the list that is issued.
LEMMA SkipIs ==
  ASSUME NEW p, NEW c, NEW iss, NEW W, NEW sq, NEW v, Body(p, c, iss, W, sq, v, {}, {}),
         iss # <<>>, ~RSLINK_VALID(c.st, Head(iss)), NEW d, d = RSLINK_FREE(c)
  PROVE  IssuedOne(p, c, d, iss, W, sq, v) /\ d.panic = c.panic
<1>1. c \in CoreType /\ c.free \in Int /\ iss \in Seq(LinkType) /\ c.ready \in Seq(LinkType)
      /\ c.events \in Seq(LinkType)
  BY BodyParts
<1>2. /\ Tail(iss) \in Seq(LinkType) /\ Len(Tail(iss)) = Len(iss) - 1
      /\ Sound(Tail(iss), c.st) /\ In(Tail(iss), c.st) = In(iss, c.st)
  BY TakeIssuing
<1>3. /\ d \in CoreType /\ d.st = c.st /\ d.ready = c.ready /\ d.events = c.events
      /\ d.free = c.free + 1 /\ d.panic = c.panic
  BY <1>1, FreeIs
<1>4. PICK tail : tail = Tail(iss)
  OBVIOUS
<1>5. ListsOK(c.st, c.ready, tail, c.events, W, {})
  <2>1. ListsOK(c.st, c.ready, iss, c.events, W, {})
    BY DEF Body
  <2>2. QED
    BY <1>2, <1>4, <2>1 DEF ListsOK
<1>6. tail \in Seq(LinkType)
  BY <1>2, <1>4
<1>7. Body(p, d, tail, W, sq, v, {}, {})
  BY <1>3, <1>5, <1>6 DEF Body
<1>8. Total(d, tail) = Total(c, iss)
  <2>1. PICK z, m, o : z = 0 /\ m = -1 /\ o = 1
    OBVIOUS
  <2>2. Len(c.ready) \in Int /\ Len(iss) \in Int /\ Len(c.events) \in Int
    BY <1>1, LinksAre
  <2>3. d.free = c.free + o /\ Len(tail) = Len(iss) + m
    BY <1>1, <1>2, <1>3, <1>4, <2>1, <2>2
  <2>4. Len(d.ready) = Len(c.ready) + z /\ Len(d.events) = Len(c.events) + z
    BY <1>3, <2>1, <2>2
  <2>5. z \in Int /\ m \in Int /\ o \in Int /\ o + z + m + z = 0
    BY <2>1
  <2>6. Consumers(d.st, Stations) = Consumers(c.st, Stations)
    BY <1>3
  <2>7. Moved(c, d, iss, tail, o, z, m, z)
    BY <2>3, <2>4, <2>5, <2>6 DEF Moved
  <2>8. d \in CoreType
    BY <1>3
  <2>9. QED
    BY <1>1, <1>6, <2>7, <2>8, TotalMoves
<1>9. SameOps(c.st, d.st) /\ \A o \in Stations : ~IsStore(c.st, o) => (d.st[o].completed <=> c.st[o].completed)
  BY <1>3 DEF SameOps
<1>10. QED
  BY <1>3, <1>4, <1>7, <1>8, <1>9 DEF IssuedOne

-----------------------------------------------------------------------------
(* A squash *)

\* rs was due and is completing.
Ending(p, c, iss, W, sq, v, rs) ==
  rs \in W /\ c.st[rs].issued /\ ~c.st[rs].completed /\ Body(p, c, iss, W, sq, v, {rs}, {})

\* The create vectors without those of the wrong path.
Bare(v) == [cv |-> v.cv, scv |-> v.scv, ucv |-> {}]

LEMMA SquashBody ==
  ASSUME NEW p, NEW c, NEW iss, NEW W, NEW sq, NEW v, NEW rs, Ending(p, c, iss, W, sq, v, rs),
         ~c.st[rs].spec_mode, NEW W2, W2 = Right(c.st, W), NEW X, X = W \ W2,
         NEW d, Squashed(c, d, X), NEW v2, v2 = Bare(v)
  PROVE  Ending(p, d, iss, W2, sq, v2, rs) /\ Total(d, iss) = Total(c, iss)
<1>0. rs \in W /\ Body(p, c, iss, W, sq, v, {rs}, {}) /\ c.st[rs].issued /\ ~c.st[rs].completed
  BY DEF Ending
<1>1. PICK st, st2, ready, events : st = c.st /\ st2 = d.st /\ ready = c.ready /\ events = c.events
  OBVIOUS
<1>2. /\ c \in CoreType /\ st \in [Stations -> StationType] /\ ready \in Seq(LinkType)
      /\ events \in Seq(LinkType) /\ iss \in Seq(LinkType) /\ W \in SUBSET Stations /\ sq \in Nat
  BY <1>0, <1>1, BodyParts
<1>3. /\ d \in CoreType /\ d.ready = ready /\ d.events = events
      /\ SameOps(st, st2) /\ Retagging(st, st2, X)
      /\ \A o \in Stations :
           /\ st2[o].odep_list = IF o \in X THEN <<>> ELSE st[o].odep_list
           /\ st2[o].idep_ready = st[o].idep_ready /\ st2[o].queued = st[o].queued
           /\ st2[o].issued = st[o].issued /\ st2[o].completed = st[o].completed
      /\ LinksOf(d) = LinksOf(c)
  BY <1>1 DEF Squashed
<1>4. st2 \in [Stations -> StationType]
  BY <1>1, <1>3, CoreParts
<1>5. /\ OrderOK(st, W, sq) /\ StatusOK(st, W, {}) /\ ListsOK(st, ready, iss, events, W, {rs})
      /\ DependsOK(p, st, W) /\ VectorsOK(st, W, v.cv, v.scv, v.ucv) /\ LoadsOK(st, W)
  BY <1>0, <1>1 DEF Body
<1>6. /\ W2 \in SUBSET W /\ W2 = Right(st, W)
      /\ \A x \in W2 : ~st[x].spec_mode
      /\ \A x \in W \ W2 : st[x].spec_mode
  BY <1>1 DEF Right
<1>7. Squashing(st, st2, W, W2)
  <2>1. \A x \in W2 : \A y \in W \ W2 : st[x].seq < st[y].seq
    BY <1>5, <1>6 DEF OrderOK
  <2>2. QED
    BY <1>2, <1>3, <1>4, <1>6, <2>1 DEF Squashing
<1>8. OrderOK(st2, W2, sq)
  BY <1>2, <1>3, <1>5, <1>6, SameOrder
<1>9. StatusOK(st2, W2, {})
  <2>1. \A x \in W2 : /\ IsStore(st2, x) <=> IsStore(st, x)
                      /\ IsLoad(st2, x) <=> IsLoad(st, x)
    BY <1>2, <1>3, <1>6 DEF SameOps, IsStore, IsLoad
  <2>2. \A x \in W2 : OPERANDS_READY(st2[x]) <=> OPERANDS_READY(st[x])
    BY <1>2, <1>3, <1>6 DEF OPERANDS_READY
  <2>3. \A x \in W2 : x \in W /\ st2[x].queued = st[x].queued
                      /\ st2[x].issued = st[x].issued /\ st2[x].completed = st[x].completed
    BY <1>2, <1>3, <1>6
  <2>4. QED
    BY <1>5, <2>1, <2>2, <2>3 DEF StatusOK
<1>10. ListsOK(st2, ready, iss, events, W2, {rs})
  <2>1. /\ Sound(ready, st) /\ Sound(iss, st) /\ Sound(events, st)
        /\ In(ready, st) \cap In(iss, st) = {}
        /\ In(ready, st) \cup In(iss, st) = {x \in W : st[x].queued}
        /\ In(events, st) = {x \in W : st[x].issued /\ ~st[x].completed} \ {rs}
    BY <1>5 DEF ListsOK
  <2>2. /\ Sound(ready, st2) /\ In(ready, st2) = In(ready, st) \ X
        /\ Sound(iss, st2) /\ In(iss, st2) = In(iss, st) \ X
        /\ Sound(events, st2) /\ In(events, st2) = In(events, st) \ X
    <3>1. Retagging(st, st2, X) /\ st \in [Stations -> StationType]
      BY <1>2, <1>3
    <3>2. \A list \in Seq(LinkType) : Sound(list, st) =>
            Sound(list, st2) /\ In(list, st2) = In(list, st) \ X
      BY <1>4, <3>1, RetagSound
    <3>3. QED
      BY <1>2, <2>1, <3>2
  <2>3. \A x \in W2 : x \in W /\ x \notin X /\ st2[x].queued = st[x].queued
                      /\ st2[x].issued = st[x].issued /\ st2[x].completed = st[x].completed
    BY <1>2, <1>3, <1>6
  <2>4. \A x \in W : x \in W2 \/ x \in X
    OBVIOUS
  <2>5. {x \in W2 : st2[x].queued} = {x \in W : st[x].queued} \ X
        /\ {x \in W2 : st2[x].issued /\ ~st2[x].completed}
             = {x \in W : st[x].issued /\ ~st[x].completed} \ X
    BY <2>3, <2>4
  <2>6. /\ In(ready, st2) \cap In(iss, st2) = {}
        /\ In(ready, st2) \cup In(iss, st2) = {x \in W2 : st2[x].queued}
        /\ In(events, st2) = {x \in W2 : st2[x].issued /\ ~st2[x].completed} \ {rs}
    BY <2>1, <2>2, <2>5
  <2>7. QED
    BY <2>2, <2>6 DEF ListsOK
<1>11. DependsOK(p, st2, W2)
  BY <1>5, <1>7, SquashDepends
<1>12. VectorsOK(st2, W2, v2.cv, v2.scv, v2.ucv)
  <2>1. PICK cv, scv, ucv, none : cv = v.cv /\ scv = v.scv /\ ucv = v.ucv /\ none = {}
    OBVIOUS
  <2>2. VectorsOK(st2, W2, cv, scv, {})
    BY <1>5, <1>6, <1>7, <2>1, SquashVectors
  <2>3. v2.cv = cv /\ v2.scv = scv /\ v2.ucv = {}
    BY <2>1 DEF Bare
  <2>4. QED
    BY <2>2, <2>3
<1>13. LoadsOK(st2, W2)
  BY <1>5, <1>7, SquashLoads
<1>14. Body(p, d, iss, W2, sq, v2, {rs}, {})
  <2>1. W2 \in SUBSET Stations
    BY <1>2, <1>6
  <2>2. QED
    BY <1>1, <1>2, <1>3, <1>8, <1>9, <1>10, <1>11, <1>12, <1>13, <2>1 DEF Body
<1>15. Total(d, iss) = Total(c, iss)
  BY <1>1, <1>3 DEF Total
<1>16. rs \in W2 /\ rs \in Stations
  BY <1>0, <1>2 DEF Right
<1>17. QED
  BY <1>0, <1>1, <1>3, <1>14, <1>15, <1>16 DEF Ending

-----------------------------------------------------------------------------
(* An operation completes *)

Forgotten(vector, out, rs) ==
  [r \in Names |-> IF r = out /\ vector[r] = rs THEN NULL ELSE vector[r]]
Finished(st, v, v2, rs) ==
  /\ v2.ucv = v.ucv
  /\ st[rs].spec_mode => v2.cv = v.cv /\ v2.scv = Forgotten(v.scv, st[rs].oname, rs)
  /\ ~st[rs].spec_mode => v2.cv = Forgotten(v.cv, st[rs].oname, rs) /\ v2.scv = v.scv

LEMMA FinishedForgets ==
  ASSUME NEW st, NEW W, NEW sq, OrderOK(st, W, sq), NEW rs \in W, W \in SUBSET Stations,
         st \in [Stations -> StationType],
         NEW v, VectorsOK(st, W, v.cv, v.scv, v.ucv), NEW v2, Finished(st, v, v2, rs)
  PROVE  /\ DOMAIN v2.cv = Names /\ DOMAIN v2.scv = Names /\ v2.ucv = v.ucv
         /\ Forgetting(v.cv, v2.cv, Names, {rs}) /\ Forgetting(v.scv, v2.scv, v.ucv, {rs})
<1>1. PICK cv, scv, ucv : cv = v.cv /\ scv = v.scv /\ ucv = v.ucv
  OBVIOUS
<1>2. /\ DOMAIN cv = Names /\ DOMAIN scv = Names /\ ucv = Wrong(st, W)
      /\ \A r \in Names : Named(st, Right(st, W), r, cv[r])
      /\ \A r \in ucv : Named(st, W, r, scv[r])
  BY <1>1 DEF VectorsOK
<1>3. \A r \in Names : cv[r] = rs => st[rs].oname = r /\ ~st[rs].spec_mode
  BY <1>2 DEF Named, Creates, Right
<1>4. \A r \in ucv : r \in Names /\ (scv[r] = rs => st[rs].oname = r /\ st[rs].spec_mode)
  <2>1. ASSUME NEW r \in ucv, scv[r] = rs PROVE st[rs].oname = r /\ st[rs].spec_mode
    <3>1. PICK x \in W : st[x].spec_mode /\ st[x].oname = r
      BY <1>2 DEF Wrong
    <3>2. Creates(st, W, r, rs)
      BY <1>2, <2>1 DEF Named
    <3>3. st[x].seq <= st[rs].seq /\ st[rs].oname = r
      BY <3>1, <3>2 DEF Creates
    <3>4. st[x].seq \in Nat /\ st[rs].seq \in Nat /\ st[rs].spec_mode \in BOOLEAN
      BY StationParts
    <3>5. ~st[rs].spec_mode => st[rs].seq < st[x].seq
      BY <3>1 DEF OrderOK
    <3>6. QED
      BY <3>3, <3>4, <3>5
  <2>2. ucv \subseteq Names
    BY <1>2 DEF Wrong
  <2>3. QED
    BY <2>1, <2>2
<1>5. CASE st[rs].spec_mode
  <2>1. v2.cv = cv /\ v2.ucv = ucv
        /\ v2.scv = [r \in Names |-> IF r = st[rs].oname /\ scv[r] = rs THEN NULL ELSE scv[r]]
    BY <1>1, <1>5 DEF Finished, Forgotten
  <2>2. \A r \in Names : cv[r] # rs
    BY <1>3, <1>5
  <2>3. DOMAIN v2.scv = Names
    BY <2>1
  <2>4. \A r \in ucv : v2.scv[r] = IF scv[r] \in {rs} THEN NULL ELSE scv[r]
    BY <1>4, <2>1
  <2>5. QED
    BY <1>1, <1>2, <2>1, <2>2, <2>3, <2>4 DEF Forgetting
<1>6. CASE ~st[rs].spec_mode
  <2>1. v2.scv = scv /\ v2.ucv = ucv
        /\ v2.cv = [r \in Names |-> IF r = st[rs].oname /\ cv[r] = rs THEN NULL ELSE cv[r]]
    BY <1>1, <1>6 DEF Finished, Forgotten
  <2>2. \A r \in ucv : scv[r] # rs
    BY <1>4, <1>6
  <2>3. DOMAIN v2.cv = Names
    BY <2>1
  <2>4. \A r \in Names : v2.cv[r] = IF cv[r] \in {rs} THEN NULL ELSE cv[r]
    BY <1>3, <2>1
  <2>5. QED
    BY <1>1, <1>2, <2>1, <2>2, <2>3, <2>4 DEF Forgetting
<1>7. QED
  BY <1>5, <1>6

\* And then it has completed.
Ended(p, c, d, iss, W, sq, v, rs) ==
  /\ d \in CoreType /\ Body(p, d, iss, W, sq, v, {}, {})
  /\ Total(d, iss) = Total(c, iss)
  /\ SameOps(c.st, d.st)
  /\ \A o \in Stations : d.st[o].completed <=> c.st[o].completed \/ o = rs
  /\ c.free >= 1 => (d.panic <=> c.panic)

LEMMA FinishBody ==
  ASSUME NEW p, NEW c, NEW iss, NEW W, NEW sq, NEW v, NEW rs, Ending(p, c, iss, W, sq, v, rs),
         NEW d, d = Broadcast(c, rs), NEW v2, Finished(c.st, v, v2, rs)
  PROVE  Ended(p, c, d, iss, W, sq, v2, rs)
<1>0. rs \in W /\ Body(p, c, iss, W, sq, v, {rs}, {}) /\ c.st[rs].issued /\ ~c.st[rs].completed
  BY DEF Ending
<1>1. PICK st, ready, events, L : st = c.st /\ ready = c.ready /\ events = c.events /\ L = st[rs].odep_list
  OBVIOUS
<1>2. /\ c \in CoreType /\ st \in [Stations -> StationType] /\ ready \in Seq(LinkType)
      /\ events \in Seq(LinkType) /\ iss \in Seq(LinkType) /\ W \in SUBSET Stations /\ sq \in Nat
      /\ rs \in Stations /\ L \in Seq(LinkType) /\ c.free \in Int
  BY <1>0, <1>1, BodyParts, StationParts
<1>3. /\ OrderOK(st, W, sq) /\ StatusOK(st, W, {}) /\ ListsOK(st, ready, iss, events, W, {rs})
      /\ DependsOK(p, st, W) /\ VectorsOK(st, W, v.cv, v.scv, v.ucv)
  BY <1>0, <1>1 DEF Body
<1>4. /\ SoundUses(L, st)
      /\ \A x \in Stations : \A k \in Operands :
           <<x, k>> \in Uses(L, st) <=> x \in W /\ Awaits(p, st, W, x, k, rs)
  BY <1>1, <1>2, <1>3 DEF DependsOK, ConsumersOK
<1>5. PICK G : G = Uses(L, st)
  OBVIOUS
<1>6. ASSUME NEW x \in Stations, NEW k \in Operands, <<x, k>> \in G
      PROVE  x \in W /\ ~st[x].idep_ready[k] /\ ~st[x].queued /\ ~st[x].issued /\ ~st[x].completed
  <2>1. x \in W /\ Awaits(p, st, W, x, k, rs)
    BY <1>4, <1>5, <1>6
  <2>2. ~st[x].idep_ready[k]
    BY <1>0, <1>3, <2>1 DEF DependsOK, OperandsOK
  <2>3. ~OPERANDS_READY(st[x])
    BY <2>2 DEF OPERANDS_READY, Operands
  <2>4. QED
    BY <1>3, <2>1, <2>2, <2>3 DEF StatusOK
<1>7. /\ Sound(ready, st) /\ Sound(iss, st) /\ Sound(events, st)
      /\ In(ready, st) \cap In(iss, st) = {}
      /\ In(ready, st) \cup In(iss, st) = {x \in W : st[x].queued}
      /\ In(events, st) = {x \in W : st[x].issued /\ ~st[x].completed} \ {rs}
  BY <1>3 DEF ListsOK
<1>8. Waiting(c, c.st[rs].odep_list)
  <2>1. ASSUME NEW u \in Uses(L, st)
        PROVE  ~st[u[1]].idep_ready[u[2]] /\ ~st[u[1]].queued /\ u[1] \notin In(ready, st)
    <3>1. PICK x \in Stations, k \in Operands : u = <<x, k>>
      BY DEF Uses, UsesUpTo
    <3>2. x \in W /\ ~st[x].idep_ready[k] /\ ~st[x].queued
      BY <1>5, <1>6, <2>1, <3>1
    <3>3. x \notin In(ready, st)
      BY <1>7, <3>2
    <3>4. QED
      BY <3>1, <3>2, <3>3
  <2>2. QED
    BY <1>1, <2>1 DEF Waiting
<1>9. Broadcasted(c, d, rs)
  BY <1>1, <1>2, <1>4, <1>7, <1>8, BroadcastIs
<1>10. PICK st2 : st2 = d.st
  OBVIOUS
<1>11. /\ d \in CoreType /\ d.events = events
       /\ Given(st, st2, rs, G)
       /\ Sound(d.ready, st2) /\ In(d.ready, st2) = In(ready, st) \cup Woken(st, G)
       /\ d.free + Len(d.ready) = c.free + Len(ready) + Len(L) /\ d.free >= c.free
       /\ c.free >= 1 => (d.panic <=> c.panic)
  <2>1. Waking(c, d, rs, L, Len(L)) /\ UsesUpTo(L, st, Len(L)) = G
    BY <1>1, <1>5, <1>9 DEF Broadcasted, Uses
  <2>2. QED
    BY <1>1, <1>10, <2>1 DEF Waking
<1>12. st2 \in [Stations -> StationType]
  BY <1>10, <1>11, CoreParts
<1>13. /\ SameOps(st, st2) /\ SameTags(st, st2)
       /\ \A o \in Stations :
            /\ st2[o].odep_list = IF o = rs THEN <<>> ELSE st[o].odep_list
            /\ st2[o].issued <=> st[o].issued
            /\ st2[o].completed <=> st[o].completed \/ o = rs
            /\ \A k \in Operands : st2[o].idep_ready[k] <=> st[o].idep_ready[k] \/ <<o, k>> \in G
            /\ st2[o].queued <=> st[o].queued \/ o \in Woken(st, G)
  BY <1>11 DEF Given
<1>14. PICK C : C = {rs}
  OBVIOUS
<1>15. Completing(st, st2, C) /\ Giving(st, st2, W, C)
  <2>1. Completing(st, st2, C)
    BY <1>2, <1>12, <1>13, <1>14 DEF Completing
  <2>2. \A o \in Stations : /\ o \in C => st2[o].odep_list = <<>>
                            /\ o \notin C => st2[o].odep_list = st[o].odep_list
    BY <1>13, <1>14
  <2>3. \A x \in W : \A k \in Operands :
          st2[x].idep_ready[k] <=>
            st[x].idep_ready[k] \/ \E o \in C : <<x, k>> \in Uses(st[o].odep_list, st)
    BY <1>1, <1>2, <1>5, <1>13, <1>14
  <2>4. QED
    BY <2>1, <2>2, <2>3 DEF Giving
<1>16. \A x \in Stations : x \in Woken(st, G) =>
         /\ ~IsLoad(st, x) /\ x \in W /\ x # rs /\ OPERANDS_READY(st2[x])
         /\ ~st[x].queued /\ ~st[x].issued /\ ~st[x].completed
  <2>1. ASSUME NEW x \in Stations, x \in Woken(st, G)
        PROVE  /\ ~IsLoad(st, x) /\ x \in W /\ x # rs /\ OPERANDS_READY(st2[x])
               /\ ~st[x].queued /\ ~st[x].issued /\ ~st[x].completed
    <3>1. PICK k \in Operands : <<x, k>> \in G
      BY <2>1 DEF Woken
    <3>2. x \in W /\ ~st[x].queued /\ ~st[x].issued /\ ~st[x].completed
      BY <1>6, <3>1
    <3>3. ~IsLoad(st, x) /\ \A m \in Operands : st[x].idep_ready[m] \/ <<x, m>> \in G
      BY <2>1 DEF Woken
    <3>4. OPERANDS_READY(st2[x])
      BY <1>13, <3>3 DEF OPERANDS_READY, Operands
    <3>5. QED
      BY <1>0, <1>1, <3>2, <3>3, <3>4
  <2>2. QED
    BY <2>1
<1>17. \A x \in Stations : IsStore(st2, x) = IsStore(st, x) /\ IsLoad(st2, x) = IsLoad(st, x)
  BY <1>13 DEF SameOps, IsStore, IsLoad
<1>18. StatusOK(st2, W, {})
  <2>1. ASSUME NEW x \in W
        PROVE  /\ st2[x].queued => ~st2[x].issued
               /\ st2[x].queued \/ st2[x].issued => OPERANDS_READY(st2[x])
               /\ st2[x].completed => st2[x].issued
               /\ IsStore(st2, x) /\ st2[x].issued => st2[x].completed
               /\ OPERANDS_READY(st2[x]) => st2[x].queued \/ st2[x].issued \/ IsLoad(st2, x)
    <3>1. /\ st[x].queued => ~st[x].issued
          /\ st[x].queued \/ st[x].issued => OPERANDS_READY(st[x])
          /\ st[x].completed => st[x].issued
          /\ IsStore(st, x) /\ st[x].issued => st[x].completed
          /\ OPERANDS_READY(st[x]) => st[x].queued \/ st[x].issued \/ IsLoad(st, x)
      BY <1>3 DEF StatusOK
    <3>2. x \in Stations
      BY <1>2
    <3>3. OPERANDS_READY(st[x]) => OPERANDS_READY(st2[x])
      BY <1>13, <3>2 DEF OPERANDS_READY, Operands
    <3>4. OPERANDS_READY(st2[x]) /\ ~OPERANDS_READY(st[x]) => IsLoad(st, x) \/ x \in Woken(st, G)
      BY <1>13, <3>2 DEF OPERANDS_READY, Operands, Woken
    <3>5. /\ st2[x].issued <=> st[x].issued
          /\ st2[x].completed <=> st[x].completed \/ x = rs
          /\ st2[x].queued <=> st[x].queued \/ x \in Woken(st, G)
      BY <1>13, <3>2
    <3>6. st[rs].issued
      BY <1>0, <1>1
    <3>7. QED
      BY <1>16, <1>17, <3>1, <3>2, <3>3, <3>4, <3>5, <3>6
  <2>2. QED
    BY <2>1 DEF StatusOK
<1>19. ListsOK(st2, d.ready, iss, d.events, W, {})
  <2>1. SameTags(st, st2)
    BY <1>13
  <2>2. /\ Sound(iss, st2) /\ In(iss, st2) = In(iss, st)
        /\ Sound(events, st2) /\ In(events, st2) = In(events, st)
    BY <1>2, <1>7, <2>1, SameTagsSound
  <2>3. \A x \in W : /\ st2[x].queued <=> st[x].queued \/ x \in Woken(st, G)
                     /\ st2[x].issued /\ ~st2[x].completed <=>
                          st[x].issued /\ ~st[x].completed /\ x # rs
    BY <1>0, <1>2, <1>13
  <2>4. Woken(st, G) \subseteq W /\ Woken(st, G) \cap In(iss, st) = {}
    <3>1. Woken(st, G) \subseteq Stations
      BY DEF Woken
    <3>2. QED
      BY <1>7, <1>16, <3>1
  <2>5. {x \in W : st2[x].queued} = {x \in W : st[x].queued} \cup Woken(st, G)
        /\ {x \in W : st2[x].issued /\ ~st2[x].completed} = {x \in W : st[x].issued /\ ~st[x].completed} \ {rs}
    BY <2>3, <2>4
  <2>6. In(d.ready, st2) \cap In(iss, st2) = {}
        /\ In(d.ready, st2) \cup In(iss, st2) = {x \in W : st2[x].queued}
        /\ In(events, st2) = {x \in W : st2[x].issued /\ ~st2[x].completed} \ {}
    BY <1>7, <1>11, <2>2, <2>4, <2>5
  <2>7. Sound(d.ready, st2) /\ d.events = events
    BY <1>11
  <2>8. QED
    BY <2>2, <2>6, <2>7 DEF ListsOK
<1>20. \A x \in W : IsLoad(st, x) /\ (st2[x].queued \/ st2[x].issued) =>
                      st[x].queued \/ st[x].issued \/ LoadOK(st, W, x)
  BY <1>2, <1>13, <1>16
<1>21. /\ DOMAIN v2.cv = Names /\ DOMAIN v2.scv = Names /\ v2.ucv = v.ucv
       /\ Forgetting(v.cv, v2.cv, Names, C) /\ Forgetting(v.scv, v2.scv, v.ucv, C)
  <2>1. Finished(st, v, v2, rs)
    BY <1>1
  <2>2. /\ DOMAIN v2.cv = Names /\ DOMAIN v2.scv = Names /\ v2.ucv = v.ucv
        /\ Forgetting(v.cv, v2.cv, Names, {rs}) /\ Forgetting(v.scv, v2.scv, v.ucv, {rs})
    BY <1>0, <1>2, <1>3, <2>1, FinishedForgets
  <2>3. QED
    BY <1>14, <2>2
<1>22. Body(p, d, iss, W, sq, v2, {}, {})
  <2>1. C \in SUBSET Stations /\ d \in CoreType /\ iss \in Seq(LinkType)
    BY <1>2, <1>11, <1>14
  <2>2. Completing(c.st, d.st, C) /\ Giving(c.st, d.st, W, C) /\ SameTags(c.st, d.st)
    BY <1>1, <1>10, <1>13, <1>15
  <2>3. StatusOK(d.st, W, {}) /\ ListsOK(d.st, d.ready, iss, d.events, W, {})
    BY <1>10, <1>18, <1>19
  <2>4. \A x \in W : IsLoad(c.st, x) /\ (d.st[x].queued \/ d.st[x].issued) =>
                       c.st[x].queued \/ c.st[x].issued \/ LoadOK(c.st, W, x)
    BY <1>1, <1>10, <1>20
  <2>5. PICK D, E : D = {rs} /\ E = {}
    OBVIOUS
  <2>6. Body(p, c, iss, W, sq, v, D, E)
    BY <1>0, <2>5
  <2>7. QED
    BY <1>21, <2>1, <2>2, <2>3, <2>4, <2>6, BodyCompletes
<1>23. Total(d, iss) = Total(c, iss)
  <2>1. PICK m, m2 : m = Cardinality(Consumers(st, Stations)) /\ m2 = Cardinality(Consumers(st2, Stations))
    OBVIOUS
  <2>2. m \in Int /\ m2 \in Int
    BY <1>1, <1>2, <1>10, <1>11, <2>1, TotalType
  <2>3. \A o \in Stations \ {rs} : st2[o].odep_list = st[o].odep_list
    BY <1>13
  <2>4. m2 = m - Len(st[rs].odep_list) + Len(st2[rs].odep_list)
    BY <1>2, <1>12, <2>1, <2>3, ConsumersChange
  <2>5. Len(st2[rs].odep_list) = 0
    BY <1>2, <1>13
  <2>6. Len(L) \in Int /\ Len(ready) \in Int /\ Len(iss) \in Int /\ Len(events) \in Int
    BY <1>2, LinksAre
  <2>7. d.free \in Int /\ Len(d.ready) \in Int
    BY <1>11, CoreParts, LinksAre
  <2>8. m2 = m - Len(L)
    BY <1>1, <2>2, <2>4, <2>5, <2>6
  <2>9. Total(d, iss) = d.free + m2 + Len(d.ready) + Len(iss) + Len(events)
        /\ Total(c, iss) = c.free + m + Len(ready) + Len(iss) + Len(events)
    BY <1>1, <1>10, <1>11, <2>1 DEF Total, LinksOf
  <2>10. d.free + Len(d.ready) = c.free + Len(ready) + Len(L)
    BY <1>11
  <2>11. PICK f, r, f2, r2, l, a, b :
           /\ f = c.free /\ r = Len(ready) /\ f2 = d.free /\ r2 = Len(d.ready) /\ l = Len(L)
           /\ a = Len(iss) /\ b = Len(events)
    OBVIOUS
  <2>12. f \in Int /\ r \in Int /\ f2 \in Int /\ r2 \in Int /\ l \in Int /\ a \in Int /\ b \in Int
    BY <1>2, <2>6, <2>7, <2>11
  <2>13. /\ f2 + r2 = f + r + l /\ m2 = m - l
         /\ Total(d, iss) = f2 + m2 + r2 + a + b /\ Total(c, iss) = f + m + r + a + b
    BY <2>8, <2>9, <2>10, <2>11
  <2>14. QED
    BY <2>2, <2>12, <2>13
<1>24. QED
  BY <1>1, <1>10, <1>11, <1>13, <1>22, <1>23 DEF Ended

-----------------------------------------------------------------------------
(* An operation is dispatched *)

Creator(v, r) == IF r = NA THEN NULL ELSE IF r \in v.ucv THEN v.scv[r] ELSE v.cv[r]

\* The create vectors name, of all operations, the last writer.
LEMMA CreatorIs ==
  ASSUME NEW st, NEW W, NEW v, VectorsOK(st, W, v.cv, v.scv, v.ucv), NEW r \in Names
  PROVE  Named(st, W, r, Creator(v, r))
<1>1. PICK cv, scv, ucv : cv = v.cv /\ scv = v.scv /\ ucv = v.ucv
  OBVIOUS
<1>2. r # NA
  BY NamesAre
<1>3. /\ ucv = Wrong(st, W) /\ Named(st, Right(st, W), r, cv[r])
      /\ r \in ucv => Named(st, W, r, scv[r])
  BY <1>1 DEF VectorsOK
<1>4. CASE r \in ucv
  BY <1>1, <1>2, <1>3, <1>4 DEF Creator
<1>5. CASE r \notin ucv
  <2>1. Creator(v, r) = cv[r]
    BY <1>1, <1>2, <1>5 DEF Creator
  <2>2. \A x \in W : st[x].oname = r => x \in Right(st, W)
    BY <1>3, <1>5 DEF Wrong, Right
  <2>3. \A x \in Right(st, W) : x \in W
    BY DEF Right
  <2>4. \A o \in Stations : Creates(st, W, r, o) <=> Creates(st, Right(st, W), r, o)
    BY <2>2, <2>3 DEF Creates
  <2>5. QED
    BY <1>3, <2>1, <2>4 DEF Named
<1>6. QED
  BY <1>4, <1>5

\* rs is now the creator of r.
Installs(v, v2, r, rs, spec) ==
  /\ spec => /\ v2.cv = v.cv /\ Installing(v.scv, v2.scv, r, rs)
             /\ v2.ucv = v.ucv \cup ({r} \cap Names)
  /\ ~spec => v2.scv = v.scv /\ v2.ucv = v.ucv /\ Installing(v.cv, v2.cv, r, rs)

\* The creators of rs's operands are those that the create vectors name.
FromVectors(p, st, v, rs, creators) ==
  \A k \in Operands :
    /\ Reads(p, st, rs, k) = NA => creators[k + 1] = NULL
    /\ Reads(p, st, rs, k) # NA => /\ Reads(p, st, rs, k) \in Names
                                   /\ creators[k + 1] = Creator(v, Reads(p, st, rs, k))

\* Nothing in W is on the wrong path, unless spec.
RightSoFar(st, W, spec) == ~spec => \A x \in W : ~st[x].spec_mode

LEMMA EnterBody ==
  ASSUME NEW p, NEW c, NEW iss, NEW W, NEW sq, NEW v, NEW E, Body(p, c, iss, W, sq, v, {}, E),
         NEW d, NEW rs, NEW s, NEW creators, NEW pc, NEW spec \in BOOLEAN,
         Entered(c, d, W, rs, s, creators, pc, spec),
         FromVectors(p, d.st, v, rs, creators),
         NEW v2, Installs(v, v2, s.oname, rs, spec),
         NEW sq2 \in Nat, sq <= sq2, s.seq = sq2,
         RightSoFar(c.st, W, spec)
  PROVE  Body(p, d, iss, W \cup {rs}, sq2, v2, {}, E \cup {rs}) /\ Total(d, iss) = Total(c, iss)
<1>1. PICK st, st2, ready, events : st = c.st /\ st2 = d.st /\ ready = c.ready /\ events = c.events
  OBVIOUS
<1>2. /\ c \in CoreType /\ st \in [Stations -> StationType] /\ ready \in Seq(LinkType)
      /\ events \in Seq(LinkType) /\ iss \in Seq(LinkType) /\ W \in SUBSET Stations /\ sq \in Nat
  BY <1>1, BodyParts
<1>3. /\ d \in CoreType /\ d.ready = ready /\ d.events = events
      /\ Entering(st, st2, W, rs, creators)
      /\ IsOperation(st2[rs], s, pc, spec) /\ LinksOf(d) = LinksOf(c)
  BY <1>1 DEF Entered
<1>4. /\ OrderOK(st, W, sq) /\ StatusOK(st, W, E) /\ ListsOK(st, ready, iss, events, W, {})
      /\ DependsOK(p, st, W) /\ VectorsOK(st, W, v.cv, v.scv, v.ucv) /\ LoadsOK(st, W)
  BY <1>1 DEF Body
<1>5. st2[rs].oname = s.oname /\ st2[rs].seq = sq2 /\ st2[rs].spec_mode = spec
  BY <1>3 DEF IsOperation
<1>6. ~st2[rs].spec_mode => \A x \in W : ~st[x].spec_mode
  BY <1>1, <1>5 DEF RightSoFar
<1>7. OrderOK(st2, W \cup {rs}, sq2)
  <2>1. sq \in Nat /\ st2[rs].seq <= sq2
    BY <1>2, <1>5
  <2>2. QED
    BY <1>3, <1>4, <1>6, <2>1, EnterOrder
<1>8. StatusOK(st2, W \cup {rs}, E \cup {rs})
  BY <1>3, <1>4, EnterStatus
<1>9. ListsOK(st2, ready, iss, events, W \cup {rs}, {})
  BY <1>2, <1>3, <1>4, EnterLists
<1>10. ASSUME NEW k \in Operands
       PROVE  /\ creators[k + 1] \in Stations \cup {NULL}
              /\ \A o \in Stations : creators[k + 1] = o <=>
                   Reads(p, st2, rs, k) # NA /\ Creates(st, W, Reads(p, st2, rs, k), o)
  <2>1. PICK r : r = Reads(p, st2, rs, k)
    OBVIOUS
  <2>2. CASE r = NA
    <3>1. creators[k + 1] = NULL
      BY <1>1, <2>1, <2>2 DEF FromVectors
    <3>2. QED
      BY <2>1, <2>2, <3>1, StationsFinite
  <2>3. CASE r # NA
    <3>1. r \in Names /\ creators[k + 1] = Creator(v, r)
      BY <1>1, <2>1, <2>3 DEF FromVectors
    <3>2. Named(st, W, r, Creator(v, r))
      BY <1>4, <3>1, CreatorIs
    <3>3. QED
      BY <2>1, <2>3, <3>1, <3>2 DEF Named
  <2>4. QED
    BY <2>2, <2>3
<1>11. DependsOK(p, st2, W \cup {rs})
  <2>1. \A k \in Operands : creators[k + 1] \in Stations \cup {NULL}
    BY <1>10
  <2>2. \A k \in Operands : \A o \in Stations :
           creators[k + 1] = o <=>
             Reads(p, st2, rs, k) # NA /\ Creates(st, W, Reads(p, st2, rs, k), o)
    BY <1>10
  <2>3. QED
    BY <1>3, <1>4, <2>1, <2>2, EnterDepends
<1>12. VectorsOK(st2, W \cup {rs}, v2.cv, v2.scv, v2.ucv)
  <2>1. PICK cv, scv, ucv, cv2, scv2, ucv2 :
          /\ cv = v.cv /\ scv = v.scv /\ ucv = v.ucv
          /\ cv2 = v2.cv /\ scv2 = v2.scv /\ ucv2 = v2.ucv
    OBVIOUS
  <2>2. VectorsOK(st, W, cv, scv, ucv)
    BY <1>4, <2>1
  <2>3. st2[rs].spec_mode =>
           cv2 = cv /\ Installing(scv, scv2, st2[rs].oname, rs)
           /\ ucv2 = ucv \cup ({st2[rs].oname} \cap Names)
    BY <1>5, <2>1 DEF Installs
  <2>4. ~st2[rs].spec_mode =>
           /\ scv2 = scv /\ ucv2 = ucv /\ Installing(cv, cv2, st2[rs].oname, rs)
           /\ \A x \in W : ~st[x].spec_mode
    BY <1>5, <1>6, <2>1 DEF Installs
  <2>5. VectorsOK(st2, W \cup {rs}, cv2, scv2, ucv2)
    BY <1>3, <2>2, <2>3, <2>4, EnterVectors
  <2>6. QED
    BY <2>1, <2>5
<1>13. LoadsOK(st2, W \cup {rs})
  BY <1>3, <1>4, EnterLoads
<1>14. Body(p, d, iss, W \cup {rs}, sq2, v2, {}, E \cup {rs})
  <2>1. PICK V : V = W \cup {rs}
    OBVIOUS
  <2>2. V \in SUBSET Stations
    BY <1>3, <2>1 DEF Entering
  <2>3. /\ OrderOK(st2, V, sq2) /\ StatusOK(st2, V, E \cup {rs}) /\ ListsOK(st2, ready, iss, events, V, {})
        /\ DependsOK(p, st2, V) /\ VectorsOK(st2, V, v2.cv, v2.scv, v2.ucv) /\ LoadsOK(st2, V)
    BY <1>7, <1>8, <1>9, <1>11, <1>12, <1>13, <2>1
  <2>4. Body(p, d, iss, V, sq2, v2, {}, E \cup {rs})
    BY <1>1, <1>2, <1>3, <2>2, <2>3 DEF Body
  <2>5. QED
    BY <2>1, <2>4
<1>15. Total(d, iss) = Total(c, iss)
  BY <1>1, <1>3 DEF Total
<1>16. QED
  BY <1>14, <1>15

-----------------------------------------------------------------------------
(* Operations retire, and a cycle ends *)

\* From c to d, the operations of X leave their stations.
Retires(c, d, X) ==
  /\ d \in CoreType /\ d.ready = c.ready /\ d.events = c.events /\ d.free = c.free
  /\ SameOps(c.st, d.st) /\ Retagging(c.st, d.st, X)
  /\ \A o \in Stations :
       /\ d.st[o].odep_list = c.st[o].odep_list /\ d.st[o].idep_ready = c.st[o].idep_ready
       /\ d.st[o].queued = c.st[o].queued /\ d.st[o].issued = c.st[o].issued
       /\ d.st[o].completed = c.st[o].completed

LEMMA RetireBody ==
  ASSUME NEW p, NEW c, NEW iss, NEW W, NEW sq, NEW v, Body(p, c, iss, W, sq, v, {}, {}),
         NEW X \in SUBSET W, NEW W2, W2 = W \ X, NEW d, Retires(c, d, X),
         \A x \in X : /\ c.st[x].completed /\ ~c.st[x].spec_mode
                      /\ \A o \in W2 : c.st[x].seq < c.st[o].seq
  PROVE  Body(p, d, iss, W2, sq, v, {}, {}) /\ Total(d, iss) = Total(c, iss)
<1>1. PICK st, st2, ready, events : st = c.st /\ st2 = d.st /\ ready = c.ready /\ events = c.events
  OBVIOUS
<1>2. /\ c \in CoreType /\ st \in [Stations -> StationType] /\ ready \in Seq(LinkType)
      /\ events \in Seq(LinkType) /\ iss \in Seq(LinkType) /\ W \in SUBSET Stations /\ sq \in Nat
  BY <1>1, BodyParts
<1>3. /\ d \in CoreType /\ d.ready = ready /\ d.events = events /\ d.free = c.free
      /\ SameOps(st, st2) /\ Retagging(st, st2, X)
      /\ \A o \in Stations :
           /\ st2[o].odep_list = st[o].odep_list /\ st2[o].idep_ready = st[o].idep_ready
           /\ st2[o].queued = st[o].queued /\ st2[o].issued = st[o].issued
           /\ st2[o].completed = st[o].completed
  BY <1>1 DEF Retires
<1>4. st2 \in [Stations -> StationType]
  BY <1>1, <1>3, CoreParts
<1>5. /\ OrderOK(st, W, sq) /\ StatusOK(st, W, {}) /\ ListsOK(st, ready, iss, events, W, {})
      /\ DependsOK(p, st, W) /\ VectorsOK(st, W, v.cv, v.scv, v.ucv) /\ LoadsOK(st, W)
  BY <1>1 DEF Body
<1>6. W2 \in SUBSET W /\ W \ W2 = X
  OBVIOUS
<1>7. \A x \in X : /\ st[x].completed /\ ~st[x].spec_mode /\ st[x].issued /\ ~st[x].queued
                   /\ OPERANDS_READY(st[x]) /\ st[x].odep_list = <<>>
                   /\ \A o \in W2 : st[x].seq < st[o].seq
  <2>1. \A x \in X : st[x].completed /\ ~st[x].spec_mode /\ \A o \in W2 : st[x].seq < st[o].seq
    BY <1>1
  <2>2. \A x \in X : st[x].issued /\ ~st[x].queued /\ OPERANDS_READY(st[x])
    BY <1>5, <2>1 DEF StatusOK
  <2>3. \A x \in X : st[x].odep_list = <<>>
    BY <1>2, <1>5, <2>1 DEF DependsOK, ConsumersOK
  <2>4. QED
    BY <2>1, <2>2, <2>3
<1>8. Leaving(st, W, W2)
  BY <1>2, <1>6, <1>7 DEF Leaving
<1>9. PICK C : C = {}
  OBVIOUS
<1>10. Completing(st, st2, C)
  BY <1>2, <1>3, <1>4, <1>9 DEF Completing
<1>11. OrderOK(st2, W2, sq)
  BY <1>2, <1>3, <1>5, <1>6, SameOrder
<1>12. StatusOK(st2, W2, {})
  <2>1. \A x \in W2 : /\ IsStore(st2, x) <=> IsStore(st, x)
                      /\ IsLoad(st2, x) <=> IsLoad(st, x)
    BY <1>2, <1>3, <1>6 DEF SameOps, IsStore, IsLoad
  <2>2. \A x \in W2 : OPERANDS_READY(st2[x]) <=> OPERANDS_READY(st[x])
    BY <1>2, <1>3, <1>6 DEF OPERANDS_READY
  <2>3. \A x \in W2 : x \in W /\ st2[x].queued = st[x].queued
                      /\ st2[x].issued = st[x].issued /\ st2[x].completed = st[x].completed
    BY <1>2, <1>3, <1>6
  <2>4. QED
    BY <1>5, <2>1, <2>2, <2>3 DEF StatusOK
<1>13. ListsOK(st2, ready, iss, events, W2, {})
  <2>1. /\ Sound(ready, st) /\ Sound(iss, st) /\ Sound(events, st)
        /\ In(ready, st) \cap In(iss, st) = {}
        /\ In(ready, st) \cup In(iss, st) = {x \in W : st[x].queued}
        /\ In(events, st) = {x \in W : st[x].issued /\ ~st[x].completed}
    BY <1>5 DEF ListsOK
  <2>2. /\ Sound(ready, st2) /\ In(ready, st2) = In(ready, st) \ X
        /\ Sound(iss, st2) /\ In(iss, st2) = In(iss, st) \ X
        /\ Sound(events, st2) /\ In(events, st2) = In(events, st) \ X
    <3>1. Retagging(st, st2, X) /\ st \in [Stations -> StationType]
      BY <1>2, <1>3
    <3>2. \A list \in Seq(LinkType) : Sound(list, st) =>
            Sound(list, st2) /\ In(list, st2) = In(list, st) \ X
      BY <1>4, <3>1, RetagSound
    <3>3. QED
      BY <1>2, <2>1, <3>2
  <2>3. \A x \in W2 : x \in W /\ x \notin X /\ st2[x].queued = st[x].queued
                      /\ st2[x].issued = st[x].issued /\ st2[x].completed = st[x].completed
    BY <1>2, <1>3, <1>6
  <2>4. \A x \in W : x \in W2 \/ x \in X
    OBVIOUS
  <2>5. {x \in W2 : st2[x].queued} = {x \in W : st[x].queued} \ X
        /\ {x \in W2 : st2[x].issued /\ ~st2[x].completed}
             = {x \in W : st[x].issued /\ ~st[x].completed} \ X
    BY <2>3, <2>4
  <2>6. /\ In(ready, st2) \cap In(iss, st2) = {}
        /\ In(ready, st2) \cup In(iss, st2) = {x \in W2 : st2[x].queued}
        /\ In(events, st2) = {x \in W2 : st2[x].issued /\ ~st2[x].completed} \ {}
    BY <2>1, <2>2, <2>5
  <2>7. QED
    BY <2>2, <2>6 DEF ListsOK
<1>14. DependsOK(p, st2, W2)
  <2>1. Giving(st, st2, W2, C)
    <3>1. \A x \in W2 : \A k \in Operands : st2[x].idep_ready[k] <=> st[x].idep_ready[k]
      BY <1>2, <1>3, <1>6
    <3>2. QED
      BY <1>3, <1>9, <3>1 DEF Giving
  <2>2. Retagging(st, st2, W \ W2) /\ \A x \in W \ W2 : OPERANDS_READY(st[x])
    BY <1>3, <1>6, <1>7
  <2>3. \A x, y \in W : st[x].seq = st[y].seq => x = y
    BY <1>5 DEF OrderOK
  <2>4. C \in SUBSET Stations
    BY <1>9
  <2>5. QED
    BY <1>5, <1>8, <1>10, <2>1, <2>2, <2>3, <2>4, DependsAfter
<1>15. VectorsOK(st2, W2, v.cv, v.scv, v.ucv)
  <2>1. PICK cv, scv, ucv : cv = v.cv /\ scv = v.scv /\ ucv = v.ucv
    OBVIOUS
  <2>2. VectorsOK(st, W, cv, scv, ucv)
    BY <1>5, <2>1
  <2>3. DOMAIN cv = Names /\ DOMAIN scv = Names
    BY <2>2 DEF VectorsOK
  <2>4. Forgetting(cv, cv, Names, C) /\ Forgetting(scv, scv, ucv, C)
    BY <1>9 DEF Forgetting
  <2>5. \A x \in W \ W2 : ~st[x].spec_mode
    BY <1>6, <1>7
  <2>6. C \in SUBSET Stations
    BY <1>9
  <2>7. VectorsOK(st2, W2, cv, scv, ucv)
    BY <1>8, <1>10, <2>2, <2>3, <2>4, <2>5, <2>6, VectorsAfter
  <2>8. QED
    BY <2>1, <2>7
<1>16. LoadsOK(st2, W2)
  <2>1. Readier(st, st2, W2)
    BY <1>2, <1>3, <1>6 DEF Readier
  <2>2. \A x \in W2 : st2[x].queued = st[x].queued /\ st2[x].issued = st[x].issued
    BY <1>2, <1>3, <1>6
  <2>3. \A x \in W2 : IsLoad(st, x) /\ (st2[x].queued \/ st2[x].issued) =>
                         st[x].queued \/ st[x].issued \/ LoadOK(st, W, x)
    BY <2>2
  <2>4. SameOps(st, st2) /\ LoadsOK(st, W) /\ st \in [Stations -> StationType]
    BY <1>2, <1>3, <1>5
  <2>5. QED
    BY <1>8, <2>1, <2>3, <2>4, LoadsAfter
<1>17. Body(p, d, iss, W2, sq, v, {}, {})
  <2>1. W2 \in SUBSET Stations
    BY <1>2, <1>6
  <2>2. QED
    BY <1>1, <1>2, <1>3, <1>11, <1>12, <1>13, <1>14, <1>15, <1>16, <2>1 DEF Body
<1>18. Total(d, iss) = Total(c, iss)
  <2>1. Consumers(d.st, Stations) = Consumers(c.st, Stations)
    BY <1>1, <1>3, ConsumersSame
  <2>2. QED
    BY <1>1, <1>3, <2>1 DEF Total, LinksOf
<1>19. QED
  BY <1>17, <1>18

\* The events come nearer.
LEMMA NearerIs ==
  ASSUME NEW p, NEW c, NEW iss, NEW W, NEW sq, NEW v, Body(p, c, iss, W, sq, v, {}, {}),
         NEW d, NEW events, events = [i \in DOMAIN c.events |-> [c.events[i] EXCEPT !.x = @ - 1]],
         d = [c EXCEPT !.events = events]
  PROVE  /\ d \in CoreType /\ d.st = c.st /\ d.free = c.free /\ d.panic = c.panic
         /\ Body(p, d, iss, W, sq, v, {}, {}) /\ Total(d, iss) = Total(c, iss)
<1>1. /\ c \in CoreType /\ c.events \in Seq(LinkType) /\ iss \in Seq(LinkType)
  BY BodyParts
<1>2. PICK list : list = c.events
  OBVIOUS
<1>3. list \in Seq(LinkType) /\ DOMAIN list = 1 .. Len(list) /\ Len(list) \in Nat
      /\ \A i \in DOMAIN list : list[i] \in LinkType
  BY <1>1, <1>2, LinksAre
<1>4. \A i \in DOMAIN list : /\ events[i] = [list[i] EXCEPT !.x = @ - 1]
                             /\ events[i] \in LinkType
                             /\ events[i].rs = list[i].rs /\ events[i].tag = list[i].tag
  <2>1. DOMAIN events = DOMAIN list /\ \A i \in DOMAIN list : events[i] = [list[i] EXCEPT !.x = @ - 1]
    BY <1>2
  <2>2. \A e \in LinkType : /\ [e EXCEPT !.x = @ - 1] \in LinkType
                            /\ [e EXCEPT !.x = @ - 1].rs = e.rs
                            /\ [e EXCEPT !.x = @ - 1].tag = e.tag
    BY DEF LinkType
  <2>3. ASSUME NEW i \in DOMAIN list
        PROVE  /\ events[i] = [list[i] EXCEPT !.x = @ - 1]
               /\ events[i] \in LinkType
               /\ events[i].rs = list[i].rs /\ events[i].tag = list[i].tag
    <3>1. PICK e \in LinkType : e = list[i]
      BY <1>3
    <3>2. events[i] = [e EXCEPT !.x = @ - 1]
      BY <2>1, <3>1
    <3>3. QED
      BY <2>2, <3>1, <3>2
  <2>4. QED
    BY <2>3
<1>5. events \in Seq(LinkType) /\ Len(events) = Len(list)
  <2>1. DOMAIN events = 1 .. Len(list)
    BY <1>2, <1>3
  <2>2. events = [i \in 1 .. Len(list) |-> events[i]]
    BY <1>2, <1>3
  <2>3. \A i \in 1 .. Len(list) : events[i] \in LinkType
    BY <1>3, <1>4
  <2>4. PICK N \in Nat : N = Len(list)
    BY <1>3
  <2>5. events \in [1 .. N -> LinkType]
    BY <2>2, <2>3, <2>4
  <2>6. events \in Seq(LinkType) /\ Len(events) = N
    <3>1. events \in Seq(LinkType)
      BY <2>5, SeqDef
    <3>2. DOMAIN events = 1 .. N /\ DOMAIN events = 1 .. Len(events) /\ Len(events) \in Nat
      BY <2>5, <3>1, LenProperties
    <3>3. QED
      BY <3>1, <3>2
  <2>7. QED
    BY <2>4, <2>6
<1>6. /\ d \in CoreType /\ d.st = c.st /\ d.ready = c.ready /\ d.events = events
      /\ d.free = c.free /\ d.panic = c.panic
  BY <1>1, <1>5 DEF CoreType
<1>7. ListsOK(c.st, c.ready, iss, list, W, {})
  BY <1>2 DEF Body
<1>8. Sound(events, c.st) /\ In(events, c.st) = In(list, c.st)
  <2>1. Sound(list, c.st)
    BY <1>7 DEF ListsOK
  <2>2. \A i \in DOMAIN list : events[i].rs = list[i].rs /\ events[i].tag = list[i].tag
    BY <1>4
  <2>3. PICK st : st = c.st
    OBVIOUS
  <2>5. PICK es : es = events
    OBVIOUS
  <2>6. /\ es \in Seq(LinkType) /\ Len(es) = Len(list) /\ list \in Seq(LinkType) /\ Sound(list, st)
        /\ \A i \in DOMAIN list : es[i].rs = list[i].rs /\ es[i].tag = list[i].tag
    BY <1>3, <1>5, <2>1, <2>2, <2>3, <2>5
  <2>7. Sound(es, st) /\ In(es, st) = In(list, st)
    <3>1. es \in Seq(LinkType) /\ list \in Seq(LinkType)
      BY <2>6
    <3>2. Sound(list, st) /\ SameLinks(list, es)
      BY <2>6 DEF SameLinks
    <3>3. PICK st2 : st2 = st
      OBVIOUS
    <3>4. SameTags(st, st2)
      BY <3>3 DEF SameTags
    <3>5. Sound(es, st2) /\ In(es, st2) = In(list, st)
      BY <3>1, <3>2, <3>4, SameSound
    <3>6. QED
      BY <3>3, <3>5
  <2>8. Sound(events, st) /\ In(events, st) = In(list, st)
    BY <2>5, <2>7
  <2>9. QED
    BY <2>3, <2>8
<1>9. ListsOK(d.st, d.ready, iss, d.events, W, {})
  BY <1>6, <1>7, <1>8 DEF ListsOK
<1>10. Body(p, d, iss, W, sq, v, {}, {})
  BY <1>6, <1>9 DEF Body
<1>11. Total(d, iss) = Total(c, iss)
  BY <1>2, <1>5, <1>6 DEF Total, LinksOf
<1>12. QED
  BY <1>6, <1>10, <1>11
=============================================================================
