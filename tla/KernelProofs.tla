---------------------------- MODULE KernelProofs ----------------------------
(***************************************************************************)
(* Theorems on Kernel, for every size of the table, number of processes    *)
(* and set of system calls, and the lemmas on the operators of Process     *)
(* that they rest on: each takes well-formed globals to well-formed        *)
(* globals.                                                                *)
(***************************************************************************)
EXTENDS Kernel, TLAPS, SequenceTheorems, WellFoundedInduction

-----------------------------------------------------------------------------
(* The functions of process.c and scheduler.c.                             *)

\* No PCB has two nodes.
Distinct(g) ==
    \A i, j \in DOMAIN g.ready_list : g.ready_list[i] = g.ready_list[j] => i = j

\* current_node is in the ring when the ring has nodes, so that the do-while of
\* scheduler() ends and its next pointers are those of live nodes.
NodeInRing(g) == g.ready_list # <<>> => InRing(g, g.current_node)

WellFormed(g) == g \in Globals /\ Distinct(g) /\ NodeInRing(g)

\* h differs from g in the ring only.
SameTable(g, h) ==
    /\ h.processes_list = g.processes_list /\ h.pids = g.pids
    /\ h.used = g.used /\ h.pid = g.pid /\ h.state = g.state
    /\ h.priority = g.priority /\ h.parent_pid = g.parent_pid
    /\ h.waiting_on_child = g.waiting_on_child /\ h.children = g.children
    /\ h.is_foreground = g.is_foreground /\ h.stack_pointer = g.stack_pointer
    /\ h.current_process = g.current_process

SameRing(g, h) == h.ready_list = g.ready_list /\ h.current_node = g.current_node

LEMMA SameRingWellFormed ==
  ASSUME NEW g, WellFormed(g), NEW h \in Globals, SameRing(g, h)
  PROVE  WellFormed(h) /\ \A q : InRing(h, q) <=> InRing(g, q)
BY DEF WellFormed, SameRing, Distinct, NodeInRing, InRing

-----------------------------------------------------------------------------
(* Searches.                                                               *)

\* First finds the least element: the first index, as the loops of the code do.
LEMMA FirstIsLeast ==
  ASSUME NEW S, S \subseteq Nat, S # {}
  PROVE  First(S) \in S /\ \A j \in S : First(S) <= j
<1> DEFINE Less == OpToRel(<, Nat)
<1>1. \E x \in S : \A y \in S : ~(<<y, x>> \in Less)
  BY NatLessThanWellFounded, WFMin, Zenon
<1>2. \A x, y \in Nat : y < x => <<y, x>> \in Less
  <2> SUFFICES ASSUME NEW x \in Nat, NEW y \in Nat, y < x
               PROVE  <<y, x>> \in {ss \in Nat \X Nat : ss[1] < ss[2]}
    BY DEF OpToRel
  <2> QED OBVIOUS
<1> HIDE DEF Less
<1>3. \E x \in S : \A y \in S : x <= y
  <2>1. PICK x \in S : \A y \in S : ~(<<y, x>> \in Less)
    BY <1>1
  <2>2. ASSUME NEW y \in S PROVE x <= y
    <3>1. x \in Nat /\ y \in Nat
      OBVIOUS
    <3>2. ~(y < x)
      BY <2>1, <1>2, <3>1, Zenon
    <3> QED BY <3>1, <3>2
  <2> QED BY <2>2
<1> QED BY <1>3 DEF First

\* A search of the table or of the pool gives a slot, or 0 for none.
LEMMA FirstSlot ==
  ASSUME NEW S, S \subseteq Slots
  PROVE  First(S) \in S \cup {0} /\ First(S) \in Pids
<1>1. S \subseteq Nat
  BY TableAssumption DEF Slots
<1>2. CASE S = {}
  BY <1>2, TableAssumption DEF First, Pids
<1>3. CASE S # {}
  <2>1. First(S) \in S
    BY <1>1, <1>3, FirstIsLeast, Zenon
  <2>2. First(S) \in Slots
    BY <2>1
  <2> QED BY <2>1, <2>2, TableAssumption DEF Slots, Pids
<1> QED BY <1>2, <1>3

LEMMA foundprocessType ==
  ASSUME NEW g \in Globals, NEW n
  PROVE  /\ foundprocess(g, n) \in Pids
         /\ get_process_by_pid(g, n) \in Addr \cup {NULL}
<1>1. foundprocess(g, n) \in Slots \cup {0} /\ foundprocess(g, n) \in Pids
  BY FirstSlot DEF foundprocess, Listed
<1>2. g.processes_list \in [Slots -> Addr \cup {NULL}]
  BY DEF Globals
<1> QED BY <1>1, <1>2 DEF get_process_by_pid

-----------------------------------------------------------------------------
(* The ready ring.                                                         *)

\* A sequence without its i-th element.
LEMMA WithoutIndex ==
  ASSUME NEW S, NEW s \in Seq(S), NEW i \in 1..Len(s)
  PROVE  LET r == SubSeq(s, 1, i - 1) \o SubSeq(s, i + 1, Len(s))
         IN  /\ r \in Seq(S) /\ Len(r) = Len(s) - 1
             /\ \A j \in 1..Len(r) : r[j] = IF j < i THEN s[j] ELSE s[j + 1]
<1> DEFINE u == SubSeq(s, 1, i - 1)
           v == SubSeq(s, i + 1, Len(s))
           r == u \o v
<1>0. Len(s) \in Nat
  OBVIOUS
<1>1. u \in Seq(S) /\ Len(u) = i - 1 /\ \A j \in 1..(i - 1) : u[j] = s[j]
  OBVIOUS
<1>2. v \in Seq(S) /\ Len(v) = Len(s) - i /\ \A j \in 1..(Len(s) - i) : v[j] = s[j + i]
  <2> DEFINE a == i + 1
             z == Len(s)
  <2>1. /\ a \in 1..(Len(s) + 1) /\ z \in (a - 1)..Len(s)
        /\ \A j \in 1..(z - i) : a + j - 1 = j + i
    BY <1>0
  <2> HIDE DEF a, z
  <2>2. /\ SubSeq(s, a, z) \in Seq(S)
        /\ Len(SubSeq(s, a, z)) = IF a <= z THEN z - a + 1 ELSE 0
        /\ \A j \in 1..(z - a + 1) : SubSeq(s, a, z)[j] = s[a + j - 1]
    BY <1>0, <2>1, SubSeqProperties
  <2>3. z - a + 1 = z - i /\ (~(a <= z) => z - i = 0)
    BY <1>0 DEF a, z
  <2> QED BY <1>0, <2>1, <2>2, <2>3 DEF a, z
<1> HIDE DEF u, v
<1>3. /\ r \in Seq(S) /\ Len(r) = Len(u) + Len(v)
      /\ \A j \in 1..(Len(u) + Len(v)) : r[j] = IF j <= Len(u) THEN u[j] ELSE v[j - Len(u)]
  BY <1>1, <1>2, ConcatProperties
<1> HIDE DEF r
<1>4. ASSUME NEW j \in 1..Len(r) PROVE r[j] = IF j < i THEN s[j] ELSE s[j + 1]
  <2>1. CASE j < i
    <3>1. j \in 1..(i - 1) /\ j <= Len(u) /\ j \in 1..(Len(u) + Len(v))
      BY <1>0, <1>1, <1>2, <1>3, <2>1
    <3> QED BY <1>1, <1>3, <2>1, <3>1
  <2>2. CASE j >= i
    <3>1. j - (i - 1) \in 1..(Len(s) - i) /\ (j - (i - 1)) + i = j + 1
      BY <1>0, <1>1, <1>2, <1>3, <2>2
    <3>2. r[j] = v[j - (i - 1)]
      BY <1>0, <1>1, <1>2, <1>3, <2>2
    <3>3. v[j - (i - 1)] = s[(j - (i - 1)) + i]
      BY <1>2, <3>1
    <3>4. ~(j < i)
      BY <1>0, <1>1, <1>2, <1>3, <2>2
    <3> QED BY <3>1, <3>2, <3>3, <3>4
  <2> QED BY <2>1, <2>2
<1>5. r \in Seq(S) /\ Len(r) = Len(s) - 1
  BY <1>0, <1>1, <1>2, <1>3
<1> QED BY <1>4, <1>5, Zenon DEF u, v, r

\* The successor of an index going round a ring of more than one node.
LEMMA RingSuccessor ==
  ASSUME NEW n \in Nat, n > 1, NEW i \in 1..n
  PROVE  (i % n) + 1 \in 1..n /\ (i % n) + 1 # i
<1>1. CASE i = n
  BY <1>1
<1>2. CASE i < n
  <2>1. i % n = i
    BY <1>2
  <2> QED BY <1>2, <2>1
<1> QED BY <1>1, <1>2

LEMMA AheadInRing ==
  ASSUME NEW g \in Globals, NEW p, InRing(g, p), NEW d \in Nat
  PROVE  Ahead(g, p, d) \in Addr /\ InRing(g, Ahead(g, p, d))
<1>1. g.ready_list \in Seq(Addr)
  BY DEF Globals
<1>2. Index(g, p) \in 1..Len(g.ready_list)
  BY <1>1 DEF InRing, Index
<1>3. ((Index(g, p) - 1 + d) % Len(g.ready_list)) + 1 \in 1..Len(g.ready_list)
  BY <1>1, <1>2
<1> QED BY <1>1, <1>3 DEF Ahead, InRing

\* The ring operations change these three fields and no other.
WithRing(g, r, c, n) == [g EXCEPT !.ready_list = r, !.counter = c, !.current_node = n]

LEMMA WithRingFields ==
  ASSUME NEW g \in Globals, NEW r \in Seq(Addr), NEW c \in [Addr -> Int],
         NEW n \in Addr \cup {NULL}
  PROVE  LET h == WithRing(g, r, c, n)
         IN  /\ h \in Globals /\ h.ready_list = r /\ h.current_node = n
             /\ SameTable(g, h)
BY DEF Globals, WithRing, SameTable

\* add_to_ready_list adds the process to the ring and moves current_node only
\* when the ring was empty.
LEMMA add_to_ready_listRing ==
  ASSUME NEW g, WellFormed(g), NEW p \in Addr
  PROVE  LET h == add_to_ready_list(g, p)
         IN  /\ WellFormed(h) /\ SameTable(g, h)
             /\ \A q : InRing(h, q) <=> InRing(g, q) \/ q = p
             /\ g.ready_list # <<>> => h.current_node = g.current_node
<1>1. CASE InRing(g, p)
  BY <1>1 DEF add_to_ready_list, SameTable
<1>2. CASE ~InRing(g, p)
  <2> DEFINE r == Append(g.ready_list, p)
             c == [g.counter EXCEPT ![p] = g.priority[p]]
             n == IF g.ready_list = <<>> THEN p ELSE g.current_node
             h == add_to_ready_list(g, p)
  <2>1. /\ g.ready_list \in Seq(Addr) /\ g.priority[p] \in Int
        /\ g \in Globals /\ g.counter \in [Addr -> Int] /\ g.current_node \in Addr \cup {NULL}
    BY DEF WellFormed, Globals
  <2>2. h = WithRing(g, r, c, n)
    BY <1>2 DEF add_to_ready_list, WithRing
  <2>3. r \in Seq(Addr) /\ c \in [Addr -> Int] /\ n \in Addr \cup {NULL}
    BY <2>1
  <2>a. /\ DOMAIN g.ready_list = 1..Len(g.ready_list) /\ Len(g.ready_list) \in Nat
        /\ DOMAIN r = 1..(Len(g.ready_list) + 1)
        /\ \A i \in 1..Len(g.ready_list) : r[i] = g.ready_list[i]
        /\ r[Len(g.ready_list) + 1] = p
    BY <2>1
  <2>4. \A q : (\E i \in DOMAIN r : r[i] = q) <=> InRing(g, q) \/ q = p
    <3> HIDE DEF r
    <3> SUFFICES ASSUME NEW q
                 PROVE  (\E i \in DOMAIN r : r[i] = q) <=> InRing(g, q) \/ q = p
      OBVIOUS
    <3>1. ASSUME NEW i \in DOMAIN r, r[i] = q PROVE InRing(g, q) \/ q = p
      BY <2>a, <3>1 DEF InRing
    <3>2. ASSUME InRing(g, q) PROVE \E i \in DOMAIN r : r[i] = q
      BY <2>a, <3>2 DEF InRing
    <3>3. ASSUME q = p PROVE \E i \in DOMAIN r : r[i] = q
      BY <2>a, <3>3
    <3> QED BY <3>1, <3>2, <3>3
  <2>5. \A i, j \in DOMAIN r : r[i] = r[j] => i = j
    <3> HIDE DEF r
    <3>1. \A i \in 1..Len(g.ready_list) : g.ready_list[i] # p
      BY <1>2, <2>a DEF InRing
    <3>2. \A i, j \in 1..Len(g.ready_list) : g.ready_list[i] = g.ready_list[j] => i = j
      BY <2>a DEF WellFormed, Distinct
    <3> QED BY <2>a, <3>1, <3>2
  <2>6. n = p \/ InRing(g, n)
    BY DEF WellFormed, NodeInRing
  <2>7. g.ready_list # <<>> => n = g.current_node
    OBVIOUS
  <2> HIDE DEF r, c, n
  <2>8. h \in Globals /\ h.ready_list = r /\ h.current_node = n /\ SameTable(g, h)
    <3> HIDE DEF h
    <3>1. g \in Globals
      BY <2>1
    <3>2. /\ WithRing(g, r, c, n) \in Globals
          /\ WithRing(g, r, c, n).ready_list = r /\ WithRing(g, r, c, n).current_node = n
          /\ SameTable(g, WithRing(g, r, c, n))
      BY <3>1, <2>3, WithRingFields
    <3> QED BY <2>2, <3>2
  <2> HIDE DEF h
  <2>9. WellFormed(h)
    BY <2>4, <2>5, <2>6, <2>8 DEF WellFormed, Distinct, NodeInRing, InRing
  <2>10. \A q : InRing(h, q) <=> InRing(g, q) \/ q = p
    BY <2>4, <2>8 DEF InRing
  <2> QED BY <2>7, <2>8, <2>9, <2>10 DEF h
<1> QED BY <1>1, <1>2

\* remove_from_ready_list removes the process and nobody else; current_node
\* moves only when it was the node removed.
LEMMA remove_from_ready_listRing ==
  ASSUME NEW g, WellFormed(g), NEW p \in Addr
  PROVE  LET h == remove_from_ready_list(g, p)
         IN  /\ WellFormed(h) /\ SameTable(g, h)
             /\ \A q : InRing(h, q) <=> InRing(g, q) /\ q # p
             /\ g.current_node # p /\ (\E q : InRing(h, q)) => h.current_node = g.current_node
<1>1. CASE ~InRing(g, p)
  BY <1>1 DEF remove_from_ready_list, SameTable
<1>2. CASE InRing(g, p)
  <2> DEFINE s == g.ready_list
             i == Index(g, p)
             r == SubSeq(s, 1, i - 1) \o SubSeq(s, i + 1, Len(s))
             c == [g.counter EXCEPT ![p] = 0]
             n == IF Len(s) = 1 THEN NULL
                  ELSE IF g.current_node = p THEN Ahead(g, p, 1) ELSE g.current_node
             h == remove_from_ready_list(g, p)
  <2>1. /\ g \in Globals /\ s \in Seq(Addr)
        /\ g.counter \in [Addr -> Int] /\ g.current_node \in Addr \cup {NULL}
    BY DEF WellFormed, Globals
  <2>2. h = WithRing(g, r, c, n)
    BY <1>2 DEF remove_from_ready_list, WithRing
  <2>3. i \in 1..Len(s) /\ s[i] = p
    BY <1>2, <2>1 DEF InRing, Index
  <2>4. /\ r \in Seq(Addr) /\ Len(r) = Len(s) - 1
        /\ \A j \in 1..Len(r) : r[j] = IF j < i THEN s[j] ELSE s[j + 1]
    <3> HIDE DEF s, i
    <3> QED BY <2>1, <2>3, WithoutIndex
  <2>5. c \in [Addr -> Int] /\ n \in Addr \cup {NULL}
    BY <1>2, <2>1, AheadInRing
  <2>a. DOMAIN s = 1..Len(s) /\ DOMAIN r = 1..Len(r) /\ Len(s) \in Nat
    BY <2>1, <2>4
  <2>b. \A j, l \in 1..Len(s) : s[j] = s[l] => j = l
    BY <2>a DEF WellFormed, Distinct
  <2>n. n # NULL \/ Len(s) > 1 => n \in Addr /\ n # p /\ InRing(g, n)
    <3>1. CASE Len(s) = 1
      BY <3>1
    <3>2. CASE Len(s) # 1 /\ g.current_node = p
      <4> DEFINE m == (i % Len(s)) + 1
      <4>1. m \in 1..Len(s) /\ m # i
        <5> HIDE DEF s, i, n
        <5>1. Len(s) > 1
          BY <2>3, <2>a, <3>2
        <5> QED BY <2>3, <2>a, <5>1, RingSuccessor
      <4>2. n = s[m]
        <5>1. n = s[((i - 1 + 1) % Len(s)) + 1]
          BY <3>2 DEF Ahead
        <5>2. i - 1 + 1 = i
          BY <2>3
        <5> QED BY <5>1, <5>2, Zenon
      <4> HIDE DEF m, s, i, n
      <4>3. s[m] # p /\ s[m] \in Addr
        BY <2>1, <2>3, <2>b, <4>1
      <4> QED BY <2>a, <4>1, <4>2, <4>3 DEF InRing, s
    <3>3. CASE Len(s) # 1 /\ g.current_node # p
      <4>1. InRing(g, g.current_node)
        BY <1>2, <2>1 DEF WellFormed, NodeInRing, InRing
      <4> QED BY <2>1, <3>3, <4>1 DEF InRing
    <3> QED BY <3>1, <3>2, <3>3
  <2>o. g.current_node # p /\ Len(s) # 1 => n = g.current_node
    OBVIOUS
  <2> HIDE DEF r, c, n
  <2>6. \A q : (\E j \in DOMAIN r : r[j] = q) <=> InRing(g, q) /\ q # p
    <3> SUFFICES ASSUME NEW q
                 PROVE  (\E j \in DOMAIN r : r[j] = q) <=> (\E l \in 1..Len(s) : s[l] = q) /\ q # p
      BY <2>a DEF InRing
    <3> HIDE DEF s, i
    <3>1. ASSUME NEW j \in DOMAIN r, r[j] = q
          PROVE  (\E l \in 1..Len(s) : s[l] = q) /\ q # p
      <4> DEFINE l == IF j < i THEN j ELSE j + 1
      <4>1. l \in 1..Len(s) /\ s[l] = q /\ l # i
        BY <2>3, <2>4, <2>a, <3>1
      <4> QED BY <2>3, <2>b, <4>1
    <3>2. ASSUME NEW l \in 1..Len(s), s[l] = q, q # p
          PROVE  \E j \in DOMAIN r : r[j] = q
      <4> DEFINE j == IF l < i THEN l ELSE l - 1
      <4>1. j \in 1..Len(r) /\ r[j] = q
        <5>1. l # i
          BY <2>3, <3>2
        <5>2. CASE l < i
          BY <2>3, <2>4, <2>a, <3>2, <5>2
        <5>3. CASE l > i
          BY <2>3, <2>4, <2>a, <3>2, <5>3
        <5> QED BY <2>3, <5>1, <5>2, <5>3
      <4> QED BY <2>a, <4>1
    <3> QED BY <3>1, <3>2
  <2>7. \A j, l \in DOMAIN r : r[j] = r[l] => j = l
    <3> HIDE DEF s, i
    <3> QED BY <2>3, <2>4, <2>a, <2>b
  <2> HIDE DEF h
  <2>8. h \in Globals /\ h.ready_list = r /\ h.current_node = n /\ SameTable(g, h)
    <3> HIDE DEF s, i
    <3>1. /\ WithRing(g, r, c, n) \in Globals /\ SameTable(g, WithRing(g, r, c, n))
          /\ WithRing(g, r, c, n).ready_list = r /\ WithRing(g, r, c, n).current_node = n
      <4>1. g \in Globals
        BY <2>1
      <4>2. r \in Seq(Addr)
        BY <2>4
      <4>3. c \in [Addr -> Int] /\ n \in Addr \cup {NULL}
        BY <2>5
      <4> QED BY <4>1, <4>2, <4>3, WithRingFields
    <3> QED BY <2>2, <3>1, Zenon
  <2>9. \A q : InRing(h, q) <=> InRing(g, q) /\ q # p
    BY <2>6, <2>8 DEF InRing
  <2>10. (\E q : InRing(h, q)) => Len(s) > 1
    <3> HIDE DEF s, i
    <3> QED BY <2>4, <2>a, <2>8 DEF InRing
  <2>11. h.ready_list # <<>> => \E q : InRing(h, q)
    BY <2>4, <2>8 DEF InRing
  <2>12. WellFormed(h)
    BY <2>7, <2>8, <2>9, <2>10, <2>11, <2>n DEF WellFormed, Distinct, NodeInRing
  <2>13. g.current_node # p /\ (\E q : InRing(h, q)) => h.current_node = g.current_node
    <3> HIDE DEF s, i
    <3>1. Len(s) > 1 => Len(s) # 1
      BY <2>a
    <3> QED BY <2>8, <2>10, <2>o, <3>1, Zenon
  <2> QED BY <2>8, <2>9, <2>12, <2>13 DEF h
<1> QED BY <1>1, <1>2

-----------------------------------------------------------------------------
(* The scheduler.                                                          *)

\* A component of the globals that is not the ring can take any value of its type.
LEMMA StateWellFormed ==
  ASSUME NEW g, WellFormed(g), NEW p \in Addr, NEW st \in STATUS
  PROVE  LET h == [g EXCEPT !.state[p] = st]
         IN  WellFormed(h) /\ SameRing(g, h)
<1> DEFINE h == [g EXCEPT !.state[p] = st]
<1>1. h \in Globals
  BY DEF WellFormed, Globals
<1>2. SameRing(g, h)
  BY DEF WellFormed, Globals, SameRing
<1> HIDE DEF h
<1>3. WellFormed(h)
  BY <1>1, <1>2, SameRingWellFormed
<1> QED BY <1>2, <1>3 DEF h

LEMMA ChargeWellFormed ==
  ASSUME NEW g, WellFormed(g), NEW sp \in Addr \cup {NULL}
  PROVE  WellFormed(Charge(g, sp)) /\ SameRing(g, Charge(g, sp))
<1> DEFINE p == g.current_process
           n == g.counter[g.current_node] - 1
           c == IF g.state[p] = "RUNNING" THEN [g.counter EXCEPT ![g.current_node] = n] ELSE g.counter
           q == IF g.state[p] \in {"BLOCKED", "RUNNING"}
                THEN [g.stack_pointer EXCEPT ![p] = sp] ELSE g.stack_pointer
           h == Charge(g, sp)
<1>1. /\ g \in Globals /\ g.counter \in [Addr -> Int] /\ p \in Addr
      /\ g.stack_pointer \in [Addr -> Addr \cup {NULL}]
  BY DEF WellFormed, Globals
<1>2. c \in [Addr -> Int]
  <2>1. CASE g.current_node \in Addr
    <3>1. n \in Int
      BY <1>1, <2>1
    <3> HIDE DEF n
    <3> QED BY <1>1, <3>1
  <2>2. CASE g.current_node \notin Addr
    <3> HIDE DEF n
    <3> QED BY <1>1, <2>2
  <2> QED BY <2>1, <2>2
<1>3. q \in [Addr -> Addr \cup {NULL}]
  BY <1>1
<1>4. /\ h \in Globals
      /\ SameRing(g, h)
  <2>1. CASE g.state[p] = "RUNNING"
    <3>1. h = [g EXCEPT !.stack_pointer = q, !.counter = c]
      BY <1>1, <2>1 DEF Charge, Globals
    <3> HIDE DEF h, c, q
    <3> QED BY <1>1, <1>2, <1>3, <3>1 DEF Globals, SameRing
  <2>2. CASE g.state[p] # "RUNNING"
    <3>1. h = [g EXCEPT !.stack_pointer = q]
      BY <1>1, <2>2 DEF Charge, Globals
    <3> HIDE DEF h, c, q
    <3> QED BY <1>1, <1>3, <3>1 DEF Globals, SameRing
  <2> QED BY <2>1, <2>2
<1> HIDE DEF h
<1>5. WellFormed(h)
  BY <1>4, SameRingWellFormed
<1> QED BY <1>4, <1>5 DEF h

LEMMA DispatchWellFormed ==
  ASSUME NEW g, WellFormed(g), NEW node, InRing(g, node), NEW p \in Addr
  PROVE  LET h == Dispatch(g, node, p)
         IN  /\ WellFormed(h) /\ h.ready_list = g.ready_list
             /\ h.current_node = node /\ h.current_process = p
<1> DEFINE h == Dispatch(g, node, p)
<1>1. g \in Globals /\ g.ready_list \in Seq(Addr) /\ node \in Addr
  BY DEF WellFormed, Globals, InRing
<1>2. h \in Globals
  BY <1>1 DEF Dispatch, Globals, STATUS
<1>3. h.ready_list = g.ready_list /\ h.current_node = node /\ h.current_process = p
  BY <1>1 DEF Dispatch, Globals
<1> HIDE DEF h
<1>4. WellFormed(h)
  BY <1>2, <1>3 DEF WellFormed, Distinct, NodeInRing, InRing
<1> QED BY <1>3, <1>4 DEF h

\* scheduler() returns, and leaves current_node on a node of the ring.
LEMMA schedulerWellFormed ==
  ASSUME NEW g, WellFormed(g), NEW sp \in Addr \cup {NULL}
  PROVE  LET r == scheduler(g, sp)
         IN  /\ WellFormed(r.k) /\ r.k.ready_list = g.ready_list
             /\ r.sp \in Addr \cup {NULL}
<1> DEFINE r       == scheduler(g, sp)
           charged == Charge(g, sp)
           ready   == Preempted(charged)
           next    == PickNext(ready)
<1>1. CASE g.ready_list = <<>>
  BY <1>1 DEF scheduler
<1>2. CASE g.ready_list # <<>> /\ KeepsCpu(g)
  <2>1. r = [k |-> charged, sp |-> sp]
    BY <1>2 DEF scheduler
  <2>2. WellFormed(charged) /\ charged.ready_list = g.ready_list
    BY ChargeWellFormed DEF SameRing
  <2> HIDE DEF r, charged
  <2>3. WellFormed(r.k) /\ r.k.ready_list = g.ready_list /\ r.sp \in Addr \cup {NULL}
    BY <2>1, <2>2
  <2> QED BY <2>3 DEF r
<1>3. CASE g.ready_list # <<>> /\ ~KeepsCpu(g)
  <2>1. r = [k |-> next, sp |-> next.stack_pointer[next.current_process]]
    BY <1>3 DEF scheduler
  <2>2. WellFormed(charged) /\ charged.ready_list = g.ready_list
    BY ChargeWellFormed DEF SameRing
  <2>3. WellFormed(ready) /\ ready.ready_list = g.ready_list
    <3> HIDE DEF charged
    <3>1. charged.current_process \in Addr /\ "READY" \in STATUS
      BY <2>2 DEF WellFormed, Globals, STATUS
    <3> QED BY <2>2, <3>1, StateWellFormed DEF Preempted, SameRing
  <2> HIDE DEF charged, ready
  <2>4. InRing(ready, ready.current_node) /\ ready \in Globals /\ ready.current_process \in Addr
    BY <1>3, <2>3 DEF WellFormed, NodeInRing, Globals
  <2>5. WellFormed(next) /\ next.ready_list = g.ready_list
    <3>1. CASE Steps(ready) = 0
      BY <2>3, <2>4, <3>1, DispatchWellFormed DEF PickNext
    <3>2. CASE Steps(ready) # 0
      <4> DEFINE S == {d \in 1..Len(ready.ready_list) :
                         ready.state[Ahead(ready, ready.current_node, d)] = "READY"}
                 a == Ahead(ready, ready.current_node, Steps(ready))
      <4>1. S \subseteq Nat /\ S # {}
        <5>1. Steps(ready) = First(S)
          BY DEF Steps
        <5>2. S \subseteq Nat
          BY <2>4 DEF Globals
        <5> QED BY <3>2, <5>1, <5>2, Zenon DEF First
      <4>2. Steps(ready) \in Nat
        <5>1. First(S) \in S
          BY <4>1, FirstIsLeast, Zenon
        <5>2. Steps(ready) = First(S)
          BY DEF Steps
        <5> QED BY <4>1, <5>1, <5>2
      <4>3. a \in Addr /\ InRing(ready, a)
        BY <2>4, <4>2, AheadInRing
      <4>4. next = Dispatch(ready, a, a)
        BY <3>2 DEF PickNext
      <4> HIDE DEF a, S, next
      <4> QED BY <2>3, <4>3, <4>4, DispatchWellFormed
    <3> QED BY <3>1, <3>2
  <2> HIDE DEF r, next
  <2>6. next.stack_pointer[next.current_process] \in Addr \cup {NULL}
    BY <2>5 DEF WellFormed, Globals
  <2>7. WellFormed(r.k) /\ r.k.ready_list = g.ready_list /\ r.sp \in Addr \cup {NULL}
    BY <2>1, <2>5, <2>6
  <2> QED BY <2>7 DEF r
<1> QED BY <1>1, <1>2, <1>3

-----------------------------------------------------------------------------
(* State changes.                                                          *)

LEMMA block_processWellFormed ==
  ASSUME NEW g, WellFormed(g), NEW n
  PROVE  WellFormed(block_process(g, n))
<1> DEFINE p == get_process_by_pid(g, n)
<1>1. CASE p # NULL /\ g.state[p] \in {"RUNNING", "READY"}
  <2>1. p \in Addr /\ "BLOCKED" \in STATUS
    BY <1>1, foundprocessType DEF WellFormed, STATUS
  <2> DEFINE h == [g EXCEPT !.state[p] = "BLOCKED"]
  <2>2. block_process(g, n) = remove_from_ready_list(h, p)
    BY <1>1 DEF block_process
  <2> HIDE DEF p
  <2>3. WellFormed(h)
    BY <2>1, StateWellFormed
  <2> HIDE DEF h
  <2> QED BY <2>1, <2>2, <2>3, remove_from_ready_listRing
<1>2. CASE ~(p # NULL /\ g.state[p] \in {"RUNNING", "READY"})
  BY <1>2 DEF block_process
<1> QED BY <1>1, <1>2

LEMMA unblock_processWellFormed ==
  ASSUME NEW g, WellFormed(g), NEW n
  PROVE  WellFormed(unblock_process(g, n))
<1> DEFINE p == get_process_by_pid(g, n)
<1>1. CASE n # 1 /\ p # NULL /\ g.state[p] = "BLOCKED"
  <2>1. p \in Addr /\ "READY" \in STATUS
    BY <1>1, foundprocessType DEF WellFormed, STATUS
  <2> DEFINE h == [g EXCEPT !.state[p] = "READY"]
  <2>2. unblock_process(g, n) = add_to_ready_list(h, p)
    BY <1>1 DEF unblock_process
  <2> HIDE DEF p
  <2>3. WellFormed(h)
    BY <2>1, StateWellFormed
  <2> HIDE DEF h
  <2> QED BY <2>1, <2>2, <2>3, add_to_ready_listRing
<1>2. CASE ~(n # 1 /\ p # NULL /\ g.state[p] = "BLOCKED")
  BY <1>2 DEF unblock_process
<1> QED BY <1>1, <1>2

LEMMA modify_priorityWellFormed ==
  ASSUME NEW g, WellFormed(g), NEW n, NEW v \in Int, NEW table
  PROVE  WellFormed(modify_priority(g, n, v, table))
<1> DEFINE p == get_process_by_pid(g, n)
           h == modify_priority(g, n, v, table)
<1>1. CASE p = NULL
  BY <1>1 DEF modify_priority
<1>2. CASE p # NULL
  <2>1. p \in Addr /\ g \in Globals
    BY <1>2, foundprocessType DEF WellFormed
  <2> DEFINE q == IF v \in table /\ InRing(g, p) THEN v ELSE g.counter[p]
  <2>2. q \in Int
    BY <2>1 DEF Globals
  <2>3. h = [g EXCEPT !.priority[p] = v, !.counter[p] = q]
    BY <1>2, <2>1 DEF modify_priority, Globals
  <2> HIDE DEF h, p, q
  <2>4. h \in Globals /\ SameRing(g, h)
    BY <2>1, <2>2, <2>3 DEF Globals, SameRing
  <2>5. WellFormed(h)
    BY <2>4, SameRingWellFormed
  <2> QED BY <2>5 DEF h
<1> QED BY <1>1, <1>2

-----------------------------------------------------------------------------
(* Creation.                                                               *)

LEMMA FreePidType == ASSUME NEW g PROVE FreePid(g) \in Pids
BY FirstSlot DEF FreePid

LEMMA assignForegroundWellFormed ==
  ASSUME NEW g, WellFormed(g), NEW p \in Addr, NEW fg \in BOOLEAN
  PROVE  WellFormed(assignForeground(g, p, fg))
<1> DEFINE h == assignForeground(g, p, fg)
           f == [a \in Addr |-> IF a = p THEN fg
                                ELSE a # get_foreground_process(g) /\ g.is_foreground[a]]
<1>1. g \in Globals /\ g.is_foreground \in [Addr -> BOOLEAN]
  BY DEF WellFormed, Globals
<1>2. f \in [Addr -> BOOLEAN]
  BY <1>1
<1>3. h = [g EXCEPT !.is_foreground = f]
  BY DEF assignForeground
<1> HIDE DEF h, f
<1>4. h \in Globals /\ SameRing(g, h)
  BY <1>1, <1>2, <1>3 DEF Globals, SameRing
<1>5. WellFormed(h)
  BY <1>4, SameRingWellFormed
<1> QED BY <1>5 DEF h

LEMMA copy_contextWellFormed ==
  ASSUME NEW g, WellFormed(g), NEW p \in Addr, NEW v \in Int, NEW fg \in BOOLEAN,
         NEW garbage \in 0..2
  PROVE  WellFormed(copy_context(g, p, v, fg, garbage))
<1> DEFINE n == FreePid(g)
           pool == [i \in Slots |-> i = n \/ g.pids[i]]
           h == [g EXCEPT !.used                = g.used \cup {p},
                          !.pids                = pool,
                          !.pid[p]              = n,
                          !.state[p]            = "READY",
                          !.priority[p]         = v,
                          !.waiting_on_child[p] = garbage,
                          !.children[p]         = {},
                          !.stack_pointer[p]    = p]
<1>1. g \in Globals /\ n \in Pids /\ "READY" \in STATUS
  BY FreePidType DEF WellFormed, STATUS
<1>2. pool \in [Slots -> BOOLEAN]
  BY <1>1 DEF Globals
<1>3. copy_context(g, p, v, fg, garbage) = assignForeground(h, p, fg)
  BY <1>1 DEF copy_context, Globals
<1> HIDE DEF n, pool
<1>4. h \in Globals
  <2>1. /\ g.used \cup {p} \in SUBSET Addr
        /\ [g.pid EXCEPT ![p] = n] \in [Addr -> Pids]
        /\ [g.state EXCEPT ![p] = "READY"] \in [Addr -> STATUS]
        /\ [g.priority EXCEPT ![p] = v] \in [Addr -> Int]
        /\ [g.waiting_on_child EXCEPT ![p] = garbage] \in [Addr -> 0..2]
        /\ [g.children EXCEPT ![p] = {}] \in [Addr -> SUBSET Pids]
        /\ [g.stack_pointer EXCEPT ![p] = p] \in [Addr -> Addr \cup {NULL}]
    BY <1>1 DEF Globals
  <2> QED BY <1>1, <1>2, <2>1 DEF Globals
<1>5. SameRing(g, h)
  BY <1>1 DEF Globals, SameRing
<1> HIDE DEF h
<1>6. WellFormed(h)
  BY <1>4, <1>5, SameRingWellFormed
<1> QED BY <1>3, <1>6, assignForegroundWellFormed

\* s is g with the process p in a slot, with a pid and with a context of its own.
NewlyListed(g, p, s) ==
    /\ s.processes_list = [i \in Slots |-> IF i = FreeSlot(g) THEN p ELSE g.processes_list[i]]
    /\ s.pids = [i \in Slots |-> i = FreePid(g) \/ g.pids[i]]
    /\ s.used = g.used \cup {p} /\ s.pid = [g.pid EXCEPT ![p] = FreePid(g)]
    /\ s.state = [g.state EXCEPT ![p] = "READY"]
    /\ s.stack_pointer = [g.stack_pointer EXCEPT ![p] = p]
    /\ s.current_process = g.current_process /\ SameRing(g, s)

\* createProcess before the process joins the ring.
LEMMA createProcessListed ==
  ASSUME NEW g, WellFormed(g), NEW p \in Addr, NEW v \in Int, NEW fg \in BOOLEAN,
         NEW garbage \in 0..2
  PROVE  \E s : /\ WellFormed(s) /\ NewlyListed(g, p, s)
                /\ createProcess(g, p, v, fg, garbage) = add_to_ready_list(s, p)
<1> DEFINE parent == g.current_process
           child  == copy_context(g, p, v, fg, garbage)
           n      == child.pid[p]
           c      == IF Cardinality(child.children[parent]) < MAX_CHILDREN
                     THEN child.children[parent] \cup {n} ELSE child.children[parent]
           w      == Saturated(child.waiting_on_child[parent])
           linked == [child EXCEPT !.parent_pid[p] = g.pid[parent],
                                   !.children[parent] = c,
                                   !.waiting_on_child[parent] = w]
           listed == add_to_process_list(linked, p)
<1>1. WellFormed(child) /\ child \in Globals
  BY copy_contextWellFormed DEF WellFormed
<1>2. g \in Globals /\ parent \in Addr /\ g.pid[parent] \in Pids
  BY DEF WellFormed, Globals
<1>a. /\ child.processes_list = g.processes_list
      /\ child.pids = [i \in Slots |-> i = FreePid(g) \/ g.pids[i]]
      /\ child.used = g.used \cup {p} /\ child.pid = [g.pid EXCEPT ![p] = FreePid(g)]
      /\ child.state = [g.state EXCEPT ![p] = "READY"]
      /\ child.stack_pointer = [g.stack_pointer EXCEPT ![p] = p]
      /\ child.current_process = g.current_process /\ SameRing(g, child)
  BY <1>2 DEF copy_context, assignForeground, Globals, SameRing
<1> HIDE DEF child
<1>3. createProcess(g, p, v, fg, garbage) = add_to_ready_list(listed, p)
  BY <1>1 DEF createProcess, Globals, child
<1> HIDE DEF parent
<1>4. c \in SUBSET Pids /\ w \in 0..2 /\ n \in Pids
  <2>1. n \in Pids /\ child.children[parent] \in SUBSET Pids
    BY <1>1, <1>2 DEF Globals
  <2>2. child.waiting_on_child[parent] \in 0..2
    BY <1>1, <1>2 DEF Globals
  <2>3. w \in 0..2
    BY <2>2 DEF Saturated
  <2> HIDE DEF n, w
  <2> QED BY <2>1, <2>3
<1> HIDE DEF c, w, n
<1>5. linked \in Globals /\ SameRing(child, linked)
  BY <1>1, <1>2, <1>4 DEF Globals, SameRing
<1>b. /\ linked.processes_list = child.processes_list /\ linked.pids = child.pids
      /\ linked.used = child.used /\ linked.pid = child.pid /\ linked.state = child.state
      /\ linked.stack_pointer = child.stack_pointer
      /\ linked.current_process = child.current_process
  BY <1>1 DEF Globals
<1> HIDE DEF linked
<1> DEFINE l == [i \in Slots |-> IF i = FreeSlot(linked) THEN p ELSE linked.processes_list[i]]
<1>6. listed \in Globals /\ SameRing(linked, listed)
  <2>1. l \in [Slots -> Addr \cup {NULL}]
    BY <1>5 DEF Globals
  <2>2. listed = [linked EXCEPT !.processes_list = l]
    BY DEF add_to_process_list
  <2> HIDE DEF l, listed
  <2> QED BY <1>5, <2>1, <2>2 DEF Globals, SameRing
<1>c. /\ listed.processes_list = [i \in Slots |-> IF i = FreeSlot(g) THEN p
                                                  ELSE g.processes_list[i]]
      /\ listed.pids = linked.pids /\ listed.used = linked.used /\ listed.pid = linked.pid
      /\ listed.state = linked.state /\ listed.stack_pointer = linked.stack_pointer
      /\ listed.current_process = linked.current_process
  <2>1. FreeSlot(linked) = FreeSlot(g) /\ linked.processes_list = g.processes_list
    BY <1>a, <1>b DEF FreeSlot
  <2> QED BY <1>5, <2>1 DEF add_to_process_list, Globals
<1> HIDE DEF listed, l
<1>7. WellFormed(listed)
  BY <1>1, <1>5, <1>6, SameRingWellFormed
<1>8. SameRing(g, listed)
  BY <1>a, <1>5, <1>6 DEF SameRing
<1>9. NewlyListed(g, p, listed)
  BY <1>8, <1>a, <1>b, <1>c DEF NewlyListed
<1> QED BY <1>3, <1>7, <1>9

LEMMA createProcessWellFormed ==
  ASSUME NEW g, WellFormed(g), NEW p \in Addr, NEW v \in Int, NEW fg \in BOOLEAN,
         NEW garbage \in 0..2
  PROVE  WellFormed(createProcess(g, p, v, fg, garbage))
<1>1. PICK s : WellFormed(s) /\ createProcess(g, p, v, fg, garbage) = add_to_ready_list(s, p)
  BY createProcessListed
<1> QED BY <1>1, add_to_ready_listRing

-----------------------------------------------------------------------------
(* Removal.                                                                *)

LEMMA DetachFromParentWellFormed ==
  ASSUME NEW g, WellFormed(g), NEW p \in Addr
  PROVE  WellFormed(DetachFromParent(g, p))
<1> DEFINE parent == get_process_by_pid(g, g.parent_pid[p])
           c      == g.children[parent] \ {g.pid[p]}
           forgot == [g EXCEPT !.children[parent] = c]
           woken  == IF /\ forgot.waiting_on_child[parent] = 1
                        /\ forgot.children[parent] = {}
                     THEN unblock_process(forgot, g.parent_pid[p]) ELSE forgot
<1>1. CASE g.parent_pid[p] = 0 \/ parent = NULL
  BY <1>1 DEF DetachFromParent
<1>2. CASE ~(g.parent_pid[p] = 0 \/ parent = NULL)
  <2>1. g \in Globals /\ parent \in Addr
    BY <1>2, foundprocessType DEF WellFormed
  <2>2. DetachFromParent(g, p) = IF g.is_foreground[p]
                                 THEN [woken EXCEPT !.is_foreground[parent] = TRUE] ELSE woken
    BY <1>2, Zenon DEF DetachFromParent
  <2> HIDE DEF parent
  <2>3. c \in SUBSET Pids
    BY <2>1 DEF Globals
  <2> HIDE DEF c
  <2>4. forgot \in Globals /\ SameRing(g, forgot)
    BY <2>1, <2>3 DEF Globals, SameRing
  <2> HIDE DEF forgot
  <2>5. WellFormed(woken)
    BY <2>4, SameRingWellFormed, unblock_processWellFormed
  <2> DEFINE h == [woken EXCEPT !.is_foreground[parent] = TRUE]
  <2> HIDE DEF woken
  <2>6. h \in Globals /\ SameRing(woken, h)
    BY <2>1, <2>5 DEF WellFormed, Globals, SameRing
  <2>7. WellFormed(h)
    BY <2>5, <2>6, SameRingWellFormed
  <2> QED BY <2>2, <2>5, <2>7
<1> QED BY <1>1, <1>2

LEMMA TerminateWellFormed ==
  ASSUME NEW g, WellFormed(g), NEW p \in Addr
  PROVE  WellFormed(Terminate(g, p))
<1>1. "TERMINATED" \in STATUS
  BY DEF STATUS
<1> QED BY <1>1, StateWellFormed DEF Terminate

LEMMA ReleaseSlotWellFormed ==
  ASSUME NEW g, WellFormed(g), NEW p \in Addr
  PROVE  WellFormed(ReleaseSlot(g, p))
<1> DEFINE l == [i \in Slots |-> IF i = foundprocess(g, g.pid[p]) THEN NULL
                                 ELSE g.processes_list[i]]
           h == ReleaseSlot(g, p)
<1>1. g \in Globals /\ l \in [Slots -> Addr \cup {NULL}]
  BY DEF WellFormed, Globals
<1>2. h = [g EXCEPT !.processes_list      = l,
                    !.used                = g.used \ {p},
                    !.priority[p]         = 0,
                    !.parent_pid[p]       = 0,
                    !.waiting_on_child[p] = 0,
                    !.children[p]         = {},
                    !.is_foreground[p]    = FALSE,
                    !.stack_pointer[p]    = NULL]
  BY <1>1 DEF ReleaseSlot, Globals
<1> HIDE DEF h, l
<1>3. h \in Globals
  <2>1. /\ g.used \ {p} \in SUBSET Addr
        /\ [g.priority EXCEPT ![p] = 0] \in [Addr -> Int]
        /\ [g.parent_pid EXCEPT ![p] = 0] \in [Addr -> Pids]
        /\ [g.waiting_on_child EXCEPT ![p] = 0] \in [Addr -> 0..2]
        /\ [g.children EXCEPT ![p] = {}] \in [Addr -> SUBSET Pids]
        /\ [g.is_foreground EXCEPT ![p] = FALSE] \in [Addr -> BOOLEAN]
        /\ [g.stack_pointer EXCEPT ![p] = NULL] \in [Addr -> Addr \cup {NULL}]
    BY <1>1, TableAssumption DEF Globals, Pids
  <2> QED BY <1>1, <1>2, <2>1 DEF Globals
<1>4. SameRing(g, h)
  BY <1>1, <1>2 DEF Globals, SameRing
<1>5. WellFormed(h)
  BY <1>3, <1>4, SameRingWellFormed
<1> QED BY <1>5 DEF h

LEMMA remove_from_processes_listWellFormed ==
  ASSUME NEW g, WellFormed(g), NEW p \in Addr
  PROVE  WellFormed(remove_from_processes_list(g, p))
<1> DEFINE detached   == DetachFromParent(g, p)
           terminated == Terminate(detached, p)
           dequeued   == remove_from_ready_list(terminated, p)
<1>1. WellFormed(detached)
  BY DetachFromParentWellFormed
<1> HIDE DEF detached
<1>2. WellFormed(terminated)
  BY <1>1, TerminateWellFormed
<1> HIDE DEF terminated
<1>3. WellFormed(dequeued)
  BY <1>2, remove_from_ready_listRing
<1> HIDE DEF dequeued
<1>4. WellFormed(ReleaseSlot(dequeued, p))
  BY <1>3, ReleaseSlotWellFormed
<1> QED BY <1>4 DEF remove_from_processes_list, dequeued, terminated, detached

LEMMA PoolWellFormed ==
  ASSUME NEW g, WellFormed(g), NEW pool \in [Slots -> BOOLEAN]
  PROVE  WellFormed([g EXCEPT !.pids = pool])
<1> DEFINE h == [g EXCEPT !.pids = pool]
<1>1. h \in Globals /\ SameRing(g, h)
  BY DEF WellFormed, Globals, SameRing
<1> HIDE DEF h
<1>2. WellFormed(h)
  BY <1>1, SameRingWellFormed
<1> QED BY <1>2 DEF h

LEMMA KilledWellFormed ==
  ASSUME NEW g, WellFormed(g), NEW p \in Addr
  PROVE  WellFormed(Killed(g, p))
<1> DEFINE pool       == [i \in Slots |-> g.pids[i] /\ (i # g.pid[p] \/ i >= MAX_PROCESSES)]
           freed      == freePid(g, g.pid[p])
           unlinked   == remove_from_ready_list(freed, p)
           terminated == Terminate(unlinked, p)
<1>1. pool \in [Slots -> BOOLEAN] /\ freed = [g EXCEPT !.pids = pool]
  BY DEF WellFormed, Globals, freePid
<1> HIDE DEF pool, freed
<1>2. WellFormed(freed)
  BY <1>1, PoolWellFormed
<1>3. WellFormed(unlinked)
  BY <1>2, remove_from_ready_listRing
<1> HIDE DEF unlinked
<1>4. WellFormed(terminated)
  BY <1>3, TerminateWellFormed
<1> HIDE DEF terminated
<1>5. WellFormed(remove_from_processes_list(terminated, p))
  BY <1>4, remove_from_processes_listWellFormed
<1> QED BY <1>5 DEF Killed, terminated, unlinked, freed

-----------------------------------------------------------------------------
(* The machine.                                                            *)

\* The globals are well formed, and the CPU and the threads are somewhere.
Machine(g, c, places) ==
    WellFormed(g) /\ c \in Addr \cup {NULL} /\ places \in [Addr -> Places]

Entries == [proc : Addr, left : 0..MaxSleep]

\* TypeOK is not inductive: the counter that scheduler() charges and the node it
\* leaves are those of PCBs only because current_node is in a ring where no PCB
\* is twice (after a removal, a second node of the PCB would be left behind).
IInv ==
    /\ Machine(k, cpu, at)
    /\ sleep_list \in Seq(Entries)
    /\ boot \in 0..3
    /\ irq \in Nat

LEMMA IInvImplies == IInv => TypeOK /\ Distinct(k) /\ NodeInRing(k)
BY DEF IInv, Machine, Entries, WellFormed, TypeOK

-----------------------------------------------------------------------------
(* How a handler ends.                                                     *)

LEMMA UnblockedType ==
  ASSUME NEW g, NEW places \in [Addr -> Places]
  PROVE  Unblocked(g, places) \in [Addr -> Places]
BY DEF Unblocked, Places

LEMMA ReturnMachine ==
  ASSUME NEW g, WellFormed(g), Machine(k, cpu, at), Return(g)
  PROVE  Machine(k', cpu', at')
BY UnblockedType DEF Machine, Return

\* The context that a handler resumes is that of a thread, or none: also when
\* the one in stack_pointer has been taken already.
LEMMA CallSchedulerMachine ==
  ASSUME NEW g, WellFormed(g), Machine(k, cpu, at), NEW places \in [Addr -> Places],
         CallScheduler(g, places)
  PROVE  Machine(k', cpu', at')
<1> DEFINE r == scheduler(g, cpu)
           p == r.k.current_process
           s == IF r.k.stack_pointer[p] = r.sp THEN NULL ELSE r.k.stack_pointer[p]
           h == [r.k EXCEPT !.stack_pointer[p] = s]
<1>1. WellFormed(r.k) /\ r.sp \in Addr \cup {NULL}
  BY schedulerWellFormed DEF Machine
<1>2. k' = h /\ cpu' = r.sp /\ at' = Unblocked(r.k, places)
  <2>1. k' = [r.k EXCEPT !.stack_pointer[p] = s]
    BY <1>1 DEF CallScheduler, WellFormed, Globals
  <2> QED BY <2>1 DEF CallScheduler
<1> HIDE DEF r
<1>3. p \in Addr /\ s \in Addr \cup {NULL}
  BY <1>1 DEF WellFormed, Globals
<1> HIDE DEF p, s
<1>4. h \in Globals /\ SameRing(r.k, h)
  BY <1>1, <1>3 DEF WellFormed, Globals, SameRing
<1> HIDE DEF h
<1>5. WellFormed(h)
  BY <1>1, <1>4, SameRingWellFormed
<1> QED BY <1>1, <1>2, <1>5, UnblockedType DEF Machine

\* One step of an exit changes neither the CPU nor the queue.
LEMMA ExitingStep ==
  ASSUME IInv, NEW from, NEW to \in Places, NEW g, WellFormed(g), Exiting(from, to, g)
  PROVE  IInv'
<1>1. [at EXCEPT ![cpu] = to] \in [Addr -> Places]
  BY DEF IInv, Machine
<1> QED BY <1>1, UnblockedType DEF IInv, Machine, Exiting, Entries

-----------------------------------------------------------------------------
(* The sleep queue.                                                        *)

LEMMA InsertedType ==
  ASSUME NEW s \in Seq(Entries), NEW e \in Entries
  PROVE  Inserted(s, e) \in Seq(Entries)
<1> DEFINE S == {j \in DOMAIN s : s[j].left > e.left}
           i == First(S)
<1>1. CASE S = {}
  BY <1>1 DEF Inserted, First
<1>2. CASE S # {}
  <2>1. i \in 1..Len(s)
    <3>1. S \subseteq Nat /\ S \subseteq 1..Len(s)
      OBVIOUS
    <3>2. First(S) \in S
      BY <1>2, <3>1, FirstIsLeast, Zenon
    <3> QED BY <3>1, <3>2
  <2>2. Inserted(s, e) = SubSeq(s, 1, i - 1) \o <<e>> \o SubSeq(s, i, Len(s))
    <3>1. i # 0
      BY <2>1
    <3> QED BY <3>1 DEF Inserted
  <2> HIDE DEF i
  <2> QED BY <2>1, <2>2
<1> QED BY <1>1, <1>2

LEMMA DropType ==
  ASSUME NEW s \in Seq(Entries), NEW i \in DOMAIN s
  PROVE  Drop(s, i) \in Seq(Entries)
BY WithoutIndex DEF Drop

-----------------------------------------------------------------------------
(* The steps.                                                              *)

LEMMA InitIInv == Init => IInv
<1> SUFFICES ASSUME Init PROVE IInv
  OBVIOUS
<1>1. BOOT \in Addr /\ NULL \notin Addr /\ 1 \in Slots /\ 0 \in Pids /\ 1 \in Pids /\ LOW \in Int
  BY TableAssumption, KernelAssumption DEF Slots, Pids
<1>2. k \in Globals
  BY <1>1 DEF Init, Globals, STATUS
<1>3. k.ready_list = <<BOOT>> /\ k.current_node = BOOT
  BY DEF Init
<1>4. WellFormed(k)
  BY <1>2, <1>3 DEF WellFormed, Distinct, NodeInRing, InRing
<1> QED BY <1>1, <1>4 DEF Init, IInv, Machine, Entries, Places

LEMMA SelfType == ASSUME IInv PROVE Self \in Addr /\ k.pid[Self] \in Pids
BY DEF IInv, Machine, WellFormed, Globals, Self

LEMMA CreatesStep ==
  ASSUME IInv, NEW p \in Addr, NEW v \in Int, NEW fg \in BOOLEAN, NEW garbage \in Garbage,
         Creates(p, v, fg, garbage)
  PROVE  Machine(k', cpu', at') /\ UNCHANGED <<sleep_list, irq>>
<1> DEFINE h == createProcess(k, p, v, fg, garbage)
<1>1. WellFormed(h)
  BY KernelAssumption, createProcessWellFormed DEF IInv, Machine
<1>2. k' = h /\ at' = Unblocked(h, [at EXCEPT ![p] = "user"]) /\ UNCHANGED <<cpu, sleep_list, irq>>
  BY DEF Creates
<1> HIDE DEF h
<1>3. [at EXCEPT ![p] = "user"] \in [Addr -> Places]
  BY DEF IInv, Machine, Places
<1> QED BY <1>1, <1>2, <1>3, UnblockedType DEF IInv, Machine

LEMMA KillsMachine ==
  ASSUME IInv, NEW pid, Kills(pid)
  PROVE  Machine(k', cpu', at')
<1> DEFINE p == get_process_by_pid(k, pid)
<1>1. WellFormed(k) /\ at \in [Addr -> Places] /\ Machine(k, cpu, at)
  BY DEF IInv, Machine
<1>2. CASE pid < 3 \/ p = NULL
  BY <1>1, <1>2, ReturnMachine DEF Kills
<1>3. CASE ~(pid < 3 \/ p = NULL)
  <2>1. p \in Addr
    BY <1>1, <1>3, foundprocessType DEF WellFormed
  <2>2. CallScheduler(Killed(k, p), at)
    BY <1>3, Zenon DEF Kills
  <2> HIDE DEF p
  <2> QED BY <1>1, <2>1, <2>2, KilledWellFormed, CallSchedulerMachine
<1> QED BY <1>2, <1>3

LEMMA WaitsMachine ==
  ASSUME IInv, Waits
  PROVE  Machine(k', cpu', at')
<1> DEFINE g == [k EXCEPT !.waiting_on_child[Self] = 1]
           h == block_process(g, k.pid[Self])
<1>1. WellFormed(k) /\ Machine(k, cpu, at) /\ [at EXCEPT ![cpu] = "wait"] \in [Addr -> Places]
  BY DEF IInv, Machine, Places
<1>2. g \in Globals /\ SameRing(k, g)
  <2>1. Self \in Addr /\ 1 \in 0..2
    BY SelfType
  <2> QED BY <1>1, <2>1 DEF WellFormed, Globals, SameRing
<1>3. CASE k.children[Self] # {}
  <2>1. CallScheduler(h, [at EXCEPT ![cpu] = "wait"])
    BY <1>3 DEF Waits
  <2> HIDE DEF g
  <2>2. WellFormed(h)
    BY <1>1, <1>2, SameRingWellFormed, block_processWellFormed
  <2> HIDE DEF h
  <2> QED BY <1>1, <2>1, <2>2, CallSchedulerMachine
<1>4. CASE k.children[Self] = {}
  BY <1>1, <1>4, ReturnMachine DEF Waits
<1> QED BY <1>3, <1>4

LEMMA YieldMachine ==
  ASSUME IInv, Yield
  PROVE  Machine(k', cpu', at')
<1> DEFINE g == [k EXCEPT !.state[Self] = "READY"]
           q == add_to_ready_list(g, Self)
           h == scheduler(q, k.stack_pointer[Self]).k
<1>1. WellFormed(k) /\ Machine(k, cpu, at) /\ Self \in Addr
  BY SelfType DEF IInv, Machine
<1>2. CASE k.state[Self] = "RUNNING"
  <2>1. Return(h)
    BY <1>2 DEF Yield
  <2>2. k.stack_pointer[Self] \in Addr \cup {NULL} /\ "READY" \in STATUS
    BY <1>1 DEF WellFormed, Globals, STATUS
  <2>3. WellFormed(g)
    BY <1>1, <2>2, StateWellFormed
  <2> HIDE DEF g
  <2>4. WellFormed(q)
    BY <1>1, <2>3, add_to_ready_listRing
  <2> HIDE DEF q
  <2>5. WellFormed(h)
    BY <2>2, <2>4, schedulerWellFormed
  <2> HIDE DEF h
  <2> QED BY <1>1, <2>1, <2>5, ReturnMachine
<1>3. CASE k.state[Self] # "RUNNING"
  BY <1>1, <1>3, ReturnMachine DEF Yield
<1> QED BY <1>2, <1>3

LEMMA PidGivenBackWellFormed ==
  ASSUME NEW g, WellFormed(g)
  PROVE  WellFormed(PidGivenBack(g))
<1> DEFINE pool == [i \in Slots |-> g.pids[i] /\ i # g.pid[g.current_process]]
<1>1. pool \in [Slots -> BOOLEAN] /\ PidGivenBack(g) = [g EXCEPT !.pids = pool]
  BY DEF PidGivenBack, WellFormed, Globals
<1> HIDE DEF pool
<1> QED BY <1>1, PoolWellFormed

\* Every system call keeps the invariant.
LEMMA CallStep ==
  ASSUME IInv, Call
  PROVE  IInv'
<1>0. WellFormed(k) /\ Machine(k, cpu, at) /\ Self \in Addr /\ sleep_list \in Seq(Entries)
  BY SelfType DEF IInv, Machine
<1>1. ASSUME NEW new \in Addr, NEW prio \in Quanta, NEW fg \in Foreground, NEW garbage \in Garbage,
             Create(new, prio, fg, garbage)
      PROVE  IInv'
  <2>1. prio \in Int /\ fg \in BOOLEAN /\ Creates(new, prio, fg, garbage) /\ UNCHANGED boot
    BY <1>1, KernelAssumption DEF Create
  <2> QED BY <2>1, CreatesStep DEF IInv
<1>2. ASSUME NEW pid \in Pids, Kill(pid) PROVE IInv'
  BY <1>2, KillsMachine DEF Kill, IInv
<1>3. ASSUME NEW pid \in Pids, Block(pid) PROVE IInv'
  <2>1. Machine(k', cpu', at')
    BY <1>0, <1>3, block_processWellFormed, ReturnMachine DEF Block
  <2> QED BY <1>3, <2>1 DEF Block, IInv
<1>4. ASSUME NEW pid \in Pids, Unblock(pid) PROVE IInv'
  <2>1. Machine(k', cpu', at')
    BY <1>0, <1>4, unblock_processWellFormed, ReturnMachine DEF Unblock
  <2> QED BY <1>4, <2>1 DEF Unblock, IInv
<1>5. ASSUME NEW pid \in Pids, NEW v \in NiceValues, Nice(pid, v) PROVE IInv'
  <2>1. v \in Int
    BY KernelAssumption
  <2>2. Machine(k', cpu', at')
    BY <1>0, <1>5, <2>1, modify_priorityWellFormed, ReturnMachine DEF Nice
  <2> QED BY <1>5, <2>2 DEF Nice, IInv
<1>6. ASSUME NEW n \in 0..MaxSleep, Sleep(n) PROVE IInv'
  <2>1. [at EXCEPT ![cpu] = "sleep"] \in [Addr -> Places]
    BY <1>0 DEF Machine, Places
  <2>2. Machine(k', cpu', at')
    BY <1>0, <1>6, <2>1, block_processWellFormed, CallSchedulerMachine DEF Sleep
  <2>3. [proc |-> Self, left |-> n] \in Entries
    BY <1>0 DEF Entries
  <2>4. sleep_list' \in Seq(Entries) /\ UNCHANGED <<boot, irq>>
    BY <1>0, <1>6, <2>3, InsertedType DEF Sleep
  <2> QED BY <2>2, <2>4 DEF IInv, Entries
<1>7. CASE Yield
  BY <1>7, YieldMachine DEF Yield, IInv
<1>8. CASE Wait
  BY <1>8, WaitsMachine DEF Wait, IInv
<1>9. CASE EndProcess
  <2> DEFINE h == remove_from_processes_list(k, Self)
  <2>1. WellFormed(h)
    BY <1>0, remove_from_processes_listWellFormed
  <2>2. CallScheduler(PidGivenBack(h), at) /\ UNCHANGED <<sleep_list, boot, irq>>
    BY <1>9 DEF EndProcess
  <2> HIDE DEF h
  <2>3. at \in [Addr -> Places]
    BY <1>0 DEF Machine
  <2>4. Machine(k', cpu', at')
    BY <1>0, <2>1, <2>2, <2>3, PidGivenBackWellFormed, CallSchedulerMachine
  <2> QED BY <2>2, <2>4 DEF IInv
<1> QED BY <1>1, <1>2, <1>3, <1>4, <1>5, <1>6, <1>7, <1>8, <1>9 DEF Call

LEMMA BootStep ==
  ASSUME IInv, Boot
  PROVE  IInv'
<1>1. boot' \in 0..3
  BY DEF IInv, Boot
<1>2. Machine(k', cpu', at') /\ UNCHANGED <<sleep_list, irq>>
  <2>1. LOW \in Int /\ NORMAL \in Int /\ IDLE \in Addr /\ TRUE \in BOOLEAN
    BY KernelAssumption
  <2>2. ASSUME NEW garbage \in Garbage, Creates(IDLE, LOW, TRUE, garbage)
        PROVE  Machine(k', cpu', at') /\ UNCHANGED <<sleep_list, irq>>
    BY <2>1, <2>2, CreatesStep
  <2>3. ASSUME NEW shell \in Addr, NEW garbage \in Garbage, Creates(shell, NORMAL, TRUE, garbage)
        PROVE  Machine(k', cpu', at') /\ UNCHANGED <<sleep_list, irq>>
    BY <2>1, <2>3, CreatesStep
  <2>4. ASSUME Waits, UNCHANGED <<sleep_list, irq>>
        PROVE  Machine(k', cpu', at') /\ UNCHANGED <<sleep_list, irq>>
    BY <2>4, WaitsMachine
  <2> QED BY <2>2, <2>3, <2>4 DEF Boot
<1> QED BY <1>1, <1>2 DEF IInv

\* Every step of exit_process keeps the invariant.
LEMMA ExitStep ==
  ASSUME IInv, Exit
  PROVE  IInv'
<1>0. WellFormed(k) /\ Machine(k, cpu, at) /\ Self \in Addr
  BY SelfType DEF IInv, Machine
<1>1. CASE ExitDetach
  BY <1>0, <1>1, ExitingStep, DetachFromParentWellFormed DEF ExitDetach, Places
<1>2. CASE ExitTerminate
  BY <1>0, <1>2, ExitingStep, TerminateWellFormed DEF ExitTerminate, Places
<1>3. CASE ExitDequeue
  BY <1>0, <1>3, ExitingStep, remove_from_ready_listRing DEF ExitDequeue, Places
<1>4. CASE ExitRelease
  BY <1>0, <1>4, ExitingStep, ReleaseSlotWellFormed DEF ExitRelease, Places
<1>5. CASE ExitFinish
  <2> DEFINE place == IF KeepsCpu(PidGivenBack(k)) THEN "returned" ELSE "user"
  <2>1. [at EXCEPT ![cpu] = place] \in [Addr -> Places]
    BY <1>0 DEF Machine, Places
  <2>2. Machine(k', cpu', at')
    BY <1>0, <1>5, <2>1, PidGivenBackWellFormed, CallSchedulerMachine DEF ExitFinish
  <2> QED BY <1>5, <2>2 DEF ExitFinish, IInv
<1> QED BY <1>1, <1>2, <1>3, <1>4, <1>5 DEF Exit

\* Every step of the timer handler keeps the invariant, the wakeup that writes
\* over a freed PCB included.
LEMMA TickStep ==
  ASSUME IInv, Tick
  PROVE  IInv'
<1>0. WellFormed(k) /\ Machine(k, cpu, at) /\ Self \in Addr /\ sleep_list \in Seq(Entries)
  BY SelfType DEF IInv, Machine
<1>1. CASE TickStart
  <2>1. ASSUME NEW i \in DOMAIN sleep_list
        PROVE  [sleep_list[i] EXCEPT !.left = IF @ = 0 THEN 0 ELSE @ - 1] \in Entries
    <3>1. sleep_list[i] \in Entries
      BY <1>0
    <3>2. MaxSleep \in Nat
      BY KernelAssumption
    <3> QED BY <3>1, <3>2 DEF Entries
  <2>2. DOMAIN sleep_list = 1..Len(sleep_list) /\ Len(sleep_list) \in Nat
    BY <1>0
  <2>3. sleep_list' \in Seq(Entries)
    BY <1>1, <2>1, <2>2 DEF TickStart
  <2> QED BY <1>1, <2>3 DEF TickStart, IInv
<1>2. CASE TickScan
  <2>1. sleep_list' \in Seq(Entries) /\ irq' \in Nat /\ UNCHANGED <<cpu, boot>>
    <3>1. irq \in DOMAIN sleep_list /\ irq \in Nat
      BY <1>2 DEF TickScan, IInv
    <3>2. Drop(sleep_list, irq) \in Seq(Entries)
      BY <1>0, <3>1, DropType
    <3> QED BY <1>0, <1>2, <3>1, <3>2 DEF TickScan
  <2>2. WellFormed(k') /\ at' \in [Addr -> Places]
    <3>1. ASSUME UNCHANGED <<k, at>> PROVE WellFormed(k') /\ at' \in [Addr -> Places]
      BY <1>0, <3>1 DEF Machine
    <3>2. ASSUME NEW pid, NEW seen \in FreedStates,
                 k' = [unblock_process(k, pid) EXCEPT !.state[Self] =
                          IF Self \in k.used THEN @ ELSE seen],
                 at' = Unblocked(k', at)
          PROVE  WellFormed(k') /\ at' \in [Addr -> Places]
      <4> DEFINE g  == unblock_process(k, pid)
                 st == IF Self \in k.used THEN g.state[Self] ELSE seen
      <4>1. WellFormed(g)
        BY <1>0, unblock_processWellFormed
      <4>2. k' = [g EXCEPT !.state[Self] = st]
        BY <3>2
      <4>3. st \in STATUS
        <5> HIDE DEF g
        <5>1. g.state[Self] \in STATUS /\ k.state[Self] \in STATUS /\ "RUNNING" \in STATUS
          BY <1>0, <4>1 DEF WellFormed, Globals, STATUS
        <5>2. seen \in STATUS
          BY <3>2, <5>1 DEF FreedStates
        <5> QED BY <5>1, <5>2
      <4> HIDE DEF g, st
      <4>4. WellFormed(k')
        BY <1>0, <4>1, <4>2, <4>3, StateWellFormed
      <4>5. at \in [Addr -> Places]
        BY <1>0 DEF Machine
      <4> QED BY <3>2, <4>4, <4>5, UnblockedType
    <3> QED BY <1>2, <3>1, <3>2 DEF TickScan
  <2> QED BY <2>1, <2>2 DEF IInv, Machine
<1>3. CASE TickEnd
  <2>1. at \in [Addr -> Places]
    BY <1>0 DEF Machine
  <2>2. Machine(k', cpu', at')
    BY <1>0, <1>3, <2>1, CallSchedulerMachine DEF TickEnd
  <2> QED BY <1>3, <2>2 DEF TickEnd, IInv
<1> QED BY <1>1, <1>2, <1>3 DEF Tick

LEMMA NextIInv == IInv /\ [Next]_vars => IInv'
<1> SUFFICES ASSUME IInv, [Next]_vars PROVE IInv'
  OBVIOUS
<1>1. CASE UNCHANGED vars
  BY <1>1 DEF vars, IInv, Machine, WellFormed, Distinct, NodeInRing, InRing
<1>2. CASE CtrlC
  BY <1>2, KillsMachine DEF CtrlC, IInv
<1> QED BY <1>1, <1>2, BootStep, CallStep, ExitStep, TickStep DEF Next

-----------------------------------------------------------------------------

\* Every variable of the kernel has its type for any table, any processes and any
\* set of system calls: the ring and the sleep queue hold PCBs, the CPU resumes the
\* context of a thread or none, and no counter of scheduler() is that of NULL.
THEOREM TypeCorrect == Spec => []TypeOK
<1>1. Spec => []IInv
  BY InitIInv, NextIInv, PTL DEF Spec
<1>2. IInv => TypeOK
  BY IInvImplies
<1> QED BY <1>1, <1>2, PTL

\* The ring of scheduler.c stays a ring: no process is in it twice, and
\* current_node is one of its nodes whenever there are nodes, so that the search
\* of scheduler() ends.  These are the first and the third part of ReadyRing.
THEOREM RingSound == Spec => [](Distinct(k) /\ NodeInRing(k))
<1>1. Spec => []IInv
  BY InitIInv, NextIInv, PTL DEF Spec
<1>2. IInv => Distinct(k) /\ NodeInRing(k)
  BY IInvImplies
<1> QED BY <1>1, <1>2, PTL
=============================================================================
