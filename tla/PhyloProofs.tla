---------------------------- MODULE PhyloProofs ----------------------------
(***************************************************************************)
(* The dining philosophers, for every size of the table: neighbours never  *)
(* eat together and the permission to eat is given once, whoever joins,    *)
(* leaves or is killed, while a tick comes before a dead pid is given away.*)
(*                                                                         *)
(* Each action is a chain of changes that keep the invariant Sound: a      *)
(* philosopher or phylo_main moves, a fork is granted, SEM_GLOBAL is       *)
(* waited for and posted.                                                  *)
(***************************************************************************)
EXTENDS Phylo, SequenceTheorems, WellFoundedInduction, TLAPS

-----------------------------------------------------------------------------
(* The invariant, of the semaphores sm, the places pl, the number n of     *)
(* philosophers, their states, who sits where, and the sleep queue.        *)

AtTable == {"start", "think", "take", "take_q", "take_in", "fork", "fork_q",
            "fed", "eat", "leave", "leave_q", "leave_in"}
InMain  == {"off", "dead", "menu", "all", "add", "add_q", "add_in", "rm", "rm_q", "rm_in",
            "nap", "rm_again", "again_q", "rm_test"}
Fed     == {"fed", "eat", "leave", "leave_q", "leave_in"}
Queued  == {"take_q", "leave_q", "add_q", "rm_q", "again_q"}
Gone    == {"none", "dead"}

Places(pl) ==
    /\ pl \in [Procs -> AtTable \cup InMain \cup Gone]
    /\ pl[MAIN] \in InMain
    /\ \A p \in Pids : pl[p] \in AtTable \cup {"none"}

SemType == [value : Nat \cup {-1}, waiting : Seq(Procs)]

Sems_Typed(sm) == sm \in [Sems -> SemType]

Table_Typed(n, states, pids, seats) ==
    /\ n \in 0..MAX_DINER
    /\ states \in [Seats -> PHYLO_STATE]
    /\ pids \in [Seats -> Pids \cup {NO_PID}]
    /\ seats \in [Pids -> Seats]

\* phylo_main adds only while there is room and removes only who is there.
Counted(pl, n) ==
    /\ pl[MAIN] = "off" => n = 0
    /\ pl[MAIN] \in {"add", "add_q", "add_in"} => n < MAX_DINER
    /\ pl[MAIN] \in {"rm", "rm_q", "rm_in", "nap", "rm_again", "again_q", "rm_test"} => n > 0

\* The seats in use and the living philosophers are each other's.
Seated(pl, n, pids, seats) ==
    /\ \A i \in 0..n - 1 : pids[i] \in Pids /\ pl[pids[i]] # "none" /\ seats[pids[i]] = i
    /\ \A p \in Pids : pl[p] # "none" => seats[p] \in 0..n - 1 /\ pids[seats[p]] = p

Unused(sm, n, states) ==
    \A i \in Seats : i >= n => states[i] = "NONE" /\ sm[i] = Closed

\* What its place, its state and its semaphore say of the philosopher p.
Plate(p, label, state, fork) ==
    /\ label = "start" => state = "NONE"
    /\ label \in {"think", "take", "take_q", "take_in"} => state = "THINKING"
    /\ label = "fork" => state \in {"WAITING", "EATING"}
    /\ label = "fork_q" => state = "WAITING"
    /\ label \in Fed => state = "EATING"
    /\ fork.value = IF state = "EATING" /\ label \notin Fed THEN 1 ELSE 0
    /\ fork.waiting = IF label = "fork_q" THEN <<p>> ELSE <<>>

Plates(sm, pl, states, seats) ==
    \A p \in Pids : pl[p] # "none" => Plate(p, pl[p], states[seats[p]], sm[seats[p]])

RightOf(n, i) == IF i = n - 1 THEN 0 ELSE i + 1
LeftOf(n, i)  == IF i = 0 THEN n - 1 ELSE i - 1

Apart(n, states) ==
    \A i \in 0..n - 1 :
        states[i] = "EATING" /\ RightOf(n, i) # i => states[RightOf(n, i)] # "EATING"

Once(s) == \A i, j \in DOMAIN s : s[i] = s[j] => i = j

\* An entry of the sleep queue is of a process that sleeps, or that is dead.
Sleeping(pl, list) ==
    /\ list \in Seq(Pids) /\ Once(list)
    /\ \A j \in DOMAIN list : pl[list[j]] \in {"think", "eat", "none"}

\* Who is in the queue q of SEM_GLOBAL waits there, or is dead; when phylo_main is
\* about to give a pid away no entry is of a dead philosopher, since those come
\* before the entry of phylo_main.
GlobalQueue(q, value, pl) ==
    /\ value # 0 => q = <<>>
    /\ Once(q)
    /\ \A j \in DOMAIN q : pl[q[j]] \in Queued \cup Gone
    /\ \A j \in DOMAIN q : pl[q[j]] = "none" =>
          /\ pl[MAIN] # "add_in"
          /\ \A l \in DOMAIN q : q[l] = MAIN /\ pl[MAIN] # "dead" => j < l

Queue(sm, pl) == GlobalQueue(sm[SEM_GLOBAL].waiting, sm[SEM_GLOBAL].value, pl)

Sound(sm, pl, n, states, pids, seats, list) ==
    /\ Places(pl) /\ Sems_Typed(sm) /\ Table_Typed(n, states, pids, seats)
    /\ Counted(pl, n) /\ Seated(pl, n, pids, seats) /\ Unused(sm, n, states)
    /\ Plates(sm, pl, states, seats) /\ Apart(n, states)
    /\ Sleeping(pl, list) /\ Queue(sm, pl)

IInv == Sound(sem, pc, phylo_count, phylo_states, phylo_pids, seat, sleep_list)

-----------------------------------------------------------------------------
(* The system calls, by what they do.                                      *)

LEMMA Numbers ==
  /\ MIN_DINER \in Nat /\ MAX_DINER \in Nat /\ MIN_DINER > 0 /\ MIN_DINER < MAX_DINER
  /\ SEM_GLOBAL \in Sems /\ SEM_GLOBAL \notin Seats
  /\ \A i \in Seats : i \in Sems /\ i \in Nat /\ i # SEM_GLOBAL /\ i < MAX_DINER
  /\ MAIN \in Procs /\ MAIN \notin Pids
  /\ \A p \in Pids : p \in Procs /\ p # MAIN
  /\ \A p \in Procs : p = MAIN \/ p \in Pids
BY PhyloAssumption DEF SEM_GLOBAL, Sems, Seats, MAIN, Procs, Pids

LEMMA Awoken ==
  /\ Blocked = {"think", "eat", "take_q", "fork_q", "leave_q", "add_q", "rm_q", "again_q"}
  /\ Resumes["think"] = "take" /\ Resumes["eat"] = "leave" /\ Resumes["take_q"] = "take_in"
  /\ Resumes["fork_q"] = "fed" /\ Resumes["leave_q"] = "leave_in" /\ Resumes["add_q"] = "add_in"
  /\ Resumes["rm_q"] = "rm_in" /\ Resumes["again_q"] = "rm_test"
BY DEF Blocked, Resumes

\* The first of a set of numbers exists.
LEMMA LeastExists ==
  ASSUME NEW S, S \subseteq Nat, S # {}
  PROVE  \E x \in S : \A y \in S : x <= y
<1> DEFINE Less == OpToRel(<, Nat)
<1>1. \E x \in S : \A y \in S : ~(<<y, x>> \in Less)
  BY NatLessThanWellFounded, WFMin, Zenon
<1>2. \A x, y \in Nat : y < x => <<y, x>> \in Less
  <2> SUFFICES ASSUME NEW x \in Nat, NEW y \in Nat, y < x
               PROVE  <<y, x>> \in {ss \in Nat \X Nat : ss[1] < ss[2]}
    BY DEF OpToRel
  <2> QED OBVIOUS
<1> HIDE DEF Less
<1>3. PICK x \in S : \A y \in S : ~(<<y, x>> \in Less)
  BY <1>1
<1>4. ASSUME NEW y \in S PROVE x <= y
  <2>1. x \in Nat /\ y \in Nat
    OBVIOUS
  <2>2. ~(y < x)
    BY <1>2, <1>3, <2>1, Zenon
  <2> QED BY <2>1, <2>2
<1> QED BY <1>4

\* What sem_post does: nothing, one more token, or one process fewer in the queue.
NoPost(s, sm, pl, sm2, pl2) == sm[s].value = -1 /\ sm2 = sm /\ pl2 = pl

PostsToken(s, sm, pl, sm2, pl2) ==
    /\ sm[s].value # -1
    /\ \A i \in DOMAIN sm[s].waiting : pl[sm[s].waiting[i]] \in Gone
    /\ sm2 = [sm EXCEPT ![s] = [value |-> sm[s].value + 1, waiting |-> <<>>]]
    /\ pl2 = pl

PostsProcess(s, f, sm, pl, sm2, pl2) ==
    LET q == sm[s].waiting
    IN  /\ sm[s].value # -1
        /\ f \in DOMAIN q /\ pl[q[f]] \notin Gone
        /\ \A i \in DOMAIN q : i < f => pl[q[i]] \in Gone
        /\ sm2 = [sm EXCEPT ![s].waiting = SubSeq(q, f + 1, Len(q))]
        /\ pl2 = [pl EXCEPT ![q[f]] = IF @ \in Blocked THEN Resumes[@] ELSE @]

Posts(s, sm, pl, sm2, pl2) ==
    \/ NoPost(s, sm, pl, sm2, pl2)
    \/ PostsToken(s, sm, pl, sm2, pl2)
    \/ \E f \in DOMAIN sm[s].waiting : PostsProcess(s, f, sm, pl, sm2, pl2)

LEMMA UnblockIs ==
  ASSUME NEW sm, NEW pl, NEW p
  PROVE  Unblock([sem |-> sm, pc |-> pl], p)
         = [sem |-> sm, pc |-> [pl EXCEPT ![p] = IF @ \in Blocked THEN Resumes[@] ELSE @]]
BY DEF Unblock

LEMMA DequeueIs ==
  ASSUME NEW sm, NEW pl, NEW s, NEW rest
  PROVE  [[sem |-> sm, pc |-> pl] EXCEPT !.sem[s].waiting = rest]
         = [sem |-> [sm EXCEPT ![s].waiting = rest], pc |-> pl]
OBVIOUS

LEMMA PostIs ==
  ASSUME NEW sm, NEW pl, NEW s, Sems_Typed(sm), s \in Sems
  PROVE  LET k2 == sem_post([sem |-> sm, pc |-> pl], s)
         IN  k2 = [sem |-> k2.sem, pc |-> k2.pc] /\ Posts(s, sm, pl, k2.sem, k2.pc)
<1> DEFINE k == [sem |-> sm, pc |-> pl]
           k2 == sem_post(k, s)
           q == sm[s].waiting
           L == Living(k, s)
           first == CHOOSE i \in L : \A j \in L : i <= j
<1> SUFFICES k2 = [sem |-> k2.sem, pc |-> k2.pc] /\ Posts(s, sm, pl, k2.sem, k2.pc)
  OBVIOUS
<1>1. k.sem = sm /\ k.pc = pl
  OBVIOUS
<1>2. L = {i \in DOMAIN q : pl[q[i]] \notin Gone}
  BY DEF Living, Gone
<1>3. q \in Seq(Procs) /\ DOMAIN q \subseteq Nat
  BY DEF Sems_Typed, SemType
<1>4. CASE sm[s].value = -1
  <2>1. k2 = k
    BY <1>4 DEF sem_post
  <2> QED BY <2>1, <1>4 DEF Posts, NoPost
<1>5. CASE sm[s].value # -1 /\ L = {}
  <2>1. k2 = [k EXCEPT !.sem[s] = [value |-> @.value + 1, waiting |-> <<>>]]
    BY <1>5 DEF sem_post
  <2>2. k2 = [sem |-> [sm EXCEPT ![s] = [value |-> sm[s].value + 1, waiting |-> <<>>]], pc |-> pl]
    BY <2>1 DEF Sems_Typed
  <2>3. \A i \in DOMAIN q : pl[q[i]] \in Gone
    BY <1>2, <1>5
  <2>4. PostsToken(s, sm, pl, k2.sem, k2.pc)
    <3> HIDE DEF k2
    <3> QED BY <2>2, <2>3, <1>5 DEF PostsToken
  <2> QED BY <2>2, <2>4 DEF Posts
<1>6. CASE sm[s].value # -1 /\ L # {}
  <2>1. k2 = Unblock([k EXCEPT !.sem[s].waiting = SubSeq(q, first + 1, Len(q))], q[first])
    BY <1>6 DEF sem_post
  <2>2. k2 = [sem |-> [sm EXCEPT ![s].waiting = SubSeq(q, first + 1, Len(q))],
              pc |-> [pl EXCEPT ![q[first]] = IF @ \in Blocked THEN Resumes[@] ELSE @]]
    <3> HIDE DEF first
    <3> DEFINE rest == SubSeq(q, first + 1, Len(q))
               sm2 == [sm EXCEPT ![s].waiting = rest]
    <3>0. k2 = Unblock([k EXCEPT !.sem[s].waiting = rest], q[first])
      BY <2>1
    <3> HIDE DEF rest
    <3>1. [k EXCEPT !.sem[s].waiting = rest] = [sem |-> sm2, pc |-> pl]
      BY DequeueIs
    <3>2. k2 = Unblock([sem |-> sm2, pc |-> pl], q[first])
      <4> HIDE DEF sm2
      <4> QED BY <3>0, <3>1
    <3> HIDE DEF sm2
    <3>3. k2 = [sem |-> sm2, pc |-> [pl EXCEPT ![q[first]] = IF @ \in Blocked THEN Resumes[@] ELSE @]]
      BY <3>2, UnblockIs
    <3> QED BY <3>3 DEF sm2, rest
  <2>3. first \in L /\ \A j \in L : first <= j
    <3> HIDE DEF L
    <3>1. L \subseteq Nat
      BY <1>2, <1>3
    <3>2. \E i \in L : \A j \in L : i <= j
      BY <3>1, <1>6, LeastExists
    <3> QED BY <3>2
  <2> HIDE DEF first, L, k2
  <2>4. first \in DOMAIN q /\ pl[q[first]] \notin Gone
    BY <2>3, <1>2
  <2>5. \A i \in DOMAIN q : i < first => pl[q[i]] \in Gone
    BY <2>3, <1>2, <1>3, <2>4
  <2>6. PostsProcess(s, first, sm, pl, k2.sem, k2.pc)
    BY <2>2, <2>4, <2>5, <1>6 DEF PostsProcess
  <2> QED BY <2>2, <2>4, <2>6 DEF Posts
<1> HIDE DEF k2, L
<1> QED BY <1>4, <1>5, <1>6

-----------------------------------------------------------------------------
(* What a process that moves leaves as it was.                             *)

\* Nobody but x moves.
Others(x, pl, pl2) == \A p \in Procs : p # x => pl2[p] = pl[p]

LEMMA QueueKept ==
  ASSUME NEW q \in Seq(Procs), NEW v, NEW pl, NEW pl2, NEW x \in Procs,
         GlobalQueue(q, v, pl), Others(x, pl, pl2),
         pl[x] \notin Queued \cup Gone \/ (x = MAIN /\ pl2[x] = "dead"),
         x = MAIN => pl2[x] # "add_in"
  PROVE  GlobalQueue(q, v, pl2)
<1>0. \A j \in DOMAIN q : q[j] \in Procs
  OBVIOUS
<1>1. MAIN \in Procs
  BY Numbers
<1>2. \A j \in DOMAIN q : q[j] = x => x = MAIN /\ pl2[x] = "dead"
  BY DEF GlobalQueue
<1>3. \A j \in DOMAIN q : q[j] # x => pl2[q[j]] = pl[q[j]]
  BY <1>0 DEF Others
<1>4. \A j \in DOMAIN q : pl2[q[j]] \in Queued \cup Gone
  BY <1>2, <1>3 DEF GlobalQueue, Gone
<1>5. ASSUME NEW j \in DOMAIN q, pl2[q[j]] = "none"
      PROVE  /\ pl2[MAIN] # "add_in"
             /\ \A l \in DOMAIN q : q[l] = MAIN /\ pl2[MAIN] # "dead" => j < l
  <2>1. q[j] # x /\ pl[q[j]] = "none"
    BY <1>2, <1>3, <1>5
  <2>2. pl[MAIN] # "add_in"
    BY <2>1 DEF GlobalQueue
  <2>3. ASSUME NEW l \in DOMAIN q, q[l] = MAIN, pl2[MAIN] # "dead" PROVE j < l
    <3>1. x # MAIN
      BY <1>2, <2>3
    <3>2. pl[MAIN] = pl2[MAIN]
      BY <3>1, <1>1 DEF Others
    <3> QED BY <3>2, <2>3, <2>1 DEF GlobalQueue
  <2> QED BY <2>2, <2>3, <1>1 DEF Others
<1> QED BY <1>4, <1>5 DEF GlobalQueue

LEMMA QueueJoined ==
  ASSUME NEW q \in Seq(Procs), NEW pl, NEW pl2, NEW x \in Procs,
         GlobalQueue(q, 0, pl), Others(x, pl, pl2),
         pl[x] \notin Queued \cup Gone, pl2[x] \in Queued
  PROVE  GlobalQueue(Append(q, x), 0, pl2)
<1> DEFINE r == Append(q, x)
<1>1. Len(q) \in Nat
  OBVIOUS
<1>2. /\ DOMAIN q = 1..Len(q) /\ DOMAIN r = 1..Len(q) + 1
      /\ r[Len(q) + 1] = x /\ \A j \in 1..Len(q) : r[j] = q[j] /\ q[j] \in Procs
  OBVIOUS
<1> HIDE DEF r
<1>3. \A j \in 1..Len(q) : q[j] # x
  BY <1>2 DEF GlobalQueue
<1>4. \A j \in 1..Len(q) : pl2[r[j]] = pl[q[j]]
  BY <1>2, <1>3 DEF Others
<1>5. Once(r)
  <2>1. SUFFICES ASSUME NEW i \in 1..Len(q) + 1, NEW j \in 1..Len(q) + 1, r[i] = r[j] PROVE i = j
    BY <1>2 DEF Once
  <2>2. i \in 1..Len(q) \/ i = Len(q) + 1
    BY <1>1
  <2>3. j \in 1..Len(q) \/ j = Len(q) + 1
    BY <1>1
  <2> QED BY <2>1, <2>2, <2>3, <1>2, <1>3 DEF GlobalQueue, Once
<1>6. \A j \in 1..Len(q) + 1 : j \in 1..Len(q) \/ j = Len(q) + 1
  BY <1>1
<1>7. \A j \in DOMAIN r : pl2[r[j]] \in Queued \cup Gone
  BY <1>2, <1>4, <1>6 DEF GlobalQueue
<1>8. ASSUME NEW j \in DOMAIN r, pl2[r[j]] = "none"
      PROVE  /\ pl2[MAIN] # "add_in"
             /\ \A l \in DOMAIN r : r[l] = MAIN /\ pl2[MAIN] # "dead" => j < l
  <2>1. j \in 1..Len(q)
    BY <1>2, <1>6, <1>8 DEF Queued
  <2>2. pl[q[j]] = "none"
    BY <2>1, <1>4, <1>8
  <2>3. x = MAIN \/ pl2[MAIN] = pl[MAIN]
    BY Numbers DEF Others
  <2>4. pl2[MAIN] # "add_in"
    BY <2>1, <2>2, <2>3, <1>2 DEF GlobalQueue, Queued
  <2>5. ASSUME NEW l \in DOMAIN r, r[l] = MAIN, pl2[MAIN] # "dead" PROVE j < l
    <3>1. CASE l = Len(q) + 1
      BY <3>1, <2>1, <1>1
    <3>2. CASE l \in 1..Len(q)
      <4>1. q[l] = MAIN /\ q[l] # x
        BY <3>2, <2>5, <1>2, <1>3
      <4>2. pl[MAIN] # "dead"
        BY <4>1, <2>3, <2>5
      <4> QED BY <4>1, <4>2, <2>1, <2>2, <3>2, <1>2 DEF GlobalQueue
    <3> QED BY <3>1, <3>2, <1>2, <1>6
  <2> QED BY <2>4, <2>5
<1> QED BY <1>5, <1>7, <1>8 DEF GlobalQueue, r

LEMMA SleepingKept ==
  ASSUME NEW pl, NEW pl2, NEW list, NEW x \in Procs, Sleeping(pl, list), Others(x, pl, pl2),
         pl[x] \notin {"think", "eat", "none"} \/ pl2[x] \in {"think", "eat", "none"}
  PROVE  Sleeping(pl2, list)
<1>1. \A j \in DOMAIN list : list[j] \in Procs
  BY Numbers DEF Sleeping
<1>2. \A j \in DOMAIN list : pl2[list[j]] \in {"think", "eat", "none"}
  BY <1>1 DEF Sleeping, Others
<1> QED BY <1>2 DEF Sleeping

LEMMA SleepingJoined ==
  ASSUME NEW pl, NEW pl2, NEW list, NEW x \in Pids, Sleeping(pl, list), Others(x, pl, pl2),
         pl[x] \notin {"think", "eat", "none"}, pl2[x] \in {"think", "eat"}
  PROVE  Sleeping(pl2, Append(list, x))
<1> DEFINE r == Append(list, x)
<1>0. list \in Seq(Pids)
  BY DEF Sleeping
<1>1. Len(list) \in Nat
  BY <1>0
<1>2. /\ DOMAIN list = 1..Len(list) /\ DOMAIN r = 1..Len(list) + 1 /\ r \in Seq(Pids)
      /\ r[Len(list) + 1] = x /\ \A j \in 1..Len(list) : r[j] = list[j] /\ list[j] \in Pids
  BY <1>0
<1> HIDE DEF r
<1>3. \A j \in 1..Len(list) : list[j] # x
  BY <1>2 DEF Sleeping
<1>4. \A j \in 1..Len(list) : pl2[list[j]] = pl[list[j]]
  BY <1>2, <1>3, Numbers DEF Others
<1>5. \A j \in 1..Len(list) + 1 : j \in 1..Len(list) \/ j = Len(list) + 1
  BY <1>1
<1>6. Once(r)
  BY <1>2, <1>3, <1>5 DEF Sleeping, Once
<1>7. \A j \in DOMAIN r : pl2[r[j]] \in {"think", "eat", "none"}
  BY <1>2, <1>4, <1>5 DEF Sleeping
<1> QED BY <1>2, <1>6, <1>7 DEF Sleeping, r

\* Fewer eat than before.
LEMMA ApartKept ==
  ASSUME NEW n, NEW states, NEW states2, Apart(n, states),
         \A i \in 0..n - 1 : states2[i] = "EATING" => states[i] = "EATING",
         n \in Nat
  PROVE  Apart(n, states2)
<1>1. \A i \in 0..n - 1 : RightOf(n, i) \in 0..n - 1
  BY DEF RightOf
<1> QED BY <1>1 DEF Apart

\* One more eats, between two that do not.
LEMMA ApartJoined ==
  ASSUME NEW n \in Nat, NEW states, NEW states2, Apart(n, states), NEW j \in 0..n - 1,
         \A i \in 0..n - 1 : i # j => states2[i] = states[i],
         states[RightOf(n, j)] # "EATING", states[LeftOf(n, j)] # "EATING"
  PROVE  Apart(n, states2)
<1>1. \A i \in 0..n - 1 : RightOf(n, i) \in 0..n - 1 /\ (RightOf(n, i) = j => LeftOf(n, j) = i)
  BY DEF RightOf, LeftOf
<1>2. ASSUME NEW i \in 0..n - 1, states2[i] = "EATING", RightOf(n, i) # i
      PROVE  states2[RightOf(n, i)] # "EATING"
  <2>1. CASE i = j
    BY <2>1, <1>1, <1>2
  <2>2. CASE i # j /\ RightOf(n, i) = j
    BY <2>2, <1>1, <1>2
  <2>3. CASE i # j /\ RightOf(n, i) # j
    <3>1. states[i] = "EATING" /\ states2[RightOf(n, i)] = states[RightOf(n, i)]
      BY <2>3, <1>1, <1>2
    <3> QED BY <3>1, <1>2 DEF Apart
  <2> QED BY <2>1, <2>2, <2>3
<1> QED BY <1>2 DEF Apart

-----------------------------------------------------------------------------
(* One process moves.                                                      *)

\* The philosopher x moves: what changes is its place, its state, its semaphore.
Moves(x, sm, pl, states, seats, sm2, pl2, states2) ==
    /\ Others(x, pl, pl2) /\ pl2[x] \in AtTable /\ Places(pl2) /\ Sems_Typed(sm2)
    /\ states2 \in [Seats -> PHYLO_STATE]
    /\ \A i \in Seats : i # seats[x] => sm2[i] = sm[i] /\ states2[i] = states[i]
    /\ Plate(x, pl2[x], states2[seats[x]], sm2[seats[x]])

LEMMA PhilosopherMoves ==
  ASSUME NEW sm, NEW pl, NEW n, NEW states, NEW pids, NEW seats, NEW list,
         Sound(sm, pl, n, states, pids, seats, list),
         NEW sm2, NEW pl2, NEW states2, NEW list2, NEW x \in Pids, pl[x] # "none",
         Moves(x, sm, pl, states, seats, sm2, pl2, states2),
         Apart(n, states2), Sleeping(pl2, list2), Queue(sm2, pl2)
  PROVE  Sound(sm2, pl2, n, states2, pids, seats, list2)
<1>1. n \in Nat /\ seats \in [Pids -> Seats] /\ pids \in [Seats -> Pids \cup {NO_PID}]
  BY Numbers DEF Sound, Table_Typed
<1>2. Table_Typed(n, states2, pids, seats)
  BY DEF Sound, Table_Typed, Moves
<1>3. pl2[MAIN] = pl[MAIN]
  BY Numbers DEF Moves, Others
<1>4. Counted(pl2, n)
  BY <1>3 DEF Sound, Counted
<1>5. \A p \in Pids : p # x => pl2[p] = pl[p]
  BY Numbers DEF Moves, Others
<1>6. pl2[x] # "none"
  BY DEF Moves, AtTable
<1>7. Seated(pl2, n, pids, seats)
  BY <1>5, <1>6 DEF Sound, Seated
<1>8. seats[x] \in 0..n - 1 /\ pids[seats[x]] = x
  BY DEF Sound, Seated
<1>9. Unused(sm2, n, states2)
  <2> SUFFICES ASSUME NEW i \in Seats, i >= n PROVE states2[i] = "NONE" /\ sm2[i] = Closed
    BY DEF Unused
  <2>1. i # seats[x]
    BY <1>1, <1>8
  <2> QED BY <2>1 DEF Sound, Unused, Moves
<1>10. ASSUME NEW p \in Pids, pl2[p] # "none"
       PROVE  Plate(p, pl2[p], states2[seats[p]], sm2[seats[p]])
  <2>1. CASE p = x
    BY <2>1 DEF Moves
  <2>2. CASE p # x
    <3>1. pl[p] # "none" /\ pl2[p] = pl[p]
      BY <2>2, <1>5, <1>10
    <3>2. pids[seats[p]] = p
      BY <3>1 DEF Sound, Seated
    <3>3. seats[p] # seats[x] /\ seats[p] \in Seats
      BY <3>2, <1>8, <2>2, <1>1
    <3>4. sm2[seats[p]] = sm[seats[p]] /\ states2[seats[p]] = states[seats[p]]
      BY <3>3 DEF Moves
    <3>5. Plate(p, pl[p], states[seats[p]], sm[seats[p]])
      BY <3>1 DEF Sound, Plates
    <3> QED BY <3>1, <3>4, <3>5
  <2> QED BY <2>1, <2>2
<1> QED BY <1>2, <1>4, <1>7, <1>9, <1>10 DEF Sound, Plates, Moves

\* phylo_main moves: what changes is its place and SEM_GLOBAL.
MainMovesTo(sm, pl, n, sm2, pl2) ==
    /\ Others(MAIN, pl, pl2) /\ pl2[MAIN] \in InMain /\ Places(pl2) /\ Sems_Typed(sm2)
    /\ \A i \in Seats : sm2[i] = sm[i]
    /\ Counted(pl2, n)

LEMMA MainMoves ==
  ASSUME NEW sm, NEW pl, NEW n, NEW states, NEW pids, NEW seats, NEW list,
         Sound(sm, pl, n, states, pids, seats, list),
         NEW sm2, NEW pl2, MainMovesTo(sm, pl, n, sm2, pl2), Queue(sm2, pl2)
  PROVE  Sound(sm2, pl2, n, states, pids, seats, list)
<1>1. \A p \in Pids : pl2[p] = pl[p]
  BY Numbers DEF MainMovesTo, Others
<1>2. seats \in [Pids -> Seats]
  BY DEF Sound, Table_Typed
<1>3. Seated(pl2, n, pids, seats)
  BY <1>1 DEF Sound, Seated
<1>4. Unused(sm2, n, states)
  BY DEF Sound, Unused, MainMovesTo
<1>5. Plates(sm2, pl2, states, seats)
  BY <1>1, <1>2 DEF Sound, Plates, MainMovesTo
<1>6. Sleeping(pl2, list)
  <2>1. pl[MAIN] \notin {"think", "eat", "none"}
    BY DEF Sound, Places, InMain
  <2>2. Sleeping(pl, list) /\ Others(MAIN, pl, pl2) /\ MAIN \in Procs
    BY Numbers DEF Sound, MainMovesTo
  <2> QED BY <2>1, <2>2, SleepingKept
<1> QED BY <1>3, <1>4, <1>5, <1>6 DEF Sound, MainMovesTo

\* The updates that the steps are made of, as operators that a lemma can speak of.
With(f, x, v) == [f EXCEPT ![x] = v]
WithQueue(sm, s, r) == [sm EXCEPT ![s].waiting = r]

\* A process moves to another place.
LEMMA PlacesKept ==
  ASSUME NEW pl, Places(pl), NEW x \in Procs, NEW l,
         x = MAIN => l \in InMain, x # MAIN => l \in AtTable,
         NEW pl2, pl2 = With(pl, x, l)
  PROVE  Places(pl2) /\ Others(x, pl, pl2) /\ pl2[x] = l
<1>1. pl2 \in [Procs -> AtTable \cup InMain \cup Gone]
  BY DEF Places, With
<1>2. pl2[x] = l /\ \A p \in Procs : p # x => pl2[p] = pl[p]
  BY DEF Places, With
<1>3. pl2[MAIN] \in InMain
  BY <1>2, Numbers DEF Places
<1>4. \A p \in Pids : pl2[p] \in AtTable \cup {"none"}
  BY <1>2, Numbers DEF Places
<1> QED BY <1>1, <1>2, <1>3, <1>4 DEF Places, Others

\* A semaphore gets another value and queue.
LEMMA SemsKept ==
  ASSUME NEW sm, Sems_Typed(sm), NEW s \in Sems, NEW v \in SemType,
         NEW sm2, sm2 = With(sm, s, v)
  PROVE  Sems_Typed(sm2) /\ sm2[s] = v /\ \A t \in Sems : t # s => sm2[t] = sm[t]
BY DEF Sems_Typed, With

LEMMA SemFields ==
  ASSUME NEW sm, Sems_Typed(sm), NEW s \in Sems
  PROVE  /\ sm[s] \in SemType /\ sm[s].value \in Nat \cup {-1} /\ sm[s].waiting \in Seq(Procs)
         /\ Len(sm[s].waiting) \in Nat /\ DOMAIN sm[s].waiting = 1..Len(sm[s].waiting)
<1>1. sm[s] \in SemType
  BY DEF Sems_Typed
<1>2. sm[s].waiting \in Seq(Procs) /\ sm[s].value \in Nat \cup {-1}
  BY <1>1 DEF SemType
<1> QED BY <1>1, <1>2

-----------------------------------------------------------------------------
(* SEM_GLOBAL is posted.                                                   *)

\* The first process in the queue goes, with the entries of the dead before it.
LEMMA QueueServed ==
  ASSUME NEW q \in Seq(Procs), NEW v, NEW pl, NEW pl2, NEW f \in DOMAIN q,
         GlobalQueue(q, v, pl), Others(q[f], pl, pl2), pl[q[f]] \notin Gone
  PROVE  GlobalQueue(SubSeq(q, f + 1, Len(q)), v, pl2)
<1> DEFINE r == SubSeq(q, f + 1, Len(q))
           d == Len(q) - f
<1>1. Len(q) \in Nat
  OBVIOUS
<1>2. DOMAIN q = 1..Len(q) /\ f \in 1..Len(q) /\ q # <<>> /\ q[f] \in Procs
  BY <1>1
<1>3. d \in Nat
  BY <1>1, <1>2
<1>4. DOMAIN r = 1..d /\ \A j \in 1..d : r[j] = q[f + j]
  BY <1>1, <1>2
<1>5. \A j \in 1..d : f + j \in 1..Len(q) /\ f + j # f
  BY <1>1, <1>2
<1> HIDE DEF r, d
<1>6. v = 0
  BY <1>2 DEF GlobalQueue
<1>7. \A j \in 1..d : r[j] # q[f] /\ r[j] \in Procs
  <2> SUFFICES ASSUME NEW j \in 1..d PROVE r[j] # q[f] /\ r[j] \in Procs
    OBVIOUS
  <2>1. r[j] = q[f + j] /\ f + j \in 1..Len(q) /\ f + j # f
    BY <1>4, <1>5
  <2>2. q[f + j] \in Procs
    BY <2>1, <1>2
  <2> QED BY <2>1, <2>2, <1>2 DEF GlobalQueue, Once
<1>8. \A j \in 1..d : pl2[r[j]] = pl[q[f + j]]
  BY <1>4, <1>7 DEF Others
<1>9. Once(r)
  <2> SUFFICES ASSUME NEW i \in 1..d, NEW j \in 1..d, r[i] = r[j] PROVE i = j
    BY <1>4 DEF Once
  <2>1. f + i = f + j
    BY <1>2, <1>4, <1>5 DEF GlobalQueue, Once
  <2> QED BY <2>1, <1>1, <1>2, <1>3
<1>10. \A j \in DOMAIN r : pl2[r[j]] \in Queued \cup Gone
  BY <1>2, <1>4, <1>5, <1>8 DEF GlobalQueue
<1>11. ASSUME NEW j \in DOMAIN r, pl2[r[j]] = "none"
       PROVE  /\ pl2[MAIN] # "add_in"
              /\ \A l \in DOMAIN r : r[l] = MAIN /\ pl2[MAIN] # "dead" => j < l
  <2>1. j \in 1..d /\ f + j \in DOMAIN q /\ pl[q[f + j]] = "none"
    BY <1>2, <1>4, <1>5, <1>8, <1>11
  <2>2. q[f] # MAIN
    <3> SUFFICES ASSUME q[f] = MAIN PROVE FALSE
      OBVIOUS
    <3>1. pl[MAIN] # "dead"
      BY DEF Gone
    <3>2. f + j < f
      BY <3>1, <2>1 DEF GlobalQueue
    <3>3. j \in Nat /\ f \in Nat
      BY <2>1, <1>2, <1>3, <1>1
    <3> QED BY <3>2, <3>3
  <2>3. pl2[MAIN] = pl[MAIN]
    BY <2>2, Numbers DEF Others
  <2>4. pl2[MAIN] # "add_in"
    BY <2>1, <2>3 DEF GlobalQueue
  <2>5. ASSUME NEW l \in DOMAIN r, r[l] = MAIN, pl2[MAIN] # "dead" PROVE j < l
    <3>1. l \in 1..d /\ f + l \in DOMAIN q /\ q[f + l] = MAIN
      BY <1>2, <1>4, <1>5, <2>5
    <3>2. f + j < f + l
      BY <3>1, <2>1, <2>3, <2>5 DEF GlobalQueue
    <3>3. j \in Nat /\ l \in Nat /\ f \in Nat
      BY <2>1, <3>1, <1>2, <1>3, <1>1
    <3> QED BY <3>2, <3>3
  <2> QED BY <2>4, <2>5
<1> QED BY <1>6, <1>9, <1>10, <1>11 DEF GlobalQueue, r

\* The queue of a semaphore gets another.
LEMMA QueueSet ==
  ASSUME NEW sm, Sems_Typed(sm), NEW s \in Sems, NEW r \in Seq(Procs),
         NEW sm2, sm2 = WithQueue(sm, s, r)
  PROVE  /\ Sems_Typed(sm2) /\ sm2[s].value = sm[s].value /\ sm2[s].waiting = r
         /\ \A t \in Sems : t # s => sm2[t] = sm[t]
<1> DEFINE v == [value |-> sm[s].value, waiting |-> r]
<1>1. sm[s] \in SemType
  BY DEF Sems_Typed
<1>2. [sm[s] EXCEPT !.waiting = r] = v /\ v \in SemType
  BY <1>1 DEF SemType
<1>3. sm2 = With(sm, s, v)
  BY <1>2 DEF With, WithQueue
<1>4. v.value = sm[s].value /\ v.waiting = r
  OBVIOUS
<1> HIDE DEF v
<1>5. Sems_Typed(sm2) /\ sm2[s] = v /\ \A t \in Sems : t # s => sm2[t] = sm[t]
  BY <1>2, <1>3, SemsKept
<1> QED BY <1>4, <1>5

LEMMA RestType ==
  ASSUME NEW S, NEW q \in Seq(S), NEW f \in DOMAIN q
  PROVE  SubSeq(q, f + 1, Len(q)) \in Seq(S)
<1>1. Len(q) \in Nat
  OBVIOUS
<1>2. f \in 1..Len(q)
  BY <1>1
<1>3. f + 1 \in Nat /\ f + 1 >= 1
  BY <1>2
<1> QED BY <1>1, <1>2, <1>3

LEMMA PostsGlobal ==
  ASSUME NEW sm, NEW pl, NEW n, NEW states, NEW pids, NEW seats, NEW list,
         Sound(sm, pl, n, states, pids, seats, list),
         NEW sm2, NEW pl2, Posts(SEM_GLOBAL, sm, pl, sm2, pl2)
  PROVE  Sound(sm2, pl2, n, states, pids, seats, list)
<1> DEFINE G == SEM_GLOBAL
           q == sm[G].waiting
<1>1. G \in Sems /\ Sems_Typed(sm) /\ Places(pl) /\ Queue(sm, pl)
  BY Numbers DEF Sound
<1>2. q \in Seq(Procs) /\ sm[G].value \in Nat \cup {-1} /\ DOMAIN q = 1..Len(q)
  BY <1>1, SemFields
<1>s. \A i \in Seats : i \in Sems /\ i # G
  BY Numbers
<1>3. CASE NoPost(SEM_GLOBAL, sm, pl, sm2, pl2)
  BY <1>3 DEF NoPost
<1>4. CASE PostsToken(SEM_GLOBAL, sm, pl, sm2, pl2)
  <2> DEFINE v == [value |-> sm[G].value + 1, waiting |-> <<>>]
  <2>1. v \in SemType /\ v.waiting = <<>>
    BY <1>2 DEF SemType
  <2>2. sm2 = With(sm, G, v) /\ pl2 = pl
    BY <1>4 DEF PostsToken, With
  <2> HIDE DEF v
  <2>3. Sems_Typed(sm2) /\ sm2[G] = v /\ \A t \in Sems : t # G => sm2[t] = sm[t]
    BY <2>1, <2>2, <1>1, SemsKept
  <2>4. MainMovesTo(sm, pl, n, sm2, pl2)
    BY <2>2, <2>3, <1>1, <1>s DEF MainMovesTo, Others, Sound, Places
  <2>5. Queue(sm2, pl2)
    BY <2>1, <2>3 DEF Queue, GlobalQueue, Once
  <2> QED BY <2>4, <2>5, MainMoves
<1>5. ASSUME NEW f \in DOMAIN q, PostsProcess(SEM_GLOBAL, f, sm, pl, sm2, pl2)
      PROVE  Sound(sm2, pl2, n, states, pids, seats, list)
  <2> DEFINE x == q[f]
             l == Resumes[pl[x]]
             r == SubSeq(q, f + 1, Len(q))
  <2>1. x \in Procs /\ r \in Seq(Procs)
    BY <1>2, RestType
  <2>2. pl[x] \notin Gone /\ sm2 = WithQueue(sm, G, r)
        /\ pl2 = [pl EXCEPT ![x] = IF @ \in Blocked THEN Resumes[@] ELSE @]
    BY <1>5 DEF PostsProcess, WithQueue
  <2>3. pl[x] \in Queued
    BY <2>2, <1>1, <1>2 DEF Queue, GlobalQueue
  <2>4. pl2 = With(pl, x, l)
    BY <2>2, <2>3, Awoken DEF Queued, With
  <2>5. /\ pl[x] = "take_q" => l = "take_in"
        /\ pl[x] = "leave_q" => l = "leave_in"
        /\ pl[x] = "add_q" => l = "add_in"
        /\ pl[x] = "rm_q" => l = "rm_in"
        /\ pl[x] = "again_q" => l = "rm_test"
    BY Awoken
  <2> HIDE DEF l, r
  <2>6. Sems_Typed(sm2) /\ sm2[G].value = sm[G].value /\ sm2[G].waiting = r
        /\ \A t \in Sems : t # G => sm2[t] = sm[t]
    BY <2>1, <2>2, <1>1, QueueSet
  <2>7. /\ x = MAIN => pl[x] \in {"add_q", "rm_q", "again_q"} /\ l \in InMain
        /\ x # MAIN => x \in Pids /\ pl[x] \in {"take_q", "leave_q"} /\ l \in AtTable
    BY <2>1, <2>3, <2>5, <1>1, Numbers DEF Places, Queued, InMain, AtTable
  <2>8. Places(pl2) /\ Others(x, pl, pl2) /\ pl2[x] = l
    BY <2>1, <2>4, <2>7, <1>1, PlacesKept
  <2>9. Queue(sm2, pl2)
    <3>1. GlobalQueue(q, sm[G].value, pl)
      BY <1>1 DEF Queue
    <3>2. GlobalQueue(r, sm[G].value, pl2)
      BY <3>1, <2>2, <2>8, <1>2, QueueServed DEF r
    <3> QED BY <3>2, <2>6 DEF Queue
  <2> HIDE DEF x
  <2>10. CASE x = MAIN
    <3>1. Counted(pl2, n)
      BY <2>5, <2>7, <2>8, <2>10 DEF Sound, Counted
    <3>2. MainMovesTo(sm, pl, n, sm2, pl2)
      BY <3>1, <2>6, <2>7, <2>8, <2>10, <1>s DEF MainMovesTo
    <3> QED BY <3>2, <2>9, MainMoves
  <2>11. CASE x # MAIN
    <3>1. x \in Pids /\ pl[x] # "none"
      BY <2>7, <2>11
    <3>2. seats[x] \in Seats
      BY <3>1 DEF Sound, Table_Typed
    <3>3. sm2[seats[x]] = sm[seats[x]]
      BY <3>2, <2>6, <1>s
    <3>4. Plate(x, pl[x], states[seats[x]], sm[seats[x]])
      BY <3>1 DEF Sound, Plates
    <3>5. Plate(x, l, states[seats[x]], sm[seats[x]])
      BY <3>4, <2>5, <2>7, <2>11 DEF Plate, Fed
    <3>6. Moves(x, sm, pl, states, seats, sm2, pl2, states)
      BY <3>3, <3>5, <2>6, <2>7, <2>8, <2>11, <1>s DEF Moves, Sound, Table_Typed
    <3>7. Sleeping(pl2, list)
      <4>1. pl[x] \notin {"think", "eat", "none"} /\ Sleeping(pl, list)
        BY <2>7, <2>11 DEF Sound
      <4> QED BY <4>1, <2>1, <2>8, SleepingKept DEF x
    <3>8. Apart(n, states)
      BY DEF Sound
    <3> QED BY <3>1, <3>6, <3>7, <3>8, <2>9, PhilosopherMoves
  <2> QED BY <2>10, <2>11
<1> QED BY <1>3, <1>4, <1>5 DEF Posts

-----------------------------------------------------------------------------
(* A fork is granted, and waited for.                                      *)

\* A philosopher that moves outside the queue of SEM_GLOBAL, and that neither
\* comes from its sleep nor goes to it.
LEMMA MovesAwake ==
  ASSUME NEW sm, NEW pl, NEW n, NEW states, NEW pids, NEW seats, NEW list,
         Sound(sm, pl, n, states, pids, seats, list),
         NEW sm2, NEW pl2, NEW states2, NEW x \in Pids,
         pl[x] \in AtTable \ (Queued \cup {"think", "eat"}),
         Moves(x, sm, pl, states, seats, sm2, pl2, states2),
         Apart(n, states2), sm2[SEM_GLOBAL] = sm[SEM_GLOBAL]
  PROVE  Sound(sm2, pl2, n, states2, pids, seats, list)
<1>1. pl[x] # "none" /\ pl[x] \notin {"think", "eat", "none"} /\ pl[x] \notin Queued \cup Gone
  BY DEF AtTable, Gone
<1>2. x \in Procs /\ x # MAIN /\ SEM_GLOBAL \in Sems
  BY Numbers
<1>3. Others(x, pl, pl2) /\ Sleeping(pl, list) /\ Queue(sm, pl) /\ Sems_Typed(sm)
  BY DEF Moves, Sound
<1>4. Sleeping(pl2, list)
  BY <1>1, <1>2, <1>3, SleepingKept
<1>5. Queue(sm2, pl2)
  <2>1. sm[SEM_GLOBAL].waiting \in Seq(Procs)
    BY <1>2, <1>3, SemFields
  <2>2. GlobalQueue(sm[SEM_GLOBAL].waiting, sm[SEM_GLOBAL].value, pl)
    BY <1>3 DEF Queue
  <2>3. GlobalQueue(sm[SEM_GLOBAL].waiting, sm[SEM_GLOBAL].value, pl2)
    BY <2>1, <2>2, <1>1, <1>2, <1>3, QueueKept
  <2> QED BY <2>3 DEF Queue
<1> QED BY <1>1, <1>4, <1>5, PhilosopherMoves

\* The philosopher of the seat j waits for its fork, or is about to.
LEMMA WhoWaits ==
  ASSUME NEW sm, NEW pl, NEW n, NEW states, NEW pids, NEW seats, NEW list,
         Sound(sm, pl, n, states, pids, seats, list),
         NEW j \in 0..n - 1, states[j] = "WAITING"
  PROVE  /\ pids[j] \in Pids /\ seats[pids[j]] = j /\ j \in Seats
         /\ pl[pids[j]] \in {"fork", "fork_q"}
         /\ sm[j].value = 0
         /\ sm[j].waiting = IF pl[pids[j]] = "fork_q" THEN <<pids[j]>> ELSE <<>>
<1>1. pids[j] \in Pids /\ seats[pids[j]] = j /\ pl[pids[j]] # "none"
  BY DEF Sound, Seated
<1>2. j \in Seats
  BY Numbers DEF Sound, Table_Typed, Seats
<1>3. Plate(pids[j], pl[pids[j]], states[j], sm[j])
  BY <1>1 DEF Sound, Plates
<1>4. pl[pids[j]] \in AtTable
  BY <1>1 DEF Sound, Places
<1>5. pl[pids[j]] \in {"fork", "fork_q"}
  BY <1>3, <1>4 DEF Plate, AtTable, Fed
<1>6. sm[j].value = 0 /\ sm[j].waiting = IF pl[pids[j]] = "fork_q" THEN <<pids[j]>> ELSE <<>>
  BY <1>3, <1>5 DEF Plate
<1> QED BY <1>1, <1>2, <1>5, <1>6

\* Its fork is granted: the philosopher goes on, or finds a token.
LEMMA Grants ==
  ASSUME NEW sm, NEW pl, NEW n, NEW states, NEW pids, NEW seats, NEW list,
         Sound(sm, pl, n, states, pids, seats, list),
         NEW j \in 0..n - 1, states[j] = "WAITING",
         states[RightOf(n, j)] # "EATING", states[LeftOf(n, j)] # "EATING",
         NEW sm2, NEW pl2, Posts(j, sm, pl, sm2, pl2),
         NEW states2, states2 = With(states, j, "EATING")
  PROVE  Sound(sm2, pl2, n, states2, pids, seats, list)
<1> DEFINE x == pids[j]
<1>1. /\ x \in Pids /\ seats[x] = j /\ j \in Seats /\ pl[x] \in {"fork", "fork_q"}
      /\ sm[j].value = 0 /\ sm[j].waiting = IF pl[x] = "fork_q" THEN <<x>> ELSE <<>>
  BY WhoWaits
<1> HIDE DEF x
<1>2. x \in Procs /\ x # MAIN /\ j \in Sems /\ j # SEM_GLOBAL /\ SEM_GLOBAL \in Sems
      /\ \A i \in Seats : i \in Sems
  BY <1>1, Numbers
<1>3. Sems_Typed(sm) /\ Places(pl) /\ n \in Nat /\ Apart(n, states)
      /\ states \in [Seats -> PHYLO_STATE] /\ \A i \in 0..n - 1 : i \in Seats
  BY Numbers DEF Sound, Table_Typed, Seats
<1>4. /\ states2 \in [Seats -> PHYLO_STATE] /\ states2[j] = "EATING"
      /\ \A i \in Seats : i # j => states2[i] = states[i]
  BY <1>1, <1>3 DEF With, PHYLO_STATE
<1>5. Apart(n, states2)
  BY <1>3, <1>4, ApartJoined
<1>6. /\ Sems_Typed(sm2) /\ Places(pl2) /\ Others(x, pl, pl2) /\ pl2[x] \in {"fork", "fed"}
      /\ \A i \in Sems : i # j => sm2[i] = sm[i]
      /\ pl2[x] = "fork" => sm2[j].value = 1
      /\ pl2[x] = "fed" => sm2[j].value = 0
      /\ sm2[j].waiting = <<>>
  <2>1. ~NoPost(j, sm, pl, sm2, pl2)
    BY <1>1 DEF NoPost
  <2>2. CASE PostsToken(j, sm, pl, sm2, pl2)
    <3> DEFINE v == [value |-> 1, waiting |-> <<>>]
    <3>1. v \in SemType /\ v.value = 1 /\ v.waiting = <<>>
      BY DEF SemType
    <3>2. sm2 = With(sm, j, v) /\ pl2 = pl
      BY <2>2, <1>1 DEF PostsToken, With
    <3>3. pl[x] = "fork"
      <4> SUFFICES ASSUME pl[x] = "fork_q" PROVE FALSE
        BY <1>1
      <4>1. sm[j].waiting = <<x>>
        BY <1>1
      <4>2. 1 \in DOMAIN sm[j].waiting /\ sm[j].waiting[1] = x
        BY <4>1
      <4>3. pl[x] \in Gone
        BY <4>2, <2>2 DEF PostsToken
      <4> QED BY <4>3 DEF Gone
    <3> HIDE DEF v
    <3>4. Sems_Typed(sm2) /\ sm2[j] = v /\ \A i \in Sems : i # j => sm2[i] = sm[i]
      BY <3>1, <3>2, <1>2, <1>3, SemsKept
    <3>5. Others(x, pl, pl2)
      BY <3>2 DEF Others
    <3> QED BY <3>1, <3>2, <3>3, <3>4, <3>5, <1>3
  <2>3. ASSUME NEW f \in DOMAIN sm[j].waiting, PostsProcess(j, f, sm, pl, sm2, pl2)
        PROVE  /\ Sems_Typed(sm2) /\ Places(pl2) /\ Others(x, pl, pl2) /\ pl2[x] = "fed"
               /\ \A i \in Sems : i # j => sm2[i] = sm[i]
               /\ sm2[j].value = 0 /\ sm2[j].waiting = <<>>
    <3>1. pl[x] = "fork_q" /\ sm[j].waiting = <<x>>
      <4> SUFFICES ASSUME pl[x] # "fork_q" PROVE FALSE
        BY <1>1
      <4>1. sm[j].waiting = <<>>
        BY <1>1
      <4> QED BY <4>1
    <3>2. f = 1 /\ sm[j].waiting[f] = x /\ SubSeq(sm[j].waiting, f + 1, Len(sm[j].waiting)) = <<>>
      BY <3>1
    <3>3. <<>> \in Seq(Procs)
      OBVIOUS
    <3>4. sm2 = WithQueue(sm, j, <<>>) /\ pl2 = With(pl, x, "fed")
      BY <2>3, <3>1, <3>2, Awoken DEF PostsProcess, WithQueue, With
    <3>5. Sems_Typed(sm2) /\ sm2[j].value = sm[j].value /\ sm2[j].waiting = <<>>
          /\ \A i \in Sems : i # j => sm2[i] = sm[i]
      <4>1. PICK z : z = <<>>
        OBVIOUS
      <4>2. z \in Seq(Procs) /\ sm2 = WithQueue(sm, j, z)
        BY <4>1, <3>3, <3>4
      <4>3. Sems_Typed(sm2) /\ sm2[j].value = sm[j].value /\ sm2[j].waiting = z
            /\ \A t \in Sems : t # j => sm2[t] = sm[t]
        BY <4>2, <1>2, <1>3, QueueSet
      <4> QED BY <4>1, <4>3
    <3>6. Places(pl2) /\ Others(x, pl, pl2) /\ pl2[x] = "fed"
      BY <3>4, <1>2, <1>3, PlacesKept DEF AtTable
    <3> QED BY <3>5, <3>6, <1>1
  <2> QED BY <2>1, <2>2, <2>3 DEF Posts
<1>7. Plate(x, pl2[x], states2[j], sm2[j])
  BY <1>4, <1>6 DEF Plate, Fed
<1>8. Moves(x, sm, pl, states, seats, sm2, pl2, states2)
  BY <1>1, <1>2, <1>4, <1>6, <1>7 DEF Moves, AtTable
<1>9. pl[x] \in AtTable \ (Queued \cup {"think", "eat"})
  BY <1>1 DEF AtTable, Queued
<1>10. sm2[SEM_GLOBAL] = sm[SEM_GLOBAL]
  BY <1>2, <1>6
<1> QED BY <1>1, <1>5, <1>8, <1>9, <1>10, MovesAwake

\* What sem_wait does: it queues its caller, or takes a token, or passes a
\* semaphore that is not open.
WithValue(sm, s, v) == [sm EXCEPT ![s].value = v]

Waits(s, x, in, queued, sm, pl, sm2, pl2) ==
    \/ /\ sm[s].value = 0
       /\ sm2 = WithQueue(sm, s, Append(sm[s].waiting, x)) /\ pl2 = With(pl, x, queued)
    \/ /\ sm[s].value # 0
       /\ sm2 = WithValue(sm, s, IF sm[s].value > 0 THEN sm[s].value - 1 ELSE sm[s].value)
       /\ pl2 = With(pl, x, in)

LEMMA WaitIs ==
  ASSUME NEW s, NEW x, NEW in, NEW queued
  PROVE  LET k2 == WaitFor(x, s, in, queued)
         IN  Waits(s, x, in, queued, sem, pc, k2.sem, k2.pc)
BY DEF WaitFor, Waits, WithQueue, WithValue, With

LEMMA ValueSet ==
  ASSUME NEW sm, Sems_Typed(sm), NEW s \in Sems, NEW v \in Nat \cup {-1},
         NEW sm2, sm2 = WithValue(sm, s, v)
  PROVE  /\ Sems_Typed(sm2) /\ sm2[s].value = v /\ sm2[s].waiting = sm[s].waiting
         /\ \A t \in Sems : t # s => sm2[t] = sm[t]
<1> DEFINE u == [value |-> v, waiting |-> sm[s].waiting]
<1>1. sm[s] \in SemType
  BY DEF Sems_Typed
<1>2. [sm[s] EXCEPT !.value = v] = u /\ u \in SemType
  BY <1>1 DEF SemType
<1>3. sm2 = With(sm, s, u)
  BY <1>2 DEF With, WithValue
<1>4. u.value = v /\ u.waiting = sm[s].waiting
  OBVIOUS
<1> HIDE DEF u
<1>5. Sems_Typed(sm2) /\ sm2[s] = u /\ \A t \in Sems : t # s => sm2[t] = sm[t]
  BY <1>2, <1>3, SemsKept
<1> QED BY <1>4, <1>5

\* A philosopher waits for its own semaphore.
LEMMA WaitsFork ==
  ASSUME NEW sm, NEW pl, NEW n, NEW states, NEW pids, NEW seats, NEW list,
         Sound(sm, pl, n, states, pids, seats, list),
         NEW x \in Pids, pl[x] = "fork",
         NEW sm2, NEW pl2, Waits(seats[x], x, "fed", "fork_q", sm, pl, sm2, pl2)
  PROVE  Sound(sm2, pl2, n, states, pids, seats, list)
<1> DEFINE i == seats[x]
<1>1. /\ i \in Seats /\ Sems_Typed(sm) /\ Places(pl) /\ Apart(n, states)
      /\ states \in [Seats -> PHYLO_STATE]
  BY DEF Sound, Table_Typed
<1>2. x \in Procs /\ x # MAIN /\ i \in Sems /\ i # SEM_GLOBAL /\ SEM_GLOBAL \in Sems
      /\ \A s \in Seats : s \in Sems
  BY <1>1, Numbers
<1>3. Plate(x, pl[x], states[i], sm[i])
  BY DEF Sound, Plates
<1>4. /\ states[i] \in {"WAITING", "EATING"} /\ sm[i].waiting = <<>>
      /\ sm[i].value = IF states[i] = "EATING" THEN 1 ELSE 0
  BY <1>3 DEF Plate, Fed
<1>5. /\ Sems_Typed(sm2) /\ Places(pl2) /\ Others(x, pl, pl2) /\ pl2[x] \in AtTable
      /\ \A s \in Sems : s # i => sm2[s] = sm[s]
      /\ Plate(x, pl2[x], states[i], sm2[i])
  <2>1. CASE sm[i].value = 0
    <3>1. Append(sm[i].waiting, x) = <<x>> /\ <<x>> \in Seq(Procs)
      BY <1>2, <1>4
    <3>2. sm2 = WithQueue(sm, i, <<x>>) /\ pl2 = With(pl, x, "fork_q")
      BY <2>1, <3>1 DEF Waits
    <3>3. Sems_Typed(sm2) /\ sm2[i].value = sm[i].value /\ sm2[i].waiting = <<x>>
          /\ \A s \in Sems : s # i => sm2[s] = sm[s]
      <4> HIDE DEF i
      <4>1. PICK z : z = <<x>>
        OBVIOUS
      <4>2. z \in Seq(Procs) /\ sm2 = WithQueue(sm, i, z)
        BY <4>1, <3>1, <3>2
      <4>3. Sems_Typed(sm2) /\ sm2[i].value = sm[i].value /\ sm2[i].waiting = z
            /\ \A t \in Sems : t # i => sm2[t] = sm[t]
        BY <4>2, <1>1, <1>2, QueueSet
      <4> QED BY <4>1, <4>3
    <3>4. Places(pl2) /\ Others(x, pl, pl2) /\ pl2[x] = "fork_q"
      BY <3>2, <1>1, <1>2, PlacesKept DEF AtTable
    <3>5. Plate(x, "fork_q", states[i], sm2[i])
      BY <3>3, <1>4, <2>1 DEF Plate, Fed
    <3> QED BY <3>3, <3>4, <3>5 DEF AtTable
  <2>2. CASE sm[i].value # 0
    <3>1. sm[i].value = 1 /\ states[i] = "EATING"
      BY <2>2, <1>4
    <3>2. sm2 = WithValue(sm, i, 0) /\ pl2 = With(pl, x, "fed")
      BY <3>1 DEF Waits
    <3>3. Sems_Typed(sm2) /\ sm2[i].value = 0 /\ sm2[i].waiting = sm[i].waiting
          /\ \A s \in Sems : s # i => sm2[s] = sm[s]
      <4> HIDE DEF i
      <4>1. PICK z : z = 0
        OBVIOUS
      <4>2. z \in Nat \cup {-1} /\ sm2 = WithValue(sm, i, z)
        BY <4>1, <3>2
      <4>3. Sems_Typed(sm2) /\ sm2[i].value = z /\ sm2[i].waiting = sm[i].waiting
            /\ \A s \in Sems : s # i => sm2[s] = sm[s]
        BY <4>2, <1>1, <1>2, ValueSet
      <4> QED BY <4>1, <4>3
    <3>4. Places(pl2) /\ Others(x, pl, pl2) /\ pl2[x] = "fed"
      BY <3>2, <1>1, <1>2, PlacesKept DEF AtTable
    <3>5. Plate(x, "fed", states[i], sm2[i])
      BY <3>1, <3>3, <1>4 DEF Plate, Fed
    <3> QED BY <3>3, <3>4, <3>5 DEF AtTable
  <2> QED BY <2>1, <2>2
<1>6. Moves(x, sm, pl, states, seats, sm2, pl2, states)
  BY <1>1, <1>2, <1>5 DEF Moves
<1>7. pl[x] \in AtTable \ (Queued \cup {"think", "eat"})
  BY DEF AtTable, Queued
<1>8. sm2[SEM_GLOBAL] = sm[SEM_GLOBAL]
  BY <1>2, <1>5
<1> QED BY <1>1, <1>6, <1>7, <1>8, MovesAwake

\* The calls of sem_wait(SEM_GLOBAL): from where, to where without and with a wait.
Hop(from, in, queued) ==
    \/ from = "take"     /\ in = "take_in"  /\ queued = "take_q"
    \/ from = "leave"    /\ in = "leave_in" /\ queued = "leave_q"
    \/ from = "add"      /\ in = "add_in"   /\ queued = "add_q"
    \/ from = "rm"       /\ in = "rm_in"    /\ queued = "rm_q"
    \/ from = "rm_again" /\ in = "rm_test"  /\ queued = "again_q"

LEMMA WaitsGlobal ==
  ASSUME NEW sm, NEW pl, NEW n, NEW states, NEW pids, NEW seats, NEW list,
         Sound(sm, pl, n, states, pids, seats, list),
         NEW x \in Procs, NEW in, NEW queued, Hop(pl[x], in, queued),
         NEW sm2, NEW pl2, Waits(SEM_GLOBAL, x, in, queued, sm, pl, sm2, pl2)
  PROVE  Sound(sm2, pl2, n, states, pids, seats, list)
<1> DEFINE G == SEM_GLOBAL
           q == sm[G].waiting
<1>1. G \in Sems /\ Sems_Typed(sm) /\ Places(pl) /\ Queue(sm, pl) /\ Sleeping(pl, list)
      /\ states \in [Seats -> PHYLO_STATE]
  BY Numbers DEF Sound, Table_Typed
<1>2. q \in Seq(Procs) /\ sm[G].value \in Nat \cup {-1}
  BY <1>1, SemFields
<1>s. \A i \in Seats : i \in Sems /\ i # G
  BY Numbers
<1>3. x = MAIN \/ x \in Pids
  BY Numbers
<1>4. /\ x = MAIN => pl[x] \in {"add", "rm", "rm_again"} /\ in \in InMain /\ queued \in InMain
      /\ x # MAIN => pl[x] \in {"take", "leave"} /\ in \in AtTable /\ queued \in AtTable
      /\ queued \in Queued
  BY <1>1, <1>3 DEF Hop, Places, InMain, AtTable, Queued
<1>5. PICK l : /\ pl2 = With(pl, x, l) /\ (l = in \/ l = queued)
               /\ Sems_Typed(sm2) /\ \A t \in Sems : t # G => sm2[t] = sm[t]
               /\ Queue(sm2, pl2)
  <2>1. CASE sm[G].value = 0
    <3>1. sm2 = WithQueue(sm, G, Append(q, x)) /\ pl2 = With(pl, x, queued) /\ Append(q, x) \in Seq(Procs)
      BY <2>1, <1>2 DEF Waits
    <3>2. Sems_Typed(sm2) /\ sm2[G].value = sm[G].value /\ sm2[G].waiting = Append(q, x)
          /\ \A t \in Sems : t # G => sm2[t] = sm[t]
      <4>1. PICK z : z = Append(q, x)
        OBVIOUS
      <4>2. z \in Seq(Procs) /\ sm2 = WithQueue(sm, G, z)
        BY <4>1, <3>1
      <4>3. Sems_Typed(sm2) /\ sm2[G].value = sm[G].value /\ sm2[G].waiting = z
            /\ \A t \in Sems : t # G => sm2[t] = sm[t]
        BY <4>2, <1>1, QueueSet
      <4> QED BY <4>1, <4>3
    <3>3. Others(x, pl, pl2) /\ pl2[x] = queued
      BY <3>1, <1>1, <1>4, PlacesKept
    <3>4. pl[x] \notin Queued \cup Gone /\ pl2[x] \in Queued
      BY <3>3, <1>4 DEF Queued, Gone
    <3>5. GlobalQueue(q, 0, pl)
      BY <2>1, <1>1 DEF Queue
    <3>6. GlobalQueue(Append(q, x), 0, pl2)
      <4> HIDE DEF q
      <4> QED BY <3>3, <3>4, <3>5, <1>2, QueueJoined
    <3>7. Queue(sm2, pl2)
      BY <3>2, <3>6, <2>1 DEF Queue
    <3> QED BY <3>1, <3>2, <3>7
  <2>2. CASE sm[G].value # 0
    <3> DEFINE v == IF sm[G].value > 0 THEN sm[G].value - 1 ELSE sm[G].value
    <3>1. sm2 = WithValue(sm, G, v) /\ pl2 = With(pl, x, in)
      BY <2>2 DEF Waits
    <3>2. v \in Nat \cup {-1}
      BY <1>2
    <3> HIDE DEF v
    <3>3. Sems_Typed(sm2) /\ sm2[G].waiting = q /\ \A t \in Sems : t # G => sm2[t] = sm[t]
      BY <3>1, <3>2, <1>1, ValueSet
    <3>4. q = <<>>
      BY <2>2, <1>1 DEF Queue, GlobalQueue
    <3>5. Queue(sm2, pl2)
      BY <3>3, <3>4 DEF Queue, GlobalQueue, Once
    <3> QED BY <3>1, <3>3, <3>5
  <2> QED BY <2>1, <2>2
<1>6. Places(pl2) /\ Others(x, pl, pl2) /\ pl2[x] = l
  BY <1>1, <1>4, <1>5, PlacesKept
<1>7. CASE x = MAIN
  <2>1. Counted(pl2, n)
    <3>1. Counted(pl, n)
      BY DEF Sound
    <3>2. /\ pl[MAIN] = "add" => l \in {"add_in", "add_q"}
          /\ pl[MAIN] = "rm" => l \in {"rm_in", "rm_q"}
          /\ pl[MAIN] = "rm_again" => l \in {"rm_test", "again_q"}
      BY <1>5, <1>7 DEF Hop
    <3>3. pl2[MAIN] = l /\ pl[MAIN] \in {"add", "rm", "rm_again"}
      BY <1>4, <1>6, <1>7
    <3> QED BY <3>1, <3>2, <3>3 DEF Counted
  <2>2. MainMovesTo(sm, pl, n, sm2, pl2)
    BY <2>1, <1>s, <1>4, <1>5, <1>6, <1>7 DEF MainMovesTo
  <2> QED BY <2>2, <1>5, MainMoves
<1>8. CASE x # MAIN
  <2>1. x \in Pids /\ pl[x] # "none" /\ l \in AtTable
    BY <1>3, <1>4, <1>5, <1>8
  <2>2. seats[x] \in Seats
    BY <2>1 DEF Sound, Table_Typed
  <2>3. sm2[seats[x]] = sm[seats[x]]
    BY <2>2, <1>5, <1>s
  <2>4. Plate(x, pl[x], states[seats[x]], sm[seats[x]])
    BY <2>1 DEF Sound, Plates
  <2>5. /\ pl[x] = "take" => l \in {"take_in", "take_q"}
        /\ pl[x] = "leave" => l \in {"leave_in", "leave_q"}
    BY <1>5 DEF Hop
  <2>6. Plate(x, l, states[seats[x]], sm[seats[x]])
    BY <2>4, <2>5, <1>4, <1>8 DEF Plate, Fed
  <2>7. Moves(x, sm, pl, states, seats, sm2, pl2, states)
    BY <2>1, <2>3, <2>6, <1>s, <1>1, <1>5, <1>6 DEF Moves
  <2>8. Sleeping(pl2, list)
    <3>1. pl[x] \notin {"think", "eat", "none"}
      BY <1>4, <1>8
    <3> QED BY <3>1, <1>1, <1>6, SleepingKept
  <2>9. Apart(n, states)
    BY DEF Sound
  <2> QED BY <2>1, <2>7, <2>8, <2>9, <1>5, PhilosopherMoves
<1> QED BY <1>7, <1>8

-----------------------------------------------------------------------------
(* Sleep, birth and death.                                                 *)

\* phylo_main goes on, or is killed; it holds no semaphore that matters here.
LEMMA MainWalks ==
  ASSUME NEW sm, NEW pl, NEW n, NEW states, NEW pids, NEW seats, NEW list,
         Sound(sm, pl, n, states, pids, seats, list),
         NEW l \in InMain, l # "add_in", pl[MAIN] \notin Queued \cup Gone \/ l = "dead",
         NEW pl2, pl2 = With(pl, MAIN, l), Counted(pl2, n)
  PROVE  Sound(sm, pl2, n, states, pids, seats, list)
<1>1. Sems_Typed(sm) /\ Places(pl) /\ Queue(sm, pl) /\ MAIN \in Procs /\ SEM_GLOBAL \in Sems
  BY Numbers DEF Sound
<1>2. Places(pl2) /\ Others(MAIN, pl, pl2) /\ pl2[MAIN] = l
  BY <1>1, PlacesKept
<1>3. MainMovesTo(sm, pl, n, sm, pl2)
  BY <1>1, <1>2 DEF MainMovesTo
<1>4. sm[SEM_GLOBAL].waiting \in Seq(Procs)
  BY <1>1, SemFields
<1>5. GlobalQueue(sm[SEM_GLOBAL].waiting, sm[SEM_GLOBAL].value, pl)
  BY <1>1 DEF Queue
<1>6. GlobalQueue(sm[SEM_GLOBAL].waiting, sm[SEM_GLOBAL].value, pl2)
  BY <1>1, <1>2, <1>4, <1>5, QueueKept
<1>7. Queue(sm, pl2)
  BY <1>6 DEF Queue
<1> QED BY <1>3, <1>7, MainMoves

\* A philosopher goes to sleep: to think, or to eat.
LEMMA FallsAsleep ==
  ASSUME NEW sm, NEW pl, NEW n, NEW states, NEW pids, NEW seats, NEW list,
         Sound(sm, pl, n, states, pids, seats, list),
         NEW x \in Pids, NEW l, NEW pl2, pl2 = With(pl, x, l), NEW states2,
         \/ pl[x] = "fed" /\ l = "eat" /\ states2 = states
         \/ /\ pl[x] \in {"start", "leave_in"} /\ l = "think"
            /\ states2 = With(states, seats[x], "THINKING")
  PROVE  Sound(sm, pl2, n, states2, pids, seats, Append(list, x))
<1> DEFINE i == seats[x]
<1>1. /\ i \in Seats /\ Sems_Typed(sm) /\ Places(pl) /\ Apart(n, states) /\ n \in Nat
      /\ states \in [Seats -> PHYLO_STATE] /\ Sleeping(pl, list) /\ Queue(sm, pl)
  BY Numbers DEF Sound, Table_Typed
<1>2. x \in Procs /\ x # MAIN /\ SEM_GLOBAL \in Sems
  BY Numbers
<1>3. pl[x] # "none"
  OBVIOUS
<1>4. Plate(x, pl[x], states[i], sm[i])
  BY <1>3 DEF Sound, Plates
<1>5. Places(pl2) /\ Others(x, pl, pl2) /\ pl2[x] = l /\ l \in AtTable
  BY <1>1, <1>2, PlacesKept DEF AtTable
<1>6. /\ states2 \in [Seats -> PHYLO_STATE]
      /\ \A j \in Seats : j # i => states2[j] = states[j]
      /\ l = "eat" => states2[i] = states[i]
      /\ l = "think" => states2[i] = "THINKING"
  BY <1>1 DEF With, PHYLO_STATE
<1>7. Plate(x, l, states2[i], sm[i])
  BY <1>4, <1>6 DEF Plate, Fed
<1>8. Moves(x, sm, pl, states, seats, sm, pl2, states2)
  BY <1>1, <1>5, <1>6, <1>7 DEF Moves
<1>9. Apart(n, states2)
  <2>1. \A j \in 0..n - 1 : j \in Seats
    BY Numbers DEF Sound, Table_Typed, Seats
  <2>2. \A j \in 0..n - 1 : states2[j] = "EATING" => states[j] = "EATING"
    BY <2>1, <1>6
  <2> QED BY <2>2, <1>1, ApartKept
<1>10. Sleeping(pl2, Append(list, x))
  <2>1. pl[x] \notin {"think", "eat", "none"} /\ pl2[x] \in {"think", "eat"}
    BY <1>5
  <2> QED BY <2>1, <1>1, <1>5, SleepingJoined
<1>11. Queue(sm, pl2)
  <2>1. sm[SEM_GLOBAL].waiting \in Seq(Procs)
    BY <1>1, <1>2, SemFields
  <2>2. GlobalQueue(sm[SEM_GLOBAL].waiting, sm[SEM_GLOBAL].value, pl)
    BY <1>1 DEF Queue
  <2>3. pl[x] \notin Queued \cup Gone
    BY DEF Queued, Gone
  <2>4. GlobalQueue(sm[SEM_GLOBAL].waiting, sm[SEM_GLOBAL].value, pl2)
    BY <2>1, <2>2, <2>3, <1>2, <1>5, QueueKept
  <2> QED BY <2>4 DEF Queue
<1> QED BY <1>3, <1>8, <1>9, <1>10, <1>11, PhilosopherMoves

\* Who was asleep wakes up, with its entry gone from the sleep queue.
LEMMA Wakes ==
  ASSUME NEW sm, NEW pl, NEW n, NEW states, NEW pids, NEW seats, NEW list,
         Sound(sm, pl, n, states, pids, seats, list),
         NEW x \in Pids, NEW l, NEW pl2, pl2 = With(pl, x, l),
         (pl[x] = "think" /\ l = "take") \/ (pl[x] = "eat" /\ l = "leave"),
         NEW list2 \in Seq(Pids), Once(list2),
         \A j \in DOMAIN list2 : list2[j] # x /\ \E h \in DOMAIN list : list2[j] = list[h]
  PROVE  Sound(sm, pl2, n, states, pids, seats, list2)
<1>1. /\ seats[x] \in Seats /\ Sems_Typed(sm) /\ Places(pl) /\ Apart(n, states)
      /\ states \in [Seats -> PHYLO_STATE] /\ Sleeping(pl, list) /\ Queue(sm, pl)
  BY DEF Sound, Table_Typed
<1>2. x \in Procs /\ x # MAIN /\ SEM_GLOBAL \in Sems /\ \A p \in Pids : p \in Procs
  BY Numbers
<1>3. pl[x] # "none"
  OBVIOUS
<1>4. Plate(x, pl[x], states[seats[x]], sm[seats[x]])
  BY <1>3 DEF Sound, Plates
<1>5. Places(pl2) /\ Others(x, pl, pl2) /\ pl2[x] = l /\ l \in AtTable
  BY <1>1, <1>2, PlacesKept DEF AtTable
<1>6. Plate(x, l, states[seats[x]], sm[seats[x]])
  BY <1>4 DEF Plate, Fed
<1>7. Moves(x, sm, pl, states, seats, sm, pl2, states)
  BY <1>1, <1>5, <1>6 DEF Moves
<1>8. Sleeping(pl2, list2)
  <2>1. \A j \in DOMAIN list2 : list2[j] \in Procs
    BY <1>2
  <2>2. \A j \in DOMAIN list2 : pl2[list2[j]] = pl[list2[j]]
    BY <2>1, <1>5 DEF Others
  <2>3. \A j \in DOMAIN list2 : pl[list2[j]] \in {"think", "eat", "none"}
    BY <1>1 DEF Sleeping
  <2> QED BY <2>2, <2>3 DEF Sleeping
<1>9. Queue(sm, pl2)
  <2>1. sm[SEM_GLOBAL].waiting \in Seq(Procs)
    BY <1>1, <1>2, SemFields
  <2>2. GlobalQueue(sm[SEM_GLOBAL].waiting, sm[SEM_GLOBAL].value, pl)
    BY <1>1 DEF Queue
  <2>3. pl[x] \notin Queued \cup Gone
    BY DEF Queued, Gone
  <2>4. GlobalQueue(sm[SEM_GLOBAL].waiting, sm[SEM_GLOBAL].value, pl2)
    BY <2>1, <2>2, <2>3, <1>2, <1>5, QueueKept
  <2> QED BY <2>4 DEF Queue
<1> QED BY <1>1, <1>3, <1>7, <1>8, <1>9, PhilosopherMoves

\* The philosopher p sits down at the next seat; phylo_main goes on.
LEMMA Born ==
  ASSUME NEW sm, NEW pl, NEW n, NEW states, NEW pids, NEW seats, NEW list,
         Sound(sm, pl, n, states, pids, seats, list),
         pl[MAIN] = "add_in", NEW p \in Pids, pl[p] = "none",
         \A j \in DOMAIN list : list[j] # p,
         NEW l \in {"add", "menu"}, l = "add" => n + 1 < MAX_DINER,
         NEW sm2, sm2 = WithValue(sm, n, 0),
         NEW pl2, pl2 = With(With(pl, p, "start"), MAIN, l),
         NEW pids2, pids2 = With(pids, n, p), NEW seats2, seats2 = With(seats, p, n)
  PROVE  Sound(sm2, pl2, n + 1, states, pids2, seats2, list)
<1>1. /\ Sems_Typed(sm) /\ Places(pl) /\ Apart(n, states) /\ n \in Nat /\ n < MAX_DINER
      /\ states \in [Seats -> PHYLO_STATE] /\ Sleeping(pl, list) /\ Queue(sm, pl)
      /\ pids \in [Seats -> Pids \cup {NO_PID}] /\ seats \in [Pids -> Seats]
  BY Numbers DEF Sound, Table_Typed, Counted
<1>2. p \in Procs /\ p # MAIN /\ MAIN \in Procs /\ MAIN \notin Pids /\ SEM_GLOBAL \in Sems
      /\ (\A q \in Pids : q \in Procs) /\ \A s \in Seats : s \in Sems /\ s # SEM_GLOBAL
  BY Numbers
<1>3. n \in Seats /\ n \in Sems /\ n # SEM_GLOBAL
  BY <1>1, <1>2, Numbers DEF Seats
<1>4. states[n] = "NONE" /\ sm[n] = Closed
  BY <1>1, <1>3 DEF Sound, Unused
<1>5. /\ Sems_Typed(sm2) /\ sm2[n].value = 0 /\ sm2[n].waiting = <<>>
      /\ \A s \in Sems : s # n => sm2[s] = sm[s]
  <2>1. PICK z : z = 0
    OBVIOUS
  <2>2. z \in Nat \cup {-1} /\ sm2 = WithValue(sm, n, z)
    BY <2>1
  <2>3. /\ Sems_Typed(sm2) /\ sm2[n].value = z /\ sm2[n].waiting = sm[n].waiting
        /\ \A s \in Sems : s # n => sm2[s] = sm[s]
    BY <2>2, <1>1, <1>3, ValueSet
  <2> QED BY <2>1, <2>3, <1>4 DEF Closed
<1>6. /\ Places(pl2) /\ pl2[MAIN] = l /\ pl2[p] = "start"
      /\ \A q \in Procs : q # p /\ q # MAIN => pl2[q] = pl[q]
  <2> DEFINE pl1 == With(pl, p, "start")
  <2>1. Places(pl1) /\ Others(p, pl, pl1) /\ pl1[p] = "start"
    BY <1>1, <1>2, PlacesKept DEF AtTable
  <2>2. pl2 = With(pl1, MAIN, l) /\ l \in InMain
    BY DEF InMain
  <2> HIDE DEF pl1
  <2>3. Places(pl2) /\ Others(MAIN, pl1, pl2) /\ pl2[MAIN] = l
    BY <2>1, <2>2, <1>2, PlacesKept
  <2> QED BY <2>1, <2>3, <1>2 DEF Others
<1>7. /\ pids2 \in [Seats -> Pids \cup {NO_PID}] /\ pids2[n] = p
      /\ \A i \in Seats : i # n => pids2[i] = pids[i]
  BY <1>1, <1>3 DEF With
<1>8. /\ seats2 \in [Pids -> Seats] /\ seats2[p] = n
      /\ \A q \in Pids : q # p => seats2[q] = seats[q]
  BY <1>1, <1>3 DEF With
<1>9. n + 1 \in 0..MAX_DINER /\ \A i \in 0..n : i = n \/ (i \in 0..n - 1 /\ i # n)
  BY <1>1, Numbers
<1>10. \A i \in 0..n - 1 : i \in Seats /\ i # n
  BY <1>1, Numbers DEF Seats
<1>11. Table_Typed(n + 1, states, pids2, seats2)
  BY <1>1, <1>7, <1>8, <1>9 DEF Table_Typed
<1>12. Counted(pl2, n + 1)
  BY <1>6 DEF Counted
<1>13. \A q \in Pids : q # p => pl2[q] = pl[q]
  BY <1>2, <1>6
<1>14. Seated(pl2, n + 1, pids2, seats2)
  <2>1. ASSUME NEW i \in 0..n
        PROVE  pids2[i] \in Pids /\ pl2[pids2[i]] # "none" /\ seats2[pids2[i]] = i
    <3>1. CASE i = n
      BY <3>1, <1>6, <1>7, <1>8
    <3>2. CASE i \in 0..n - 1 /\ i # n
      <4>1. pids[i] \in Pids /\ pl[pids[i]] # "none" /\ seats[pids[i]] = i
        BY <3>2 DEF Sound, Seated
      <4>2. pids2[i] = pids[i] /\ pids[i] # p
        BY <4>1, <3>2, <1>7, <1>10
      <4> QED BY <4>1, <4>2, <1>8, <1>13
    <3> QED BY <3>1, <3>2, <1>9
  <2>2. ASSUME NEW q \in Pids, pl2[q] # "none"
        PROVE  seats2[q] \in 0..n /\ pids2[seats2[q]] = q
    <3>1. CASE q = p
      BY <3>1, <1>1, <1>7, <1>8
    <3>2. CASE q # p
      <4>1. seats[q] \in 0..n - 1 /\ pids[seats[q]] = q
        BY <3>2, <2>2, <1>13 DEF Sound, Seated
      <4>2. seats2[q] = seats[q] /\ seats[q] \in Seats /\ seats[q] # n
        BY <4>1, <3>2, <1>8, <1>10
      <4>3. seats[q] \in 0..n
        BY <4>1, <1>1
      <4> QED BY <4>1, <4>2, <4>3, <1>7
    <3> QED BY <3>1, <3>2
  <2>3. (n + 1) - 1 = n
    BY <1>1
  <2> QED BY <2>1, <2>2, <2>3 DEF Seated
<1>15. Unused(sm2, n + 1, states)
  <2> SUFFICES ASSUME NEW i \in Seats, i >= n + 1 PROVE states[i] = "NONE" /\ sm2[i] = Closed
    BY DEF Unused
  <2>1. i >= n /\ i # n
    BY <1>1, Numbers
  <2> QED BY <2>1, <1>2, <1>5 DEF Sound, Unused
<1>16. Plates(sm2, pl2, states, seats2)
  <2> SUFFICES ASSUME NEW q \in Pids, pl2[q] # "none"
               PROVE  Plate(q, pl2[q], states[seats2[q]], sm2[seats2[q]])
    BY DEF Plates
  <2>1. CASE q = p
    BY <2>1, <1>4, <1>5, <1>6, <1>8 DEF Plate, Fed
  <2>2. CASE q # p
    <3>1. pl[q] # "none" /\ pl2[q] = pl[q] /\ seats2[q] = seats[q]
      BY <2>2, <1>8, <1>13
    <3>2. seats[q] \in 0..n - 1
      BY <3>1 DEF Sound, Seated
    <3>3. sm2[seats[q]] = sm[seats[q]]
      BY <3>2, <1>2, <1>5, <1>10
    <3>4. Plate(q, pl[q], states[seats[q]], sm[seats[q]])
      BY <3>1 DEF Sound, Plates
    <3> QED BY <3>1, <3>3, <3>4
  <2> QED BY <2>1, <2>2
<1>17. Apart(n + 1, states)
  <2> SUFFICES ASSUME NEW i \in 0..n, states[i] = "EATING", RightOf(n + 1, i) # i
               PROVE  states[RightOf(n + 1, i)] # "EATING"
    <3>1. (n + 1) - 1 = n
      BY <1>1
    <3> QED BY <3>1 DEF Apart
  <2>1. i \in 0..n - 1
    BY <1>4, <1>9
  <2>2. CASE i = n - 1
    BY <2>2, <1>1, <1>4 DEF RightOf
  <2>3. CASE i # n - 1
    <3>1. RightOf(n + 1, i) = i + 1 /\ RightOf(n, i) = i + 1 /\ i + 1 # i
      BY <2>1, <2>3, <1>1 DEF RightOf
    <3> QED BY <3>1, <2>1, <1>1 DEF Apart
  <2> QED BY <2>2, <2>3
<1>18. Sleeping(pl2, list)
  <2>1. \A j \in DOMAIN list : pl2[list[j]] = pl[list[j]]
    BY <1>1, <1>13 DEF Sleeping
  <2> QED BY <2>1, <1>1 DEF Sleeping
<1>19. Queue(sm2, pl2)
  <2> DEFINE q == sm[SEM_GLOBAL].waiting
  <2>1. sm2[SEM_GLOBAL] = sm[SEM_GLOBAL] /\ q \in Seq(Procs)
    BY <1>1, <1>2, <1>3, <1>5, SemFields
  <2>2. \A j \in DOMAIN q : pl[q[j]] # "none" /\ pl[q[j]] \in Queued \cup Gone
    BY <1>1 DEF Queue, GlobalQueue
  <2>3. \A j \in DOMAIN q : q[j] \in Procs /\ q[j] # p /\ q[j] # MAIN
    BY <2>1, <2>2 DEF Queued, Gone
  <2>4. \A j \in DOMAIN q : pl2[q[j]] = pl[q[j]]
    BY <2>3, <1>6
  <2> HIDE DEF q
  <2>5. GlobalQueue(q, sm[SEM_GLOBAL].value, pl2)
    BY <2>2, <2>4, <1>1 DEF Queue, GlobalQueue, q
  <2> QED BY <2>1, <2>5 DEF Queue, q
<1> QED BY <1>5, <1>6, <1>11, <1>12, <1>14, <1>15, <1>16, <1>17, <1>18, <1>19 DEF Sound

\* The philosopher of the last seat is killed; phylo_main goes on.
LEMMA Dies ==
  ASSUME NEW sm, NEW pl, NEW n, NEW states, NEW pids, NEW seats, NEW list,
         Sound(sm, pl, n, states, pids, seats, list),
         pl[MAIN] = "rm_test",
         states[LeftOf(n, n - 1)] # "EATING" \/ states[RightOf(n, n - 1)] # "EATING",
         NEW l \in {"menu", "all"},
         NEW sm2, sm2 = With(sm, n - 1, Closed),
         NEW pl2, pl2 = With(With(pl, pids[n - 1], "none"), MAIN, l),
         NEW states2, states2 = With(states, n - 1, "NONE"),
         NEW pids2, pids2 = With(pids, n - 1, NO_PID),
         NEW seats2, seats2 = With(seats, pids[n - 1], 0)
  PROVE  Sound(sm2, pl2, n - 1, states2, pids2, seats2, list)
<1> DEFINE e == n - 1
           x == pids[e]
<1>1. /\ Sems_Typed(sm) /\ Places(pl) /\ Apart(n, states) /\ n \in Nat /\ n > 0 /\ n <= MAX_DINER
      /\ states \in [Seats -> PHYLO_STATE] /\ Sleeping(pl, list) /\ Queue(sm, pl)
      /\ pids \in [Seats -> Pids \cup {NO_PID}] /\ seats \in [Pids -> Seats]
  BY Numbers DEF Sound, Table_Typed, Counted
<1>2. e \in Nat /\ e \in 0..n - 1 /\ e \in Seats /\ n = e + 1
  BY <1>1, Numbers DEF Seats
<1>3. x \in Pids /\ pl[x] # "none" /\ seats[x] = e
  BY <1>2 DEF Sound, Seated
<1>4. x \in Procs /\ x # MAIN /\ MAIN \in Procs /\ MAIN \notin Pids /\ SEM_GLOBAL \in Sems
      /\ (\A q \in Pids : q \in Procs) /\ \A s \in Seats : s \in Sems /\ s # SEM_GLOBAL
  BY <1>3, Numbers
<1>5. \A i \in 0..e - 1 : i \in Seats /\ i # e /\ i \in 0..n - 1
  BY <1>1, <1>2, Numbers DEF Seats
<1>6. Sems_Typed(sm2) /\ sm2[e] = Closed /\ \A s \in Sems : s # e => sm2[s] = sm[s]
  <2>1. Closed \in SemType
    BY DEF Closed, SemType
  <2> QED BY <2>1, <1>1, <1>2, <1>4, SemsKept
<1>7. pl \in [Procs -> AtTable \cup InMain \cup Gone]
  BY <1>1 DEF Places
<1>8. /\ pl2 \in [Procs -> AtTable \cup InMain \cup Gone]
      /\ pl2[MAIN] = l /\ pl2[x] = "none"
      /\ \A q \in Procs : q # x /\ q # MAIN => pl2[q] = pl[q]
  <2>1. l \in InMain /\ "none" \in Gone
    BY DEF InMain, Gone
  <2> HIDE DEF x
  <2>2. pl2 = With(With(pl, x, "none"), MAIN, l)
    BY DEF x
  <2> QED BY <2>1, <2>2, <1>4, <1>7 DEF With
<1>9. /\ states2 \in [Seats -> PHYLO_STATE] /\ states2[e] = "NONE"
      /\ \A i \in Seats : i # e => states2[i] = states[i]
  BY <1>1, <1>2 DEF With, PHYLO_STATE
<1>10. /\ pids2 \in [Seats -> Pids \cup {NO_PID}]
       /\ \A i \in Seats : i # e => pids2[i] = pids[i]
  BY <1>1, <1>2 DEF With
<1>11. 0 \in Seats
  BY Numbers DEF Seats
<1>12. /\ seats2 \in [Pids -> Seats]
       /\ \A q \in Pids : q # x => seats2[q] = seats[q]
  BY <1>1, <1>3, <1>11 DEF With
<1> HIDE DEF x, e
<1>13. \A q \in Pids : q # x => pl2[q] = pl[q]
  BY <1>4, <1>8
<1>14. Places(pl2)
  <2>1. \A q \in Pids : pl2[q] \in AtTable \cup {"none"}
    BY <1>1, <1>8, <1>13 DEF Places
  <2>2. pl2[MAIN] \in InMain
    BY <1>8 DEF InMain
  <2> QED BY <2>1, <2>2, <1>8 DEF Places
<1>15. Table_Typed(e, states2, pids2, seats2)
  <2>1. e \in 0..MAX_DINER
    BY <1>1, <1>2, Numbers
  <2> QED BY <2>1, <1>9, <1>10, <1>12 DEF Table_Typed
<1>16. Counted(pl2, e)
  BY <1>8 DEF Counted
<1>17. \A q \in Pids : q # x /\ pl[q] # "none" => seats[q] \in 0..e - 1 /\ pids[seats[q]] = q
  <2> SUFFICES ASSUME NEW q \in Pids, q # x, pl[q] # "none"
               PROVE  seats[q] \in 0..e - 1 /\ pids[seats[q]] = q
    OBVIOUS
  <2>1. seats[q] \in 0..n - 1 /\ pids[seats[q]] = q
    BY DEF Sound, Seated
  <2>2. seats[q] # e
    BY <2>1 DEF x
  <2> QED BY <2>1, <2>2, <1>2
<1>18. Seated(pl2, e, pids2, seats2)
  <2>1. ASSUME NEW i \in 0..e - 1
        PROVE  pids2[i] \in Pids /\ pl2[pids2[i]] # "none" /\ seats2[pids2[i]] = i
    <3>1. pids[i] \in Pids /\ pl[pids[i]] # "none" /\ seats[pids[i]] = i
      BY <1>5 DEF Sound, Seated
    <3>2. pids2[i] = pids[i] /\ pids[i] # x
      BY <3>1, <1>3, <1>5, <1>10
    <3> QED BY <3>1, <3>2, <1>12, <1>13
  <2>2. ASSUME NEW q \in Pids, pl2[q] # "none"
        PROVE  seats2[q] \in 0..e - 1 /\ pids2[seats2[q]] = q
    <3>1. q # x /\ pl[q] # "none"
      BY <2>2, <1>8, <1>13
    <3>2. seats[q] \in 0..e - 1 /\ pids[seats[q]] = q /\ seats2[q] = seats[q]
      BY <3>1, <1>12, <1>17
    <3> QED BY <3>2, <1>5, <1>10
  <2> QED BY <2>1, <2>2 DEF Seated
<1>19. Unused(sm2, e, states2)
  <2> SUFFICES ASSUME NEW i \in Seats, i >= e PROVE states2[i] = "NONE" /\ sm2[i] = Closed
    BY DEF Unused
  <2>1. CASE i = e
    BY <2>1, <1>6, <1>9
  <2>2. CASE i # e
    <3>1. i >= n
      BY <2>2, <1>2, Numbers
    <3> QED BY <3>1, <2>2, <1>4, <1>6, <1>9 DEF Sound, Unused
  <2> QED BY <2>1, <2>2
<1>20. Plates(sm2, pl2, states2, seats2)
  <2> SUFFICES ASSUME NEW q \in Pids, pl2[q] # "none"
               PROVE  Plate(q, pl2[q], states2[seats2[q]], sm2[seats2[q]])
    BY DEF Plates
  <2>1. q # x /\ pl[q] # "none" /\ pl2[q] = pl[q] /\ seats2[q] = seats[q]
    BY <1>8, <1>12, <1>13
  <2>2. seats[q] \in Seats /\ seats[q] # e
    BY <2>1, <1>5, <1>17
  <2>3. sm2[seats[q]] = sm[seats[q]] /\ states2[seats[q]] = states[seats[q]]
    BY <2>2, <1>4, <1>6, <1>9
  <2>4. Plate(q, pl[q], states[seats[q]], sm[seats[q]])
    BY <2>1 DEF Sound, Plates
  <2> QED BY <2>1, <2>3, <2>4
<1>21. Apart(e, states2)
  <2> SUFFICES ASSUME NEW i \in 0..e - 1, states2[i] = "EATING", RightOf(e, i) # i
               PROVE  states2[RightOf(e, i)] # "EATING"
    BY DEF Apart
  <2>1. states[i] = "EATING" /\ RightOf(e, i) \in 0..e - 1
    BY <1>2, <1>5, <1>9 DEF RightOf
  <2>2. states2[RightOf(e, i)] = states[RightOf(e, i)]
    BY <2>1, <1>5, <1>9
  <2>3. CASE i = e - 1
    <3>1. RightOf(e, i) = 0 /\ LeftOf(n, e) = i /\ RightOf(n, e) = 0
      BY <2>3, <1>2 DEF RightOf, LeftOf
    <3> QED BY <3>1, <2>1, <2>2 DEF e
  <2>4. CASE i # e - 1
    <3>1. RightOf(e, i) = RightOf(n, i)
      BY <2>4, <1>2 DEF RightOf
    <3> QED BY <3>1, <2>1, <2>2, <1>1, <1>5 DEF Apart
  <2> QED BY <2>3, <2>4
<1>22. Sleeping(pl2, list)
  <2>1. \A j \in DOMAIN list : list[j] \in Pids
    BY <1>1 DEF Sleeping
  <2>2. \A j \in DOMAIN list : pl2[list[j]] \in {"think", "eat", "none"}
    BY <2>1, <1>1, <1>8, <1>13 DEF Sleeping
  <2> QED BY <2>2, <1>1 DEF Sleeping
<1>23. Queue(sm2, pl2)
  <2> DEFINE q == sm[SEM_GLOBAL].waiting
  <2>1. sm2[SEM_GLOBAL] = sm[SEM_GLOBAL] /\ q \in Seq(Procs)
    BY <1>1, <1>2, <1>4, <1>6, SemFields
  <2>2. \A j \in DOMAIN q : pl[q[j]] \in Queued \cup Gone
    BY <1>1 DEF Queue, GlobalQueue
  <2>3. \A j \in DOMAIN q : q[j] \in Procs /\ q[j] # MAIN
    BY <2>1, <2>2 DEF Queued, Gone
  <2>4. \A j \in DOMAIN q : pl2[q[j]] \in Queued \cup Gone
    BY <2>2, <2>3, <1>8 DEF Gone
  <2> HIDE DEF q
  <2>5. pl2[MAIN] # "add_in"
    BY <1>8
  <2>6. GlobalQueue(q, sm[SEM_GLOBAL].value, pl2)
    BY <2>3, <2>4, <2>5, <1>1 DEF Queue, GlobalQueue, q
  <2> QED BY <2>1, <2>6 DEF Queue, q
<1> QED BY <1>6, <1>14, <1>15, <1>16, <1>18, <1>19, <1>20, <1>21, <1>22, <1>23 DEF Sound, e

-----------------------------------------------------------------------------
(* The actions of a philosopher.                                           *)

LEMMA ModFacts ==
  ASSUME NEW n \in Nat, NEW i \in 0..n - 1
  PROVE  /\ (i + n - 1) % n = LeftOf(n, i) /\ (i + 1) % n = RightOf(n, i)
         /\ LeftOf(n, i) \in 0..n - 1 /\ RightOf(n, i) \in 0..n - 1
<1>1. n > 0 /\ i \in Nat /\ i < n
  OBVIOUS
<1>2. (i + n - 1) % n = LeftOf(n, i)
  <2>1. CASE i = 0
    BY <2>1, <1>1 DEF LeftOf
  <2>2. CASE i # 0
    <3> DEFINE d == i - 1
    <3>1. d \in 0..n - 1 /\ i + n - 1 = d + n
      BY <2>2, <1>1
    <3> HIDE DEF d
    <3>2. (d + n) % n = d
      BY <3>1, <1>1
    <3> QED BY <3>1, <3>2, <2>2 DEF LeftOf, d
  <2> QED BY <2>1, <2>2
<1>3. (i + 1) % n = RightOf(n, i)
  BY <1>1 DEF RightOf
<1> QED BY <1>1, <1>2, <1>3 DEF LeftOf, RightOf

\* The neighbours, and how they see one another.
LEMMA Neighbours ==
  ASSUME NEW n \in Nat, NEW i \in 0..n - 1
  PROVE  /\ LeftOf(n, i) \in 0..n - 1 /\ RightOf(n, i) \in 0..n - 1
         /\ RightOf(n, LeftOf(n, i)) = i /\ LeftOf(n, RightOf(n, i)) = i
         /\ LeftOf(n, LeftOf(n, i)) \in 0..n - 1 /\ RightOf(n, RightOf(n, i)) \in 0..n - 1
BY DEF LeftOf, RightOf

LEMMA LeftRight ==
  ASSUME phylo_count \in Nat, NEW i \in 0..phylo_count - 1
  PROVE  Left(i) = LeftOf(phylo_count, i) /\ Right(i) = RightOf(phylo_count, i)
BY ModFacts DEF Left, Right

LEMMA GotoIs ==
  ASSUME NEW sm, NEW pl, NEW p, NEW l
  PROVE  Goto([sem |-> sm, pc |-> pl], p, l) = [sem |-> sm, pc |-> With(pl, p, l)]
BY DEF Goto, With

\* The post of SEM_GLOBAL that ends what a process does with the table.
LEMMA EndsWithPost ==
  ASSUME NEW sm, NEW pl, NEW n, NEW states, NEW pids, NEW seats, NEW list,
         Sound(sm, pl, n, states, pids, seats, list),
         NEW k, k = [sem |-> sm, pc |-> pl], Become(sem_post(k, SEM_GLOBAL))
  PROVE  Sound(sem', pc', n, states, pids, seats, list)
<1>1. Sems_Typed(sm) /\ SEM_GLOBAL \in Sems
  BY Numbers DEF Sound
<1>2. Posts(SEM_GLOBAL, sm, pl, sem', pc')
  BY <1>1, PostIs DEF Become
<1> QED BY <1>2, PostsGlobal

LEMMA WaitStep ==
  ASSUME IInv, NEW x \in Procs, NEW in, NEW queued, Hop(pc[x], in, queued),
         Become(WaitFor(x, SEM_GLOBAL, in, queued)), UNCHANGED table, UNCHANGED sleep_list
  PROVE  IInv'
<1>1. Waits(SEM_GLOBAL, x, in, queued, sem, pc, sem', pc')
  BY WaitIs DEF Become
<1>2. Sound(sem', pc', phylo_count, phylo_states, phylo_pids, seat, sleep_list)
  BY <1>1, WaitsGlobal DEF IInv
<1> QED BY <1>2 DEF IInv, table

LEMMA ProcessStep ==
  ASSUME IInv, NEW p \in Pids, phylo_process(p)
  PROVE  IInv'
<1>1. CASE pc[p] = "start" /\ sleep(p, "think") /\ SetState(seat[p], "THINKING")
  <2>1. /\ pc' = With(pc, p, "think") /\ sleep_list' = Append(sleep_list, p)
        /\ phylo_states' = With(phylo_states, seat[p], "THINKING")
    BY <1>1 DEF sleep, SetState, With
  <2>2. Sound(sem, pc', phylo_count, phylo_states', phylo_pids, seat, Append(sleep_list, p))
    BY <2>1, <1>1, FallsAsleep DEF IInv
  <2> QED BY <2>1, <2>2 DEF IInv, phylo_process, UNCHANGED_table
<1>2. CASE pc[p] = "fed" /\ sleep(p, "eat") /\ UNCHANGED phylo_states
  <2>1. /\ pc' = With(pc, p, "eat") /\ sleep_list' = Append(sleep_list, p)
        /\ phylo_states' = phylo_states
    BY <1>2 DEF sleep, With
  <2>2. Sound(sem, pc', phylo_count, phylo_states', phylo_pids, seat, Append(sleep_list, p))
    BY <2>1, <1>2, FallsAsleep DEF IInv
  <2> QED BY <2>1, <2>2 DEF IInv, phylo_process, UNCHANGED_table
<1> QED BY <1>1, <1>2 DEF phylo_process

\* What the invariant says of the philosopher p.
LEMMA AtItsSeat ==
  ASSUME IInv, NEW p \in Pids, pc[p] # "none"
  PROVE  /\ phylo_count \in Nat /\ seat[p] \in 0..phylo_count - 1 /\ seat[p] \in Seats
         /\ phylo_pids[seat[p]] = p
         /\ Plate(p, pc[p], phylo_states[seat[p]], sem[seat[p]])
BY Numbers DEF IInv, Sound, Seated, Table_Typed, Plates

\* The philosopher asks for its forks.
LEMMA TakeStep ==
  ASSUME IInv, NEW p \in Pids, pc[p] = "take_in",
         SetState(seat[p], IF CanEat(seat[p]) THEN "EATING" ELSE "WAITING"),
         NEW k, k = Goto(Now, p, "fork"), NEW granted,
         granted = IF CanEat(seat[p]) THEN sem_post(k, SEM_FORK(seat[p])) ELSE k,
         Become(sem_post(granted, SEM_GLOBAL)),
         UNCHANGED_table, UNCHANGED sleep_list
  PROVE  IInv'
<1> DEFINE i == seat[p]
           n == phylo_count
           pl == With(pc, p, "fork")
           st == With(phylo_states, i, "WAITING")
<1>1. /\ n \in Nat /\ i \in 0..n - 1 /\ i \in Seats /\ Plate(p, pc[p], phylo_states[i], sem[i])
      /\ \A j \in 0..n - 1 : j \in Seats
  <2>1. pc[p] # "none"
    OBVIOUS
  <2>2. \A j \in 0..n - 1 : j \in Seats
    BY Numbers DEF IInv, Sound, Table_Typed, Seats
  <2> QED BY <2>1, <2>2, AtItsSeat
<1>2. k = [sem |-> sem, pc |-> pl]
  BY GotoIs DEF Now
<1>3. /\ Sems_Typed(sem) /\ Places(pc) /\ Apart(n, phylo_states) /\ p \in Procs /\ p # MAIN
      /\ phylo_states \in [Seats -> PHYLO_STATE] /\ i \in Sems
  BY <1>1, Numbers DEF IInv, Sound, Table_Typed
<1>4. Places(pl) /\ Others(p, pc, pl) /\ pl[p] = "fork"
  BY <1>3, PlacesKept DEF AtTable
<1>5. /\ st \in [Seats -> PHYLO_STATE] /\ st[i] = "WAITING"
      /\ \A j \in Seats : j # i => st[j] = phylo_states[j]
  BY <1>1, <1>3 DEF With, PHYLO_STATE
<1>e. /\ phylo_states[i] # "EATING"
      /\ With(st, i, "EATING") = With(phylo_states, i, "EATING")
  <2>1. phylo_states[i] # "EATING"
    BY <1>1 DEF Plate
  <2> QED BY <2>1, <1>1, <1>3 DEF With
<1>6. CanEat(i) => st[LeftOf(n, i)] # "EATING" /\ st[RightOf(n, i)] # "EATING"
  <2>1. Left(i) = LeftOf(n, i) /\ Right(i) = RightOf(n, i)
    BY <1>1, LeftRight
  <2>2. LeftOf(n, i) \in Seats /\ RightOf(n, i) \in Seats
    BY <1>1, Neighbours
  <2> HIDE DEF st
  <2> QED BY <2>1, <2>2, <1>5 DEF CanEat
<1> HIDE DEF pl, st, n
<1>7. Sound(sem, pl, n, st, phylo_pids, seat, sleep_list)
  <2>1. Plate(p, "fork", st[i], sem[i])
    BY <1>1, <1>5 DEF Plate, Fed
  <2>2. Moves(p, sem, pc, phylo_states, seat, sem, pl, st)
    BY <2>1, <1>3, <1>4, <1>5 DEF Moves, AtTable
  <2>3. \A j \in 0..n - 1 : st[j] = "EATING" => phylo_states[j] = "EATING"
    BY <1>1, <1>5
  <2>4. Apart(n, st)
    BY <2>3, <1>1, <1>3, ApartKept
  <2>5. pc[p] \in AtTable \ (Queued \cup {"think", "eat"})
    BY DEF AtTable, Queued
  <2>6. Sound(sem, pc, n, phylo_states, phylo_pids, seat, sleep_list)
    BY DEF IInv, n
  <2> QED BY <2>2, <2>4, <2>5, <2>6, MovesAwake
<1>8. CASE CanEat(i)
  <2> DEFINE st2 == With(st, i, "EATING")
  <2>1. granted = sem_post([sem |-> sem, pc |-> pl], i)
    BY <1>2, <1>8 DEF SEM_FORK
  <2>2. granted = [sem |-> granted.sem, pc |-> granted.pc] /\ Posts(i, sem, pl, granted.sem, granted.pc)
    BY <2>1, <1>3, PostIs
  <2> HIDE DEF st2
  <2>3. Sound(granted.sem, granted.pc, n, st2, phylo_pids, seat, sleep_list)
    BY <2>2, <1>1, <1>5, <1>6, <1>7, <1>8, Grants DEF st2
  <2>4. Sound(sem', pc', n, st2, phylo_pids, seat, sleep_list)
    BY <2>2, <2>3, EndsWithPost
  <2>5. phylo_states' = st2
    BY <1>8, <1>e DEF SetState, With, st2
  <2> QED BY <2>4, <2>5 DEF IInv, UNCHANGED_table, n
<1>9. CASE ~CanEat(i)
  <2>1. Sound(sem', pc', n, st, phylo_pids, seat, sleep_list)
    BY <1>2, <1>7, <1>9, EndsWithPost
  <2>2. phylo_states' = st
    BY <1>9 DEF SetState, With, st
  <2> QED BY <2>1, <2>2 DEF IInv, UNCHANGED_table, n
<1> QED BY <1>8, <1>9

LEMMA ForkStep ==
  ASSUME IInv, NEW p \in Pids, pc[p] = "fork",
         Become(WaitFor(p, SEM_FORK(seat[p]), "fed", "fork_q")),
         UNCHANGED table, UNCHANGED sleep_list
  PROVE  IInv'
<1>1. Waits(seat[p], p, "fed", "fork_q", sem, pc, sem', pc')
  BY WaitIs DEF Become, SEM_FORK
<1>2. Sound(sem', pc', phylo_count, phylo_states, phylo_pids, seat, sleep_list)
  BY <1>1, WaitsFork DEF IInv
<1> QED BY <1>2 DEF IInv, table

\* A philosopher j that waits is let in, if nobody eats on its other side; the
\* neighbour between does not eat.
LEMMA LetsIn ==
  ASSUME NEW sm, NEW pl, NEW n, NEW states, NEW pids, NEW seats, NEW list,
         Sound(sm, pl, n, states, pids, seats, list),
         NEW j \in 0..n - 1, NEW beyond, NEW between,
         \/ beyond = LeftOf(n, j) /\ between = RightOf(n, j)
         \/ beyond = RightOf(n, j) /\ between = LeftOf(n, j),
         states[between] # "EATING",
         NEW k, k = [sem |-> sm, pc |-> pl], NEW k2,
         k2 = IF states[j] = "WAITING" /\ states[beyond] # "EATING" THEN sem_post(k, j) ELSE k
  PROVE  /\ k2 = [sem |-> k2.sem, pc |-> k2.pc]
         /\ Sound(k2.sem, k2.pc, n, LetIn(states, j, beyond), pids, seats, list)
<1> DEFINE states2 == LetIn(states, j, beyond)
<1>1. CASE states[j] = "WAITING" /\ states[beyond] # "EATING"
  <2>1. k2 = sem_post([sem |-> sm, pc |-> pl], j)
    BY <1>1
  <2>2. Sems_Typed(sm) /\ j \in Sems
    BY Numbers DEF Sound, Table_Typed, Sems
  <2>3. k2 = [sem |-> k2.sem, pc |-> k2.pc] /\ Posts(j, sm, pl, k2.sem, k2.pc)
    BY <2>1, <2>2, PostIs
  <2>4. states2 = With(states, j, "EATING")
    BY <1>1 DEF LetIn, With
  <2>5. states[RightOf(n, j)] # "EATING" /\ states[LeftOf(n, j)] # "EATING"
    BY <1>1
  <2> HIDE DEF states2
  <2>6. Sound(k2.sem, k2.pc, n, states2, pids, seats, list)
    BY <2>3, <2>4, <2>5, <1>1, Grants
  <2> QED BY <2>3, <2>6 DEF states2
<1>2. CASE ~(states[j] = "WAITING" /\ states[beyond] # "EATING")
  <2>1. states2 = states /\ k2 = k
    BY <1>2 DEF LetIn
  <2> HIDE DEF states2
  <2> QED BY <2>1 DEF states2
<1> QED BY <1>1, <1>2

\* What leaving does to the states: the philosopher i thinks, then its neighbours,
\* the left one first, are let in if they wait and can eat; a neighbour waits for a
\* post exactly if it is let in, also when left and right are the same.
LEMMA MealEnds ==
  ASSUME NEW n \in Nat, NEW i \in 0..n - 1, NEW states, NEW s1, NEW s2, NEW s3,
         \A j \in 0..n - 1 : j \in Seats,
         states \in [Seats -> PHYLO_STATE], states[i] = "EATING",
         s1 = With(states, i, "THINKING"),
         s2 = LetIn(s1, LeftOf(n, i), LeftOf(n, LeftOf(n, i))),
         s3 = LetIn(s2, RightOf(n, i), RightOf(n, RightOf(n, i)))
  PROVE  LET L  == LeftOf(n, i)
             LL == LeftOf(n, LeftOf(n, i))
             R  == RightOf(n, i)
             RR == RightOf(n, RightOf(n, i))
         IN  /\ s1[i] # "EATING" /\ s2[i] # "EATING"
             /\ (states[L] = "WAITING" /\ s3[L] = "EATING")
                    <=> (s1[L] = "WAITING" /\ s1[LL] # "EATING")
             /\ R = L => ~(s2[R] = "WAITING" /\ s2[RR] # "EATING")
             /\ R # L => ((states[R] = "WAITING" /\ s3[R] = "EATING")
                              <=> (s2[R] = "WAITING" /\ s2[RR] # "EATING"))
<1> DEFINE L  == LeftOf(n, i)
           LL == LeftOf(n, LeftOf(n, i))
           R  == RightOf(n, i)
           RR == RightOf(n, RightOf(n, i))
           inL == s1[L] = "WAITING" /\ s1[LL] # "EATING"
           inR == s2[R] = "WAITING" /\ s2[RR] # "EATING"
<1>1. L \in 0..n - 1 /\ R \in 0..n - 1 /\ LL \in 0..n - 1 /\ RR \in 0..n - 1
  BY Neighbours
<1>2. /\ R = L /\ L # i => LL = i
      /\ L = i => R = L
      /\ R = i => R = L
  BY DEF LeftOf, RightOf
<1> HIDE DEF L, R, LL, RR
<1>3. s1 \in [Seats -> PHYLO_STATE] /\ s1[i] = "THINKING" /\ \A j \in Seats : j # i => s1[j] = states[j]
  BY DEF With, PHYLO_STATE
<1>4. /\ s2 \in [Seats -> PHYLO_STATE]
      /\ \A j \in Seats : j # L => s2[j] = s1[j]
      /\ s2[L] = IF inL THEN "EATING" ELSE s1[L]
  <2>1. s2 = LetIn(s1, L, LL) /\ L \in Seats
    BY <1>1 DEF L, LL
  <2> QED BY <2>1, <1>3 DEF LetIn, PHYLO_STATE
<1>5. /\ \A j \in Seats : j # R => s3[j] = s2[j]
      /\ s3[R] = IF inR THEN "EATING" ELSE s2[R]
  <2>1. s3 = LetIn(s2, R, RR) /\ R \in Seats
    BY <1>1 DEF R, RR
  <2> QED BY <2>1, <1>4 DEF LetIn
<1>6. i \in Seats /\ L \in Seats /\ R \in Seats
  BY <1>1
<1>7. s1[i] # "EATING" /\ s2[i] # "EATING"
  <2>1. CASE L = i
    BY <2>1, <1>3, <1>4
  <2>2. CASE L # i
    BY <2>2, <1>3, <1>4, <1>6
  <2> QED BY <2>1, <2>2, <1>3
<1>8. R = L => ~inR
  <2> SUFFICES ASSUME R = L PROVE ~inR
    OBVIOUS
  <2>1. CASE L = i
    BY <2>1, <1>3, <1>4
  <2>2. CASE L # i
    BY <2>2, <1>2, <1>3, <1>4
  <2> QED BY <2>1, <2>2
<1>9. (states[L] = "WAITING" /\ s3[L] = "EATING") <=> inL
  <2>1. CASE L = i
    BY <2>1, <1>3
  <2>2. CASE L # i /\ R = L
    <3>1. s1[L] = states[L] /\ s3[L] = s2[L]
      BY <2>2, <1>3, <1>5, <1>6, <1>8
    <3>2. s1[LL] # "EATING"
      BY <2>2, <1>2, <1>3
    <3> QED BY <3>1, <3>2, <1>4
  <2>3. CASE L # i /\ R # L
    <3>1. s1[L] = states[L] /\ s3[L] = s2[L]
      BY <2>3, <1>3, <1>5, <1>6
    <3> QED BY <3>1, <1>4
  <2> QED BY <2>1, <2>2, <2>3
<1>10. R # L => ((states[R] = "WAITING" /\ s3[R] = "EATING") <=> inR)
  <2> SUFFICES ASSUME R # L PROVE (states[R] = "WAITING" /\ s3[R] = "EATING") <=> inR
    OBVIOUS
  <2>1. R # i
    BY <1>2
  <2>2. s2[R] = s1[R] /\ s1[R] = states[R]
    BY <2>1, <1>3, <1>4, <1>6
  <2> QED BY <2>2, <1>5
<1> QED BY <1>7, <1>8, <1>9, <1>10 DEF L, R, LL, RR

\* The philosopher puts its forks down.
LEMMA LeaveStep ==
  ASSUME IInv, NEW p \in Pids, pc[p] = "leave_in", leave_forks(p)
  PROVE  IInv'
<1> DEFINE i == seat[p]
           n == phylo_count
           L  == LeftOf(n, i)
           LL == LeftOf(n, LeftOf(n, i))
           R  == RightOf(n, i)
           RR == RightOf(n, RightOf(n, i))
           pl == With(pc, p, "think")
           s1 == With(phylo_states, i, "THINKING")
           s2 == LetIn(s1, L, LL)
           s3 == LetIn(s2, R, RR)
           k == Goto(Now, p, "think")
           serve(kk, j) == IF phylo_states[j] = "WAITING" /\ AfterMeal(i)[j] = "EATING"
                           THEN sem_post(kk, SEM_FORK(j)) ELSE kk
           left == serve(k, Left(i))
           right == IF Right(i) = Left(i) THEN left ELSE serve(left, Right(i))
           list == Append(sleep_list, p)
<1>1. /\ n \in Nat /\ i \in 0..n - 1 /\ i \in Seats /\ Plate(p, pc[p], phylo_states[i], sem[i])
      /\ \A j \in 0..n - 1 : j \in Seats
  <2>1. pc[p] # "none"
    OBVIOUS
  <2>2. \A j \in 0..n - 1 : j \in Seats
    BY Numbers DEF IInv, Sound, Table_Typed, Seats
  <2> QED BY <2>1, <2>2, AtItsSeat
<1>2. phylo_states[i] = "EATING" /\ phylo_states \in [Seats -> PHYLO_STATE]
  BY <1>1 DEF Plate, Fed, IInv, Sound, Table_Typed
<1>3. L \in 0..n - 1 /\ R \in 0..n - 1 /\ RightOf(n, L) = i /\ LeftOf(n, R) = i
  BY <1>1, Neighbours
<1>4. Left(i) = L /\ Right(i) = R /\ Left(Left(i)) = LL /\ Right(Right(i)) = RR
  <2>1. Left(i) = L /\ Right(i) = R
    BY <1>1, LeftRight
  <2>2. Left(L) = LL /\ Right(R) = RR
    BY <1>1, <1>3, LeftRight
  <2> QED BY <2>1, <2>2
<1>5. AfterMeal(i) = s3
  BY <1>4 DEF AfterMeal, With
<1>6. /\ phylo_states' = s3 /\ Become(sem_post(right, SEM_GLOBAL)) /\ sleep_list' = list
      /\ UNCHANGED_table
  <2>1. phylo_states' = AfterMeal(i) /\ Become(sem_post(right, SEM_GLOBAL)) /\ sleep_list' = list
        /\ UNCHANGED_table
    BY DEF leave_forks
  <2> QED BY <2>1, <1>5
<1>7. k = [sem |-> sem, pc |-> pl]
  BY GotoIs DEF Now
<1>8. Sound(sem, pl, n, s1, phylo_pids, seat, list)
  <2>1. Sound(sem, pc, n, phylo_states, phylo_pids, seat, sleep_list)
    BY DEF IInv
  <2> QED BY <2>1, FallsAsleep
<1>9. /\ s1[i] # "EATING" /\ s2[i] # "EATING"
      /\ (phylo_states[L] = "WAITING" /\ s3[L] = "EATING")
             <=> (s1[L] = "WAITING" /\ s1[LL] # "EATING")
      /\ R = L => ~(s2[R] = "WAITING" /\ s2[RR] # "EATING")
      /\ R # L => ((phylo_states[R] = "WAITING" /\ s3[R] = "EATING")
                       <=> (s2[R] = "WAITING" /\ s2[RR] # "EATING"))
  <2>1. PICK t1, t2, t3 : t1 = s1 /\ t2 = s2 /\ t3 = s3
    OBVIOUS
  <2>2. t1 = With(phylo_states, i, "THINKING") /\ t2 = LetIn(t1, L, LL) /\ t3 = LetIn(t2, R, RR)
    BY <2>1
  <2>3. /\ t1[i] # "EATING" /\ t2[i] # "EATING"
        /\ (phylo_states[L] = "WAITING" /\ t3[L] = "EATING")
             <=> (t1[L] = "WAITING" /\ t1[LL] # "EATING")
        /\ R = L => ~(t2[R] = "WAITING" /\ t2[RR] # "EATING")
        /\ R # L => ((phylo_states[R] = "WAITING" /\ t3[R] = "EATING")
                       <=> (t2[R] = "WAITING" /\ t2[RR] # "EATING"))
    BY <2>2, <1>1, <1>2, MealEnds
  <2> QED BY <2>1, <2>3
<1>10. left = IF s1[L] = "WAITING" /\ s1[LL] # "EATING" THEN sem_post(k, L) ELSE k
  <2>1. left = IF phylo_states[L] = "WAITING" /\ s3[L] = "EATING" THEN sem_post(k, L) ELSE k
    BY <1>4, <1>5 DEF SEM_FORK
  <2> HIDE DEF left, k, s1, s2, s3, L, LL, R, RR
  <2> QED BY <2>1, <1>9
<1>11. right = IF s2[R] = "WAITING" /\ s2[RR] # "EATING" THEN sem_post(left, R) ELSE left
  <2>1. right = IF R = L THEN left
                ELSE IF phylo_states[R] = "WAITING" /\ s3[R] = "EATING" THEN sem_post(left, R) ELSE left
    <3> HIDE DEF left
    <3> QED BY <1>4, <1>5 DEF SEM_FORK
  <2> HIDE DEF right, left, k, s1, s2, s3, L, LL, R, RR
  <2> QED BY <2>1, <1>9
<1> HIDE DEF right, left, k, pl, list, n
<1>12. left = [sem |-> left.sem, pc |-> left.pc]
       /\ Sound(left.sem, left.pc, n, s2, phylo_pids, seat, list)
  <2> HIDE DEF s1, L, LL
  <2>1. LL = LeftOf(n, L) /\ RightOf(n, L) = i
    BY <1>3 DEF LL, L
  <2> QED BY <2>1, <1>3, <1>7, <1>8, <1>9, <1>10, LetsIn
<1>13. right = [sem |-> right.sem, pc |-> right.pc]
       /\ Sound(right.sem, right.pc, n, s3, phylo_pids, seat, list)
  <2> HIDE DEF s2, R, RR
  <2>1. RR = RightOf(n, R) /\ LeftOf(n, R) = i
    BY <1>3 DEF RR, R
  <2> QED BY <2>1, <1>3, <1>9, <1>11, <1>12, LetsIn
<1> HIDE DEF s3
<1>14. Sound(sem', pc', n, s3, phylo_pids, seat, list)
  BY <1>6, <1>13, EndsWithPost
<1> QED BY <1>6, <1>14 DEF IInv, UNCHANGED_table, n

LEMMA PhilosopherStep ==
  ASSUME IInv, NEW p \in Pids, Philosopher(p)
  PROVE  IInv'
<1>0. p \in Procs
  BY Numbers
<1>1. CASE phylo_process(p)
  BY <1>1, ProcessStep
<1>2. CASE take_forks(p) /\ UNCHANGED sleep_list
  <2>1. CASE pc[p] = "take" /\ Become(WaitFor(p, SEM_GLOBAL, "take_in", "take_q")) /\ UNCHANGED table
    <3>1. Hop(pc[p], "take_in", "take_q")
      BY <2>1 DEF Hop
    <3> QED BY <3>1, <2>1, <1>0, <1>2, WaitStep
  <2>2. CASE pc[p] = "take_in"
    <3> DEFINE k == Goto(Now, p, "fork")
               granted == IF CanEat(seat[p]) THEN sem_post(k, SEM_FORK(seat[p])) ELSE k
    <3>1. /\ SetState(seat[p], IF CanEat(seat[p]) THEN "EATING" ELSE "WAITING")
          /\ Become(sem_post(granted, SEM_GLOBAL)) /\ UNCHANGED_table
      BY <2>2, <1>2 DEF take_forks
    <3> HIDE DEF k, granted
    <3>2. k = Goto(Now, p, "fork")
          /\ granted = IF CanEat(seat[p]) THEN sem_post(k, SEM_FORK(seat[p])) ELSE k
      BY DEF k, granted
    <3> QED BY <3>1, <3>2, <2>2, <1>2, TakeStep
  <2>3. CASE pc[p] = "fork" /\ Become(WaitFor(p, SEM_FORK(seat[p]), "fed", "fork_q")) /\ UNCHANGED table
    BY <2>3, <1>2, ForkStep
  <2> QED BY <2>1, <2>2, <2>3, <1>2 DEF take_forks
<1>3. CASE leave_forks(p)
  <2>1. CASE pc[p] = "leave" /\ Become(WaitFor(p, SEM_GLOBAL, "leave_in", "leave_q"))
             /\ UNCHANGED table /\ UNCHANGED sleep_list
    <3>1. Hop(pc[p], "leave_in", "leave_q")
      BY <2>1 DEF Hop
    <3> QED BY <3>1, <2>1, <1>0, WaitStep
  <2>2. CASE pc[p] = "leave_in"
    BY <2>2, <1>3, LeaveStep
  <2> QED BY <2>1, <2>2, <1>3 DEF leave_forks
<1> QED BY <1>1, <1>2, <1>3 DEF Philosopher

-----------------------------------------------------------------------------
(* The sleep queue and phylo_main.                                         *)

LEMMA ListShortened ==
  ASSUME NEW sm, NEW pl, NEW n, NEW states, NEW pids, NEW seats, NEW list,
         Sound(sm, pl, n, states, pids, seats, list),
         NEW list2 \in Seq(Pids), Once(list2),
         \A j \in DOMAIN list2 : \E h \in DOMAIN list : list2[j] = list[h]
  PROVE  Sound(sm, pl, n, states, pids, seats, list2)
<1>1. Sleeping(pl, list2)
  BY DEF Sound, Sleeping
<1> QED BY <1>1 DEF Sound

LEMMA TailOnce ==
  ASSUME NEW S, NEW s \in Seq(S), s # <<>>, Once(s)
  PROVE  /\ Head(s) \in S /\ 1 \in DOMAIN s /\ s[1] = Head(s)
         /\ Tail(s) \in Seq(S) /\ Once(Tail(s))
         /\ \A j \in DOMAIN Tail(s) : Tail(s)[j] # Head(s) /\ \E h \in DOMAIN s : Tail(s)[j] = s[h]
<1> DEFINE r == Tail(s)
           d == Len(s) - 1
<1>1. Len(s) \in Nat /\ Len(s) # 0
  OBVIOUS
<1>2. DOMAIN s = 1..Len(s) /\ d \in Nat /\ 1 \in DOMAIN s /\ s[1] = Head(s) /\ Head(s) \in S
  BY <1>1
<1>3. r \in Seq(S) /\ DOMAIN r = 1..d /\ \A j \in 1..d : r[j] = s[j + 1]
  BY <1>1
<1>4. \A j \in 1..d : j \in Nat /\ j + 1 \in DOMAIN s /\ j + 1 # 1
  BY <1>1, <1>2
<1> HIDE DEF r, d
<1>5. Once(r)
  <2> SUFFICES ASSUME NEW i \in 1..d, NEW j \in 1..d, r[i] = r[j] PROVE i = j
    BY <1>3 DEF Once
  <2>1. i + 1 = j + 1
    BY <1>3, <1>4 DEF Once
  <2> QED BY <2>1, <1>4
<1>6. \A j \in DOMAIN r : r[j] # Head(s) /\ \E h \in DOMAIN s : r[j] = s[h]
  BY <1>2, <1>3, <1>4 DEF Once
<1> QED BY <1>2, <1>3, <1>5, <1>6 DEF r

Without(s, i) == SubSeq(s, 1, i - 1) \o SubSeq(s, i + 1, Len(s))

LEMMA WithoutOne ==
  ASSUME NEW S, NEW s \in Seq(S), NEW i \in DOMAIN s, Once(s), NEW r, r = Without(s, i)
  PROVE  r \in Seq(S) /\ Once(r) /\ \A j \in DOMAIN r : \E h \in DOMAIN s : r[j] = s[h]
<1> DEFINE u == SubSeq(s, 1, i - 1)
           v == SubSeq(s, i + 1, Len(s))
<1>a. Len(s) \in Nat
  OBVIOUS
<1>0. DOMAIN s = 1..Len(s) /\ i \in 1..Len(s)
  BY <1>a
<1>1. u \in Seq(S) /\ Len(u) = i - 1 /\ \A j \in 1..(i - 1) : u[j] = s[j]
  BY <1>0
<1>2. v \in Seq(S) /\ Len(v) = Len(s) - i /\ \A j \in 1..(Len(s) - i) : v[j] = s[i + j]
  BY <1>a, <1>0
<1>3. r = u \o v
  BY DEF Without
<1> HIDE DEF u, v
<1>4. /\ r \in Seq(S) /\ Len(r) = Len(s) - 1
      /\ \A j \in 1..Len(r) : r[j] = IF j < i THEN s[j] ELSE s[j + 1]
  <2>1. /\ r \in Seq(S) /\ Len(r) = Len(u) + Len(v)
        /\ \A j \in 1..(Len(u) + Len(v)) : r[j] = IF j <= Len(u) THEN u[j] ELSE v[j - Len(u)]
    BY <1>1, <1>2, <1>3, ConcatProperties
  <2>2. ASSUME NEW j \in 1..Len(r)
        PROVE  r[j] = IF j < i THEN s[j] ELSE s[j + 1]
    <3>1. CASE j < i
      BY <1>a, <1>0, <1>1, <1>2, <2>1, <3>1
    <3>2. CASE ~(j < i)
      <4>1. j - (i - 1) \in 1..(Len(s) - i) /\ i + (j - (i - 1)) = j + 1
        BY <1>a, <1>0, <1>1, <1>2, <2>1, <3>2
      <4> QED BY <1>a, <1>0, <1>1, <1>2, <2>1, <3>2, <4>1
    <3> QED BY <3>1, <3>2
  <2> QED BY <1>a, <1>0, <1>1, <1>2, <2>1, <2>2
<1>5. DOMAIN r = 1..Len(r)
  BY <1>4
<1>6. \A j \in 1..Len(r) : j \in DOMAIN s /\ j + 1 \in DOMAIN s /\ j \in Nat
  BY <1>a, <1>0, <1>4
<1>7. Once(r)
  <2> SUFFICES ASSUME NEW h \in 1..Len(r), NEW j \in 1..Len(r), r[h] = r[j] PROVE h = j
    BY <1>5 DEF Once
  <2>1. /\ r[h] = IF h < i THEN s[h] ELSE s[h + 1]
        /\ r[j] = IF j < i THEN s[j] ELSE s[j + 1]
    BY <1>4
  <2>2. /\ s[h] = s[j] => h = j
        /\ s[h] = s[j + 1] => h = j + 1
        /\ s[h + 1] = s[j] => h + 1 = j
        /\ s[h + 1] = s[j + 1] => h + 1 = j + 1
    BY <1>6 DEF Once
  <2>3. h \in Nat /\ j \in Nat /\ i \in Nat
    BY <1>a, <1>0, <1>6
  <2>4. CASE h < i /\ j < i
    BY <2>1, <2>2, <2>4
  <2>5. CASE h < i /\ ~(j < i)
    <3>1. r[h] = s[h] /\ r[j] = s[j + 1]
      BY <2>1, <2>5
    <3>2. h = j + 1
      BY <3>1, <2>2, Zenon
    <3> QED BY <3>2, <2>3, <2>5
  <2>6. CASE ~(h < i) /\ j < i
    <3>1. r[h] = s[h + 1] /\ r[j] = s[j]
      BY <2>1, <2>6
    <3>2. h + 1 = j
      BY <3>1, <2>2, Zenon
    <3> QED BY <3>2, <2>3, <2>6
  <2>7. CASE ~(h < i) /\ ~(j < i)
    <3>1. r[h] = s[h + 1] /\ r[j] = s[j + 1]
      BY <2>1, <2>7
    <3>2. h + 1 = j + 1
      BY <3>1, <2>2, Zenon
    <3> QED BY <3>2, <2>3, <2>7
  <2> QED BY <2>4, <2>5, <2>6, <2>7
<1> QED BY <1>4, <1>5, <1>6, <1>7

LEMMA FireStep ==
  ASSUME IInv, Fire
  PROVE  IInv'
<1> DEFINE x == Head(sleep_list)
<1>1. sleep_list \in Seq(Pids) /\ Once(sleep_list) /\ Sleeping(pc, sleep_list)
  BY DEF IInv, Sound, Sleeping
<1>2. sleep_list # <<>>
  BY DEF Fire
<1>3. /\ x \in Pids /\ 1 \in DOMAIN sleep_list /\ sleep_list[1] = x
      /\ Tail(sleep_list) \in Seq(Pids) /\ Once(Tail(sleep_list))
      /\ \A j \in DOMAIN Tail(sleep_list) :
            Tail(sleep_list)[j] # x /\ \E h \in DOMAIN sleep_list : Tail(sleep_list)[j] = sleep_list[h]
  BY <1>1, <1>2, TailOnce
<1>4. pc[x] \in {"think", "eat", "none"}
  BY <1>1, <1>3 DEF Sleeping
<1>5. /\ sleep_list' = Tail(sleep_list) /\ sem' = sem /\ UNCHANGED table
      /\ pc' = [pc EXCEPT ![x] = IF @ \in Blocked THEN Resumes[@] ELSE @]
  <2>1. /\ sleep_list' = Tail(sleep_list) /\ UNCHANGED table
        /\ Become(Unblock([sem |-> sem, pc |-> pc], x))
    BY DEF Fire, Now
  <2> HIDE DEF x
  <2>2. Unblock([sem |-> sem, pc |-> pc], x)
        = [sem |-> sem, pc |-> [pc EXCEPT ![x] = IF @ \in Blocked THEN Resumes[@] ELSE @]]
    BY UnblockIs
  <2>3. Become([sem |-> sem, pc |-> [pc EXCEPT ![x] = IF @ \in Blocked THEN Resumes[@] ELSE @]])
    BY <2>1, <2>2, Zenon
  <2>4. sem' = sem /\ pc' = [pc EXCEPT ![x] = IF @ \in Blocked THEN Resumes[@] ELSE @]
    BY <2>3 DEF Become
  <2> QED BY <2>1, <2>4
<1> HIDE DEF x
<1>6. PICK list2 : list2 = Tail(sleep_list)
  OBVIOUS
<1>7. /\ list2 \in Seq(Pids) /\ Once(list2)
      /\ \A j \in DOMAIN list2 : list2[j] # x /\ \E h \in DOMAIN sleep_list : list2[j] = sleep_list[h]
  BY <1>3, <1>6
<1>8. CASE pc[x] \in {"think", "eat"}
  <2> DEFINE l == Resumes[pc[x]]
  <2>1. (pc[x] = "think" /\ l = "take") \/ (pc[x] = "eat" /\ l = "leave")
    BY <1>8, Awoken
  <2>2. pc' = With(pc, x, l)
    BY <1>5, <1>8, Awoken DEF With
  <2> HIDE DEF l
  <2>3. Sound(sem, pc', phylo_count, phylo_states, phylo_pids, seat, list2)
    BY <2>1, <2>2, <1>3, <1>7, Wakes DEF IInv
  <2> QED BY <2>3, <1>5, <1>6 DEF IInv, table
<1>9. CASE pc[x] = "none"
  <2>1. x \in Procs /\ pc \in [Procs -> AtTable \cup InMain \cup Gone]
    BY <1>3, Numbers DEF IInv, Sound, Places
  <2>2. pc' = pc
    BY <2>1, <1>5, <1>9, Awoken
  <2>3. Sound(sem, pc, phylo_count, phylo_states, phylo_pids, seat, list2)
    BY <1>7, ListShortened DEF IInv
  <2> QED BY <2>2, <2>3, <1>5, <1>6 DEF IInv, table
<1> QED BY <1>4, <1>8, <1>9

LEMMA DropStep ==
  ASSUME IInv, Drop
  PROVE  IInv'
<1>1. sleep_list \in Seq(Pids) /\ Once(sleep_list)
  BY DEF IInv, Sound, Sleeping
<1>2. PICK i \in DOMAIN sleep_list : sleep_list' = Without(sleep_list, i)
  BY DEF Drop, Without
<1>3. /\ sleep_list' \in Seq(Pids) /\ Once(sleep_list')
      /\ \A j \in DOMAIN sleep_list' : \E h \in DOMAIN sleep_list : sleep_list'[j] = sleep_list[h]
  BY <1>1, <1>2, WithoutOne
<1>4. Sound(sem, pc, phylo_count, phylo_states, phylo_pids, seat, sleep_list')
  BY <1>3, ListShortened DEF IInv
<1> QED BY <1>4 DEF IInv, Drop, table

\* phylo_main goes on without touching anything.
LEMMA MainGoesOn ==
  ASSUME IInv, NEW l \in InMain, l # "add_in", pc[MAIN] \notin Queued \cup Gone \/ l = "dead",
         pc' = With(pc, MAIN, l), Counted(pc', phylo_count),
         sem' = sem, phylo_count' = phylo_count, phylo_states' = phylo_states,
         phylo_pids' = phylo_pids, seat' = seat, sleep_list' = sleep_list
  PROVE  IInv'
<1>1. Sound(sem, pc', phylo_count, phylo_states, phylo_pids, seat, sleep_list)
  BY MainWalks DEF IInv
<1> QED BY <1>1 DEF IInv

\* The place of phylo_main after it moved.
LEMMA MainAt ==
  ASSUME IInv, NEW l, NEW pl2, pl2 = With(pc, MAIN, l)
  PROVE  pl2[MAIN] = l
BY Numbers DEF With, IInv, Sound, Places

LEMMA KeyStep ==
  ASSUME IInv, Key
  PROVE  IInv'
<1>1. pc[MAIN] = "menu" /\ pc[MAIN] \notin Queued \cup Gone
  BY DEF Key, Main, Queued, Gone
<1>2. PICK l : /\ pc' = With(pc, MAIN, l)
               /\ \/ l = "add" /\ phylo_count < MAX_DINER
                  \/ l = "rm" /\ phylo_count > MIN_DINER
                  \/ l = "all"
  BY DEF Key, With
<1>3. pc'[MAIN] = l
  BY <1>2, MainAt
<1>4. phylo_count \in Nat
  BY Numbers DEF IInv, Sound, Table_Typed
<1>5. Counted(pc', phylo_count)
  BY <1>2, <1>3, <1>4, Numbers DEF Counted
<1>6. l \in InMain /\ l # "add_in"
  BY <1>2 DEF InMain
<1> QED BY <1>1, <1>2, <1>5, <1>6, MainGoesOn DEF Key

LEMMA CtrlCStep ==
  ASSUME IInv, CtrlC
  PROVE  IInv'
<1>1. pc' = With(pc, MAIN, "dead")
  BY DEF CtrlC, With
<1>2. pc'[MAIN] = "dead"
  BY <1>1, MainAt
<1>3. Counted(pc', phylo_count)
  BY <1>2 DEF Counted
<1>4. "dead" \in InMain
  BY DEF InMain
<1> QED BY <1>1, <1>3, <1>4, MainGoesOn DEF CtrlC, table

LEMMA CloseIs ==
  ASSUME NEW sm, NEW pl, NEW s
  PROVE  sem_close([sem |-> sm, pc |-> pl], s) = [sem |-> With(sm, s, Closed), pc |-> pl]
BY DEF sem_close, With

LEMMA OpenIs ==
  ASSUME NEW sm, NEW pl, NEW s, NEW v
  PROVE  sem_open([sem |-> sm, pc |-> pl], s, v)
         = [sem |-> IF sm[s].value = -1 THEN WithValue(sm, s, v) ELSE sm, pc |-> pl]
BY DEF sem_open, WithValue

LEMMA StartStep ==
  ASSUME IInv, Start
  PROVE  IInv'
<1> DEFINE G == SEM_GLOBAL
           sm2 == IF sem[G].value = -1 THEN WithValue(sem, G, 1) ELSE sem
           none == [i \in Seats |-> "NONE"]
           nobody == [i \in Seats |-> NO_PID]
<1>1. pc[MAIN] = "off" /\ phylo_count = 0 /\ pc[MAIN] \notin Queued \cup Gone
  BY DEF Start, Main, IInv, Sound, Counted, Queued, Gone
<1>2. /\ Sems_Typed(sem) /\ Places(pc) /\ Queue(sem, pc) /\ G \in Sems
      /\ (\A i \in Seats : i \in Sems /\ i # G)
      /\ Table_Typed(phylo_count, phylo_states, phylo_pids, seat)
  BY Numbers DEF IInv, Sound
<1>3. \A p \in Pids : pc[p] = "none"
  BY <1>1 DEF IInv, Sound, Seated
<1>4. Sound(sem, pc, phylo_count, none, nobody, seat, sleep_list)
  <2>1. none \in [Seats -> PHYLO_STATE] /\ nobody \in [Seats -> Pids \cup {NO_PID}]
    BY DEF PHYLO_STATE
  <2>2. Table_Typed(phylo_count, none, nobody, seat)
    BY <2>1, <1>2 DEF Table_Typed
  <2>3. Seated(pc, phylo_count, nobody, seat)
    BY <1>1, <1>3 DEF Seated
  <2>4. Unused(sem, phylo_count, none)
    BY <1>1 DEF IInv, Sound, Unused
  <2>5. Plates(sem, pc, none, seat)
    BY <1>3 DEF Plates
  <2>6. Apart(phylo_count, none)
    BY <1>1 DEF Apart
  <2> HIDE DEF none, nobody
  <2> QED BY <2>2, <2>3, <2>4, <2>5, <2>6 DEF IInv, Sound
<1>5. /\ Sems_Typed(sm2) /\ \A t \in Sems : t # G => sm2[t] = sem[t]
      /\ Queue(sm2, pc)
  <2>1. CASE sem[G].value = -1
    <3>1. PICK z : z = 1
      OBVIOUS
    <3>2. z \in Nat \cup {-1} /\ sm2 = WithValue(sem, G, z)
      BY <2>1, <3>1
    <3> HIDE DEF sm2
    <3>3. Sems_Typed(sm2) /\ sm2[G].waiting = sem[G].waiting /\ \A t \in Sems : t # G => sm2[t] = sem[t]
      BY <3>2, <1>2, ValueSet
    <3>4. sem[G].waiting = <<>>
      BY <2>1, <1>2 DEF Queue, GlobalQueue
    <3>5. Queue(sm2, pc)
      BY <3>3, <3>4 DEF Queue, GlobalQueue, Once
    <3> QED BY <3>3, <3>5
  <2>2. CASE sem[G].value # -1
    BY <2>2, <1>2
  <2> QED BY <2>1, <2>2
<1>6. /\ sem' = sm2 /\ pc' = With(pc, MAIN, "add") /\ phylo_states' = none /\ phylo_pids' = nobody
      /\ UNCHANGED <<phylo_count, seat, sleep_list>>
  <2>1. sem_open(Now, SEM_GLOBAL, 1) = [sem |-> sm2, pc |-> pc]
    BY OpenIs DEF Now
  <2>2. Goto(sem_open(Now, SEM_GLOBAL, 1), MAIN, "add") = [sem |-> sm2, pc |-> With(pc, MAIN, "add")]
    <3> HIDE DEF sm2
    <3> QED BY <2>1, GotoIs
  <2> HIDE DEF sm2
  <2> QED BY <2>2 DEF Start, Become
<1> HIDE DEF sm2, none, nobody
<1>7. Sound(sm2, pc, phylo_count, none, nobody, seat, sleep_list)
  <2>1. MainMovesTo(sem, pc, phylo_count, sm2, pc)
    BY <1>2, <1>5 DEF MainMovesTo, Others, Places, IInv, Sound
  <2> QED BY <2>1, <1>4, <1>5, MainMoves
<1>8. Counted(pc', phylo_count)
  <2>1. pc'[MAIN] = "add"
    BY <1>6, MainAt
  <2> QED BY <2>1, <1>1, Numbers DEF Counted
<1>9. "add" \in InMain
  BY DEF InMain
<1>10. Sound(sm2, pc', phylo_count, none, nobody, seat, sleep_list)
  BY <1>1, <1>6, <1>7, <1>8, <1>9, MainWalks
<1> QED BY <1>6, <1>10 DEF IInv

LEMMA NewStep ==
  ASSUME IInv, TickBeforeReuse, new_phylo
  PROVE  IInv'
<1> DEFINE n == phylo_count
<1>0. MAIN \in Procs /\ n \in Nat /\ Sems_Typed(sem)
  BY Numbers DEF IInv, Sound, Table_Typed
<1>1. CASE Main("add") /\ Become(WaitFor(MAIN, SEM_GLOBAL, "add_in", "add_q"))
           /\ UNCHANGED table /\ UNCHANGED sleep_list
  <2>1. Hop(pc[MAIN], "add_in", "add_q")
    BY <1>1 DEF Hop, Main
  <2> QED BY <2>1, <1>0, <1>1, WaitStep
<1>2. ASSUME Main("add_in"), NEW p \in Pids, IsFreePid(p),
             \A j \in DOMAIN sleep_list : sleep_list[j] # p,
             NEW k, k = Goto(Goto(sem_open(Now, SEM_FORK(n), 0), p, "start"),
                             MAIN, IF n + 1 < MIN_DINER THEN "add" ELSE "menu"),
             Become(sem_post(k, SEM_GLOBAL)),
             phylo_pids' = [phylo_pids EXCEPT ![n] = p], seat' = [seat EXCEPT ![p] = n],
             phylo_count' = n + 1, UNCHANGED <<phylo_states, sleep_list, quitting>>
      PROVE  IInv'
  <2> DEFINE l == IF n + 1 < MIN_DINER THEN "add" ELSE "menu"
             sm2 == WithValue(sem, n, 0)
             pl2 == With(With(pc, p, "start"), MAIN, l)
             pids2 == With(phylo_pids, n, p)
             seats2 == With(seat, p, n)
  <2>1. pc[MAIN] = "add_in" /\ pc[p] = "none"
    BY <1>2 DEF Main, IsFreePid
  <2>2. n < MAX_DINER /\ n \in Seats
    BY <2>1, <1>0, Numbers DEF IInv, Sound, Counted, Seats
  <2>3. sem[n].value = -1
    BY <2>2, <1>0 DEF IInv, Sound, Unused, Closed
  <2>4. k = [sem |-> sm2, pc |-> pl2]
    <3>1. sem_open(Now, SEM_FORK(n), 0) = [sem |-> sm2, pc |-> pc]
      BY <2>3, OpenIs DEF Now, SEM_FORK
    <3> HIDE DEF sm2, l
    <3>2. Goto(sem_open(Now, SEM_FORK(n), 0), p, "start") = [sem |-> sm2, pc |-> With(pc, p, "start")]
      BY <3>1, GotoIs
    <3>3. k = Goto([sem |-> sm2, pc |-> With(pc, p, "start")], MAIN, l)
      BY <1>2, <3>2 DEF l
    <3> QED BY <3>3, GotoIs
  <2>5. l \in {"add", "menu"} /\ (l = "add" => n + 1 < MAX_DINER)
    BY <1>0, Numbers
  <2>6. phylo_pids' = pids2 /\ seat' = seats2
    BY <1>2 DEF With
  <2> HIDE DEF l, n
  <2>7. PICK s, q, i, t : s = sm2 /\ q = pl2 /\ i = pids2 /\ t = seats2
    OBVIOUS
  <2>8. Sound(s, q, n + 1, phylo_states, i, t, sleep_list)
    <3>1. Sound(sem, pc, n, phylo_states, phylo_pids, seat, sleep_list)
      BY DEF IInv, n
    <3>2. /\ s = WithValue(sem, n, 0) /\ q = With(With(pc, p, "start"), MAIN, l)
          /\ i = With(phylo_pids, n, p) /\ t = With(seat, p, n)
      BY <2>7
    <3> HIDE DEF sm2, pl2, pids2, seats2
    <3> QED BY <3>1, <3>2, <2>1, <2>5, <1>2, Born
  <2> HIDE DEF sm2, pl2, pids2, seats2
  <2>9. k = [sem |-> s, pc |-> q]
    BY <2>4, <2>7
  <2>10. Sound(sem', pc', n + 1, phylo_states, i, t, sleep_list)
    BY <2>8, <2>9, <1>2, EndsWithPost
  <2> QED BY <2>6, <2>7, <2>10, <1>2 DEF IInv
<1>3. ASSUME Main("add_in"), NEW k,
             k = Goto(sem_close(Now, SEM_FORK(n)), MAIN, IF n < MIN_DINER THEN "all" ELSE "menu"),
             Become(sem_post(k, SEM_GLOBAL)),
             UNCHANGED <<phylo_count, phylo_states, phylo_pids, seat, sleep_list>>
      PROVE  IInv'
  <2> DEFINE l == IF n < MIN_DINER THEN "all" ELSE "menu"
             pl2 == With(pc, MAIN, l)
  <2>1. pc[MAIN] = "add_in" /\ pc[MAIN] \notin Queued \cup Gone
    BY <1>3 DEF Main, Queued, Gone
  <2>2. n \in Seats /\ n \in Sems
    BY <2>1, <1>0, Numbers DEF IInv, Sound, Counted, Seats
  <2>3. sem[n] = Closed
    BY <2>2, <1>0 DEF IInv, Sound, Unused
  <2>4. With(sem, n, Closed) = sem
    BY <2>2, <2>3, <1>0 DEF With, Sems_Typed
  <2>5. k = [sem |-> sem, pc |-> pl2]
    <3>1. sem_close(Now, SEM_FORK(n)) = [sem |-> sem, pc |-> pc]
      BY <2>4, CloseIs DEF Now, SEM_FORK
    <3> HIDE DEF l
    <3>2. k = Goto([sem |-> sem, pc |-> pc], MAIN, l)
      BY <1>3, <3>1 DEF l
    <3> QED BY <3>2, GotoIs
  <2>6. l \in {"all", "menu"}
    OBVIOUS
  <2> HIDE DEF l, pl2
  <2>7. pl2 = With(pc, MAIN, l)
    BY DEF pl2
  <2>8. Counted(pl2, n)
    <3>1. pl2[MAIN] = l
      BY <2>7, MainAt
    <3> QED BY <3>1, <2>6 DEF Counted
  <2>9. l \in InMain /\ l # "add_in"
    BY <2>6 DEF InMain
  <2>10. Sound(sem, pl2, n, phylo_states, phylo_pids, seat, sleep_list)
    BY <2>1, <2>7, <2>8, <2>9, MainWalks DEF IInv
  <2>11. Sound(sem', pc', n, phylo_states, phylo_pids, seat, sleep_list)
    BY <2>5, <2>10, <1>3, EndsWithPost
  <2> QED BY <2>11, <1>3 DEF IInv
<1> HIDE DEF n
<1>4. CASE \E p \in Pids :
              /\ Main("add_in") /\ IsFreePid(p)
              /\ TickBeforeReuse => \A j \in DOMAIN sleep_list : sleep_list[j] # p
              /\ LET opened == sem_open(Now, SEM_FORK(n), 0)
                     born   == Goto(Goto(opened, p, "start"),
                                    MAIN, IF n + 1 < MIN_DINER THEN "add" ELSE "menu")
                 IN  Become(sem_post(born, SEM_GLOBAL))
              /\ phylo_pids' = [phylo_pids EXCEPT ![n] = p]
              /\ seat' = [seat EXCEPT ![p] = n]
              /\ phylo_count' = n + 1
              /\ UNCHANGED <<phylo_states, sleep_list, quitting>>
  BY <1>2, <1>4
<1>5. CASE /\ Main("add_in") /\ "fail" \in Events
           /\ LET k == sem_close(Now, SEM_FORK(n))
              IN  Become(sem_post(Goto(k, MAIN, IF n < MIN_DINER THEN "all" ELSE "menu"), SEM_GLOBAL))
           /\ UNCHANGED <<phylo_count, phylo_states, phylo_pids, seat, sleep_list>>
  BY <1>3, <1>5
<1> QED BY <1>1, <1>4, <1>5 DEF new_phylo, n

LEMMA NapStep ==
  ASSUME IInv, pc[MAIN] \in {"rm_in", "rm_test"}, NEW k, k = Goto(Now, MAIN, "nap"),
         Become(sem_post(k, SEM_GLOBAL)), UNCHANGED table, UNCHANGED sleep_list
  PROVE  IInv'
<1> DEFINE pl2 == With(pc, MAIN, "nap")
<1>1. k = [sem |-> sem, pc |-> pl2]
  BY GotoIs DEF Now
<1>2. pl2[MAIN] = "nap"
  BY MainAt
<1>3. Counted(pl2, phylo_count)
  <2> HIDE DEF pl2
  <2> QED BY <1>2 DEF Counted, IInv, Sound
<1>4. "nap" \in InMain /\ pc[MAIN] \notin Queued \cup Gone
  BY DEF InMain, Queued, Gone
<1>5. pl2 = With(pc, MAIN, "nap")
  OBVIOUS
<1> HIDE DEF pl2
<1>6. Sound(sem, pl2, phylo_count, phylo_states, phylo_pids, seat, sleep_list)
  BY <1>3, <1>4, <1>5, MainWalks DEF IInv
<1>7. Sound(sem', pc', phylo_count, phylo_states, phylo_pids, seat, sleep_list)
  BY <1>1, <1>6, EndsWithPost
<1> QED BY <1>7 DEF IInv, table

LEMMA RemovedStep ==
  ASSUME IInv, pc[MAIN] = "rm_test", ~MustWait(phylo_count - 1), Removed(phylo_count - 1)
  PROVE  IInv'
<1> DEFINE n == phylo_count
           e == n - 1
           l == IF quitting = "no" THEN "menu" ELSE "all"
           sm2 == With(sem, e, Closed)
           pl2 == With(With(pc, phylo_pids[e], "none"), MAIN, l)
           states2 == With(phylo_states, e, "NONE")
           pids2 == With(phylo_pids, e, NO_PID)
           seats2 == With(seat, phylo_pids[e], 0)
           dead == Goto(Now, phylo_pids[e], "none")
           k == Goto(sem_close(dead, SEM_FORK(e)), MAIN, l)
<1>1. n \in Nat /\ n > 0
  BY Numbers DEF IInv, Sound, Table_Typed, Counted
<1>2. e \in 0..n - 1
  BY <1>1
<1>3. phylo_states[LeftOf(n, e)] # "EATING" \/ phylo_states[RightOf(n, e)] # "EATING"
  <2> HIDE DEF e
  <2>1. Left(e) = LeftOf(n, e) /\ Right(e) = RightOf(n, e)
    BY <1>1, <1>2, LeftRight
  <2>2. ~MustWait(e)
    BY DEF e
  <2> QED BY <2>1, <2>2 DEF MustWait
<1>4. /\ Become(sem_post(k, SEM_GLOBAL)) /\ phylo_states' = states2 /\ phylo_pids' = pids2
      /\ phylo_count' = e /\ seat' = seats2 /\ UNCHANGED sleep_list
  BY DEF Removed, With
<1>5. k = [sem |-> sm2, pc |-> pl2]
  <2> HIDE DEF l, e
  <2>1. dead = [sem |-> sem, pc |-> With(pc, phylo_pids[e], "none")]
    BY GotoIs DEF Now
  <2> HIDE DEF dead
  <2>2. sem_close(dead, SEM_FORK(e)) = [sem |-> sm2, pc |-> With(pc, phylo_pids[e], "none")]
    BY <2>1, CloseIs DEF SEM_FORK
  <2> HIDE DEF sm2
  <2>3. k = Goto([sem |-> sm2, pc |-> With(pc, phylo_pids[e], "none")], MAIN, l)
    BY <2>2
  <2> QED BY <2>3, GotoIs
<1>6. l \in {"menu", "all"}
  OBVIOUS
<1> HIDE DEF k, l
<1>7. PICK s, q, g, i, t : s = sm2 /\ q = pl2 /\ g = states2 /\ i = pids2 /\ t = seats2
  OBVIOUS
<1>8. /\ s = With(sem, n - 1, Closed) /\ q = With(With(pc, phylo_pids[n - 1], "none"), MAIN, l)
      /\ g = With(phylo_states, n - 1, "NONE") /\ i = With(phylo_pids, n - 1, NO_PID)
      /\ t = With(seat, phylo_pids[n - 1], 0)
  BY <1>7
<1>9. Sound(s, q, n - 1, g, i, t, sleep_list)
  <2>1. Sound(sem, pc, n, phylo_states, phylo_pids, seat, sleep_list)
    BY DEF IInv
  <2>2. phylo_states[LeftOf(n, n - 1)] # "EATING" \/ phylo_states[RightOf(n, n - 1)] # "EATING"
    BY <1>3
  <2> HIDE DEF n, sm2, pl2, states2, pids2, seats2
  <2> QED BY <2>1, <2>2, <1>6, <1>8, Dies
<1>10. k = [sem |-> s, pc |-> q]
  BY <1>5, <1>7
<1>11. Sound(sem', pc', n - 1, g, i, t, sleep_list)
  BY <1>4, <1>9, <1>10, EndsWithPost
<1> QED BY <1>4, <1>7, <1>11 DEF IInv

LEMMA RemoveStep ==
  ASSUME IInv, remove_phylo
  PROVE  IInv'
<1>0. MAIN \in Procs
  BY Numbers
<1>1. ASSUME NEW label, NEW in, NEW queued, Main(label), Hop(label, in, queued),
             Become(WaitFor(MAIN, SEM_GLOBAL, in, queued)), UNCHANGED table, UNCHANGED sleep_list
      PROVE  IInv'
  <2>1. Hop(pc[MAIN], in, queued)
    BY <1>1 DEF Main
  <2> QED BY <2>1, <1>0, <1>1, WaitStep
<1>2. CASE Main("rm") /\ Become(WaitFor(MAIN, SEM_GLOBAL, "rm_in", "rm_q"))
           /\ UNCHANGED table /\ UNCHANGED sleep_list
  <2>1. Hop("rm", "rm_in", "rm_q")
    BY DEF Hop
  <2> QED BY <2>1, <1>1, <1>2
<1>3. CASE Main("rm_again") /\ Become(WaitFor(MAIN, SEM_GLOBAL, "rm_test", "again_q"))
           /\ UNCHANGED table /\ UNCHANGED sleep_list
  <2>1. Hop("rm_again", "rm_test", "again_q")
    BY DEF Hop
  <2> QED BY <2>1, <1>1, <1>3
<1>4. CASE /\ Main("rm_in") \/ Main("rm_test")
           /\ Become(sem_post(Goto(Now, MAIN, "nap"), SEM_GLOBAL))
           /\ UNCHANGED table /\ UNCHANGED sleep_list
  <2>1. pc[MAIN] \in {"rm_in", "rm_test"}
    BY <1>4 DEF Main
  <2> QED BY <2>1, <1>4, NapStep
<1>5. CASE /\ Main("nap") /\ Become(Goto(Now, MAIN, "rm_again"))
           /\ UNCHANGED table /\ UNCHANGED sleep_list
  <2>1. pc' = With(pc, MAIN, "rm_again") /\ sem' = sem
    <3>1. Become([sem |-> sem, pc |-> With(pc, MAIN, "rm_again")])
      <4>1. Goto(Now, MAIN, "rm_again") = [sem |-> sem, pc |-> With(pc, MAIN, "rm_again")]
        BY GotoIs DEF Now
      <4> QED BY <4>1, <1>5
    <3> QED BY <3>1 DEF Become
  <2>2. pc'[MAIN] = "rm_again"
    BY <2>1, MainAt
  <2>3. Counted(pc', phylo_count)
    BY <2>2, <1>5 DEF Counted, IInv, Sound, Main
  <2>4. "rm_again" \in InMain /\ pc[MAIN] \notin Queued \cup Gone
    BY <1>5 DEF InMain, Queued, Gone, Main
  <2> QED BY <2>1, <2>3, <2>4, <1>5, MainGoesOn DEF table
<1>6. CASE Main("rm_test") /\ ~MustWait(phylo_count - 1) /\ Removed(phylo_count - 1)
  BY <1>6, RemovedStep DEF Main
<1> QED BY <1>2, <1>3, <1>4, <1>5, <1>6 DEF remove_phylo

LEMMA RemoveAllStep ==
  ASSUME IInv, remove_all
  PROVE  IInv'
<1>1. pc[MAIN] = "all" /\ pc[MAIN] \notin Queued \cup Gone /\ phylo_count \in Nat
      /\ UNCHANGED table /\ UNCHANGED sleep_list
  BY Numbers DEF remove_all, Main, Queued, Gone, IInv, Sound, Table_Typed
<1>2. CASE phylo_count > 0
  <2>1. pc' = With(pc, MAIN, "rm") /\ sem' = sem
    <3>1. Become([sem |-> sem, pc |-> With(pc, MAIN, "rm")])
      <4>1. Goto(Now, MAIN, "rm") = [sem |-> sem, pc |-> With(pc, MAIN, "rm")]
        BY GotoIs DEF Now
      <4>2. Become(Goto(Now, MAIN, "rm"))
        BY <1>2 DEF remove_all
      <4> QED BY <4>1, <4>2
    <3> QED BY <3>1 DEF Become
  <2>2. pc'[MAIN] = "rm"
    BY <2>1, MainAt
  <2>3. Counted(pc', phylo_count)
    BY <2>2, <1>2 DEF Counted
  <2>4. "rm" \in InMain
    BY DEF InMain
  <2> QED BY <2>1, <2>3, <2>4, <1>1, MainGoesOn DEF table
<1>3. CASE ~(phylo_count > 0)
  <2> DEFINE G == SEM_GLOBAL
             sm2 == With(sem, G, Closed)
             pl2 == With(pc, MAIN, "off")
             k == Goto(Now, MAIN, "off")
  <2>1. phylo_count = 0
    BY <1>1, <1>3
  <2>2. pl2[MAIN] = "off"
    BY MainAt
  <2>3. Counted(pl2, phylo_count)
    <3> HIDE DEF pl2
    <3> QED BY <2>1, <2>2 DEF Counted
  <2>4. "off" \in InMain /\ k = [sem |-> sem, pc |-> pl2]
    BY GotoIs DEF InMain, Now
  <2>5. Become(IF quitting = "quit" THEN sem_close(k, G) ELSE k)
    BY <1>3 DEF remove_all
  <2>p. pl2 = With(pc, MAIN, "off")
    OBVIOUS
  <2> HIDE DEF pl2, k
  <2>6. Sound(sem, pl2, phylo_count, phylo_states, phylo_pids, seat, sleep_list)
    BY <2>p, <2>3, <2>4, <1>1, MainWalks DEF IInv
  <2>7. CASE quitting # "quit"
    <3>1. sem' = sem /\ pc' = pl2
      BY <2>4, <2>5, <2>7 DEF Become
    <3> QED BY <3>1, <2>6, <1>1 DEF IInv, table
  <2>8. CASE quitting = "quit"
    <3>1. sem' = sm2 /\ pc' = pl2
      <4>1. Become(sem_close([sem |-> sem, pc |-> pl2], G))
        BY <2>4, <2>5, <2>8
      <4>2. sem_close([sem |-> sem, pc |-> pl2], G) = [sem |-> sm2, pc |-> pl2]
        BY CloseIs
      <4> HIDE DEF sm2
      <4>3. Become([sem |-> sm2, pc |-> pl2])
        BY <4>1, <4>2
      <4> QED BY <4>3 DEF Become
    <3>s. sm2 = With(sem, G, Closed)
      OBVIOUS
    <3> HIDE DEF sm2
    <3>2. /\ Sems_Typed(sem) /\ G \in Sems /\ Closed \in SemType /\ Places(pl2)
          /\ \A i \in Seats : i \in Sems /\ i # G
      BY <2>6, Numbers DEF Sound, SemType, Closed
    <3>3. Sems_Typed(sm2) /\ sm2[G] = Closed /\ \A t \in Sems : t # G => sm2[t] = sem[t]
      BY <3>s, <3>2, SemsKept
    <3>4. MainMovesTo(sem, pl2, phylo_count, sm2, pl2)
      BY <2>3, <3>2, <3>3 DEF MainMovesTo, Others, Places
    <3>5. Queue(sm2, pl2)
      BY <3>3 DEF Queue, GlobalQueue, Closed, Once
    <3>6. Sound(sm2, pl2, phylo_count, phylo_states, phylo_pids, seat, sleep_list)
      BY <3>4, <3>5, <2>6, MainMoves
    <3> QED BY <3>1, <3>6, <1>1 DEF IInv, table
  <2> QED BY <2>7, <2>8
<1> QED BY <1>2, <1>3

-----------------------------------------------------------------------------
(* The theorems.                                                           *)

LEMMA InitSound == Init => IInv
<1> SUFFICES ASSUME Init PROVE IInv
  OBVIOUS
<1>1. /\ phylo_count = 0 /\ sleep_list = <<>> /\ pc[MAIN] = "off"
      /\ pc \in [Procs -> {"off", "none"}] /\ \A p \in Pids : pc[p] = "none"
  BY Numbers DEF Init
<1>2. Places(pc)
  BY <1>1 DEF Places, InMain, Gone
<1>3. /\ Sems_Typed(sem) /\ \A s \in Sems : sem[s] = Closed
  BY DEF Init, Sems_Typed, SemType, Closed
<1>4. Table_Typed(phylo_count, phylo_states, phylo_pids, seat)
  <2>1. 0 \in Seats /\ 0 \in 0..MAX_DINER
    BY Numbers DEF Seats
  <2> QED BY <2>1 DEF Init, Table_Typed, PHYLO_STATE
<1>5. Counted(pc, phylo_count) /\ Seated(pc, phylo_count, phylo_pids, seat)
  BY <1>1 DEF Counted, Seated
<1>6. Unused(sem, phylo_count, phylo_states)
  BY <1>3, Numbers DEF Unused, Init
<1>7. Plates(sem, pc, phylo_states, seat) /\ Apart(phylo_count, phylo_states)
  BY <1>1 DEF Plates, Apart
<1>8. Sleeping(pc, sleep_list)
  BY <1>1 DEF Sleeping, Once
<1>9. Queue(sem, pc)
  BY <1>3, Numbers DEF Queue, GlobalQueue, Closed, Once
<1> QED BY <1>2, <1>3, <1>4, <1>5, <1>6, <1>7, <1>8, <1>9 DEF IInv, Sound

LEMMA NextSound == TickBeforeReuse /\ IInv /\ [Next]_vars => IInv'
<1> SUFFICES ASSUME TickBeforeReuse, IInv, [Next]_vars PROVE IInv'
  OBVIOUS
<1>1. CASE UNCHANGED vars
  BY <1>1 DEF vars, IInv
<1>2. ASSUME NEW p \in Pids, Philosopher(p) PROVE IInv'
  BY <1>2, PhilosopherStep
<1>3. CASE Fire
  BY <1>3, FireStep
<1>4. CASE Drop
  BY <1>4, DropStep
<1>5. CASE Start
  BY <1>5, StartStep
<1>6. CASE new_phylo
  BY <1>6, NewStep
<1>7. CASE remove_phylo
  BY <1>7, RemoveStep
<1>8. CASE remove_all
  BY <1>8, RemoveAllStep
<1>9. CASE Key
  BY <1>9, KeyStep
<1>10. CASE CtrlC
  BY <1>10, CtrlCStep
<1> QED BY <1>1, <1>2, <1>3, <1>4, <1>5, <1>6, <1>7, <1>8, <1>9, <1>10 DEF Next, MainStep

\* Whoever eats was granted its forks: its state is EATING, and those of its
\* neighbours are not.
LEMMA SoundIsSafe == IInv => TwoForks /\ GrantedOnce
<1> SUFFICES ASSUME IInv PROVE TwoForks /\ GrantedOnce
  OBVIOUS
<1> DEFINE n == phylo_count
<1>1. n \in Nat
  BY Numbers DEF IInv, Sound, Table_Typed
<1>2. ASSUME NEW p \in Pids, HasForks(p)
      PROVE  seat[p] \in 0..n - 1 /\ phylo_states[seat[p]] = "EATING" /\ phylo_pids[seat[p]] = p
  <2>1. pc[p] \in Fed /\ pc[p] # "none"
    BY <1>2 DEF HasForks, Fed
  <2>2. Plate(p, pc[p], phylo_states[seat[p]], sem[seat[p]])
        /\ seat[p] \in 0..n - 1 /\ phylo_pids[seat[p]] = p
    BY <2>1, AtItsSeat
  <2> QED BY <2>1, <2>2 DEF Plate
<1>3. ASSUME NEW i \in 0..n - 1, NEW j \in 0..n - 1, i # j,
             phylo_states[i] = "EATING", phylo_states[j] = "EATING"
      PROVE  j # LeftOf(n, i) /\ j # RightOf(n, i)
  <2>1. Apart(n, phylo_states)
    BY DEF IInv, Sound
  <2>2. j # RightOf(n, i)
    BY <2>1, <1>3 DEF Apart
  <2>3. RightOf(n, LeftOf(n, i)) = i
    BY <1>1, Neighbours
  <2>4. j # LeftOf(n, i)
    BY <2>1, <2>3, <1>3 DEF Apart
  <2> QED BY <2>2, <2>4
<1>4. TwoForks
  <2> SUFFICES ASSUME NEW p \in Eaters, NEW q \in Eaters, p # q
               PROVE  seat[p] # seat[q] /\ seat[q] \notin {Left(seat[p]), Right(seat[p])}
    BY DEF TwoForks
  <2>1. p \in Pids /\ q \in Pids /\ HasForks(p) /\ HasForks(q)
    BY DEF Eaters
  <2>2. /\ seat[p] \in 0..n - 1 /\ phylo_states[seat[p]] = "EATING" /\ phylo_pids[seat[p]] = p
        /\ seat[q] \in 0..n - 1 /\ phylo_states[seat[q]] = "EATING" /\ phylo_pids[seat[q]] = q
    BY <2>1, <1>2
  <2>3. seat[p] # seat[q]
    BY <2>2
  <2>4. Left(seat[p]) = LeftOf(n, seat[p]) /\ Right(seat[p]) = RightOf(n, seat[p])
    BY <2>2, <1>1, LeftRight
  <2> QED BY <2>2, <2>3, <2>4, <1>3
<1>5. GrantedOnce
  <2> SUFFICES ASSUME NEW i \in 0..n - 1
               PROVE  LET p == phylo_pids[i]
                      IN  /\ sem[i].value = IF phylo_states[i] = "EATING" /\ ~HasForks(p) THEN 1 ELSE 0
                          /\ HasForks(p) => phylo_states[i] = "EATING"
                          /\ pc[p] = "fork_q" => phylo_states[i] = "WAITING" /\ sem[i].waiting = <<p>>
    BY DEF GrantedOnce, SEM_FORK
  <2> DEFINE p == phylo_pids[i]
  <2>1. p \in Pids /\ pc[p] # "none" /\ seat[p] = i
    BY DEF IInv, Sound, Seated
  <2> HIDE DEF p
  <2>2. Plate(p, pc[p], phylo_states[i], sem[i])
    BY <2>1, AtItsSeat
  <2>3. HasForks(p) <=> pc[p] \in Fed
    BY DEF HasForks, Fed
  <2>4. /\ sem[i].value = IF phylo_states[i] = "EATING" /\ ~HasForks(p) THEN 1 ELSE 0
        /\ HasForks(p) => phylo_states[i] = "EATING"
        /\ pc[p] = "fork_q" => phylo_states[i] = "WAITING" /\ sem[i].waiting = <<p>>
    BY <2>2, <2>3 DEF Plate
  <2> QED BY <2>4 DEF p
<1> QED BY <1>4, <1>5

\* Where a tick comes before a dead pid is given away, every step of the
\* philosophers, of phylo_main, of the ticks and of the user keeps the table,
\* the semaphores, the sleep queue and the places of one accord.
THEOREM TableSound == TickBeforeReuse /\ Spec => []IInv
<1> SUFFICES ASSUME TickBeforeReuse
             PROVE  Spec => []IInv
  OBVIOUS
<1>1. IInv /\ [Next]_vars => IInv'
  BY NextSound
<1> QED BY <1>1, InitSound, PTL DEF Spec

\* Neighbours never eat together, at a table of any size, whoever joins it, leaves
\* it in the middle of a meal, or is left behind by a phylo_main that is killed.
THEOREM NeighboursNeverEatTogether == TickBeforeReuse /\ Spec => []TwoForks
<1>1. IInv => TwoForks
  BY SoundIsSafe
<1> QED BY <1>1, TableSound, PTL

\* A permission to eat is neither lost nor given twice: the state EATING of a seat
\* is one token in its semaphore or one philosopher that took it.
THEOREM PermissionGivenOnce == TickBeforeReuse /\ Spec => []GrantedOnce
<1>1. IInv => GrantedOnce
  BY SoundIsSafe
<1> QED BY <1>1, TableSound, PTL

=============================================================================
