------------------------- MODULE KernelSafetyProofs -------------------------
(***************************************************************************)
(* The safety properties of Kernel proved for every size of the table, any *)
(* number of processes, any quanta and any sleeps: what the ready ring, the*)
(* process table, the saved contexts and the CPU say of each other after   *)
(* every system call, interrupt and step of an exit; then what parents and *)
(* children, and sleepers and their entries of the sleep queue, say; then, *)
(* where no exit is interrupted, the pool of pids and the foreground flag. *)
(***************************************************************************)
EXTENDS KernelProofs, FiniteSetTheorems

-----------------------------------------------------------------------------
(* The inductive invariant, part by part.                                  *)

\* Every allocated PCB has a slot, every slot holds an allocated PCB, and no two
\* slots show the same pid (hence none the same PCB).
Slotted(g) ==
    /\ \A p \in g.used : \E i \in Slots : g.processes_list[i] = p
    /\ \A i \in Listed(g) : g.processes_list[i] \in g.used
    /\ \A i, j \in Listed(g) : g.pid[g.processes_list[i]] = g.pid[g.processes_list[j]] => i = j

PidsTaken(g) == \A p \in g.used : g.pid[p] # 0 /\ g.pids[g.pid[p]]

\* ReadyRing without what WellFormed says.
RingOK(g) ==
    /\ \A q : InRing(g, q) => q \in g.used
    /\ \A p \in g.used : /\ g.state[p] \in {"RUNNING", "READY"} => InRing(g, p)
                         /\ g.state[p] = "BLOCKED" => ~InRing(g, p)

RunnerOK(g) ==
    \A p \in g.used : g.state[p] = "RUNNING" => p = g.current_process /\ p = g.current_node

ContextsOK(g, c) ==
    \A p \in g.used : p # c /\ g.state[p] # "TERMINATED" => g.stack_pointer[p] = p

\* Somebody can always run: first_process until it has created idle, then idle.
\* With nobody READY, scheduler() would give the CPU to whoever had it last.
IdleReady(g, b) ==
    /\ BOOT \in g.used /\ g.pid[BOOT] = 1 /\ g.state[BOOT] # "TERMINATED"
    /\ b = 0 => /\ g.used = {BOOT} /\ g.state[BOOT] \in {"RUNNING", "READY"}
                /\ \A i \in Slots : g.pids[i] <=> i = 1
    /\ b > 0 => IDLE \in g.used /\ g.pid[IDLE] = 2 /\ g.state[IDLE] \in {"RUNNING", "READY"}

\* What the code of each thread has reached and what its PCB says agree.
PlacesOK(g, pl) ==
    \A p \in g.used : /\ pl[p] \notin {"released", "returned"}
                      /\ g.state[p] = "TERMINATED" <=> pl[p] \in {"terminated", "dequeued"}
                      /\ pl[p] = "dequeued" => ~InRing(g, p)
                      /\ pl[p] \in {"wait", "sleep"} => g.state[p] = "BLOCKED"

\* The thread that executes is current_process: it is running, or dying, or its
\* PCB is free already and its pid is nobody else's.
CpuOK(g, c, pl) ==
    /\ c = g.current_process
    /\ c \in g.used => g.state[c] \in {"RUNNING", "TERMINATED"}
    /\ c \notin g.used => /\ pl[c] \in {"released", "returned"}
                          /\ \A q \in g.used : g.pid[q] # g.pid[c]

\* All of it but CpuOK, which does not hold between a change of the globals and
\* the call to the scheduler that follows.
TableOK(g, c, pl, b) ==
    /\ WellFormed(g) /\ pl \in [Addr -> Places]
    /\ Slotted(g) /\ PidsTaken(g) /\ RingOK(g) /\ RunnerOK(g)
    /\ ContextsOK(g, c) /\ IdleReady(g, b) /\ PlacesOK(g, pl)

Safe(g, c, pl, b) == TableOK(g, c, pl, b) /\ CpuOK(g, c, pl)

\* The runs with yield, with a process that blocks itself, with idle blocked or with
\* more processes than pids are those where the kernel breaks these properties.
Disciplined == {"yield", "block_self", "overflow"} \cap Syscalls = {} /\ 2 \in Unblockable

SafeInv == IInv /\ Disciplined /\ Safe(k, cpu, at, boot)

\* What NoResurrection says of two values of the globals.
StaysDead(g, h) ==
    \A p \in g.used : p \in h.used /\ g.state[p] = "TERMINATED" => h.state[p] = "TERMINATED"

-----------------------------------------------------------------------------
(* Lookups.                                                                *)

\* A pid of an allocated PCB leads to that PCB, and to nothing else.
LEMMA Lookup ==
  ASSUME NEW g \in Globals, Slotted(g)
  PROVE  /\ \A p \in g.used : /\ foundprocess(g, g.pid[p]) \in Slots
                              /\ g.processes_list[foundprocess(g, g.pid[p])] = p
                              /\ get_process_by_pid(g, g.pid[p]) = p
         /\ \A n : get_process_by_pid(g, n) # NULL =>
                      /\ get_process_by_pid(g, n) \in g.used
                      /\ g.pid[get_process_by_pid(g, n)] = n
<1> DEFINE Has(n) == {i \in Listed(g) : g.pid[g.processes_list[i]] = n}
<1>0. /\ g.used \subseteq Addr /\ NULL \notin Addr /\ Slots \subseteq Nat /\ 0 \notin Slots
      /\ Listed(g) \subseteq Slots
  BY TableAssumption DEF Globals, Slots, Listed
<1>1. ASSUME NEW n, Has(n) # {}
      PROVE  foundprocess(g, n) \in Has(n)
  <2>1. Has(n) \subseteq Nat
    BY <1>0
  <2>2. First(Has(n)) \in Has(n)
    BY <1>1, <2>1, FirstIsLeast, Zenon
  <2> QED BY <2>2 DEF foundprocess
<1>2. ASSUME NEW n, Has(n) = {}
      PROVE  foundprocess(g, n) = 0
  BY <1>2 DEF foundprocess, First
<1>3. ASSUME NEW p \in g.used
      PROVE  /\ foundprocess(g, g.pid[p]) \in Slots
             /\ g.processes_list[foundprocess(g, g.pid[p])] = p
             /\ get_process_by_pid(g, g.pid[p]) = p
  <2>1. PICK i \in Slots : g.processes_list[i] = p
    BY DEF Slotted
  <2>2. i \in Has(g.pid[p])
    BY <1>0, <2>1 DEF Listed
  <2>3. foundprocess(g, g.pid[p]) \in Has(g.pid[p])
    BY <1>1, <2>2
  <2>4. foundprocess(g, g.pid[p]) = i
    BY <2>1, <2>2, <2>3 DEF Slotted
  <2> QED BY <1>0, <2>1, <2>4 DEF get_process_by_pid
<1>4. ASSUME NEW n, get_process_by_pid(g, n) # NULL
      PROVE  get_process_by_pid(g, n) \in g.used /\ g.pid[get_process_by_pid(g, n)] = n
  <2>1. foundprocess(g, n) # 0 /\ get_process_by_pid(g, n) = g.processes_list[foundprocess(g, n)]
    BY <1>4 DEF get_process_by_pid
  <2>2. foundprocess(g, n) \in Has(n)
    BY <1>1, <1>2, <2>1
  <2> QED BY <2>1, <2>2 DEF Slotted
<1> QED BY <1>3, <1>4

\* Nobody shares a pid.
LEMMA OnePid ==
  ASSUME NEW g \in Globals, Slotted(g), NEW p \in g.used, NEW q \in g.used, g.pid[p] = g.pid[q]
  PROVE  p = q
BY Lookup, Zenon

-----------------------------------------------------------------------------
(* Steps that only wake processes up.                                      *)

Wakes(g, h, q) == q \in g.used /\ g.state[q] = "BLOCKED" /\ h.state[q] = "READY"

\* From g to h, some blocked processes have become READY and joined the ring, and
\* nothing else that the invariant reads has changed.
Quiet(g, h) ==
    /\ h.processes_list = g.processes_list /\ h.pids = g.pids
    /\ h.used = g.used /\ h.pid = g.pid
    /\ h.stack_pointer = g.stack_pointer /\ h.current_process = g.current_process
    /\ InRing(g, g.current_node) => h.current_node = g.current_node
    /\ \A q \in g.used : h.state[q] = g.state[q] \/ Wakes(g, h, q)
    /\ \A q : InRing(h, q) <=> InRing(g, q) \/ Wakes(g, h, q)

\* Fields that the invariant does not read.
LEMMA SameIsQuiet ==
  ASSUME NEW g, NEW h, SameRing(g, h),
         h.processes_list = g.processes_list, h.pids = g.pids,
         h.used = g.used, h.pid = g.pid, \A q \in g.used : h.state[q] = g.state[q],
         h.stack_pointer = g.stack_pointer, h.current_process = g.current_process
  PROVE  Quiet(g, h)
BY DEF Quiet, SameRing, InRing, Wakes

LEMMA QuietTransitive ==
  ASSUME NEW f, NEW g, NEW h, Quiet(f, g), Quiet(g, h)
  PROVE  Quiet(f, h)
<1>1. \A q \in f.used : h.state[q] = f.state[q] \/ Wakes(f, h, q)
  BY DEF Quiet, Wakes
<1>2. \A q : InRing(h, q) <=> InRing(f, q) \/ Wakes(f, h, q)
  BY DEF Quiet, Wakes
<1>3. InRing(f, f.current_node) => h.current_node = f.current_node
  BY DEF Quiet
<1> QED BY <1>1, <1>2, <1>3 DEF Quiet

LEMMA unblock_processQuiet ==
  ASSUME NEW g, WellFormed(g), Slotted(g), NEW n
  PROVE  Quiet(g, unblock_process(g, n))
<1> DEFINE p == get_process_by_pid(g, n)
           h == unblock_process(g, n)
<1>1. CASE n # 1 /\ p # NULL /\ g.state[p] = "BLOCKED"
  <2>1. p \in g.used /\ p \in Addr /\ "READY" \in STATUS /\ g \in Globals
    BY <1>1, Lookup DEF WellFormed, Globals, STATUS
  <2> DEFINE s == [g EXCEPT !.state[p] = "READY"]
  <2>2. h = add_to_ready_list(s, p)
    BY <1>1 DEF unblock_process
  <2> HIDE DEF h, p
  <2>3. WellFormed(s) /\ SameRing(g, s)
    BY <2>1, StateWellFormed
  <2>4. /\ s.processes_list = g.processes_list /\ s.pids = g.pids /\ s.used = g.used
        /\ s.pid = g.pid /\ s.stack_pointer = g.stack_pointer
        /\ s.current_process = g.current_process
        /\ s.state = [g.state EXCEPT ![p] = "READY"] /\ g.state \in [Addr -> STATUS]
        /\ g.used \subseteq Addr
    BY <2>1 DEF Globals
  <2> HIDE DEF s
  <2>5. /\ SameTable(s, h) /\ \A q : InRing(h, q) <=> InRing(s, q) \/ q = p
        /\ s.ready_list # <<>> => h.current_node = s.current_node
    BY <2>1, <2>2, <2>3, add_to_ready_listRing
  <2>6. \A q : InRing(s, q) <=> InRing(g, q)
    BY <2>3 DEF SameRing, InRing
  <2>7. InRing(g, g.current_node) => h.current_node = g.current_node
    <3>1. InRing(g, g.current_node) => s.ready_list # <<>>
      BY <2>3 DEF SameRing, InRing
    <3> QED BY <2>3, <2>5, <3>1 DEF SameRing
  <2>8. \A q \in g.used : h.state[q] = IF q = p THEN "READY" ELSE g.state[q]
    BY <2>4, <2>5 DEF SameTable
  <2>9. g.state[p] = "BLOCKED"
    BY <1>1 DEF p
  <2>10. \A q : Wakes(g, h, q) <=> q = p
    BY <2>1, <2>8, <2>9 DEF Wakes
  <2>11. \A q \in g.used : h.state[q] = g.state[q] \/ Wakes(g, h, q)
    BY <2>8, <2>10
  <2>12. \A q : InRing(h, q) <=> InRing(g, q) \/ Wakes(g, h, q)
    BY <2>5, <2>6, <2>10
  <2>13. /\ h.processes_list = g.processes_list /\ h.pids = g.pids /\ h.used = g.used
         /\ h.pid = g.pid /\ h.stack_pointer = g.stack_pointer
         /\ h.current_process = g.current_process
    BY <2>4, <2>5 DEF SameTable
  <2> QED BY <2>7, <2>11, <2>12, <2>13 DEF Quiet, h
<1>2. CASE ~(n # 1 /\ p # NULL /\ g.state[p] = "BLOCKED")
  <2>1. h = g
    BY <1>2 DEF unblock_process
  <2> QED BY <2>1, SameIsQuiet DEF SameRing
<1> QED BY <1>1, <1>2

LEMMA QuietSlotted ==
  ASSUME NEW g, NEW h, Quiet(g, h), Slotted(g)
  PROVE  Slotted(h)
BY DEF Quiet, Slotted, Listed

LEMMA DetachFromParentQuiet ==
  ASSUME NEW g, WellFormed(g), Slotted(g), NEW p \in Addr
  PROVE  Quiet(g, DetachFromParent(g, p))
<1> DEFINE parent == get_process_by_pid(g, g.parent_pid[p])
           forgot == [g EXCEPT !.children[parent] = @ \ {g.pid[p]}]
           woken  == IF /\ forgot.waiting_on_child[parent] = 1
                        /\ forgot.children[parent] = {}
                     THEN unblock_process(forgot, g.parent_pid[p]) ELSE forgot
<1>1. CASE g.parent_pid[p] = 0 \/ parent = NULL
  <2>1. DetachFromParent(g, p) = g
    BY <1>1, Zenon DEF DetachFromParent
  <2> QED BY <2>1, SameIsQuiet DEF SameRing
<1>2. CASE ~(g.parent_pid[p] = 0 \/ parent = NULL)
  <2>1. g \in Globals /\ parent \in Addr
    BY <1>2, foundprocessType DEF WellFormed
  <2>2. DetachFromParent(g, p) = IF g.is_foreground[p]
                                 THEN [woken EXCEPT !.is_foreground[parent] = TRUE] ELSE woken
    BY <1>2, Zenon DEF DetachFromParent
  <2> HIDE DEF parent
  <2>3. forgot \in Globals /\ SameRing(g, forgot)
    BY <2>1 DEF Globals, SameRing
  <2>4. Quiet(g, forgot)
    <3>1. /\ forgot.processes_list = g.processes_list /\ forgot.pids = g.pids
          /\ forgot.used = g.used /\ forgot.pid = g.pid /\ forgot.state = g.state
          /\ forgot.stack_pointer = g.stack_pointer
          /\ forgot.current_process = g.current_process
      BY <2>1 DEF Globals
    <3> HIDE DEF forgot
    <3> QED BY <2>3, <3>1, SameIsQuiet
  <2> HIDE DEF forgot
  <2>5. WellFormed(forgot) /\ Slotted(forgot)
    BY <2>3, <2>4, SameRingWellFormed, QuietSlotted
  <2>6. WellFormed(woken) /\ Quiet(g, woken)
    <3>1. Quiet(g, unblock_process(forgot, g.parent_pid[p]))
      BY <2>4, <2>5, unblock_processQuiet, QuietTransitive, Zenon
    <3> QED BY <2>4, <2>5, <3>1, unblock_processWellFormed
  <2> DEFINE h == [woken EXCEPT !.is_foreground[parent] = TRUE]
  <2> HIDE DEF woken
  <2>7. Quiet(woken, h)
    <3>1. /\ h.processes_list = woken.processes_list /\ h.pids = woken.pids
          /\ h.used = woken.used /\ h.pid = woken.pid /\ h.state = woken.state
          /\ h.stack_pointer = woken.stack_pointer
          /\ h.current_process = woken.current_process /\ SameRing(woken, h)
      BY <2>6 DEF WellFormed, Globals, SameRing
    <3> HIDE DEF h
    <3> QED BY <3>1, SameIsQuiet
  <2>8. Quiet(g, h)
    BY <2>6, <2>7, QuietTransitive, Zenon
  <2> QED BY <2>2, <2>6, <2>8
<1> QED BY <1>1, <1>2

\* Waking processes up keeps the invariant, whatever it was that woke them.
LEMMA QuietTable ==
  ASSUME NEW g, NEW h, NEW c, NEW pl, NEW b,
         TableOK(g, c, pl, b), WellFormed(h), Quiet(g, h)
  PROVE  TableOK(h, c, Unblocked(h, pl), b) /\ StaysDead(g, h)
<1> DEFINE pl2 == Unblocked(h, pl)
<1>0. /\ g.used \subseteq Addr /\ h.used = g.used /\ h.pid = g.pid
      /\ \A q \in g.used : h.state[q] = g.state[q] \/ Wakes(g, h, q)
      /\ \A q : InRing(h, q) <=> InRing(g, q) \/ Wakes(g, h, q)
  BY DEF TableOK, WellFormed, Globals, Quiet
<1>1. pl2 \in [Addr -> Places]
  BY UnblockedType DEF TableOK
<1>2. Slotted(h) /\ PidsTaken(h)
  BY QuietSlotted DEF TableOK, PidsTaken, Quiet
<1>3. RingOK(h)
  BY <1>0 DEF TableOK, RingOK, Wakes
<1>4. RunnerOK(h)
  <2> SUFFICES ASSUME NEW p \in g.used, h.state[p] = "RUNNING"
               PROVE  p = h.current_process /\ p = h.current_node
    BY <1>0 DEF RunnerOK
  <2>1. g.state[p] = "RUNNING"
    BY <1>0 DEF Wakes
  <2>2. p = g.current_process /\ p = g.current_node /\ InRing(g, p)
    BY <2>1 DEF TableOK, RunnerOK, RingOK
  <2> QED BY <2>2 DEF Quiet
<1>5. ContextsOK(h, c)
  BY <1>0 DEF TableOK, ContextsOK, Quiet, Wakes
<1>6. IdleReady(h, b)
  BY <1>0 DEF TableOK, IdleReady, Quiet, Wakes
<1>7. PlacesOK(h, pl2)
  <2> SUFFICES ASSUME NEW p \in g.used
               PROVE  /\ pl2[p] \notin {"released", "returned"}
                      /\ h.state[p] = "TERMINATED" <=> pl2[p] \in {"terminated", "dequeued"}
                      /\ pl2[p] = "dequeued" => ~InRing(h, p)
                      /\ pl2[p] \in {"wait", "sleep"} => h.state[p] = "BLOCKED"
    BY <1>0 DEF PlacesOK
  <2>1. /\ pl[p] \notin {"released", "returned"}
        /\ g.state[p] = "TERMINATED" <=> pl[p] \in {"terminated", "dequeued"}
        /\ pl[p] = "dequeued" => ~InRing(g, p)
    BY DEF TableOK, PlacesOK
  <2>2. pl2[p] = IF pl[p] \in {"wait", "sleep"} /\ h.state[p] # "BLOCKED" THEN "user" ELSE pl[p]
    BY <1>0 DEF Unblocked
  <2> HIDE DEF pl2
  <2> QED BY <1>0, <2>1, <2>2 DEF Wakes
<1>8. StaysDead(g, h)
  BY <1>0 DEF StaysDead, Wakes
<1> QED BY <1>1, <1>2, <1>3, <1>4, <1>5, <1>6, <1>7, <1>8 DEF TableOK

LEMMA QuietSafe ==
  ASSUME NEW g, NEW h, NEW c, NEW pl, NEW b,
         Safe(g, c, pl, b), WellFormed(h), Quiet(g, h)
  PROVE  Safe(h, c, Unblocked(h, pl), b) /\ StaysDead(g, h)
<1>1. TableOK(h, c, Unblocked(h, pl), b) /\ StaysDead(g, h)
  BY QuietTable DEF Safe
<1>2. c \in Addr
  BY DEF Safe, CpuOK, TableOK, WellFormed, Globals
<1>3. Unblocked(h, pl)[c] = IF pl[c] \in {"wait", "sleep"} /\ h.state[c] # "BLOCKED"
                            THEN "user" ELSE pl[c]
  BY <1>2 DEF Unblocked
<1>4. CpuOK(h, c, Unblocked(h, pl))
  BY <1>3 DEF Safe, CpuOK, Quiet, Wakes
<1> QED BY <1>1, <1>4 DEF Safe

-----------------------------------------------------------------------------
(* Blocking a process.                                                     *)

\* From g to h, p has become BLOCKED and left the ring, and is now at place.
NowBlocked(g, h, c, pl, b, p, place) ==
    /\ TableOK(h, c, [pl EXCEPT ![p] = place], b) /\ StaysDead(g, h)
    /\ h.used = g.used /\ h.pid = g.pid /\ h.current_process = g.current_process
    /\ h.state = [g.state EXCEPT ![p] = "BLOCKED"]

LEMMA block_processTable ==
  ASSUME NEW g, NEW c, NEW pl, NEW b, TableOK(g, c, pl, b), b > 0,
         NEW p \in g.used, p # IDLE, g.state[p] \in {"RUNNING", "READY"},
         NEW place \in {pl[p], "wait", "sleep"}
  PROVE  NowBlocked(g, block_process(g, g.pid[p]), c, pl, b, p, place)
<1> DEFINE s   == [g EXCEPT !.state[p] = "BLOCKED"]
           h   == block_process(g, g.pid[p])
           pl2 == [pl EXCEPT ![p] = place]
<1>0. /\ WellFormed(g) /\ g \in Globals /\ p \in Addr /\ "BLOCKED" \in STATUS /\ p # NULL
      /\ g.used \subseteq Addr /\ g.state \in [Addr -> STATUS] /\ pl \in [Addr -> Places]
      /\ Slotted(g)
  BY TableAssumption DEF TableOK, WellFormed, Globals, STATUS
<1>1. h = remove_from_ready_list(s, p)
  <2>1. get_process_by_pid(g, g.pid[p]) = p
    BY <1>0, Lookup
  <2> QED BY <1>0, <2>1 DEF block_process
<1> HIDE DEF h
<1>2. WellFormed(s) /\ SameRing(g, s)
  BY <1>0, StateWellFormed
<1>3. /\ s.processes_list = g.processes_list /\ s.pids = g.pids /\ s.used = g.used
      /\ s.pid = g.pid /\ s.stack_pointer = g.stack_pointer
      /\ s.current_process = g.current_process
      /\ s.state = [g.state EXCEPT ![p] = "BLOCKED"]
  BY <1>0 DEF Globals
<1> HIDE DEF s
<1>4. /\ WellFormed(h) /\ SameTable(s, h)
      /\ \A q : InRing(h, q) <=> InRing(s, q) /\ q # p
      /\ s.current_node # p /\ (\E q : InRing(h, q)) => h.current_node = s.current_node
  BY <1>0, <1>1, <1>2, remove_from_ready_listRing
<1>5. /\ h.processes_list = g.processes_list /\ h.pids = g.pids /\ h.used = g.used
      /\ h.pid = g.pid /\ h.stack_pointer = g.stack_pointer
      /\ h.current_process = g.current_process
      /\ h.state = [g.state EXCEPT ![p] = "BLOCKED"]
  BY <1>3, <1>4 DEF SameTable
<1>6. /\ \A q : InRing(h, q) <=> InRing(g, q) /\ q # p
      /\ g.current_node # p /\ (\E q : InRing(h, q)) => h.current_node = g.current_node
  <2>1. s.current_node = g.current_node /\ \A q : InRing(s, q) <=> InRing(g, q)
    BY <1>2 DEF SameRing, InRing
  <2> QED BY <1>4, <2>1
<1>7. \A q \in g.used : h.state[q] = IF q = p THEN "BLOCKED" ELSE g.state[q]
  BY <1>0, <1>5
<1>8. \A q \in g.used : pl2[q] = IF q = p THEN place ELSE pl[q]
  BY <1>0
<1>9. pl2 \in [Addr -> Places]
  <2>1. place \in Places
    BY <1>0 DEF Places
  <2> QED BY <1>0, <2>1
<1> HIDE DEF pl2
<1>10. Slotted(h) /\ PidsTaken(h)
  BY <1>5 DEF TableOK, Slotted, Listed, PidsTaken
<1>11. RingOK(h)
  BY <1>5, <1>6, <1>7 DEF TableOK, RingOK
<1>12. RunnerOK(h)
  <2> SUFFICES ASSUME NEW q \in g.used, h.state[q] = "RUNNING"
               PROVE  q = h.current_process /\ q = h.current_node
    BY <1>5 DEF RunnerOK
  <2>1. q # p /\ g.state[q] = "RUNNING"
    BY <1>7
  <2>2. q = g.current_process /\ q = g.current_node /\ InRing(g, q)
    BY <2>1 DEF TableOK, RunnerOK, RingOK
  <2> QED BY <1>5, <1>6, <2>1, <2>2
<1>13. ContextsOK(h, c)
  BY <1>5, <1>7 DEF TableOK, ContextsOK
<1>14. IdleReady(h, b)
  BY <1>5, <1>7 DEF TableOK, IdleReady
<1>15. PlacesOK(h, pl2)
  BY <1>5, <1>6, <1>7, <1>8 DEF TableOK, PlacesOK
<1>16. StaysDead(g, h)
  BY <1>5, <1>7 DEF StaysDead
<1> QED BY <1>4, <1>5, <1>9, <1>10, <1>11, <1>12, <1>13, <1>14, <1>15, <1>16
    DEF TableOK, NowBlocked, h, pl2

-----------------------------------------------------------------------------
(* The scheduler.                                                          *)

LEMMA ModuloOnce ==
  ASSUME NEW n \in Nat, NEW x \in 0..(n - 1)
  PROVE  x % n = x /\ (x + n) % n = x
OBVIOUS

\* The round robin looks at every node of the ring.
LEMMA RingReach ==
  ASSUME NEW g \in Globals, NEW p, InRing(g, p), NEW q, InRing(g, q)
  PROVE  \E d \in 1..Len(g.ready_list) : Ahead(g, p, d) = q
<1> DEFINE n == Len(g.ready_list)
           i == Index(g, p)
<1>1. DOMAIN g.ready_list = 1..n /\ n \in Nat
  BY DEF Globals
<1>2. i \in 1..n
  BY <1>1 DEF InRing, Index
<1>3. PICK j \in 1..n : g.ready_list[j] = q
  BY <1>1 DEF InRing
<1> DEFINE d == IF j > i THEN j - i ELSE j - i + n
<1>4. d \in 1..n /\ ((i - 1 + d) % n) + 1 = j
  <2> HIDE DEF i, n
  <2>1. j - 1 \in 0..(n - 1)
    BY <1>1, <1>3
  <2>2. (j - 1) % n = j - 1 /\ (j - 1 + n) % n = j - 1
    BY <1>1, <2>1, ModuloOnce
  <2>3. i - 1 + d = IF j > i THEN j - 1 ELSE j - 1 + n
    BY <1>1, <1>2, <1>3
  <2>4. d \in 1..n
    BY <1>1, <1>2, <1>3
  <2> HIDE DEF d
  <2> QED BY <1>3, <2>2, <2>3, <2>4
<1> HIDE DEF d
<1> QED BY <1>3, <1>4 DEF Ahead

\* When somebody in the ring is READY, the CPU goes to somebody who is.
LEMMA PickNextReady ==
  ASSUME NEW g, WellFormed(g), NEW q, InRing(g, q), g.state[q] = "READY"
  PROVE  \E a : InRing(g, a) /\ g.state[a] = "READY" /\ PickNext(g) = Dispatch(g, a, a)
<1> DEFINE S == {d \in 1..Len(g.ready_list) :
                    g.state[Ahead(g, g.current_node, d)] = "READY"}
           a == Ahead(g, g.current_node, Steps(g))
<1>1. g \in Globals /\ InRing(g, g.current_node) /\ S \subseteq Nat
  BY DEF WellFormed, NodeInRing, InRing, Globals
<1>2. S # {}
  BY <1>1, RingReach
<1>3. Steps(g) \in S
  <2>1. First(S) \in S
    BY <1>1, <1>2, FirstIsLeast, Zenon
  <2> QED BY <2>1 DEF Steps
<1>4. Steps(g) \in Nat /\ Steps(g) # 0 /\ g.state[a] = "READY"
  BY <1>1, <1>3
<1>5. InRing(g, a)
  BY <1>1, <1>4, AheadInRing
<1>6. PickNext(g) = Dispatch(g, a, a)
  BY <1>4 DEF PickNext
<1> QED BY <1>4, <1>5, <1>6

\* h has the table, the pids and the ring of g.
SameProcesses(g, h) ==
    /\ h.processes_list = g.processes_list /\ h.pids = g.pids
    /\ h.used = g.used /\ h.pid = g.pid /\ h.ready_list = g.ready_list

LEMMA ChargeFields ==
  ASSUME NEW g \in Globals, NEW sp
  PROVE  LET h == Charge(g, sp)
             c == g.current_process
         IN  /\ SameProcesses(g, h) /\ h.state = g.state
             /\ h.current_process = c /\ h.current_node = g.current_node
             /\ h.stack_pointer = IF g.state[c] \in {"BLOCKED", "RUNNING"}
                                  THEN [g.stack_pointer EXCEPT ![c] = sp] ELSE g.stack_pointer
<1>1. CASE g.state[g.current_process] = "RUNNING"
  BY <1>1 DEF Charge, Globals, SameProcesses
<1>2. CASE g.state[g.current_process] # "RUNNING"
  BY <1>2 DEF Charge, Globals, SameProcesses
<1> QED BY <1>1, <1>2

\* What scheduler() leaves of the process that loses the CPU: it is READY if it was
\* running, and its context is saved.
LEMMA PreemptedFields ==
  ASSUME NEW g, WellFormed(g), NEW c \in Addr, c = g.current_process
  PROVE  LET ready == Preempted(Charge(g, c))
         IN  /\ WellFormed(ready) /\ SameProcesses(g, ready)
             /\ ready.current_node = g.current_node
             /\ ready.state = [q \in Addr |-> IF q = c /\ g.state[c] = "RUNNING"
                                              THEN "READY" ELSE g.state[q]]
             /\ ready.stack_pointer =
                   [q \in Addr |-> IF q = c /\ g.state[c] \in {"BLOCKED", "RUNNING"}
                                   THEN c ELSE g.stack_pointer[q]]
<1> DEFINE charged == Charge(g, c)
           ready   == Preempted(charged)
           running == [q \in Addr |-> IF q = c /\ g.state[c] = "RUNNING"
                                      THEN "READY" ELSE g.state[q]]
           saved   == [q \in Addr |-> IF q = c /\ g.state[c] \in {"BLOCKED", "RUNNING"}
                                      THEN c ELSE g.stack_pointer[q]]
<1>1. /\ g \in Globals /\ g.state \in [Addr -> STATUS]
      /\ g.stack_pointer \in [Addr -> Addr \cup {NULL}]
  BY DEF WellFormed, Globals
<1>2. /\ SameProcesses(g, charged) /\ charged.state = g.state
      /\ charged.current_process = c /\ charged.current_node = g.current_node
      /\ charged.stack_pointer = IF g.state[c] \in {"BLOCKED", "RUNNING"}
                                 THEN [g.stack_pointer EXCEPT ![c] = c] ELSE g.stack_pointer
  BY <1>1, ChargeFields
<1>3. charged.stack_pointer = saved
  BY <1>1, <1>2
<1>4. WellFormed(charged) /\ charged \in Globals
  BY ChargeWellFormed DEF WellFormed
<1> HIDE DEF charged, saved
<1>5. CASE g.state[c] = "RUNNING"
  <2>1. ready = [charged EXCEPT !.state[c] = "READY"]
    BY <1>2, <1>5 DEF Preempted
  <2>2. WellFormed(ready)
    <3>1. "READY" \in STATUS
      BY DEF STATUS
    <3>2. WellFormed([charged EXCEPT !.state[c] = "READY"])
      BY <1>4, <3>1, StateWellFormed
    <3> QED BY <2>1, <3>2
  <2>3. ready.state = [g.state EXCEPT ![c] = "READY"]
    BY <1>2, <1>4, <2>1 DEF Globals
  <2>4. /\ SameProcesses(charged, ready) /\ ready.stack_pointer = charged.stack_pointer
        /\ ready.current_node = charged.current_node
    BY <1>4, <2>1 DEF Globals, SameProcesses
  <2>5. ready.state = running
    BY <1>1, <1>5, <2>3
  <2> HIDE DEF ready, running
  <2> QED BY <1>2, <1>3, <2>2, <2>4, <2>5 DEF SameProcesses, charged, ready, running, saved
<1>6. CASE g.state[c] # "RUNNING"
  <2>1. ready = charged
    BY <1>2, <1>6 DEF Preempted
  <2>2. g.state = running
    BY <1>1, <1>6
  <2> HIDE DEF ready, running
  <2> QED BY <1>2, <1>3, <1>4, <2>1, <2>2 DEF charged, ready, running, saved
<1> QED BY <1>5, <1>6

LEMMA DispatchFields ==
  ASSUME NEW g \in Globals, NEW a \in Addr
  PROVE  LET h == Dispatch(g, a, a)
         IN  /\ SameProcesses(g, h) /\ h.state = [g.state EXCEPT ![a] = "RUNNING"]
             /\ h.stack_pointer = g.stack_pointer
             /\ h.current_node = a /\ h.current_process = a
BY DEF Dispatch, Globals, SameProcesses

\* What CallScheduler needs: the current process is not waiting for its turn, and if
\* its PCB is free and it will keep the CPU it is the thread of an exit.
PreScheduler(g, c, pl, b) ==
    /\ pl \in [Addr -> Places] /\ TableOK(g, c, Unblocked(g, pl), b)
    /\ c = g.current_process
    /\ c \in g.used => g.state[c] # "READY"
    /\ c \notin g.used /\ KeepsCpu(g) =>
          /\ pl[c] \in {"released", "returned"}
          /\ \A q \in g.used : g.pid[q] # g.pid[c]

\* The thread keeps the CPU: its context is saved and taken back.
LEMMA KeepsSafe ==
  ASSUME NEW g, NEW h, NEW c, NEW pl, NEW b, PreScheduler(g, c, pl, b), KeepsCpu(g),
         WellFormed(h), SameProcesses(g, h), h.state = g.state,
         h.current_process = c, h.current_node = g.current_node,
         \A q \in g.used : q # c => h.stack_pointer[q] = g.stack_pointer[q]
  PROVE  Safe(h, c, Unblocked(h, pl), b) /\ StaysDead(g, h)
<1> DEFINE pl2 == Unblocked(h, pl)
<1>0. g.used \subseteq Addr /\ c \in Addr /\ pl \in [Addr -> Places] /\ h.used = g.used
  BY DEF PreScheduler, TableOK, WellFormed, Globals, SameProcesses
<1>1. pl2 \in [Addr -> Places]
  BY <1>0, UnblockedType
<1>2. pl2 = Unblocked(g, pl)
  BY DEF Unblocked
<1>3. pl[c] \notin {"wait", "sleep"} => pl2[c] = pl[c]
  BY <1>0 DEF Unblocked
<1> HIDE DEF pl2
<1>4. Slotted(h) /\ PidsTaken(h)
  BY DEF PreScheduler, TableOK, Slotted, Listed, PidsTaken, SameProcesses
<1>5. \A q : InRing(h, q) <=> InRing(g, q)
  BY DEF SameProcesses, InRing
<1>6. RingOK(h) /\ RunnerOK(h)
  BY <1>0, <1>5 DEF PreScheduler, TableOK, RingOK, RunnerOK
<1>7. ContextsOK(h, c)
  BY <1>0 DEF PreScheduler, TableOK, ContextsOK
<1>8. IdleReady(h, b)
  BY DEF PreScheduler, TableOK, IdleReady, SameProcesses
<1>9. PlacesOK(h, pl2)
  BY <1>0, <1>2, <1>5 DEF PreScheduler, TableOK, PlacesOK
<1>10. CpuOK(h, c, pl2)
  BY <1>0, <1>2, <1>3 DEF PreScheduler, CpuOK, SameProcesses, KeepsCpu
<1>11. StaysDead(g, h)
  BY DEF StaysDead
<1> QED BY <1>1, <1>4, <1>6, <1>7, <1>8, <1>9, <1>10, <1>11 DEF Safe, TableOK, pl2

\* The CPU goes to a: it was READY, or it is the current process again.
LEMMA SwitchSafe ==
  ASSUME NEW g, NEW h, NEW c, NEW pl, NEW b, NEW a, PreScheduler(g, c, pl, b),
         a \in g.used, g.state[a] = "READY" \/ (a = c /\ g.state[c] = "RUNNING"),
         WellFormed(h), SameProcesses(g, h), h.current_process = a, h.current_node = a,
         \A q \in g.used :
            /\ h.state[q] = IF q = a THEN "RUNNING"
                            ELSE IF q = c /\ g.state[c] = "RUNNING" THEN "READY" ELSE g.state[q]
            /\ q # a => h.stack_pointer[q] = IF q = c /\ g.state[c] \in {"BLOCKED", "RUNNING"}
                                             THEN c ELSE g.stack_pointer[q]
  PROVE  Safe(h, a, Unblocked(h, pl), b) /\ StaysDead(g, h)
<1> DEFINE pl2 == Unblocked(h, pl)
<1>0. /\ g.used \subseteq Addr /\ c \in Addr /\ pl \in [Addr -> Places]
      /\ h.used = g.used /\ h.pid = g.pid /\ h.pids = g.pids
  BY DEF PreScheduler, TableOK, WellFormed, Globals, SameProcesses
<1>1. pl2 \in [Addr -> Places]
  BY <1>0, UnblockedType
<1>2. \A q \in g.used : /\ h.state[q] = "BLOCKED" <=> g.state[q] = "BLOCKED"
                        /\ h.state[q] = "TERMINATED" <=> g.state[q] = "TERMINATED"
                        /\ h.state[q] \in {"RUNNING", "READY"} <=> g.state[q] \in {"RUNNING", "READY"}
  OBVIOUS
<1>3. \A q \in g.used : pl2[q] = Unblocked(g, pl)[q]
  BY <1>0, <1>2 DEF Unblocked
<1> HIDE DEF pl2
<1>4. Slotted(h) /\ PidsTaken(h)
  BY DEF PreScheduler, TableOK, Slotted, Listed, PidsTaken, SameProcesses
<1>5. \A q : InRing(h, q) <=> InRing(g, q)
  BY DEF SameProcesses, InRing
<1>6. RingOK(h)
  BY <1>0, <1>2, <1>5 DEF PreScheduler, TableOK, RingOK
<1>7. RunnerOK(h)
  BY <1>0 DEF PreScheduler, TableOK, RunnerOK
<1>8. ContextsOK(h, a)
  <2> SUFFICES ASSUME NEW q \in g.used, q # a, h.state[q] # "TERMINATED"
               PROVE  h.stack_pointer[q] = q
    BY <1>0 DEF ContextsOK
  <2>1. CASE q # c
    BY <2>1, <1>2 DEF PreScheduler, TableOK, ContextsOK
  <2>2. CASE q = c
    <3>1. g.state[c] \in STATUS /\ g.state[c] # "READY" /\ g.state[c] # "TERMINATED"
      BY <1>2, <2>2 DEF PreScheduler, TableOK, WellFormed, Globals
    <3> QED BY <2>2, <3>1 DEF STATUS
  <2> QED BY <2>1, <2>2
<1>9. IdleReady(h, b)
  BY <1>0, <1>2 DEF PreScheduler, TableOK, IdleReady
<1>10. PlacesOK(h, pl2)
  BY <1>0, <1>2, <1>3, <1>5 DEF PreScheduler, TableOK, PlacesOK
<1>11. CpuOK(h, a, pl2)
  BY <1>0 DEF CpuOK
<1>12. StaysDead(g, h)
  BY <1>0, <1>2 DEF StaysDead
<1> QED BY <1>1, <1>4, <1>6, <1>7, <1>8, <1>9, <1>10, <1>11, <1>12 DEF Safe, TableOK, pl2

\* Every call to the scheduler re-establishes the invariant.
LEMMA CallSchedulerSafe ==
  ASSUME NEW g, NEW pl, NEW b \in Nat, Machine(k, cpu, at), cpu \in Addr,
         PreScheduler(g, cpu, pl, b), CallScheduler(g, pl)
  PROVE  Safe(k', cpu', at', b) /\ StaysDead(g, k') /\ k'.used = g.used
<1> DEFINE c == cpu
           r == scheduler(g, c)
           p == r.k.current_process
           s == IF r.k.stack_pointer[p] = r.sp THEN NULL ELSE r.k.stack_pointer[p]
<1>0. /\ WellFormed(g) /\ pl \in [Addr -> Places] /\ c = g.current_process
      /\ g.used \subseteq Addr /\ g.stack_pointer \in [Addr -> Addr \cup {NULL}]
      /\ g \in Globals
  BY DEF PreScheduler, TableOK, WellFormed, Globals
<1>1. WellFormed(k') /\ at' \in [Addr -> Places] /\ WellFormed(r.k)
  BY <1>0, CallSchedulerMachine, schedulerWellFormed DEF Machine
<1>2. k' = [r.k EXCEPT !.stack_pointer[p] = s] /\ cpu' = r.sp /\ at' = Unblocked(r.k, pl)
  <2>1. r.k.stack_pointer \in [Addr -> Addr \cup {NULL}]
    BY <1>1 DEF WellFormed, Globals
  <2> QED BY <1>1, <2>1 DEF CallScheduler, WellFormed, Globals
<1> HIDE DEF r, s
<1>3. /\ SameProcesses(r.k, k') /\ k'.state = r.k.state
      /\ k'.current_process = r.k.current_process /\ k'.current_node = r.k.current_node
      /\ \A q \in g.used : q # p => k'.stack_pointer[q] = r.k.stack_pointer[q]
  BY <1>0, <1>1, <1>2 DEF WellFormed, Globals, SameProcesses
<1>4. at' = Unblocked(k', pl)
  BY <1>2, <1>3 DEF Unblocked
<1>5. \E q \in g.used : InRing(g, q) /\ (g.state[q] = "READY" \/ (q = c /\ g.state[c] = "RUNNING"))
  <2>1. \E q \in g.used : g.state[q] \in {"RUNNING", "READY"}
    BY DEF PreScheduler, TableOK, IdleReady
  <2> QED BY <1>0, <2>1 DEF PreScheduler, TableOK, RunnerOK, RingOK
<1>6. g.ready_list # <<>>
  BY <1>5 DEF InRing
<1>7. CASE KeepsCpu(g)
  <2> DEFINE h == Charge(g, c)
  <2>1. r = [k |-> h, sp |-> c] /\ g.state[c] = "RUNNING"
    BY <1>0, <1>6, <1>7 DEF scheduler, KeepsCpu, r
  <2>2. /\ SameProcesses(g, h) /\ h.state = g.state
        /\ h.current_process = c /\ h.current_node = g.current_node
        /\ \A q \in g.used : q # c => h.stack_pointer[q] = g.stack_pointer[q]
    <3>1. /\ SameProcesses(g, h) /\ h.state = g.state
          /\ h.current_process = c /\ h.current_node = g.current_node
          /\ h.stack_pointer = IF g.state[c] \in {"BLOCKED", "RUNNING"}
                               THEN [g.stack_pointer EXCEPT ![c] = c] ELSE g.stack_pointer
      BY <1>0, ChargeFields
    <3> QED BY <1>0, <3>1
  <2> HIDE DEF h
  <2>3. r.k = h /\ r.sp = c
    BY <2>1
  <2>4. SameProcesses(g, k')
    BY <1>3, <2>2, <2>3 DEF SameProcesses
  <2>5. Safe(k', c, Unblocked(k', pl), b) /\ StaysDead(g, k')
    BY <1>1, <1>3, <1>7, <2>2, <2>3, <2>4, KeepsSafe
  <2> QED BY <1>2, <1>4, <2>3, <2>4, <2>5 DEF SameProcesses
<1>8. CASE ~KeepsCpu(g)
  <2> DEFINE ready == Preempted(Charge(g, c))
  <2>1. r = [k |-> PickNext(ready),
             sp |-> PickNext(ready).stack_pointer[PickNext(ready).current_process]]
    BY <1>6, <1>8 DEF scheduler, r
  <2>2. /\ WellFormed(ready) /\ SameProcesses(g, ready)
        /\ ready.state = [q \in Addr |-> IF q = c /\ g.state[c] = "RUNNING"
                                         THEN "READY" ELSE g.state[q]]
        /\ ready.stack_pointer =
              [q \in Addr |-> IF q = c /\ g.state[c] \in {"BLOCKED", "RUNNING"}
                              THEN c ELSE g.stack_pointer[q]]
    BY <1>0, PreemptedFields
  <2>3. ready \in Globals
    BY <2>2 DEF WellFormed
  <2> HIDE DEF ready
  <2>4. PICK a : InRing(ready, a) /\ ready.state[a] = "READY" /\ PickNext(ready) = Dispatch(ready, a, a)
    <3>1. PICK q \in g.used : InRing(g, q) /\ (g.state[q] = "READY" \/ (q = c /\ g.state[c] = "RUNNING"))
      BY <1>5
    <3>2. InRing(ready, q) /\ ready.state[q] = "READY"
      BY <1>0, <2>2, <3>1 DEF SameProcesses, InRing
    <3> QED BY <2>2, <3>2, PickNextReady
  <2>5. a \in g.used /\ a \in Addr /\ (g.state[a] = "READY" \/ (a = c /\ g.state[c] = "RUNNING"))
    <3>1. a \in g.used
      BY <2>2, <2>4 DEF PreScheduler, TableOK, RingOK, SameProcesses, InRing
    <3> QED BY <1>0, <2>2, <2>4, <3>1
  <2> DEFINE h == Dispatch(ready, a, a)
  <2>6. /\ SameProcesses(ready, h) /\ h.state = [ready.state EXCEPT ![a] = "RUNNING"]
        /\ h.stack_pointer = ready.stack_pointer
        /\ h.current_node = a /\ h.current_process = a
    BY <2>3, <2>5, DispatchFields
  <2> HIDE DEF h
  <2>7. r.k = h /\ r.sp = h.stack_pointer[a]
    BY <2>1, <2>4, <2>6 DEF h
  <2>8. h.stack_pointer[a] = a
    <3>1. a # c => g.stack_pointer[a] = a
      BY <2>5 DEF PreScheduler, TableOK, ContextsOK
    <3>2. a = c => g.state[a] = "RUNNING"
      BY <2>5 DEF PreScheduler
    <3> QED BY <2>2, <2>5, <2>6, <3>1, <3>2
  <2>9. SameProcesses(g, k') /\ k'.current_process = a /\ k'.current_node = a
    BY <1>3, <2>2, <2>6, <2>7 DEF SameProcesses
  <2>10. \A q \in g.used :
            /\ k'.state[q] = IF q = a THEN "RUNNING"
                             ELSE IF q = c /\ g.state[c] = "RUNNING" THEN "READY" ELSE g.state[q]
            /\ q # a => k'.stack_pointer[q] = IF q = c /\ g.state[c] \in {"BLOCKED", "RUNNING"}
                                              THEN c ELSE g.stack_pointer[q]
    <3>1. p = a
      BY <2>6, <2>7
    <3> HIDE DEF p
    <3> QED BY <1>0, <1>3, <2>2, <2>5, <2>6, <2>7, <3>1
  <2>11. Safe(k', a, Unblocked(k', pl), b) /\ StaysDead(g, k')
    BY <1>1, <2>5, <2>9, <2>10, SwitchSafe
  <2> QED BY <1>2, <1>4, <2>7, <2>8, <2>9, <2>11 DEF SameProcesses
<1> QED BY <1>7, <1>8

-----------------------------------------------------------------------------
(* The end of a process.                                                   *)

\* From g to h, p has left the table, the ring and the pool, and somebody who
\* waited for it may have been woken.
Gone(g, h, p) ==
    /\ h.used = g.used \ {p} /\ h.pid = g.pid /\ h.current_process = g.current_process
    /\ Slotted(h) /\ h.state[p] = "TERMINATED"
    /\ \A i \in Slots : i # g.pid[p] => h.pids[i] = g.pids[i]
    /\ \A q \in h.used : h.stack_pointer[q] = g.stack_pointer[q]
    /\ \A q \in h.used : h.state[q] = g.state[q] \/ Wakes(g, h, q)
    /\ \A q : InRing(h, q) <=> q # p /\ (InRing(g, q) \/ Wakes(g, h, q))
    /\ InRing(g, g.current_node) /\ g.current_node # p => h.current_node = g.current_node

LEMMA ReleaseSlotGone ==
  ASSUME NEW g, WellFormed(g), Slotted(g), NEW p \in g.used,
         ~InRing(g, p), g.state[p] = "TERMINATED"
  PROVE  Gone(g, ReleaseSlot(g, p), p)
<1> DEFINE idx == foundprocess(g, g.pid[p])
           l   == [i \in Slots |-> IF i = idx THEN NULL ELSE g.processes_list[i]]
           h   == ReleaseSlot(g, p)
<1>1. /\ g \in Globals /\ p \in Addr /\ NULL \notin Addr /\ g.used \subseteq Addr
      /\ g.stack_pointer \in [Addr -> Addr \cup {NULL}]
  BY TableAssumption DEF WellFormed, Globals
<1>2. /\ h.processes_list = l /\ h.pids = g.pids /\ h.used = g.used \ {p} /\ h.pid = g.pid
      /\ h.state = g.state /\ h.stack_pointer = [g.stack_pointer EXCEPT ![p] = NULL]
      /\ h.current_process = g.current_process /\ SameRing(g, h)
  BY <1>1 DEF ReleaseSlot, Globals, SameRing
<1> HIDE DEF h, idx
<1>3. idx \in Slots /\ g.processes_list[idx] = p
  BY <1>1, Lookup DEF idx
<1>4. \A q : InRing(h, q) <=> InRing(g, q)
  BY <1>2 DEF SameRing, InRing
<1>5. Slotted(h)
  <2>1. Listed(h) = Listed(g) \ {idx}
    BY <1>2 DEF Listed
  <2>2. \A i \in Listed(h) : i \in Listed(g) /\ h.processes_list[i] = g.processes_list[i]
    BY <1>2, <2>1 DEF Listed
  <2>3. \A i \in Listed(h) : g.processes_list[i] # p
    <3>1. idx \in Listed(g)
      BY <1>1, <1>3 DEF Listed
    <3> QED BY <1>3, <2>1, <3>1 DEF Slotted
  <2>4. \A q \in h.used : \E i \in Slots : h.processes_list[i] = q
    <3> SUFFICES ASSUME NEW q \in g.used, q # p PROVE \E i \in Slots : l[i] = q
      BY <1>2
    <3>1. PICK i \in Slots : g.processes_list[i] = q
      BY DEF Slotted
    <3>2. i # idx
      BY <1>3, <3>1
    <3> QED BY <3>1, <3>2
  <2> QED BY <1>2, <2>2, <2>3, <2>4 DEF Slotted
<1>6. \A q \in h.used : h.stack_pointer[q] = g.stack_pointer[q]
  BY <1>1, <1>2
<1>7. \A q : ~Wakes(g, h, q)
  BY <1>2 DEF Wakes
<1> QED BY <1>2, <1>4, <1>5, <1>6, <1>7 DEF Gone, SameRing, h

LEMMA TerminateFields ==
  ASSUME NEW g, WellFormed(g), NEW p \in Addr
  PROVE  LET h == Terminate(g, p)
         IN  /\ WellFormed(h) /\ SameProcesses(g, h) /\ SameRing(g, h)
             /\ h.stack_pointer = g.stack_pointer /\ h.current_process = g.current_process
             /\ h.state[p] = "TERMINATED" /\ \A q \in Addr : q # p => h.state[q] = g.state[q]
<1>1. WellFormed(Terminate(g, p))
  BY TerminateWellFormed
<1> QED BY <1>1 DEF Terminate, WellFormed, Globals, SameProcesses, SameRing

LEMMA remove_from_processes_listGone ==
  ASSUME NEW g, WellFormed(g), Slotted(g), NEW p \in g.used
  PROVE  /\ Gone(g, remove_from_processes_list(g, p), p)
         /\ WellFormed(remove_from_processes_list(g, p))
<1> DEFINE d == DetachFromParent(g, p)
           t == Terminate(d, p)
           q == remove_from_ready_list(t, p)
           h == ReleaseSlot(q, p)
<1>0. g \in Globals /\ p \in Addr /\ g.used \subseteq Addr
  BY DEF WellFormed, Globals
<1>1. remove_from_processes_list(g, p) = h
  <2>1. foundprocess(g, g.pid[p]) \in Slots
    BY <1>0, Lookup
  <2>2. foundprocess(g, g.pid[p]) # 0
    BY <2>1, TableAssumption DEF Slots
  <2> QED BY <2>2 DEF remove_from_processes_list
<1>2. WellFormed(d) /\ Quiet(g, d) /\ Slotted(d)
  BY <1>0, DetachFromParentWellFormed, DetachFromParentQuiet, QuietSlotted
<1> HIDE DEF d
<1>3. /\ WellFormed(t) /\ SameProcesses(d, t) /\ SameRing(d, t)
      /\ t.stack_pointer = d.stack_pointer /\ t.current_process = d.current_process
      /\ t.state[p] = "TERMINATED" /\ \A a \in Addr : a # p => t.state[a] = d.state[a]
  BY <1>0, <1>2, TerminateFields
<1> HIDE DEF t
<1>4. /\ WellFormed(q) /\ SameTable(t, q)
      /\ \A a : InRing(q, a) <=> InRing(t, a) /\ a # p
      /\ t.current_node # p /\ (\E a : InRing(q, a)) => q.current_node = t.current_node
  BY <1>0, <1>3, remove_from_ready_listRing
<1> HIDE DEF q
<1>5. Slotted(q) /\ q.used = g.used /\ q.pid = g.pid /\ q.pids = g.pids
  BY <1>2, <1>3, <1>4 DEF Slotted, Listed, SameProcesses, SameTable, Quiet
<1>6. WellFormed(h) /\ Gone(q, h, p)
  <2>1. p \in q.used /\ ~InRing(q, p) /\ q.state[p] = "TERMINATED"
    BY <1>3, <1>4, <1>5 DEF SameTable
  <2> QED BY <1>0, <1>4, <1>5, <2>1, ReleaseSlotWellFormed, ReleaseSlotGone
<1> HIDE DEF h
<1>7. /\ q.current_process = g.current_process /\ q.stack_pointer = g.stack_pointer
      /\ \A a \in g.used : a # p => q.state[a] = d.state[a]
      /\ \A a : InRing(q, a) <=> a # p /\ (InRing(g, a) \/ Wakes(g, d, a))
      /\ InRing(g, g.current_node) /\ g.current_node # p => q.current_node = g.current_node
  <2>1. \A a : InRing(t, a) <=> InRing(d, a)
    BY <1>3 DEF SameRing, InRing
  <2>2. /\ q.current_process = g.current_process /\ q.stack_pointer = g.stack_pointer
    BY <1>2, <1>3, <1>4 DEF SameTable, Quiet
  <2>3. \A a \in g.used : a # p => q.state[a] = d.state[a]
    BY <1>0, <1>3, <1>4 DEF SameTable
  <2>4. \A a : InRing(q, a) <=> a # p /\ (InRing(g, a) \/ Wakes(g, d, a))
    BY <1>2, <1>4, <2>1 DEF Quiet
  <2>5. ASSUME InRing(g, g.current_node), g.current_node # p
        PROVE  q.current_node = g.current_node
    <3>1. t.current_node = g.current_node
      BY <1>2, <1>3, <2>5 DEF Quiet, SameRing
    <3>2. InRing(q, g.current_node)
      BY <2>4, <2>5
    <3> QED BY <1>4, <2>5, <3>1, <3>2
  <2> QED BY <2>2, <2>3, <2>4, <2>5
<1>8. \A a \in h.used : /\ a \in g.used /\ a # p
                        /\ h.stack_pointer[a] = g.stack_pointer[a]
                        /\ h.state[a] = q.state[a] \/ Wakes(q, h, a)
                        /\ d.state[a] = g.state[a] \/ Wakes(g, d, a)
  BY <1>2, <1>5, <1>6, <1>7 DEF Gone, Quiet
<1>9. \A a : a # p => (InRing(h, a) <=> InRing(g, a) \/ Wakes(g, h, a))
  <2>1. \A a : a # p /\ a \in g.used =>
               /\ a \in h.used /\ q.state[a] = d.state[a]
               /\ (InRing(h, a) <=> InRing(g, a) \/ Wakes(g, d, a) \/ Wakes(q, h, a))
    BY <1>5, <1>6, <1>7 DEF Gone
  <2>2. \A a : a # p /\ a \notin g.used => (InRing(h, a) <=> InRing(g, a))
    BY <1>5, <1>6, <1>7 DEF Gone, Wakes
  <2> QED BY <1>8, <2>1, <2>2 DEF Wakes
<1>10. \A a \in h.used : h.state[a] = g.state[a] \/ Wakes(g, h, a)
  BY <1>7, <1>8 DEF Wakes
<1>11. Gone(g, h, p)
  BY <1>5, <1>6, <1>7, <1>8, <1>9, <1>10 DEF Gone
<1> QED BY <1>1, <1>6, <1>11

LEMMA KilledGone ==
  ASSUME NEW g, WellFormed(g), Slotted(g), NEW p \in g.used
  PROVE  Gone(g, Killed(g, p), p) /\ WellFormed(Killed(g, p))
<1> DEFINE pool == [i \in Slots |-> g.pids[i] /\ (i # g.pid[p] \/ i >= MAX_PROCESSES)]
           f == freePid(g, g.pid[p])
           u == remove_from_ready_list(f, p)
           t == Terminate(u, p)
           h == remove_from_processes_list(t, p)
<1>0. g \in Globals /\ p \in Addr /\ g.used \subseteq Addr /\ g.pids \in [Slots -> BOOLEAN]
  BY DEF WellFormed, Globals
<1>1. WellFormed(f) /\ f = [g EXCEPT !.pids = pool] /\ pool \in [Slots -> BOOLEAN]
  <2>1. f = [g EXCEPT !.pids = pool] /\ pool \in [Slots -> BOOLEAN]
    BY <1>0 DEF freePid
  <2> HIDE DEF f, pool
  <2> QED BY <2>1, PoolWellFormed
<1>2. \A i \in Slots : i # g.pid[p] => pool[i] = g.pids[i]
  BY <1>0
<1> HIDE DEF pool, f
<1>3. /\ f.processes_list = g.processes_list /\ f.pids = pool /\ f.used = g.used /\ f.pid = g.pid
      /\ f.state = g.state /\ f.stack_pointer = g.stack_pointer
      /\ f.current_process = g.current_process /\ SameRing(g, f)
  BY <1>0, <1>1 DEF Globals, SameRing
<1>4. /\ WellFormed(u) /\ SameTable(f, u)
      /\ \A a : InRing(u, a) <=> InRing(f, a) /\ a # p
      /\ f.current_node # p /\ (\E a : InRing(u, a)) => u.current_node = f.current_node
  BY <1>0, <1>1, remove_from_ready_listRing
<1> HIDE DEF u
<1>5. /\ WellFormed(t) /\ SameProcesses(u, t) /\ SameRing(u, t)
      /\ t.stack_pointer = u.stack_pointer /\ t.current_process = u.current_process
      /\ t.state[p] = "TERMINATED" /\ \A a \in Addr : a # p => t.state[a] = u.state[a]
  BY <1>0, <1>4, TerminateFields
<1> HIDE DEF t
<1>6. /\ t.processes_list = g.processes_list /\ t.pids = pool /\ t.used = g.used /\ t.pid = g.pid
      /\ t.stack_pointer = g.stack_pointer /\ t.current_process = g.current_process
      /\ \A a \in g.used : a # p => t.state[a] = g.state[a]
      /\ \A a : InRing(t, a) <=> InRing(g, a) /\ a # p
  <2>1. \A a : InRing(t, a) <=> InRing(u, a)
    BY <1>5 DEF SameRing, InRing
  <2>2. \A a : InRing(f, a) <=> InRing(g, a)
    BY <1>3 DEF SameRing, InRing
  <2> QED BY <1>0, <1>3, <1>4, <1>5, <2>1, <2>2 DEF SameTable, SameProcesses
<1>7. ASSUME InRing(g, g.current_node), g.current_node # p
      PROVE  t.current_node = g.current_node /\ InRing(t, t.current_node)
  <2>1. t.current_node = u.current_node /\ f.current_node = g.current_node
    BY <1>3, <1>5 DEF SameRing
  <2>2. InRing(t, g.current_node) /\ InRing(u, g.current_node)
    BY <1>5, <1>6, <1>7 DEF SameRing, InRing
  <2> QED BY <1>4, <1>7, <2>1, <2>2
<1>8. Gone(t, h, p) /\ WellFormed(h)
  <2>1. Slotted(t)
    BY <1>6 DEF Slotted, Listed
  <2> QED BY <1>5, <1>6, <2>1, remove_from_processes_listGone
<1> HIDE DEF h
<1>9. \A a : a # p => (Wakes(t, h, a) <=> Wakes(g, h, a))
  BY <1>6 DEF Wakes
<1>10. Gone(g, h, p)
  BY <1>2, <1>6, <1>7, <1>8, <1>9 DEF Gone
<1> QED BY <1>8, <1>10 DEF Killed, h, t, u, f

\* The death of a process that is neither first_process nor idle keeps everything
\* that is said of the others, and frees its pid.
LEMMA GoneTable ==
  ASSUME NEW g, NEW h, NEW c, NEW pl, NEW b, NEW p \in g.used,
         TableOK(g, c, pl, b), WellFormed(h), Gone(g, h, p),
         p # BOOT, b > 0, p # IDLE
  PROVE  /\ TableOK(h, c, Unblocked(h, pl), b) /\ StaysDead(g, h)
         /\ \A q \in h.used : h.pid[q] # g.pid[p]
<1> DEFINE pl2 == Unblocked(h, pl)
<1>0. /\ g \in Globals /\ g.used \subseteq Addr /\ h.used = g.used \ {p} /\ h.pid = g.pid
      /\ Slotted(g) /\ \A q \in g.used : g.pid[q] \in Pids
  BY DEF TableOK, WellFormed, Globals, Gone
<1>1. pl2 \in [Addr -> Places]
  BY UnblockedType DEF TableOK
<1>2. \A q \in h.used : h.pid[q] # g.pid[p]
  BY <1>0, OnePid
<1>3. PidsTaken(h)
  <2> SUFFICES ASSUME NEW q \in h.used PROVE h.pid[q] # 0 /\ h.pids[h.pid[q]]
    BY DEF PidsTaken
  <2>1. g.pid[q] # 0 /\ g.pids[g.pid[q]] /\ g.pid[q] # g.pid[p] /\ g.pid[q] \in Pids
    BY <1>0, <1>2 DEF TableOK, PidsTaken
  <2>2. g.pid[q] \in Slots
    BY <2>1, TableAssumption DEF Pids, Slots
  <2> QED BY <1>0, <2>1, <2>2 DEF Gone
<1>4. RingOK(h)
  BY <1>0 DEF TableOK, RingOK, Gone, Wakes
<1>5. RunnerOK(h)
  <2> SUFFICES ASSUME NEW q \in h.used, h.state[q] = "RUNNING"
               PROVE  q = h.current_process /\ q = h.current_node
    BY DEF RunnerOK
  <2>1. g.state[q] = "RUNNING" /\ q # p /\ q \in g.used
    BY <1>0 DEF Gone, Wakes
  <2>2. q = g.current_process /\ q = g.current_node /\ InRing(g, q)
    BY <2>1 DEF TableOK, RunnerOK, RingOK
  <2> QED BY <2>1, <2>2 DEF Gone
<1>6. ContextsOK(h, c)
  BY <1>0 DEF TableOK, ContextsOK, Gone, Wakes
<1>7. IdleReady(h, b)
  BY <1>0 DEF TableOK, IdleReady, Gone, Wakes
<1>8. PlacesOK(h, pl2)
  <2> SUFFICES ASSUME NEW q \in h.used
               PROVE  /\ pl2[q] \notin {"released", "returned"}
                      /\ h.state[q] = "TERMINATED" <=> pl2[q] \in {"terminated", "dequeued"}
                      /\ pl2[q] = "dequeued" => ~InRing(h, q)
                      /\ pl2[q] \in {"wait", "sleep"} => h.state[q] = "BLOCKED"
    BY DEF PlacesOK
  <2>1. /\ pl[q] \notin {"released", "returned"}
        /\ g.state[q] = "TERMINATED" <=> pl[q] \in {"terminated", "dequeued"}
        /\ pl[q] = "dequeued" => ~InRing(g, q)
    BY <1>0 DEF TableOK, PlacesOK
  <2>2. pl2[q] = IF pl[q] \in {"wait", "sleep"} /\ h.state[q] # "BLOCKED" THEN "user" ELSE pl[q]
    BY <1>0 DEF Unblocked
  <2>3. /\ h.state[q] = g.state[q] \/ Wakes(g, h, q)
        /\ InRing(h, q) <=> q # p /\ (InRing(g, q) \/ Wakes(g, h, q))
    BY DEF Gone
  <2> HIDE DEF pl2
  <2> QED BY <2>1, <2>2, <2>3 DEF Wakes
<1>9. StaysDead(g, h)
  BY DEF StaysDead, Gone, Wakes
<1>10. Slotted(h)
  BY DEF Gone
<1> QED BY <1>1, <1>2, <1>3, <1>4, <1>5, <1>6, <1>7, <1>8, <1>9, <1>10 DEF TableOK

-----------------------------------------------------------------------------
(* Creation.                                                               *)

LEMMA Pigeons ==
  ASSUME NEW S, IsFiniteSet(S), NEW n \in S, NEW f \in [S -> S \ {n}],
         \A i, j \in S : f[i] = f[j] => i = j
  PROVE  FALSE
<1> DEFINE T == S \ {n}
<1>1. IsFiniteSet(T) /\ Cardinality(T) = Cardinality(S) - 1
  BY FS_RemoveElement
<1>2. Cardinality(S) \in Nat
  BY FS_CardinalityType
<1>3. Cardinality(T) < Cardinality(S)
  BY <1>1, <1>2
<1>4. f \in [S -> T]
  OBVIOUS
<1> HIDE DEF T
<1> QED BY <1>1, <1>3, <1>4, FS_PigeonHole

\* The table has as many slots as there are pids: a free pid means a free slot.
LEMMA FreeSlotExists ==
  ASSUME NEW g \in Globals, Slotted(g), PidsTaken(g), FreePid(g) # 0
  PROVE  /\ FreePid(g) \in Slots /\ ~g.pids[FreePid(g)]
         /\ FreeSlot(g) \in Slots /\ g.processes_list[FreeSlot(g)] = NULL
<1> DEFINE P == {i \in Slots : ~g.pids[i]}
           S == {i \in Slots : g.processes_list[i] = NULL}
           n == FreePid(g)
<1>0. Slots \subseteq Nat /\ IsFiniteSet(Slots)
  <2>1. 1 \in Int /\ MAX_PROCESSES \in Int
    BY TableAssumption
  <2> QED BY <2>1, TableAssumption, FS_Interval DEF Slots
<1>1. P # {} /\ P \subseteq Nat
  BY <1>0 DEF FreePid, First
<1>2. n \in P
  BY <1>1, FirstIsLeast, Zenon DEF FreePid
<1>3. S # {}
  <2> SUFFICES ASSUME S = {} PROVE FALSE
    OBVIOUS
  <2> DEFINE T == Slots \ {n}
             f == [i \in Slots |-> g.pid[g.processes_list[i]]]
  <2>1. Listed(g) = Slots
    BY DEF Listed
  <2>2. \A i \in Slots : g.processes_list[i] \in g.used /\ f[i] # 0 /\ g.pids[f[i]] /\ f[i] \in Pids
    BY <2>1 DEF Slotted, PidsTaken, Globals
  <2>3. f \in [Slots -> T]
    <3> SUFFICES ASSUME NEW i \in Slots PROVE f[i] \in T
      OBVIOUS
    <3>1. f[i] \in Pids /\ f[i] # 0 /\ f[i] # n
      BY <1>2, <2>2
    <3> HIDE DEF f
    <3> QED BY <3>1, TableAssumption DEF Pids, Slots
  <2> HIDE DEF f
  <2>4. \A i, j \in Slots : f[i] = f[j] => i = j
    BY <2>1 DEF Slotted, f
  <2>5. n \in Slots
    BY <1>2
  <2> HIDE DEF n
  <2>6. f \in [Slots -> Slots \ {n}]
    BY <2>3
  <2> QED BY <1>0, <2>4, <2>5, <2>6, Pigeons
<1>4. S \subseteq Nat
  BY <1>0
<1>5. FreeSlot(g) \in S
  BY <1>3, <1>4, FirstIsLeast, Zenon DEF FreeSlot
<1> QED BY <1>2, <1>5

\* The pid and the slot that createProcess takes were free.
LEMMA NewlyListedSlotted ==
  ASSUME NEW g \in Globals, Slotted(g), PidsTaken(g),
         NEW new \in Addr, new \notin g.used, FreePid(g) # 0,
         NEW s, WellFormed(s), NewlyListed(g, new, s),
         NEW h, h = add_to_ready_list(s, new)
  PROVE  Slotted(h) /\ PidsTaken(h)
<1> DEFINE n   == FreePid(g)
           i0  == FreeSlot(g)
<1>0. /\ g.used \subseteq Addr /\ NULL \notin Addr
      /\ g.state \in [Addr -> STATUS] /\ g.pid \in [Addr -> Pids]
  BY TableAssumption DEF Globals
<1>2. n \in Slots /\ ~g.pids[n] /\ i0 \in Slots /\ g.processes_list[i0] = NULL
  BY FreeSlotExists
<1>3. SameTable(s, h)
  BY add_to_ready_listRing
<1>4. /\ h.processes_list = [i \in Slots |-> IF i = i0 THEN new ELSE g.processes_list[i]]
      /\ h.pids = [i \in Slots |-> i = n \/ g.pids[i]]
      /\ h.used = g.used \cup {new} /\ h.pid = [g.pid EXCEPT ![new] = n]
  BY <1>3 DEF NewlyListed, SameTable
<1>5. /\ \A q \in g.used : q # new /\ h.pid[q] = g.pid[q]
      /\ h.pid[new] = n
  BY <1>0, <1>4
<1> HIDE DEF n, i0
<1>6. Slotted(h)
  <2>1. Listed(h) = Listed(g) \cup {i0}
    BY <1>0, <1>2, <1>4 DEF Listed
  <2>2. \A i \in Listed(g) : /\ i # i0 /\ i \in Slots
                             /\ h.processes_list[i] = g.processes_list[i]
                             /\ g.processes_list[i] \in g.used
    BY <1>0, <1>2, <1>4 DEF Listed, Slotted
  <2>3. h.processes_list[i0] = new
    BY <1>2, <1>4
  <2>4. \A q \in h.used : \E i \in Slots : h.processes_list[i] = q
    <3>1. ASSUME NEW q \in g.used PROVE \E i \in Slots : h.processes_list[i] = q
      <4>1. PICK i \in Slots : g.processes_list[i] = q
        BY DEF Slotted
      <4>2. i \in Listed(g)
        BY <1>0, <4>1 DEF Listed
      <4> QED BY <2>2, <4>1, <4>2
    <3> QED BY <1>2, <1>4, <2>3, <3>1
  <2>5. \A i \in Listed(h) : h.processes_list[i] \in h.used
    BY <1>4, <2>1, <2>2, <2>3
  <2>6. \A i \in Listed(g) : h.pid[h.processes_list[i]] = g.pid[g.processes_list[i]]
                             /\ h.pid[h.processes_list[i]] # n
    BY <1>2, <1>5, <2>2 DEF PidsTaken
  <2>7. \A i, j \in Listed(g) : g.pid[g.processes_list[i]] = g.pid[g.processes_list[j]] => i = j
    BY DEF Slotted
  <2>8. \A i, j \in Listed(h) : h.pid[h.processes_list[i]] = h.pid[h.processes_list[j]] => i = j
    BY <1>5, <2>1, <2>3, <2>6, <2>7
  <2> QED BY <2>4, <2>5, <2>8 DEF Slotted
<1>7. PidsTaken(h)
  <2> SUFFICES ASSUME NEW q \in h.used PROVE h.pid[q] # 0 /\ h.pids[h.pid[q]]
    BY DEF PidsTaken
  <2>1. CASE q = new
    <3>1. n # 0
      BY <1>2, TableAssumption DEF Slots
    <3>2. h.pids[n]
      BY <1>2, <1>4, Zenon
    <3> QED BY <1>5, <2>1, <3>1, <3>2
  <2>2. CASE q \in g.used
    <3>1. g.pid[q] # 0 /\ g.pids[g.pid[q]] /\ g.pid[q] \in Pids
      BY <1>0, <2>2 DEF PidsTaken
    <3>2. g.pid[q] \in Slots
      BY <3>1, TableAssumption DEF Slots, Pids
    <3> QED BY <1>4, <1>5, <2>2, <3>1, <3>2
  <2> QED BY <1>4, <2>1, <2>2
<1> QED BY <1>6, <1>7

\* A new process is one more of those that the invariant speaks of: the pid and
\* the slot that createProcess takes were free.  The first one created is idle.
LEMMA NewProcessTable ==
  ASSUME NEW g, NEW c, NEW pl, NEW b \in Nat, NEW b2 \in Nat, TableOK(g, c, pl, b),
         NEW new \in Addr, new \notin g.used, FreePid(g) # 0,
         b2 > 0, b = 0 => new = IDLE,
         NEW s, WellFormed(s), NewlyListed(g, new, s),
         NEW h, h = add_to_ready_list(s, new)
  PROVE  /\ TableOK(h, c, [pl EXCEPT ![new] = "user"], b2) /\ StaysDead(g, h)
         /\ h.used = g.used \cup {new} /\ h.current_process = g.current_process
         /\ \A q \in g.used : h.state[q] = g.state[q]
<1> DEFINE n   == FreePid(g)
           i0  == FreeSlot(g)
           pl2 == [pl EXCEPT ![new] = "user"]
<1>0. /\ WellFormed(g) /\ g \in Globals /\ g.used \subseteq Addr /\ Slotted(g) /\ PidsTaken(g)
      /\ g.state \in [Addr -> STATUS] /\ g.pid \in [Addr -> Pids]
      /\ g.stack_pointer \in [Addr -> Addr \cup {NULL}] /\ pl \in [Addr -> Places]
      /\ NULL \notin Addr
  BY TableAssumption DEF TableOK, WellFormed, Globals
<1>2. n \in Slots /\ ~g.pids[n] /\ i0 \in Slots /\ g.processes_list[i0] = NULL
  BY <1>0, FreeSlotExists
<1>3. /\ WellFormed(h) /\ SameTable(s, h)
      /\ \A q : InRing(h, q) <=> InRing(s, q) \/ q = new
      /\ s.ready_list # <<>> => h.current_node = s.current_node
  BY add_to_ready_listRing
<1>4. /\ h.processes_list = [i \in Slots |-> IF i = i0 THEN new ELSE g.processes_list[i]]
      /\ h.pids = [i \in Slots |-> i = n \/ g.pids[i]]
      /\ h.used = g.used \cup {new} /\ h.pid = [g.pid EXCEPT ![new] = n]
      /\ h.state = [g.state EXCEPT ![new] = "READY"]
      /\ h.stack_pointer = [g.stack_pointer EXCEPT ![new] = new]
      /\ h.current_process = g.current_process
  BY <1>3 DEF NewlyListed, SameTable
<1>5. /\ \A q : InRing(h, q) <=> InRing(g, q) \/ q = new
      /\ InRing(g, g.current_node) => h.current_node = g.current_node
  BY <1>3 DEF NewlyListed, SameRing, InRing
<1>6. /\ \A q \in g.used : /\ q # new /\ h.state[q] = g.state[q] /\ h.pid[q] = g.pid[q]
                           /\ h.stack_pointer[q] = g.stack_pointer[q] /\ pl2[q] = pl[q]
      /\ h.state[new] = "READY" /\ h.pid[new] = n /\ h.stack_pointer[new] = new
      /\ pl2[new] = "user"
  BY <1>0, <1>4
<1>7. pl2 \in [Addr -> Places]
  BY <1>0 DEF Places
<1> HIDE DEF n, i0, pl2
<1>8. Slotted(h) /\ PidsTaken(h)
  BY <1>0, NewlyListedSlotted
<1>10. RingOK(h)
  BY <1>4, <1>5, <1>6 DEF TableOK, RingOK
<1>11. RunnerOK(h)
  <2> SUFFICES ASSUME NEW q \in h.used, h.state[q] = "RUNNING"
               PROVE  q = h.current_process /\ q = h.current_node
    BY DEF RunnerOK
  <2>1. q \in g.used /\ g.state[q] = "RUNNING"
    BY <1>4, <1>6
  <2>2. q = g.current_process /\ q = g.current_node /\ InRing(g, q)
    BY <2>1 DEF TableOK, RunnerOK, RingOK
  <2> QED BY <1>4, <1>5, <2>2
<1>12. ContextsOK(h, c)
  BY <1>4, <1>6 DEF TableOK, ContextsOK
<1>13. IdleReady(h, b2)
  <2>1. BOOT \in h.used /\ h.pid[BOOT] = 1 /\ h.state[BOOT] # "TERMINATED"
    BY <1>4, <1>6 DEF TableOK, IdleReady
  <2>2. CASE b > 0
    BY <1>4, <1>6, <2>1, <2>2 DEF TableOK, IdleReady
  <2>3. CASE b = 0
    <3>1. n = 2
      <4> DEFINE P == {i \in Slots : ~g.pids[i]}
      <4>1. \A i \in Slots : g.pids[i] <=> i = 1
        BY <2>3 DEF TableOK, IdleReady
      <4>2. 1 \in Slots /\ 2 \in Slots /\ P \subseteq Nat /\ 2 \in P
        BY <4>1, TableAssumption, KernelAssumption DEF Slots
      <4>3. First(P) \in P /\ \A j \in P : First(P) <= j
        BY <4>2, FirstIsLeast, Zenon
      <4>4. n \in P /\ n <= 2
        BY <4>2, <4>3 DEF n, FreePid
      <4>5. n \in Nat /\ n # 0 /\ n # 1
        BY <4>1, <4>2, <4>4, TableAssumption DEF Slots
      <4> QED BY <4>4, <4>5
    <3> QED BY <1>4, <1>6, <2>1, <2>3, <3>1
            DEF IdleReady
  <2> QED BY <2>2, <2>3
<1>14. PlacesOK(h, pl2)
  BY <1>4, <1>5, <1>6 DEF TableOK, PlacesOK
<1>15. StaysDead(g, h)
  BY <1>6 DEF StaysDead
<1> QED BY <1>3, <1>4, <1>7, <1>8, <1>10, <1>11, <1>12, <1>13, <1>14, <1>15 DEF TableOK, pl2

-----------------------------------------------------------------------------
(* How a handler ends.                                                     *)

LEMMA SafeFacts ==
  ASSUME SafeInv
  PROVE  /\ WellFormed(k) /\ k \in Globals /\ Machine(k, cpu, at) /\ at \in [Addr -> Places]
         /\ cpu \in Addr /\ cpu = Self /\ cpu = k.current_process /\ k.used \subseteq Addr
         /\ Slotted(k) /\ boot \in Nat /\ TableOK(k, cpu, at, boot) /\ CpuOK(k, cpu, at)
         /\ \A p \in Addr : k.pid[p] \in Pids
<1>1. k \in Globals /\ CpuOK(k, cpu, at) /\ boot \in 0..3 /\ Machine(k, cpu, at)
  BY DEF SafeInv, Safe, TableOK, WellFormed, IInv
<1>2. cpu = Self /\ cpu = k.current_process /\ cpu \in Addr
  BY <1>1 DEF CpuOK, Globals, Self
<1> QED BY <1>1, <1>2 DEF SafeInv, Safe, TableOK, Globals

\* A process that executes its program is running, and idle exists by then.
LEMMA InProgram ==
  ASSUME SafeInv, at[cpu] \in {"user", "wait", "sleep", "detached"}
  PROVE  /\ cpu \in k.used /\ k.state[cpu] = "RUNNING"
         /\ cpu # BOOT => boot > 0
<1>1. cpu \in k.used /\ k.state[cpu] = "RUNNING"
  BY SafeFacts DEF CpuOK, TableOK, PlacesOK
<1> QED BY <1>1, SafeFacts DEF TableOK, IdleReady

\* at may be read before or after those who were woken have left wait and sleep.
LEMMA UnblockedTable ==
  ASSUME NEW g, NEW c, NEW pl, NEW b, TableOK(g, c, pl, b)
  PROVE  TableOK(g, c, Unblocked(g, pl), b)
<1>1. Quiet(g, g)
  BY SameIsQuiet DEF SameRing
<1>2. WellFormed(g)
  BY DEF TableOK
<1> QED BY <1>1, <1>2, QuietTable

LEMMA NothingSafe ==
  ASSUME SafeInv, UNCHANGED vars
  PROVE  Safe(k', cpu', at', boot') /\ StaysDead(k, k')
BY DEF SafeInv, vars, StaysDead

\* iretq after steps that only wake processes up.
LEMMA ReturnSafe ==
  ASSUME SafeInv, NEW h, WellFormed(h), Quiet(k, h), Return(h)
  PROVE  Safe(k', cpu', at', boot) /\ StaysDead(k, k')
<1>1. Safe(k, cpu, at, boot)
  BY DEF SafeInv
<1>2. Safe(h, cpu, Unblocked(h, at), boot) /\ StaysDead(k, h)
  BY <1>1, QuietSafe
<1>3. Unblocked(h, at) = at' /\ k' = h /\ cpu' = cpu
  BY DEF Return
<1> QED BY <1>2, <1>3

LEMMA ReturnAsIs ==
  ASSUME SafeInv, Return(k)
  PROVE  Safe(k', cpu', at', boot) /\ StaysDead(k, k')
<1>1. Quiet(k, k)
  BY SameIsQuiet DEF SameRing
<1> QED BY <1>1, SafeFacts, ReturnSafe

\* A handler that calls the scheduler on globals h that are not those of k.
LEMMA ScheduleSafe ==
  ASSUME SafeInv, NEW h, NEW pl, PreScheduler(h, cpu, pl, boot), StaysDead(k, h),
         h.used \subseteq k.used, CallScheduler(h, pl)
  PROVE  Safe(k', cpu', at', boot) /\ StaysDead(k, k')
<1>1. Safe(k', cpu', at', boot) /\ StaysDead(h, k') /\ k'.used = h.used
  BY SafeFacts, CallSchedulerSafe
<1> QED BY <1>1 DEF StaysDead

-----------------------------------------------------------------------------
(* The system calls.                                                       *)

LEMMA CreatesSafe ==
  ASSUME SafeInv, cpu \in k.used, NEW b \in Nat, b > 0,
         NEW new \in Addr, boot = 0 => new = IDLE,
         NEW v \in Int, NEW fg \in BOOLEAN, NEW garbage \in Garbage,
         Creates(new, v, fg, garbage)
  PROVE  Safe(k', cpu', at', b) /\ StaysDead(k, k')
<1> DEFINE h  == createProcess(k, new, v, fg, garbage)
           pl == [at EXCEPT ![new] = "user"]
<1>1. /\ new \notin k.used /\ FreePid(k) # 0 /\ garbage \in 0..2
      /\ k' = h /\ at' = Unblocked(h, pl) /\ cpu' = cpu
  BY KernelAssumption DEF Creates, SafeInv, Disciplined
<1>2. /\ TableOK(h, cpu, pl, b) /\ StaysDead(k, h)
      /\ h.used = k.used \cup {new} /\ h.current_process = k.current_process
      /\ \A q \in k.used : h.state[q] = k.state[q]
  <2>1. TableOK(k, cpu, at, boot) /\ boot \in Nat /\ WellFormed(k)
    BY SafeFacts
  <2>2. PICK s : WellFormed(s) /\ NewlyListed(k, new, s) /\ h = add_to_ready_list(s, new)
    BY <1>1, <2>1, createProcessListed
  <2> HIDE DEF h
  <2> QED BY <1>1, <2>1, <2>2, NewProcessTable
<1> HIDE DEF h, pl
<1>3. TableOK(h, cpu, Unblocked(h, pl), b)
  BY <1>2, UnblockedTable
<1>4. CpuOK(h, cpu, Unblocked(h, pl))
  <2>1. h.state[cpu] = k.state[cpu]
    BY <1>2
  <2> QED BY <1>2, <2>1, SafeFacts DEF CpuOK
<1> QED BY <1>1, <1>2, <1>3, <1>4 DEF Safe

\* Somebody other than first_process and idle is killed.
LEMMA KillsSafe ==
  ASSUME SafeInv, NEW pid, Kills(pid)
  PROVE  Safe(k', cpu', at', boot) /\ StaysDead(k, k')
<1> DEFINE p == get_process_by_pid(k, pid)
           h == Killed(k, p)
<1>1. CASE pid < 3 \/ p = NULL
  BY <1>1, ReturnAsIs DEF Kills
<1>2. CASE ~(pid < 3 \/ p = NULL)
  <2>1. CallScheduler(h, at)
    BY <1>2, Zenon DEF Kills
  <2>2. p \in k.used /\ k.pid[p] = pid
    BY <1>2, SafeFacts, Lookup
  <2>3. p # BOOT /\ (boot > 0 => p # IDLE) /\ boot > 0
    <3>1. TableOK(k, cpu, at, boot) /\ boot \in Nat
      BY SafeFacts
    <3>2. ~(pid < 3)
      BY <1>2
    <3> HIDE DEF p
    <3>3. p # BOOT /\ (boot > 0 => p # IDLE)
      BY <2>2, <3>1, <3>2 DEF TableOK, IdleReady
    <3> QED BY <2>2, <3>1, <3>3 DEF TableOK, IdleReady
  <2> HIDE DEF p
  <2>4. Gone(k, h, p) /\ WellFormed(h)
    BY <2>2, SafeFacts, KilledGone
  <2> HIDE DEF h
  <2>5. TableOK(h, cpu, Unblocked(h, at), boot) /\ StaysDead(k, h)
    BY <2>2, <2>3, <2>4, SafeFacts, GoneTable
  <2>6. PreScheduler(h, cpu, at, boot)
    <3>1. cpu = h.current_process /\ h.used = k.used \ {p} /\ h.pid = k.pid
      BY <2>4, SafeFacts DEF Gone
    <3>2. cpu \in h.used => h.state[cpu] # "READY"
      BY <2>4, <3>1, SafeFacts DEF Gone, Wakes, CpuOK
    <3>3. ASSUME cpu \notin h.used, KeepsCpu(h)
          PROVE  at[cpu] \in {"released", "returned"} /\ \A q \in h.used : h.pid[q] # h.pid[cpu]
      <4>1. cpu # p
        BY <2>4, <3>1, <3>3 DEF Gone, KeepsCpu
      <4>2. cpu \notin k.used
        BY <3>1, <3>3, <4>1
      <4> QED BY <3>1, <4>2, SafeFacts DEF CpuOK
    <3> QED BY <2>5, <3>1, <3>2, <3>3, SafeFacts DEF PreScheduler
  <2>7. h.used \subseteq k.used
    BY <2>4 DEF Gone
  <2> QED BY <2>1, <2>5, <2>6, <2>7, ScheduleSafe
<1> QED BY <1>1, <1>2

\* Somebody blocks another process: never idle, never the caller.
LEMMA BlockSafe ==
  ASSUME SafeInv, NEW pid, Block(pid)
  PROVE  Safe(k', cpu', at', boot') /\ StaysDead(k, k')
<1> DEFINE p == get_process_by_pid(k, pid)
           h == block_process(k, pid)
<1>1. /\ pid # k.pid[cpu] /\ pid # 2 /\ Return(h) /\ boot' = boot
      /\ cpu \notin {BOOT, IDLE} /\ at[cpu] = "user"
  BY SafeFacts DEF Block, SafeInv, Disciplined, Allowed, Program
<1>2. CASE p # NULL /\ k.state[p] \in {"RUNNING", "READY"}
  <2>1. p \in k.used /\ k.pid[p] = pid
    BY <1>2, SafeFacts, Lookup
  <2>2. boot > 0 /\ p # IDLE /\ p # cpu
    <3>1. boot > 0
      BY <1>1, InProgram
    <3> HIDE DEF p
    <3>2. k.pid[IDLE] = 2
      BY <3>1, SafeFacts DEF TableOK, IdleReady
    <3> QED BY <1>1, <2>1, <3>1, <3>2
  <2>3. k.state[p] \in {"RUNNING", "READY"} /\ block_process(k, k.pid[p]) = h
    BY <1>2, <2>1
  <2> HIDE DEF p, h
  <2>4. [at EXCEPT ![p] = at[p]] = at
    BY SafeFacts
  <2>5. /\ TableOK(h, cpu, at, boot) /\ StaysDead(k, h)
        /\ h.used = k.used /\ h.pid = k.pid /\ h.current_process = k.current_process
        /\ h.state = [k.state EXCEPT ![p] = "BLOCKED"]
    <3>1. TableOK(k, cpu, at, boot) /\ at[p] \in {at[p], "wait", "sleep"}
      BY SafeFacts
    <3>2. NowBlocked(k, h, cpu, at, boot, p, at[p])
      BY <2>1, <2>2, <2>3, <3>1, block_processTable
    <3> QED BY <2>4, <3>2 DEF NowBlocked
  <2>6. TableOK(h, cpu, Unblocked(h, at), boot)
    BY <2>5, UnblockedTable
  <2>7. CpuOK(h, cpu, Unblocked(h, at))
    <3>1. h.state[cpu] = k.state[cpu]
      BY <2>2, <2>5, SafeFacts DEF Globals
    <3>2. cpu \in k.used
      BY <1>1, InProgram
    <3> QED BY <2>5, <3>1, <3>2, SafeFacts DEF CpuOK
  <2> QED BY <1>1, <2>5, <2>6, <2>7 DEF Safe, Return
<1>3. CASE ~(p # NULL /\ k.state[p] \in {"RUNNING", "READY"})
  <2>1. h = k
    BY <1>3 DEF block_process
  <2> QED BY <1>1, <2>1, ReturnAsIs
<1> QED BY <1>2, <1>3

LEMMA UnblockSafe ==
  ASSUME SafeInv, NEW pid, Unblock(pid)
  PROVE  Safe(k', cpu', at', boot') /\ StaysDead(k, k')
<1>1. Return(unblock_process(k, pid)) /\ boot' = boot
  BY DEF Unblock
<1>2. Quiet(k, unblock_process(k, pid)) /\ WellFormed(unblock_process(k, pid))
  BY SafeFacts, unblock_processQuiet, unblock_processWellFormed
<1> QED BY <1>1, <1>2, ReturnSafe

LEMMA NiceSafe ==
  ASSUME SafeInv, NEW pid, NEW v \in Int, Nice(pid, v)
  PROVE  Safe(k', cpu', at', boot') /\ StaysDead(k, k')
<1> DEFINE h == modify_priority(k, pid, v, Quanta)
<1>1. Return(h) /\ boot' = boot
  BY DEF Nice
<1>2. WellFormed(h)
  BY SafeFacts, modify_priorityWellFormed
<1>3. Quiet(k, h)
  <2>1. /\ h.processes_list = k.processes_list /\ h.pids = k.pids /\ h.used = k.used
        /\ h.pid = k.pid /\ h.state = k.state /\ h.stack_pointer = k.stack_pointer
        /\ h.current_process = k.current_process /\ SameRing(k, h)
    BY SafeFacts DEF modify_priority, Globals, SameRing
  <2> QED BY <2>1, SameIsQuiet
<1> QED BY <1>1, <1>2, <1>3, ReturnSafe

\* The caller of wait or of sleep blocks, and another process takes the CPU.
LEMMA BlocksItself ==
  ASSUME SafeInv, cpu \in k.used, k.state[cpu] = "RUNNING", boot > 0, cpu # IDLE,
         NEW place \in {"wait", "sleep"},
         NEW g, WellFormed(g), Quiet(k, g), g.state[cpu] = "RUNNING",
         TableOK(g, cpu, at, boot),
         NEW h, h = block_process(g, g.pid[cpu]), CallScheduler(h, [at EXCEPT ![cpu] = place])
  PROVE  Safe(k', cpu', at', boot) /\ StaysDead(k, k')
<1> DEFINE pl == [at EXCEPT ![cpu] = place]
<1>1. cpu \in g.used /\ g.used = k.used /\ cpu = g.current_process /\ g.state \in [Addr -> STATUS]
  BY SafeFacts DEF Quiet, WellFormed, Globals
<1>2. NowBlocked(g, h, cpu, at, boot, cpu, place)
  <2>1. place \in {at[cpu], "wait", "sleep"} /\ g.state[cpu] \in {"RUNNING", "READY"}
    OBVIOUS
  <2> QED BY <1>1, <2>1, block_processTable
<1>3. /\ TableOK(h, cpu, pl, boot) /\ StaysDead(g, h) /\ h.used = g.used
      /\ h.current_process = g.current_process /\ h.state = [g.state EXCEPT ![cpu] = "BLOCKED"]
  BY <1>2 DEF NowBlocked
<1>4. pl \in [Addr -> Places]
  BY <1>3 DEF TableOK
<1> HIDE DEF pl
<1>5. PreScheduler(h, cpu, pl, boot)
  <2>1. h.state[cpu] = "BLOCKED"
    BY <1>1, <1>3, SafeFacts
  <2> QED BY <1>1, <1>3, <1>4, <2>1, UnblockedTable DEF PreScheduler
<1>6. StaysDead(k, h)
  BY <1>1, <1>3 DEF StaysDead, Quiet, Wakes
<1> QED BY <1>1, <1>3, <1>5, <1>6, ScheduleSafe DEF pl

LEMMA WaitsSafe ==
  ASSUME SafeInv, cpu \in k.used, k.state[cpu] = "RUNNING", boot > 0, cpu # IDLE, Waits
  PROVE  Safe(k', cpu', at', boot) /\ StaysDead(k, k')
<1> DEFINE g == [k EXCEPT !.waiting_on_child[Self] = 1]
           h == block_process(g, k.pid[Self])
<1>1. CASE k.children[Self] # {}
  <2>1. CallScheduler(h, [at EXCEPT ![cpu] = "wait"])
    BY <1>1 DEF Waits
  <2>2. /\ g \in Globals /\ SameRing(k, g) /\ g.processes_list = k.processes_list
        /\ g.pids = k.pids /\ g.used = k.used /\ g.pid = k.pid /\ g.state = k.state
        /\ g.stack_pointer = k.stack_pointer /\ g.current_process = k.current_process
    <3>1. Self \in Addr /\ 1 \in 0..2 /\ k \in Globals
      BY SafeFacts
    <3>2. g \in Globals /\ SameRing(k, g)
      BY <3>1 DEF Globals, SameRing
    <3>3. /\ g.processes_list = k.processes_list /\ g.pids = k.pids /\ g.used = k.used
          /\ g.pid = k.pid /\ g.state = k.state /\ g.stack_pointer = k.stack_pointer
          /\ g.current_process = k.current_process
      BY <3>1 DEF Globals
    <3> QED BY <3>2, <3>3
  <2>3. h = block_process(g, g.pid[cpu])
    BY <2>2, SafeFacts
  <2> HIDE DEF g, h
  <2>4. WellFormed(g) /\ Quiet(k, g)
    BY <2>2, SafeFacts, SameRingWellFormed, SameIsQuiet
  <2>5. TableOK(g, cpu, at, boot)
    <3>1. \A q : InRing(g, q) <=> InRing(k, q)
      BY <2>2 DEF SameRing, InRing
    <3> QED BY <2>2, <2>4, <3>1, SafeFacts
            DEF TableOK, Slotted, Listed, PidsTaken, RingOK, RunnerOK, ContextsOK, IdleReady,
                PlacesOK, SameRing
  <2>6. g.state[cpu] = "RUNNING"
    BY <2>2
  <2> QED BY <2>1, <2>3, <2>4, <2>5, <2>6, BlocksItself
<1>2. CASE k.children[Self] = {}
  BY <1>2, ReturnAsIs DEF Waits
<1> QED BY <1>1, <1>2

LEMMA SleepSafe ==
  ASSUME SafeInv, NEW n, Sleep(n)
  PROVE  Safe(k', cpu', at', boot') /\ StaysDead(k, k')
<1> DEFINE h == block_process(k, k.pid[Self])
<1>1. /\ CallScheduler(h, [at EXCEPT ![cpu] = "sleep"]) /\ boot' = boot
      /\ at[cpu] = "user" /\ cpu \notin {BOOT, IDLE}
  BY DEF Sleep, Allowed, Program
<1>2. cpu \in k.used /\ k.state[cpu] = "RUNNING" /\ boot > 0
  BY <1>1, InProgram
<1>3. Quiet(k, k) /\ h = block_process(k, k.pid[cpu])
  BY SafeFacts, SameIsQuiet DEF SameRing
<1> HIDE DEF h
<1> QED BY <1>1, <1>2, <1>3, SafeFacts, BlocksItself

\* The entry of the pool that PidGivenBack clears is that of the current process.
LEMMA PidGivenBackFields ==
  ASSUME NEW g, WellFormed(g)
  PROVE  LET h == PidGivenBack(g)
         IN  /\ WellFormed(h) /\ SameRing(g, h) /\ h.processes_list = g.processes_list
             /\ h.used = g.used /\ h.pid = g.pid /\ h.state = g.state /\ h.counter = g.counter
             /\ h.stack_pointer = g.stack_pointer /\ h.current_process = g.current_process
             /\ \A i \in Slots : h.pids[i] = (g.pids[i] /\ i # g.pid[g.current_process])
<1>1. WellFormed(PidGivenBack(g))
  BY PidGivenBackWellFormed
<1> QED BY <1>1 DEF PidGivenBack, WellFormed, Globals, SameRing

LEMMA EndProcessSafe ==
  ASSUME SafeInv, EndProcess
  PROVE  Safe(k', cpu', at', boot') /\ StaysDead(k, k')
<1> DEFINE r == remove_from_processes_list(k, cpu)
           h == PidGivenBack(r)
<1>1. /\ CallScheduler(h, at) /\ boot' = boot /\ at[cpu] = "user" /\ cpu \notin {BOOT, IDLE}
  BY SafeFacts DEF EndProcess, Allowed, Program
<1>2. cpu \in k.used /\ boot > 0
  BY <1>1, InProgram
<1>3. Gone(k, r, cpu) /\ WellFormed(r)
  BY <1>2, SafeFacts, remove_from_processes_listGone
<1> HIDE DEF r
<1>4. /\ WellFormed(h) /\ SameRing(r, h) /\ h.processes_list = r.processes_list
      /\ h.used = r.used /\ h.pid = r.pid /\ h.state = r.state
      /\ h.stack_pointer = r.stack_pointer /\ h.current_process = r.current_process
      /\ \A i \in Slots : h.pids[i] = (r.pids[i] /\ i # r.pid[r.current_process])
  BY <1>3, PidGivenBackFields
<1> HIDE DEF h
<1>5. Gone(k, h, cpu)
  <2>1. r.pid[r.current_process] = k.pid[cpu] /\ r.current_process = cpu
    BY <1>3, SafeFacts DEF Gone
  <2>2. \A i \in Slots : i # k.pid[cpu] => h.pids[i] = k.pids[i]
    <3> SUFFICES ASSUME NEW i \in Slots, i # k.pid[cpu] PROVE h.pids[i] = k.pids[i]
      OBVIOUS
    <3>1. h.pids[i] = (r.pids[i] /\ TRUE) /\ r.pids[i] = k.pids[i]
      BY <1>3, <1>4, <2>1 DEF Gone
    <3>2. k.pids[i] \in BOOLEAN
      BY SafeFacts DEF Globals
    <3> QED BY <3>1, <3>2
  <2>3. Slotted(h)
    BY <1>3, <1>4 DEF Gone, Slotted, Listed
  <2>4. \A q : InRing(h, q) <=> InRing(r, q)
    BY <1>4 DEF SameRing, InRing
  <2> QED BY <1>3, <1>4, <2>2, <2>3, <2>4 DEF Gone, SameRing, Wakes
<1>6. TableOK(h, cpu, Unblocked(h, at), boot) /\ StaysDead(k, h)
  BY <1>1, <1>2, <1>4, <1>5, SafeFacts, GoneTable
<1>7. cpu = h.current_process /\ h.used = k.used \ {cpu} /\ h.state[cpu] = "TERMINATED"
  BY <1>5, SafeFacts DEF Gone
<1>8. PreScheduler(h, cpu, at, boot)
  BY <1>6, <1>7, SafeFacts DEF PreScheduler, KeepsCpu
<1> QED BY <1>1, <1>6, <1>7, <1>8, ScheduleSafe

-----------------------------------------------------------------------------
(* The steps of exit_process.                                              *)

LEMMA ExitDetachSafe ==
  ASSUME SafeInv, ExitDetach
  PROVE  Safe(k', cpu', at', boot') /\ StaysDead(k, k')
<1> DEFINE h   == DetachFromParent(k, cpu)
           pl  == [at EXCEPT ![cpu] = "detached"]
           pl2 == Unblocked(h, pl)
<1>1. at[cpu] = "user"
  BY DEF ExitDetach, Exiting
<1>2. cpu \in k.used /\ k.state[cpu] = "RUNNING"
  BY <1>1, InProgram
<1>3. Exiting("user", "detached", h)
  <2>1. foundprocess(k, k.pid[cpu]) \in Slots
    BY <1>2, SafeFacts, Lookup
  <2>2. foundprocess(k, k.pid[Self]) # 0
    BY <2>1, SafeFacts, TableAssumption DEF Slots
  <2> QED BY <2>2, SafeFacts DEF ExitDetach
<1>4. WellFormed(h) /\ Quiet(k, h)
  BY SafeFacts, DetachFromParentWellFormed, DetachFromParentQuiet
<1> HIDE DEF h
<1>5. TableOK(k, cpu, pl, boot)
  <2>1. /\ pl \in [Addr -> Places]
        /\ \A q \in k.used : pl[q] = IF q = cpu THEN "detached" ELSE at[q]
    BY SafeFacts DEF Places
  <2> HIDE DEF pl
  <2>2. PlacesOK(k, pl)
    BY <1>2, <2>1, SafeFacts DEF TableOK, PlacesOK
  <2> QED BY <2>1, <2>2, SafeFacts DEF TableOK
<1>6. TableOK(h, cpu, pl2, boot) /\ StaysDead(k, h)
  BY <1>4, <1>5, QuietTable
<1>7. CpuOK(h, cpu, pl2)
  BY <1>2, <1>4, SafeFacts DEF CpuOK, Quiet, Wakes
<1>8. k' = h /\ cpu' = cpu /\ boot' = boot /\ at' = pl2
  BY <1>3 DEF Exiting
<1> QED BY <1>6, <1>7, <1>8 DEF Safe

LEMMA ExitTerminateSafe ==
  ASSUME SafeInv, ExitTerminate
  PROVE  Safe(k', cpu', at', boot') /\ StaysDead(k, k')
<1> DEFINE h  == Terminate(k, cpu)
           pl == [at EXCEPT ![cpu] = "terminated"]
<1>1. /\ at[cpu] = "detached" /\ cpu \notin {BOOT, IDLE}
      /\ k' = h /\ cpu' = cpu /\ boot' = boot /\ at' = Unblocked(h, pl)
  BY SafeFacts DEF ExitTerminate, Exiting
<1>2. cpu \in k.used /\ boot > 0
  BY <1>1, InProgram
<1>3. /\ WellFormed(h) /\ SameProcesses(k, h) /\ SameRing(k, h)
      /\ h.stack_pointer = k.stack_pointer /\ h.current_process = k.current_process
      /\ h.state[cpu] = "TERMINATED" /\ \A q \in Addr : q # cpu => h.state[q] = k.state[q]
  BY SafeFacts, TerminateFields
<1> HIDE DEF h
<1>4. /\ pl \in [Addr -> Places]
      /\ \A q \in k.used : pl[q] = IF q = cpu THEN "terminated" ELSE at[q]
  BY SafeFacts DEF Places
<1> HIDE DEF pl
<1>5. \A q \in k.used : h.state[q] = IF q = cpu THEN "TERMINATED" ELSE k.state[q]
  BY <1>3, SafeFacts
<1>6. h.used = k.used /\ h.pid = k.pid /\ h.pids = k.pids /\ h.processes_list = k.processes_list
  BY <1>3 DEF SameProcesses
<1>7. h.current_node = k.current_node /\ \A q : InRing(h, q) <=> InRing(k, q)
  BY <1>3 DEF SameRing, InRing
<1>8. Slotted(h) /\ PidsTaken(h)
  BY <1>6, SafeFacts DEF TableOK, Slotted, Listed, PidsTaken
<1>9. RingOK(h) /\ RunnerOK(h)
  BY <1>3, <1>5, <1>6, <1>7, SafeFacts DEF TableOK, RingOK, RunnerOK
<1>10. ContextsOK(h, cpu) /\ IdleReady(h, boot)
  BY <1>1, <1>2, <1>3, <1>5, <1>6, SafeFacts DEF TableOK, ContextsOK, IdleReady
<1>11. PlacesOK(h, pl)
  BY <1>4, <1>5, <1>6, <1>7, SafeFacts DEF TableOK, PlacesOK
<1>12. TableOK(h, cpu, pl, boot)
  BY <1>3, <1>4, <1>8, <1>9, <1>10, <1>11 DEF TableOK
<1>13. CpuOK(h, cpu, Unblocked(h, pl))
  BY <1>2, <1>3, <1>6, SafeFacts DEF CpuOK
<1>14. StaysDead(k, h)
  BY <1>5, <1>6 DEF StaysDead
<1> QED BY <1>1, <1>12, <1>13, <1>14, UnblockedTable DEF Safe

\* A thread that is past Terminate is in the table until ExitRelease.
LEMMA Dying ==
  ASSUME SafeInv, at[cpu] \in {"terminated", "dequeued"}
  PROVE  /\ cpu \in k.used /\ k.state[cpu] = "TERMINATED"
         /\ at[cpu] = "dequeued" => ~InRing(k, cpu)
<1>1. cpu \in k.used
  BY SafeFacts DEF CpuOK
<1> QED BY <1>1, SafeFacts DEF TableOK, PlacesOK

LEMMA ExitDequeueSafe ==
  ASSUME SafeInv, ExitDequeue
  PROVE  Safe(k', cpu', at', boot') /\ StaysDead(k, k')
<1> DEFINE h  == remove_from_ready_list(k, cpu)
           pl == [at EXCEPT ![cpu] = "dequeued"]
<1>1. /\ at[cpu] = "terminated" /\ cpu \notin {BOOT, IDLE}
      /\ k' = h /\ cpu' = cpu /\ boot' = boot /\ at' = Unblocked(h, pl)
  BY SafeFacts DEF ExitDequeue, Exiting
<1>2. cpu \in k.used /\ k.state[cpu] = "TERMINATED"
  BY <1>1, Dying
<1>3. /\ WellFormed(h) /\ SameTable(k, h)
      /\ \A q : InRing(h, q) <=> InRing(k, q) /\ q # cpu
      /\ k.current_node # cpu /\ (\E q : InRing(h, q)) => h.current_node = k.current_node
  BY SafeFacts, remove_from_ready_listRing
<1> HIDE DEF h
<1>4. /\ pl \in [Addr -> Places]
      /\ \A q \in k.used : pl[q] = IF q = cpu THEN "dequeued" ELSE at[q]
  BY SafeFacts DEF Places
<1> HIDE DEF pl
<1>5. /\ h.used = k.used /\ h.pid = k.pid /\ h.pids = k.pids /\ h.processes_list = k.processes_list
      /\ h.state = k.state /\ h.stack_pointer = k.stack_pointer
      /\ h.current_process = k.current_process
  BY <1>3 DEF SameTable
<1>6. Slotted(h) /\ PidsTaken(h)
  BY <1>5, SafeFacts DEF TableOK, Slotted, Listed, PidsTaken
<1>7. RingOK(h)
  BY <1>2, <1>3, <1>5, SafeFacts DEF TableOK, RingOK
<1>8. RunnerOK(h)
  <2> SUFFICES ASSUME NEW q \in k.used, k.state[q] = "RUNNING"
               PROVE  q = h.current_process /\ q = h.current_node
    BY <1>5 DEF RunnerOK
  <2>1. q = cpu
    BY SafeFacts DEF TableOK, RunnerOK
  <2> QED BY <1>2, <2>1
<1>9. ContextsOK(h, cpu) /\ IdleReady(h, boot)
  BY <1>5, SafeFacts DEF TableOK, ContextsOK, IdleReady
<1>10. PlacesOK(h, pl)
  BY <1>2, <1>3, <1>4, <1>5, SafeFacts DEF TableOK, PlacesOK
<1>11. TableOK(h, cpu, pl, boot)
  BY <1>3, <1>4, <1>6, <1>7, <1>8, <1>9, <1>10 DEF TableOK
<1>12. CpuOK(h, cpu, Unblocked(h, pl))
  BY <1>2, <1>5, SafeFacts DEF CpuOK
<1>13. StaysDead(k, h)
  BY <1>5 DEF StaysDead
<1> QED BY <1>1, <1>11, <1>12, <1>13, UnblockedTable DEF Safe

LEMMA ExitReleaseSafe ==
  ASSUME SafeInv, ExitRelease
  PROVE  Safe(k', cpu', at', boot') /\ StaysDead(k, k')
<1> DEFINE h  == ReleaseSlot(k, cpu)
           pl == [at EXCEPT ![cpu] = "released"]
<1>1. /\ at[cpu] = "dequeued" /\ cpu \notin {BOOT, IDLE}
      /\ k' = h /\ cpu' = cpu /\ boot' = boot /\ at' = Unblocked(h, pl)
  BY SafeFacts DEF ExitRelease, Exiting
<1>2. cpu \in k.used /\ k.state[cpu] = "TERMINATED" /\ ~InRing(k, cpu)
  BY <1>1, Dying
<1>3. WellFormed(h) /\ Gone(k, h, cpu)
  BY <1>2, SafeFacts, ReleaseSlotWellFormed, ReleaseSlotGone
<1> HIDE DEF h
<1>4. boot > 0
  BY <1>1, <1>2, SafeFacts DEF TableOK, IdleReady
<1>5. /\ TableOK(h, cpu, Unblocked(h, at), boot) /\ StaysDead(k, h)
      /\ \A q \in h.used : h.pid[q] # k.pid[cpu]
  BY <1>1, <1>2, <1>3, <1>4, SafeFacts, GoneTable
<1>6. h.used = k.used \ {cpu} /\ h.pid = k.pid /\ h.current_process = cpu
  BY <1>3, SafeFacts DEF Gone
<1>7. /\ at' \in [Addr -> Places] /\ at'[cpu] = "released"
      /\ \A q \in h.used : at'[q] = Unblocked(h, at)[q]
  <2>1. /\ pl \in [Addr -> Places] /\ pl[cpu] = "released"
        /\ \A q \in h.used : q \in Addr /\ pl[q] = at[q]
    BY <1>6, SafeFacts DEF Places
  <2> HIDE DEF pl
  <2>2. at' \in [Addr -> Places]
    BY <1>1, <2>1, UnblockedType
  <2>3. at'[cpu] = "released"
    BY <1>1, <2>1, SafeFacts DEF Unblocked
  <2>4. \A q \in h.used : at'[q] = Unblocked(h, at)[q]
    BY <1>1, <2>1 DEF Unblocked
  <2> QED BY <2>2, <2>3, <2>4
<1>8. TableOK(h, cpu, at', boot)
  <2>1. PlacesOK(h, at')
    BY <1>5, <1>7 DEF TableOK, PlacesOK
  <2> QED BY <1>5, <1>7, <2>1 DEF TableOK
<1>9. CpuOK(h, cpu, at')
  BY <1>5, <1>6, <1>7 DEF CpuOK
<1> QED BY <1>1, <1>5, <1>8, <1>9 DEF Safe

\* The entry that the end of an exit clears is that of no process of the table.
LEMMA ExitFinishSafe ==
  ASSUME SafeInv, ExitFinish
  PROVE  Safe(k', cpu', at', boot') /\ StaysDead(k, k')
<1> DEFINE h     == PidGivenBack(k)
           place == IF KeepsCpu(h) THEN "returned" ELSE "user"
           pl    == [at EXCEPT ![cpu] = place]
<1>1. at[cpu] = "released" /\ CallScheduler(h, pl) /\ boot' = boot
  BY DEF ExitFinish
<1>2. cpu \notin k.used /\ \A q \in k.used : k.pid[q] # k.pid[cpu]
  BY <1>1, SafeFacts DEF TableOK, PlacesOK, CpuOK
<1>3. /\ WellFormed(h) /\ SameRing(k, h) /\ h.processes_list = k.processes_list
      /\ h.used = k.used /\ h.pid = k.pid /\ h.state = k.state /\ h.counter = k.counter
      /\ h.stack_pointer = k.stack_pointer /\ h.current_process = k.current_process
      /\ \A i \in Slots : h.pids[i] = (k.pids[i] /\ i # k.pid[k.current_process])
  BY SafeFacts, PidGivenBackFields
<1> HIDE DEF h
<1>4. /\ pl \in [Addr -> Places] /\ (KeepsCpu(h) => pl[cpu] = "returned")
      /\ \A q \in k.used : q \in Addr /\ pl[q] = at[q]
  <2>1. place \in Places
    BY DEF Places
  <2> HIDE DEF place
  <2>2. pl \in [Addr -> Places] /\ pl[cpu] = place /\ \A q \in k.used : q \in Addr /\ pl[q] = at[q]
    BY <1>2, <2>1, SafeFacts
  <2> QED BY <2>2 DEF place
<1> HIDE DEF pl
<1>5. \A i \in Slots : i # k.pid[cpu] => h.pids[i] = k.pids[i]
  <2> SUFFICES ASSUME NEW i \in Slots, i # k.pid[cpu] PROVE h.pids[i] = k.pids[i]
    OBVIOUS
  <2>1. h.pids[i] = (k.pids[i] /\ TRUE) /\ k.pids[i] \in BOOLEAN
    BY <1>3, SafeFacts DEF Globals
  <2> QED BY <2>1
<1>6. PidsTaken(h)
  <2> SUFFICES ASSUME NEW q \in k.used PROVE k.pid[q] # 0 /\ h.pids[k.pid[q]]
    BY <1>3 DEF PidsTaken
  <2>1. k.pid[q] # 0 /\ k.pids[k.pid[q]] /\ k.pid[q] \in Pids
    BY SafeFacts DEF TableOK, PidsTaken
  <2>2. k.pid[q] \in Slots
    BY <2>1, TableAssumption DEF Pids, Slots
  <2> QED BY <1>2, <1>5, <2>1, <2>2
<1>7. IdleReady(h, boot)
  <2>1. k.pid[cpu] # 1
    BY <1>2, SafeFacts DEF TableOK, IdleReady
  <2>2. ASSUME boot = 0 PROVE \A i \in Slots : h.pids[i] <=> i = 1
    <3>1. \A i \in Slots : k.pids[i] <=> i = 1
      BY <2>2, SafeFacts DEF TableOK, IdleReady
    <3> QED BY <1>3, <2>1, <3>1, SafeFacts
  <2> QED BY <1>3, <2>2, SafeFacts DEF TableOK, IdleReady
<1>8. h.current_node = k.current_node /\ \A q : InRing(h, q) <=> InRing(k, q)
  BY <1>3 DEF SameRing, InRing
<1>9. TableOK(h, cpu, pl, boot)
  <2>1. Slotted(h) /\ RingOK(h) /\ RunnerOK(h) /\ ContextsOK(h, cpu)
    BY <1>3, <1>8, SafeFacts DEF TableOK, Slotted, Listed, RingOK, RunnerOK, ContextsOK
  <2>2. PlacesOK(h, pl)
    BY <1>3, <1>4, <1>8, SafeFacts DEF TableOK, PlacesOK
  <2> QED BY <1>3, <1>4, <1>6, <1>7, <2>1, <2>2 DEF TableOK
<1>10. PreScheduler(h, cpu, pl, boot)
  BY <1>2, <1>3, <1>4, <1>9, SafeFacts, UnblockedTable DEF PreScheduler
<1>11. StaysDead(k, h) /\ h.used \subseteq k.used
  BY <1>3 DEF StaysDead
<1> QED BY <1>1, <1>10, <1>11, ScheduleSafe

-----------------------------------------------------------------------------
(* Interrupts and the program of first_process.                            *)

\* A wakeup may write over the state that the kernel reads in a freed PCB.
LEMMA TickScanSafe ==
  ASSUME SafeInv, TickScan, WellFormed(k')
  PROVE  Safe(k', cpu', at', boot') /\ StaysDead(k, k')
<1>1. ASSUME UNCHANGED <<k, cpu, at, boot>>
      PROVE  Safe(k', cpu', at', boot') /\ StaysDead(k, k')
  BY <1>1 DEF SafeInv, StaysDead
<1>2. ASSUME NEW pid, NEW seen, UNCHANGED <<cpu, boot>>, at' = Unblocked(k', at),
             k' = [unblock_process(k, pid) EXCEPT !.state[Self] =
                      IF Self \in k.used THEN @ ELSE seen]
      PROVE  Safe(k', cpu', at', boot') /\ StaysDead(k, k')
  <2> DEFINE g  == unblock_process(k, pid)
             st == IF cpu \in k.used THEN g.state[cpu] ELSE seen
  <2>1. WellFormed(g) /\ Quiet(k, g)
    BY SafeFacts, unblock_processWellFormed, unblock_processQuiet
  <2>2. k' = [g EXCEPT !.state[cpu] = st]
    BY <1>2, SafeFacts
  <2>3. cpu \in k.used => st = g.state[cpu]
    OBVIOUS
  <2> HIDE DEF g, st
  <2>4. \A q \in k.used : k'.state[q] = g.state[q]
    BY <2>1, <2>2, <2>3, SafeFacts DEF WellFormed, Globals
  <2>5. /\ k'.processes_list = g.processes_list /\ k'.pids = g.pids /\ k'.used = g.used
        /\ k'.pid = g.pid /\ k'.stack_pointer = g.stack_pointer
        /\ k'.current_process = g.current_process /\ SameRing(g, k')
    BY <2>1, <2>2 DEF WellFormed, Globals, SameRing
  <2>6. Quiet(g, k')
    <3>1. g.used = k.used
      BY <2>1 DEF Quiet
    <3> QED BY <2>4, <2>5, <3>1, SameIsQuiet
  <2>7. Quiet(k, k')
    BY <2>1, <2>6, QuietTransitive
  <2>8. Return(k') /\ boot' = boot
    BY <1>2 DEF Return
  <2> QED BY <2>7, <2>8, ReturnSafe
<1> QED BY <1>1, <1>2 DEF TickScan

LEMMA TickEndSafe ==
  ASSUME SafeInv, TickEnd
  PROVE  Safe(k', cpu', at', boot') /\ StaysDead(k, k')
<1>1. CallScheduler(k, at) /\ boot' = boot
  BY DEF TickEnd
<1>2. PreScheduler(k, cpu, at, boot)
  BY SafeFacts, UnblockedTable DEF PreScheduler, CpuOK
<1> QED BY <1>1, <1>2, ScheduleSafe DEF StaysDead

LEMMA BootSafe ==
  ASSUME SafeInv, Boot
  PROVE  Safe(k', cpu', at', boot') /\ StaysDead(k, k')
<1>0. /\ cpu = BOOT /\ boot \in Nat /\ boot' = boot + 1 /\ boot' > 0 /\ BOOT \in k.used
      /\ k.state[BOOT] = "RUNNING" /\ BOOT # IDLE /\ IDLE \in Addr
      /\ LOW \in Int /\ NORMAL \in Int /\ TRUE \in BOOLEAN
  <2>1. cpu = BOOT /\ boot \in Nat /\ boot' = boot + 1
    BY SafeFacts DEF Boot
  <2>2. BOOT \in k.used /\ k.state[BOOT] # "TERMINATED"
    BY SafeFacts DEF TableOK, IdleReady
  <2> QED BY <2>1, <2>2, SafeFacts, KernelAssumption DEF CpuOK
<1>1. ASSUME boot = 0, NEW garbage \in Garbage, Creates(IDLE, LOW, TRUE, garbage)
      PROVE  Safe(k', cpu', at', boot') /\ StaysDead(k, k')
  <2>1. \E b \in Nat : b = boot' /\ b > 0
    BY <1>0
  <2>2. cpu \in k.used /\ (boot = 0 => IDLE = IDLE)
    BY <1>0
  <2> QED BY <1>0, <1>1, <2>1, <2>2, CreatesSafe
<1>2. ASSUME boot = 1, NEW shell \in Addr, NEW garbage \in Garbage,
             Creates(shell, NORMAL, TRUE, garbage)
      PROVE  Safe(k', cpu', at', boot') /\ StaysDead(k, k')
  <2>1. \E b \in Nat : b = boot' /\ b > 0
    BY <1>0
  <2>2. cpu \in k.used /\ (boot = 0 => shell = IDLE)
    BY <1>0, <1>2
  <2> QED BY <1>0, <1>2, <2>1, <2>2, CreatesSafe
<1>3. ASSUME boot = 2, Waits
      PROVE  Safe(k', cpu', at', boot') /\ StaysDead(k, k')
  <2>1. Safe(k', cpu', at', boot) /\ StaysDead(k, k')
    BY <1>0, <1>3, WaitsSafe
  <2> QED BY <1>0, <1>3, <2>1 DEF Safe, TableOK, IdleReady
<1> QED BY <1>1, <1>2, <1>3 DEF Boot

-----------------------------------------------------------------------------
(* The inductive invariant.                                                *)

LEMMA CallSafe ==
  ASSUME SafeInv, Call
  PROVE  Safe(k', cpu', at', boot') /\ StaysDead(k, k')
<1>1. ASSUME NEW new \in Addr, NEW prio \in Quanta, NEW fg \in Foreground, NEW garbage \in Garbage,
             Create(new, prio, fg, garbage)
      PROVE  Safe(k', cpu', at', boot') /\ StaysDead(k, k')
  <2>1. /\ prio \in Int /\ fg \in BOOLEAN /\ Creates(new, prio, fg, garbage)
        /\ boot' = boot /\ at[cpu] = "user" /\ cpu # BOOT
    BY <1>1, KernelAssumption DEF Create, Allowed, Program
  <2>2. cpu \in k.used /\ boot > 0 /\ boot \in Nat
    BY <2>1, InProgram, SafeFacts
  <2>3. boot = 0 => new = IDLE
    BY <2>2
  <2> QED BY <2>1, <2>2, <2>3, CreatesSafe
<1>2. ASSUME NEW pid, Kill(pid)
      PROVE  Safe(k', cpu', at', boot') /\ StaysDead(k, k')
  BY <1>2, KillsSafe DEF Kill
<1>3. ASSUME NEW v \in NiceValues, NEW pid, Nice(pid, v)
      PROVE  Safe(k', cpu', at', boot') /\ StaysDead(k, k')
  <2>1. v \in Int
    BY KernelAssumption
  <2> QED BY <1>3, <2>1, NiceSafe
<1>4. CASE Wait
  <2>1. Waits /\ boot' = boot /\ at[cpu] = "user" /\ cpu \notin {BOOT, IDLE}
    BY <1>4 DEF Wait, Allowed, Program
  <2>2. cpu \in k.used /\ k.state[cpu] = "RUNNING" /\ boot > 0
    BY <2>1, InProgram
  <2> QED BY <2>1, <2>2, WaitsSafe
<1>5. ~Yield
  BY DEF Yield, Allowed, SafeInv, Disciplined
<1> QED BY <1>1, <1>2, <1>3, <1>4, <1>5, BlockSafe, UnblockSafe, SleepSafe, EndProcessSafe DEF Call

LEMMA NextSafe ==
  ASSUME SafeInv, [Next]_vars
  PROVE  SafeInv' /\ StaysDead(k, k')
<1>1. IInv'
  BY NextIInv DEF SafeInv
<1>2. Safe(k', cpu', at', boot') /\ StaysDead(k, k')
  <2>1. CASE CtrlC
    BY <2>1, KillsSafe DEF CtrlC
  <2>2. CASE Exit
    BY <2>2, ExitDetachSafe, ExitTerminateSafe, ExitDequeueSafe, ExitReleaseSafe, ExitFinishSafe
       DEF Exit
  <2>3. CASE Tick
    <3>1. CASE TickStart
      BY <3>1 DEF TickStart, SafeInv, StaysDead
    <3>2. WellFormed(k')
      BY <1>1 DEF IInv, Machine
    <3> QED BY <2>3, <3>1, <3>2, TickScanSafe, TickEndSafe DEF Tick
  <2> QED BY <2>1, <2>2, <2>3, NothingSafe, BootSafe, CallSafe DEF Next
<1> QED BY <1>1, <1>2 DEF SafeInv

LEMMA InitSafe == Disciplined /\ Init => SafeInv
<1> SUFFICES ASSUME Disciplined, Init PROVE SafeInv
  OBVIOUS
<1>1. IInv /\ WellFormed(k)
  BY InitIInv DEF IInv, Machine
<1>2. /\ BOOT \in Addr /\ NULL \notin Addr /\ 1 \in Slots
      /\ k.processes_list = [i \in Slots |-> IF i = 1 THEN BOOT ELSE NULL]
      /\ k.pids = [i \in Slots |-> i = 1] /\ k.used = {BOOT}
      /\ k.pid[BOOT] = 1 /\ k.state[BOOT] = "RUNNING" /\ k.ready_list = <<BOOT>>
      /\ k.current_node = BOOT /\ k.current_process = BOOT
      /\ cpu = BOOT /\ at = [a \in Addr |-> "user"] /\ boot = 0
  BY TableAssumption, KernelAssumption DEF Init, Slots
<1>3. \A q : InRing(k, q) <=> q = BOOT
  BY <1>2 DEF InRing
<1>4. Listed(k) = {1}
  BY <1>2 DEF Listed
<1>5. Slotted(k) /\ PidsTaken(k) /\ RingOK(k) /\ RunnerOK(k)
  <2>1. k.processes_list[1] = BOOT /\ k.pids[1]
    BY <1>2
  <2>2. \A i \in Listed(k) : i = 1
    BY <1>4
  <2>3. Slotted(k)
    BY <1>2, <2>1, <2>2 DEF Slotted
  <2>4. PidsTaken(k)
    BY <1>2, <2>1 DEF PidsTaken
  <2>5. RingOK(k) /\ RunnerOK(k)
    BY <1>2, <1>3 DEF RingOK, RunnerOK
  <2> QED BY <2>3, <2>4, <2>5
<1>6. ContextsOK(k, cpu) /\ IdleReady(k, boot) /\ PlacesOK(k, at) /\ CpuOK(k, cpu, at)
  <2>1. ContextsOK(k, cpu) /\ CpuOK(k, cpu, at)
    BY <1>2 DEF ContextsOK, CpuOK
  <2>2. IdleReady(k, boot)
    <3>1. \A i \in Slots : k.pids[i] <=> i = 1
      BY <1>2, Zenon
    <3>2. ~(boot > 0)
      BY <1>2
    <3> QED BY <1>2, <3>1, <3>2 DEF IdleReady
  <2>3. at[BOOT] = "user"
    BY <1>2
  <2>4. PlacesOK(k, at)
    BY <1>2, <2>3 DEF PlacesOK
  <2> QED BY <2>1, <2>2, <2>4
<1>7. at \in [Addr -> Places]
  BY <1>2 DEF Places
<1> QED BY <1>1, <1>5, <1>6, <1>7 DEF SafeInv, Safe, TableOK

-----------------------------------------------------------------------------
(* The properties, in the runs where they hold (see Disciplined).          *)

LEMMA SafeInvImplies == SafeInv => ReadyRing /\ OneRunner /\ CpuIsCurrent /\ ContextsKept /\ PidsUnique
<1> SUFFICES ASSUME SafeInv
             PROVE  ReadyRing /\ OneRunner /\ CpuIsCurrent /\ ContextsKept /\ PidsUnique
  OBVIOUS
<1>1. Safe(k, cpu, at, boot) /\ WellFormed(k)
  BY SafeFacts DEF SafeInv
<1>2. ReadyRing
  <2>1. \E q \in k.used : k.state[q] \in {"RUNNING", "READY"}
    BY SafeFacts DEF TableOK, IdleReady
  <2>2. \E q : InRing(k, q)
    BY <2>1, SafeFacts DEF TableOK, RingOK
  <2>3. InRing(k, k.current_node) /\ Distinct(k)
    BY <1>1, <2>2 DEF WellFormed, NodeInRing, InRing
  <2>4. \A i \in DOMAIN k.ready_list : k.ready_list[i] \in k.used
    BY <1>1 DEF Safe, TableOK, RingOK, InRing
  <2> QED BY <1>1, <2>3, <2>4 DEF ReadyRing, Safe, TableOK, RingOK, Distinct
<1>3. OneRunner /\ CpuIsCurrent /\ ContextsKept
  BY <1>1 DEF OneRunner, CpuIsCurrent, ContextsKept, Safe, TableOK, CpuOK, RunnerOK, ContextsOK
<1>4. PidsUnique
  <2>1. Slotted(k) /\ PidsTaken(k) /\ NULL \notin Addr /\ k.used \subseteq Addr
    BY <1>1, TableAssumption DEF Safe, TableOK, WellFormed, Globals
  <2>2. k.used = {k.processes_list[i] : i \in Listed(k)}
    BY <2>1 DEF Slotted, Listed
  <2> QED BY <2>1, <2>2 DEF PidsUnique, Slotted, PidsTaken
<1> QED BY <1>2, <1>3, <1>4

\* Every system call, interrupt and step of an exit, in any order, keeps the
\* globals, the contexts and the CPU of one accord.
THEOREM Inductive == Disciplined /\ Spec => []SafeInv
<1>1. SafeInv /\ [Next]_vars => SafeInv'
  BY NextSafe
<1> QED BY <1>1, InitSafe, PTL DEF Spec

\* The ring and the states tell the same story, whatever the processes create, kill,
\* block, wake, renice and wait for, and wherever the timer interrupts an exit.
THEOREM RingAndStatesAgree == Disciplined /\ Spec => []ReadyRing
<1>1. SafeInv => ReadyRing
  BY SafeInvImplies
<1> QED BY <1>1, Inductive, PTL

\* At most one process is RUNNING, and scheduler() charges that one.
THEOREM AtMostOneRuns == Disciplined /\ Spec => []OneRunner
<1>1. SafeInv => OneRunner
  BY SafeInvImplies
<1> QED BY <1>1, Inductive, PTL

\* A system call acts on the process that made it.
THEOREM CallerIsCurrent == Disciplined /\ Spec => []CpuIsCurrent
<1>1. SafeInv => CpuIsCurrent
  BY SafeInvImplies
<1> QED BY <1>1, Inductive, PTL

\* scheduler() saves the context of whoever loses the CPU, and resumes each once.
THEOREM NoContextLost == Disciplined /\ Spec => []ContextsKept
<1>1. SafeInv => ContextsKept
  BY SafeInvImplies
<1> QED BY <1>1, Inductive, PTL

\* The table, the pool and the allocated PCBs agree, and no pid is given twice.
THEOREM PidsAreUnique == Disciplined /\ Spec => []PidsUnique
<1>1. SafeInv => PidsUnique
  BY SafeInvImplies
<1> QED BY <1>1, Inductive, PTL

\* Nobody comes back from TERMINATED, in spite of the ticks between the steps of
\* exit_process.
THEOREM TheDeadStayDead == Disciplined /\ Spec => NoResurrection
<1>1. SafeInv /\ [Next]_vars
         => [\A p \in k.used : p \in k'.used /\ k.state[p] = "TERMINATED"
                                => k'.state[p] = "TERMINATED"]_vars
  BY NextSafe DEF StaysDead
<1> QED BY <1>1, Inductive, PTL DEF Spec, NoResurrection

-----------------------------------------------------------------------------
(* Parents and children, sleepers and alarms: a second inductive invariant *)
(* on top of the first.                                                    *)

\* ChildrenAreLive of the globals g.
ChildrenOK(g) ==
    \A p \in g.used : \A c \in g.children[p] :
        \E q \in g.used : g.pid[q] = c /\ g.parent_pid[q] = g.pid[p]

\* Nobody waits any more for a process that has gone through DetachFromParent, and
\* whoever is in wait waits for somebody.
KinOK(g, pl) ==
    \A p \in g.used :
        /\ pl[p] \in {"detached", "terminated", "dequeued"} =>
              \A q \in g.used : g.pid[p] \notin g.children[q]
        /\ pl[p] = "wait" => g.children[p] # {} /\ g.waiting_on_child[p] = 1

\* first_process, that unblock_process never wakes, has a child that never dies: idle.
BootFamily(g, b) ==
    /\ b = 0 => g.children[BOOT] = {}
    /\ b > 0 /\ MAX_CHILDREN > 0 => 2 \in g.children[BOOT]
    /\ MAX_CHILDREN = 0 => \A p \in g.used : g.children[p] = {}

Family(g, pl, b) == ChildrenOK(g) /\ KinOK(g, pl) /\ BootFamily(g, b) /\ pl[BOOT] # "sleep"

\* SleepersHaveAlarm of the globals g.
Alarms(g, pl, queue) ==
    \A p \in g.used : pl[p] = "sleep" => \E i \in DOMAIN queue : queue[i].proc = p

FamilyInv == SafeInv /\ Family(k, at, boot) /\ Alarms(k, at, sleep_list)

\* From g to h nobody is born, dies, or gains or loses a child.
SameFamily(g, h) ==
    /\ h.used = g.used /\ h.pid = g.pid /\ h.parent_pid = g.parent_pid
    /\ h.children = g.children /\ h.waiting_on_child = g.waiting_on_child

LEMMA unblock_processFamily ==
  ASSUME NEW g, WellFormed(g), NEW n
  PROVE  SameFamily(g, unblock_process(g, n))
<1> DEFINE p == get_process_by_pid(g, n)
           s == [g EXCEPT !.state[p] = "READY"]
           h == unblock_process(g, n)
<1>1. CASE n # 1 /\ p # NULL /\ g.state[p] = "BLOCKED"
  <2>1. p \in Addr /\ "READY" \in STATUS /\ g \in Globals
    BY <1>1, foundprocessType DEF WellFormed, STATUS
  <2>2. h = add_to_ready_list(s, p)
    BY <1>1 DEF unblock_process
  <2> HIDE DEF h, p
  <2>3. WellFormed(s) /\ SameFamily(g, s)
    BY <2>1, StateWellFormed DEF Globals, SameFamily
  <2> HIDE DEF s
  <2>4. SameTable(s, h)
    BY <2>1, <2>2, <2>3, add_to_ready_listRing
  <2> QED BY <2>3, <2>4 DEF SameTable, SameFamily, h
<1>2. CASE ~(n # 1 /\ p # NULL /\ g.state[p] = "BLOCKED")
  BY <1>2 DEF unblock_process, SameFamily
<1> QED BY <1>1, <1>2

LEMMA block_processFamily ==
  ASSUME NEW g, WellFormed(g), NEW n
  PROVE  /\ SameFamily(g, block_process(g, n))
         /\ \A q : InRing(block_process(g, n), q) => InRing(g, q)
<1> DEFINE p == get_process_by_pid(g, n)
           s == [g EXCEPT !.state[p] = "BLOCKED"]
           h == block_process(g, n)
<1>1. CASE p # NULL /\ g.state[p] \in {"RUNNING", "READY"}
  <2>1. p \in Addr /\ "BLOCKED" \in STATUS /\ g \in Globals
    BY <1>1, foundprocessType DEF WellFormed, STATUS
  <2>2. h = remove_from_ready_list(s, p)
    BY <1>1 DEF block_process
  <2> HIDE DEF h, p
  <2>3. WellFormed(s) /\ SameRing(g, s) /\ SameFamily(g, s)
    BY <2>1, StateWellFormed DEF Globals, SameFamily
  <2> HIDE DEF s
  <2>4. SameTable(s, h) /\ \A q : InRing(h, q) => InRing(s, q)
    BY <2>1, <2>2, <2>3, remove_from_ready_listRing
  <2>5. \A q : InRing(h, q) => InRing(g, q)
    BY <2>3, <2>4 DEF SameRing, InRing
  <2> QED BY <2>3, <2>4, <2>5 DEF SameTable, SameFamily, h
<1>2. CASE ~(p # NULL /\ g.state[p] \in {"RUNNING", "READY"})
  BY <1>2 DEF block_process, SameFamily
<1> QED BY <1>1, <1>2

LEMMA modify_priorityFamily ==
  ASSUME NEW g \in Globals, NEW n, NEW v, NEW table
  PROVE  SameFamily(g, modify_priority(g, n, v, table))
BY DEF modify_priority, Globals, SameFamily

\* scheduler() knows nothing of families, and blocks nobody.
Easier(g, h) ==
    SameFamily(g, h) /\ \A q \in Addr : h.state[q] = "BLOCKED" => g.state[q] = "BLOCKED"

LEMMA DispatchEasier ==
  ASSUME NEW g \in Globals, NEW node, NEW p
  PROVE  Easier(g, Dispatch(g, node, p))
BY DEF Dispatch, Globals, SameFamily, Easier

LEMMA schedulerEasier ==
  ASSUME NEW g, WellFormed(g), NEW sp \in Addr \cup {NULL}
  PROVE  Easier(g, scheduler(g, sp).k)
<1> DEFINE charged == Charge(g, sp)
           ready   == Preempted(charged)
           next    == PickNext(ready)
           h       == scheduler(g, sp).k
<1>1. g \in Globals /\ charged \in Globals
  BY ChargeWellFormed DEF WellFormed
<1>2. Easier(g, charged)
  BY <1>1 DEF Charge, Globals, SameFamily, Easier
<1>3. ready \in Globals /\ Easier(charged, ready)
  <2> HIDE DEF charged
  <2>1. ready = charged \/ ready = [charged EXCEPT !.state[charged.current_process] = "READY"]
    BY DEF Preempted
  <2> HIDE DEF ready
  <2>2. CASE ready = charged
    BY <1>1, <2>2 DEF SameFamily, Easier
  <2>3. CASE ready = [charged EXCEPT !.state[charged.current_process] = "READY"]
    <3>1. ready \in Globals /\ SameFamily(charged, ready)
      BY <1>1, <2>3 DEF Globals, STATUS, SameFamily
    <3>2. \A q \in Addr : ready.state[q] = "BLOCKED" => charged.state[q] = "BLOCKED"
      BY <1>1, <2>3 DEF Globals
    <3> QED BY <3>1, <3>2 DEF Easier
  <2> QED BY <2>1, <2>2, <2>3
<1>4. Easier(ready, next)
  <2> HIDE DEF ready
  <2> QED BY <1>3, DispatchEasier DEF PickNext
<1>5. h = g \/ h = charged \/ h = next
  BY DEF scheduler
<1> HIDE DEF h, charged, ready, next
<1>6. Easier(g, next)
  BY <1>2, <1>3, <1>4 DEF Easier, SameFamily
<1>7. Easier(g, g)
  BY DEF Easier, SameFamily
<1> QED BY <1>2, <1>5, <1>6, <1>7 DEF h

-----------------------------------------------------------------------------
(* The end of a process, as its family sees it.                            *)

\* From g to h, the parent of p has forgotten it and is woken when p was the last
\* child that it waited for.
Bereft(g, h, p) ==
    /\ h.used \in {g.used, g.used \ {p}} /\ h.pid = g.pid
    /\ \A q \in h.used :
          /\ h.parent_pid[q] = g.parent_pid[q] /\ h.waiting_on_child[q] = g.waiting_on_child[q]
          /\ h.children[q] = IF g.pid[q] = g.parent_pid[p] THEN g.children[q] \ {g.pid[p]}
                             ELSE g.children[q]
          /\ g.pid[q] # 1 /\ g.waiting_on_child[q] = 1 /\ g.children[q] # {} /\ h.children[q] = {}
                => h.state[q] # "BLOCKED"
          /\ InRing(h, q) => InRing(g, q) \/ h.children[q] = {}

\* unblock_process wakes the process whose pid is n, and puts nobody else in the ring.
LEMMA unblock_processWakes ==
  ASSUME NEW g, WellFormed(g), NEW n, NEW p \in Addr, p = get_process_by_pid(g, n)
  PROVE  LET h == unblock_process(g, n)
         IN  /\ n # 1 => h.state[p] # "BLOCKED"
             /\ \A q : q # p /\ InRing(h, q) => InRing(g, q)
<1> DEFINE s == [g EXCEPT !.state[p] = "READY"]
           h == unblock_process(g, n)
<1>0. g \in Globals /\ NULL \notin Addr /\ "READY" \in STATUS
  BY TableAssumption DEF WellFormed, STATUS
<1>1. CASE n # 1 /\ g.state[p] = "BLOCKED"
  <2>1. h = add_to_ready_list(s, p)
    BY <1>0, <1>1 DEF unblock_process
  <2> HIDE DEF h
  <2>2. WellFormed(s) /\ SameRing(g, s) /\ s.state[p] = "READY"
    BY <1>0, StateWellFormed DEF Globals
  <2> HIDE DEF s
  <2>3. SameTable(s, h) /\ \A q : InRing(h, q) <=> InRing(s, q) \/ q = p
    BY <2>1, <2>2, add_to_ready_listRing
  <2>4. h.state[p] = "READY"
    BY <2>2, <2>3 DEF SameTable
  <2>5. \A q : q # p /\ InRing(h, q) => InRing(g, q)
    BY <2>2, <2>3 DEF SameRing, InRing
  <2> QED BY <2>4, <2>5 DEF h
<1>2. CASE ~(n # 1 /\ g.state[p] = "BLOCKED")
  BY <1>2 DEF unblock_process
<1> QED BY <1>1, <1>2

LEMMA DetachFromParentBereft ==
  ASSUME NEW g, WellFormed(g), Slotted(g), \A q \in g.used : g.pid[q] # 0, NEW p \in g.used
  PROVE  Bereft(g, DetachFromParent(g, p), p) /\ DetachFromParent(g, p).used = g.used
<1> DEFINE parent == get_process_by_pid(g, g.parent_pid[p])
           c      == g.children[parent] \ {g.pid[p]}
           forgot == [g EXCEPT !.children[parent] = c]
           woken  == IF /\ forgot.waiting_on_child[parent] = 1
                        /\ forgot.children[parent] = {}
                     THEN unblock_process(forgot, g.parent_pid[p]) ELSE forgot
           h      == DetachFromParent(g, p)
<1>0. g \in Globals /\ g.used \subseteq Addr /\ NULL \notin Addr /\ p \in Addr
  BY TableAssumption DEF WellFormed, Globals
<1>1. CASE g.parent_pid[p] = 0 \/ parent = NULL
  <2>1. h = g
    BY <1>1, Zenon DEF DetachFromParent
  <2>2. \A q \in g.used : g.pid[q] # g.parent_pid[p]
    BY <1>0, <1>1, Lookup
  <2> HIDE DEF h
  <2> QED BY <2>1, <2>2 DEF Bereft, h
<1>2. CASE ~(g.parent_pid[p] = 0 \/ parent = NULL)
  <2>1. parent \in g.used /\ g.pid[parent] = g.parent_pid[p]
    BY <1>0, <1>2, Lookup
  <2>2. h = IF g.is_foreground[p] THEN [woken EXCEPT !.is_foreground[parent] = TRUE] ELSE woken
    BY <1>2, Zenon DEF DetachFromParent
  <2>3. \A q \in g.used : g.pid[q] = g.parent_pid[p] <=> q = parent
    BY <1>0, <2>1, OnePid
  <2>4. get_process_by_pid(g, g.parent_pid[p]) = parent
    OBVIOUS
  <2> HIDE DEF h, parent
  <2>5. forgot \in Globals /\ SameRing(g, forgot) /\ parent \in Addr
    BY <1>0, <2>1 DEF Globals, SameRing
  <2>6. /\ forgot.used = g.used /\ forgot.pid = g.pid /\ forgot.parent_pid = g.parent_pid
        /\ forgot.waiting_on_child = g.waiting_on_child
        /\ forgot.processes_list = g.processes_list /\ forgot.state = g.state
        /\ forgot.children = [g.children EXCEPT ![parent] = c]
        /\ g.children \in [Addr -> SUBSET Pids]
    BY <1>0, <2>1 DEF Globals
  <2> HIDE DEF forgot
  <2>7. WellFormed(forgot)
    BY <2>5, SameRingWellFormed
  <2>8. get_process_by_pid(forgot, g.parent_pid[p]) = parent
    BY <2>4, <2>6 DEF get_process_by_pid, foundprocess, Listed
  <2>9. /\ SameFamily(forgot, woken) /\ WellFormed(woken)
        /\ \A q : q # parent /\ InRing(woken, q) => InRing(g, q)
    <3>1. \A q : InRing(forgot, q) <=> InRing(g, q)
      BY <2>5 DEF SameRing, InRing
    <3>2. SameFamily(forgot, forgot)
      BY DEF SameFamily
    <3> QED BY <2>5, <2>7, <2>8, <3>1, <3>2, unblock_processFamily, unblock_processWakes,
               unblock_processWellFormed
  <2>10. /\ woken.used = g.used /\ woken.pid = g.pid /\ woken.parent_pid = g.parent_pid
         /\ woken.waiting_on_child = g.waiting_on_child
         /\ woken.children = [g.children EXCEPT ![parent] = c]
    BY <2>6, <2>9 DEF SameFamily
  <2>11. g.pid[parent] # 1 /\ g.waiting_on_child[parent] = 1 /\ c = {}
            => woken.state[parent] # "BLOCKED"
    <3>1. forgot.children[parent] = c
      BY <2>5, <2>6
    <3>2. g.parent_pid[p] # 1 => unblock_process(forgot, g.parent_pid[p]).state[parent] # "BLOCKED"
      BY <2>5, <2>7, <2>8, unblock_processWakes
    <3> HIDE DEF c
    <3> QED BY <2>1, <2>6, <3>1, <3>2
  <2>12. InRing(woken, parent) => InRing(g, parent) \/ c = {}
    <3>1. forgot.children[parent] = c
      BY <2>5, <2>6
    <3> HIDE DEF c
    <3> QED BY <2>5, <3>1 DEF SameRing, InRing
  <2> HIDE DEF woken
  <2>13. /\ SameFamily(woken, h) /\ h.state = woken.state
         /\ \A q : InRing(h, q) <=> InRing(woken, q)
    BY <2>2, <2>9 DEF WellFormed, Globals, SameFamily, InRing
  <2>14. \A q \in g.used : h.children[q] = IF q = parent THEN c ELSE g.children[q]
    BY <1>0, <2>5, <2>6, <2>10, <2>13 DEF SameFamily
  <2>15. c = g.children[parent] \ {g.pid[p]}
    OBVIOUS
  <2> HIDE DEF c
  <2>16. /\ h.used = g.used /\ h.pid = g.pid
         /\ h.parent_pid = g.parent_pid /\ h.waiting_on_child = g.waiting_on_child
    BY <2>10, <2>13 DEF SameFamily
  <2>17. \A q \in g.used :
           /\ h.children[q] = IF g.pid[q] = g.parent_pid[p] THEN g.children[q] \ {g.pid[p]}
                              ELSE g.children[q]
           /\ g.pid[q] # 1 /\ g.waiting_on_child[q] = 1 /\ g.children[q] # {} /\ h.children[q] = {}
                => h.state[q] # "BLOCKED"
           /\ InRing(h, q) => InRing(g, q) \/ h.children[q] = {}
    BY <2>3, <2>9, <2>11, <2>12, <2>13, <2>14, <2>15
  <2> QED BY <2>16, <2>17 DEF Bereft, h
<1> QED BY <1>1, <1>2

\* What the last steps of a removal leave alone.
Reduced(g, h, p) ==
    /\ h.used \in {g.used, g.used \ {p}} /\ h.pid = g.pid
    /\ \A q \in Addr : q # p =>
          /\ h.parent_pid[q] = g.parent_pid[q] /\ h.waiting_on_child[q] = g.waiting_on_child[q]
          /\ h.children[q] = g.children[q] /\ h.state[q] = g.state[q]
          /\ InRing(h, q) => InRing(g, q)

LEMMA TerminateReduced ==
  ASSUME NEW g, WellFormed(g), NEW p \in Addr
  PROVE  Reduced(g, Terminate(g, p), p) /\ SameFamily(g, Terminate(g, p))
<1> DEFINE h == Terminate(g, p)
<1>1. SameFamily(g, h) /\ h.state = [g.state EXCEPT ![p] = "TERMINATED"] /\ SameRing(g, h)
  BY DEF Terminate, WellFormed, Globals, SameFamily, SameRing
<1>2. g.state \in [Addr -> STATUS]
  BY DEF WellFormed, Globals
<1> HIDE DEF h
<1>3. \A q \in Addr : q # p => h.state[q] = g.state[q]
  BY <1>1, <1>2
<1>4. \A q : InRing(h, q) <=> InRing(g, q)
  BY <1>1 DEF SameRing, InRing
<1> QED BY <1>1, <1>3, <1>4 DEF Reduced, SameFamily, h

LEMMA remove_from_ready_listReduced ==
  ASSUME NEW g, WellFormed(g), NEW p \in Addr
  PROVE  Reduced(g, remove_from_ready_list(g, p), p)
BY remove_from_ready_listRing DEF Reduced, SameTable

LEMMA ReleaseSlotReduced ==
  ASSUME NEW g, WellFormed(g), NEW p \in Addr
  PROVE  Reduced(g, ReleaseSlot(g, p), p) /\ ReleaseSlot(g, p).used = g.used \ {p}
<1> DEFINE h == ReleaseSlot(g, p)
<1>1. /\ h.used = g.used \ {p} /\ h.pid = g.pid /\ h.state = g.state /\ SameRing(g, h)
      /\ h.parent_pid = [g.parent_pid EXCEPT ![p] = 0]
      /\ h.waiting_on_child = [g.waiting_on_child EXCEPT ![p] = 0]
      /\ h.children = [g.children EXCEPT ![p] = {}]
  BY DEF ReleaseSlot, WellFormed, Globals, SameRing
<1>2. /\ g.parent_pid \in [Addr -> Pids] /\ g.waiting_on_child \in [Addr -> 0..2]
      /\ g.children \in [Addr -> SUBSET Pids]
  BY DEF WellFormed, Globals
<1> HIDE DEF h
<1>3. \A q : InRing(h, q) <=> InRing(g, q)
  BY <1>1 DEF SameRing, InRing
<1>4. \A q \in Addr : q # p =>
         /\ h.parent_pid[q] = g.parent_pid[q] /\ h.waiting_on_child[q] = g.waiting_on_child[q]
         /\ h.children[q] = g.children[q]
  BY <1>1, <1>2
<1> QED BY <1>1, <1>3, <1>4 DEF Reduced, h

LEMMA ReducedTransitive ==
  ASSUME NEW f, NEW g, NEW h, NEW p, Reduced(f, g, p), Reduced(g, h, p)
  PROVE  Reduced(f, h, p)
<1>1. h.used \in {f.used, f.used \ {p}} /\ h.pid = f.pid
  BY DEF Reduced
<1>2. \A q \in Addr : q # p =>
         /\ h.parent_pid[q] = f.parent_pid[q] /\ h.waiting_on_child[q] = f.waiting_on_child[q]
         /\ h.children[q] = f.children[q] /\ h.state[q] = f.state[q]
         /\ InRing(h, q) => InRing(f, q)
  BY DEF Reduced
<1> QED BY <1>1, <1>2 DEF Reduced

\* p may lose its ring node, its state and its slot after it has left its family.
LEMMA BereftReduced ==
  ASSUME NEW g \in Globals, NEW d, NEW h, NEW p, Bereft(g, d, p), Reduced(d, h, p),
         h.used = g.used \ {p}
  PROVE  Bereft(g, h, p)
<1>1. \A q \in h.used : q \in d.used /\ q \in Addr /\ q # p
  BY DEF Bereft, Reduced, Globals
<1>2. h.pid = g.pid
  BY DEF Bereft, Reduced
<1>3. \A q \in h.used :
         /\ h.parent_pid[q] = d.parent_pid[q] /\ h.waiting_on_child[q] = d.waiting_on_child[q]
         /\ h.children[q] = d.children[q] /\ h.state[q] = d.state[q]
         /\ InRing(h, q) => InRing(d, q)
  BY <1>1 DEF Reduced
<1>4. \A q \in h.used :
         /\ d.parent_pid[q] = g.parent_pid[q] /\ d.waiting_on_child[q] = g.waiting_on_child[q]
         /\ d.children[q] = IF g.pid[q] = g.parent_pid[p] THEN g.children[q] \ {g.pid[p]}
                            ELSE g.children[q]
         /\ g.pid[q] # 1 /\ g.waiting_on_child[q] = 1 /\ g.children[q] # {} /\ d.children[q] = {}
               => d.state[q] # "BLOCKED"
         /\ InRing(d, q) => InRing(g, q) \/ d.children[q] = {}
  BY <1>1 DEF Bereft
<1>5. \A q \in h.used : h.children[q] = IF g.pid[q] = g.parent_pid[p] THEN g.children[q] \ {g.pid[p]}
                                        ELSE g.children[q]
  BY <1>3, <1>4
<1>6. \A q \in h.used :
         g.pid[q] # 1 /\ g.waiting_on_child[q] = 1 /\ g.children[q] # {} /\ h.children[q] = {}
            => h.state[q] # "BLOCKED"
  <2> SUFFICES ASSUME NEW q \in h.used, g.pid[q] # 1, g.waiting_on_child[q] = 1, g.children[q] # {},
                      h.children[q] = {}
               PROVE  h.state[q] # "BLOCKED"
    OBVIOUS
  <2>1. d.children[q] = {} /\ h.state[q] = d.state[q]
    BY <1>3
  <2> QED BY <1>4, <2>1
<1>7. \A q \in h.used : /\ InRing(h, q) => InRing(g, q) \/ h.children[q] = {}
                        /\ h.parent_pid[q] = g.parent_pid[q]
                        /\ h.waiting_on_child[q] = g.waiting_on_child[q]
  BY <1>3, <1>4
<1> QED BY <1>2, <1>5, <1>6, <1>7 DEF Bereft

LEMMA remove_from_processes_listBereft ==
  ASSUME NEW g, WellFormed(g), Slotted(g), \A q \in g.used : g.pid[q] # 0, NEW p \in g.used
  PROVE  LET h == remove_from_processes_list(g, p)
         IN  Bereft(g, h, p) /\ h.used = g.used \ {p}
<1> DEFINE d == DetachFromParent(g, p)
           t == Terminate(d, p)
           q == remove_from_ready_list(t, p)
           h == ReleaseSlot(q, p)
<1>0. g \in Globals /\ p \in Addr
  BY DEF WellFormed, Globals
<1>1. remove_from_processes_list(g, p) = h
  <2>1. foundprocess(g, g.pid[p]) \in Slots
    BY <1>0, Lookup
  <2>2. foundprocess(g, g.pid[p]) # 0
    BY <2>1, TableAssumption DEF Slots
  <2> QED BY <2>2 DEF remove_from_processes_list
<1>2. WellFormed(d) /\ Bereft(g, d, p) /\ d.used = g.used
  BY <1>0, DetachFromParentWellFormed, DetachFromParentBereft
<1> HIDE DEF d
<1>3. WellFormed(t) /\ Reduced(d, t, p) /\ t.used = d.used
  BY <1>0, <1>2, TerminateWellFormed, TerminateReduced DEF SameFamily
<1> HIDE DEF t
<1>4. WellFormed(q) /\ Reduced(t, q, p) /\ q.used = t.used
  BY <1>0, <1>3, remove_from_ready_listRing, remove_from_ready_listReduced DEF SameTable
<1> HIDE DEF q
<1>5. Reduced(q, h, p) /\ h.used = q.used \ {p}
  BY <1>0, <1>4, ReleaseSlotReduced
<1> HIDE DEF h
<1>6. Reduced(d, h, p)
  BY <1>3, <1>4, <1>5, ReducedTransitive
<1>7. h.used = g.used \ {p}
  BY <1>2, <1>3, <1>4, <1>5
<1> QED BY <1>0, <1>1, <1>2, <1>6, <1>7, BereftReduced

LEMMA KilledBereft ==
  ASSUME NEW g, WellFormed(g), Slotted(g), \A q \in g.used : g.pid[q] # 0, NEW p \in g.used
  PROVE  Bereft(g, Killed(g, p), p) /\ Killed(g, p).used = g.used \ {p}
<1> DEFINE pool == [i \in Slots |-> g.pids[i] /\ (i # g.pid[p] \/ i >= MAX_PROCESSES)]
           f == freePid(g, g.pid[p])
           u == remove_from_ready_list(f, p)
           t == Terminate(u, p)
           h == remove_from_processes_list(t, p)
<1>0. g \in Globals /\ p \in Addr
  BY DEF WellFormed, Globals
<1>1. /\ WellFormed(f) /\ SameFamily(g, f) /\ f.processes_list = g.processes_list
      /\ SameRing(g, f)
  <2>1. f = [g EXCEPT !.pids = pool] /\ pool \in [Slots -> BOOLEAN]
    BY <1>0 DEF freePid, Globals
  <2> HIDE DEF f, pool
  <2>2. WellFormed(f)
    BY <2>1, PoolWellFormed
  <2> QED BY <1>0, <2>1, <2>2 DEF Globals, SameFamily, SameRing
<1> HIDE DEF f
<1>2. WellFormed(u) /\ SameTable(f, u) /\ \A q : InRing(u, q) => InRing(f, q)
  BY <1>0, <1>1, remove_from_ready_listRing
<1> HIDE DEF u
<1>3. WellFormed(t) /\ SameFamily(u, t) /\ SameProcesses(u, t) /\ SameRing(u, t)
  BY <1>0, <1>2, TerminateFields, TerminateReduced
<1> HIDE DEF t
<1>4. SameFamily(g, t) /\ t.processes_list = g.processes_list
  BY <1>1, <1>2, <1>3 DEF SameFamily, SameTable, SameProcesses
<1>5. \A q : InRing(t, q) => InRing(g, q)
  <2>1. \A q : (InRing(t, q) <=> InRing(u, q)) /\ (InRing(f, q) <=> InRing(g, q))
    BY <1>1, <1>3 DEF SameRing, InRing
  <2> QED BY <1>2, <2>1
<1>6. Bereft(t, h, p) /\ h.used = t.used \ {p}
  <2>1. Slotted(t)
    BY <1>4 DEF Slotted, Listed, SameFamily
  <2>2. p \in t.used /\ \A q \in t.used : t.pid[q] # 0
    BY <1>4 DEF SameFamily
  <2> QED BY <1>3, <2>1, <2>2, remove_from_processes_listBereft
<1> HIDE DEF h
<1>7. Bereft(g, h, p) /\ h.used = g.used \ {p}
  BY <1>4, <1>5, <1>6 DEF Bereft, SameFamily
<1> QED BY <1>7 DEF Killed, h, t, u, f

\* A death, or the DetachFromParent that announces it, leaves no entry for the dead
\* and nobody waiting in vain.
LEMMA BereftFamily ==
  ASSUME NEW g, NEW h, NEW c, NEW pl, NEW b, TableOK(g, c, pl, b), Family(g, pl, b),
         NEW p \in g.used, p # BOOT, p # IDLE, b > 0, Bereft(g, h, p)
  PROVE  /\ Family(h, Unblocked(h, pl), b)
         /\ \A q \in h.used : g.pid[p] \notin h.children[q]
<1> DEFINE pl2 == Unblocked(h, pl)
<1>0. /\ g \in Globals /\ g.used \subseteq Addr /\ Slotted(g) /\ h.used \subseteq g.used
      /\ h.pid = g.pid /\ BOOT \in g.used /\ IDLE \in g.used
      /\ g.pid[BOOT] = 1 /\ g.pid[IDLE] = 2 /\ BOOT \in h.used
  BY DEF TableOK, WellFormed, Globals, IdleReady, Bereft
<1>1. \A q \in h.used :
         /\ h.parent_pid[q] = g.parent_pid[q] /\ h.waiting_on_child[q] = g.waiting_on_child[q]
         /\ h.children[q] = IF g.pid[q] = g.parent_pid[p] THEN g.children[q] \ {g.pid[p]}
                            ELSE g.children[q]
         /\ g.pid[q] # 1 /\ g.waiting_on_child[q] = 1 /\ g.children[q] # {} /\ h.children[q] = {}
               => h.state[q] # "BLOCKED"
  BY DEF Bereft
<1>2. \A q \in h.used : h.children[q] \subseteq g.children[q]
  BY <1>1
<1>3. ASSUME NEW q \in h.used, NEW x \in h.children[q]
      PROVE  \E r \in h.used : g.pid[r] = x /\ g.parent_pid[r] = g.pid[q] /\ r # p
  <2>1. q \in g.used /\ x \in g.children[q]
    BY <1>0, <1>2
  <2>2. PICK r \in g.used : g.pid[r] = x /\ g.parent_pid[r] = g.pid[q]
    BY <2>1 DEF Family, ChildrenOK
  <2>3. r # p
    BY <1>1, <2>2
  <2>4. r \in h.used
    BY <2>3 DEF Bereft
  <2> QED BY <2>2, <2>3, <2>4
<1>4. \A q \in h.used : g.pid[p] \notin h.children[q]
  <2> SUFFICES ASSUME NEW q \in h.used, g.pid[p] \in h.children[q] PROVE FALSE
    OBVIOUS
  <2>1. PICK r \in h.used : g.pid[r] = g.pid[p] /\ r # p
    BY <1>3
  <2> QED BY <1>0, <2>1, OnePid
<1>5. ChildrenOK(h)
  <2> SUFFICES ASSUME NEW q \in h.used, NEW x \in h.children[q]
               PROVE  \E r \in h.used : h.pid[r] = x /\ h.parent_pid[r] = h.pid[q]
    BY DEF ChildrenOK
  <2>1. PICK r \in h.used : g.pid[r] = x /\ g.parent_pid[r] = g.pid[q]
    BY <1>3
  <2> QED BY <1>0, <1>1, <2>1
<1>6. BootFamily(h, b)
  <2>1. g.pid[p] # 2
    BY <1>0, OnePid
  <2>2. MAX_CHILDREN > 0 => 2 \in h.children[BOOT]
    BY <1>0, <1>1, <2>1 DEF Family, BootFamily
  <2>3. MAX_CHILDREN = 0 => \A q \in h.used : h.children[q] = {}
    BY <1>0, <1>2 DEF Family, BootFamily
  <2>4. b # 0
    OBVIOUS
  <2> QED BY <2>2, <2>3, <2>4 DEF BootFamily
<1>7. \A q \in h.used :
         /\ pl2[q] \in {pl[q], "user"}
         /\ pl2[q] = "wait" => pl[q] = "wait" /\ h.state[q] = "BLOCKED"
  BY <1>0 DEF Unblocked
<1> HIDE DEF pl2
<1>8. KinOK(h, pl2)
  <2>1. ASSUME NEW r \in h.used, pl2[r] \in {"detached", "terminated", "dequeued"},
               NEW q \in h.used
        PROVE  h.pid[r] \notin h.children[q]
    <3>1. pl[r] \in {"detached", "terminated", "dequeued"} /\ r \in g.used /\ q \in g.used
      BY <1>0, <1>7, <2>1
    <3>2. g.pid[r] \notin g.children[q]
      BY <3>1 DEF Family, KinOK
    <3> QED BY <1>0, <1>2, <3>2
  <2>2. ASSUME NEW q \in h.used, pl2[q] = "wait"
        PROVE  h.children[q] # {} /\ h.waiting_on_child[q] = 1
    <3>1. pl[q] = "wait" /\ h.state[q] = "BLOCKED" /\ q \in g.used
      BY <1>0, <1>7, <2>2
    <3>2. g.children[q] # {} /\ g.waiting_on_child[q] = 1
      BY <3>1 DEF Family, KinOK
    <3>3. CASE g.pid[q] # 1
      BY <1>1, <3>1, <3>2, <3>3
    <3>4. CASE g.pid[q] = 1
      <4>1. q = BOOT
        BY <1>0, <3>1, <3>4, OnePid
      <4>2. MAX_CHILDREN # 0
        BY <3>1, <3>2 DEF Family, BootFamily
      <4>3. 2 \in h.children[BOOT]
        BY <1>6, <4>2, TableAssumption DEF BootFamily
      <4> QED BY <1>1, <3>2, <4>1, <4>3
    <3> QED BY <3>3, <3>4
  <2> QED BY <2>1, <2>2 DEF KinOK
<1>9. pl2[BOOT] # "sleep"
  BY <1>0, <1>7 DEF Family
<1> QED BY <1>4, <1>5, <1>6, <1>8, <1>9 DEF Family, pl2

\* What changes neither families nor places, but for threads that go on with an exit or
\* with their programs, keeps the invariant.
Onward(used, pl, pl2) ==
    \A p \in used :
        /\ pl2[p] \in {"detached", "terminated", "dequeued"} =>
              pl[p] \in {"detached", "terminated", "dequeued"}
        /\ pl2[p] = "wait" => pl[p] = "wait"
        /\ pl2[p] = "sleep" => pl[p] = "sleep"

LEMMA OnwardFamily ==
  ASSUME NEW g, NEW h, NEW pl, NEW pl2, NEW b, Family(g, pl, b), BOOT \in g.used,
         SameFamily(g, h), Onward(g.used, pl, pl2)
  PROVE  Family(h, pl2, b)
<1>1. ChildrenOK(h) /\ BootFamily(h, b)
  BY DEF Family, SameFamily, ChildrenOK, BootFamily
<1>2. KinOK(h, pl2)
  BY DEF Family, SameFamily, KinOK, Onward
<1>3. pl2[BOOT] # "sleep"
  BY DEF Family, Onward
<1> QED BY <1>1, <1>2, <1>3 DEF Family

-----------------------------------------------------------------------------
(* How a handler ends, for the families.                                   *)

\* A handler that has made the globals g and the places pl returns, or calls the
\* scheduler.
Ends(g, pl) ==
    /\ SameFamily(g, k') /\ \A q : InRing(k', q) <=> InRing(g, q)
    /\ \A q \in Addr :
          /\ at'[q] = IF pl[q] \in {"wait", "sleep"} /\ k'.state[q] # "BLOCKED" THEN "user"
                      ELSE pl[q]
          /\ k'.state[q] = "BLOCKED" => g.state[q] = "BLOCKED"

LEMMA ReturnEnds ==
  ASSUME NEW g, Return(g)
  PROVE  Ends(g, at)
BY DEF Return, Unblocked, Ends, SameFamily

LEMMA ExitingEnds ==
  ASSUME NEW g, NEW from, NEW to, Exiting(from, to, g)
  PROVE  Ends(g, [at EXCEPT ![cpu] = to])
BY DEF Exiting, Unblocked, Ends, SameFamily

LEMMA CallSchedulerEnds ==
  ASSUME NEW g, WellFormed(g), cpu \in Addr, NEW pl, CallScheduler(g, pl)
  PROVE  Ends(g, pl)
<1> DEFINE r == scheduler(g, cpu)
           p == r.k.current_process
           s == IF r.k.stack_pointer[p] = r.sp THEN NULL ELSE r.k.stack_pointer[p]
<1>1. WellFormed(r.k) /\ r.k.ready_list = g.ready_list /\ Easier(g, r.k)
  BY schedulerWellFormed, schedulerEasier
<1>2. k' = [r.k EXCEPT !.stack_pointer[p] = s] /\ at' = Unblocked(r.k, pl)
  BY <1>1 DEF CallScheduler, WellFormed, Globals
<1> HIDE DEF r, s
<1>3. SameFamily(r.k, k') /\ k'.state = r.k.state /\ k'.ready_list = r.k.ready_list
  BY <1>1, <1>2 DEF WellFormed, Globals, SameFamily
<1>4. \A q : InRing(k', q) <=> InRing(g, q)
  BY <1>1, <1>3 DEF InRing
<1>5. SameFamily(g, k')
  BY <1>1, <1>3 DEF Easier, SameFamily
<1>6. \A q \in Addr :
         /\ at'[q] = IF pl[q] \in {"wait", "sleep"} /\ k'.state[q] # "BLOCKED" THEN "user"
                     ELSE pl[q]
         /\ k'.state[q] = "BLOCKED" => g.state[q] = "BLOCKED"
  BY <1>1, <1>2, <1>3 DEF Easier, Unblocked
<1> QED BY <1>4, <1>5, <1>6 DEF Ends

\* Who sleeps after the step slept before it.
NoNewSleeper == \A p \in k'.used : at'[p] = "sleep" => p \in k.used /\ at[p] = "sleep"

\* What WaitForAll says of a step.
LastChildGone ==
    \A p \in k.used : p \in k'.used /\ at[p] = "wait" /\ at'[p] = "user" => k'.children[p] = {}

\* Before its end, a handler has sent nobody to sleep and taken nobody out of wait; it
\* has put in the ring only processes that have no child.
SameSleepers(g, pl) ==
    /\ \A q \in g.used : pl[q] = "sleep" => q \in k.used /\ at[q] = "sleep"
    /\ \A q \in k.used : at[q] = "wait" => pl[q] = "wait"

WakesTheBereft(g) == \A q \in k.used \cap g.used : InRing(g, q) => InRing(k, q) \/ g.children[q] = {}

LEMMA EndsFamily ==
  ASSUME NEW g, NEW pl, NEW b, Ends(g, pl), Family(g, Unblocked(g, pl), b),
         BOOT \in g.used, g.used \subseteq Addr
  PROVE  Family(k', at', b)
<1>1. Onward(g.used, Unblocked(g, pl), at')
  <2> SUFFICES ASSUME NEW q \in g.used
               PROVE  at'[q] = Unblocked(g, pl)[q] \/ at'[q] = "user"
    BY DEF Onward
  <2>1. q \in Addr
    OBVIOUS
  <2>2. Unblocked(g, pl)[q] = IF pl[q] \in {"wait", "sleep"} /\ g.state[q] # "BLOCKED" THEN "user"
                              ELSE pl[q]
    BY <2>1 DEF Unblocked
  <2>3. /\ at'[q] = IF pl[q] \in {"wait", "sleep"} /\ k'.state[q] # "BLOCKED" THEN "user"
                    ELSE pl[q]
        /\ k'.state[q] = "BLOCKED" => g.state[q] = "BLOCKED"
    BY <2>1 DEF Ends
  <2> QED BY <2>2, <2>3
<1> QED BY <1>1, OnwardFamily DEF Ends

LEMMA EndsSleepers ==
  ASSUME NEW g, NEW pl, Ends(g, pl), g.used \subseteq Addr, SameSleepers(g, pl)
  PROVE  NoNewSleeper
<1>1. k'.used = g.used
  BY DEF Ends, SameFamily
<1>2. \A q \in g.used : at'[q] = "sleep" => pl[q] = "sleep"
  BY DEF Ends
<1> QED BY <1>1, <1>2 DEF SameSleepers, NoNewSleeper

LEMMA EndsWaits ==
  ASSUME SafeInv, Safe(k', cpu', at', boot'), NEW g, NEW pl, Ends(g, pl),
         \A q \in k.used : at[q] = "wait" => pl[q] = "wait", WakesTheBereft(g)
  PROVE  LastChildGone
<1> SUFFICES ASSUME NEW p \in k.used, p \in k'.used, at[p] = "wait", at'[p] = "user"
             PROVE  k'.children[p] = {}
  BY DEF LastChildGone
<1>1. p \in Addr /\ pl[p] = "wait" /\ k'.used = g.used /\ k'.children = g.children
  BY SafeFacts DEF Ends, SameFamily
<1>2. ~InRing(k, p)
  BY SafeFacts DEF TableOK, PlacesOK, RingOK
<1>3. k'.state[p] # "BLOCKED"
  BY <1>1 DEF Ends
<1>4. k'.state[p] # "TERMINATED" /\ k'.state[p] \in STATUS
  BY <1>1 DEF Safe, TableOK, PlacesOK, WellFormed, Globals
<1>5. InRing(k', p)
  BY <1>3, <1>4 DEF Safe, TableOK, RingOK, STATUS
<1> QED BY <1>1, <1>2, <1>5 DEF Ends, WakesTheBereft

\* A handler that changes no family.
LEMMA SameFamilyStep ==
  ASSUME SafeInv, Family(k, at, boot), NEW g, NEW pl, SameFamily(k, g), Onward(k.used, at, pl),
         Ends(g, pl)
  PROVE  Family(k', at', boot) /\ NoNewSleeper
<1>0. BOOT \in k.used /\ k.used \subseteq Addr /\ g.used = k.used
  BY SafeFacts DEF TableOK, IdleReady, SameFamily
<1>1. Onward(k.used, at, Unblocked(g, pl))
  <2>1. \A q \in k.used : Unblocked(g, pl)[q] \in {pl[q], "user"}
    BY <1>0 DEF Unblocked
  <2> HIDE DEF Unblocked
  <2> QED BY <2>1 DEF Onward
<1>2. Family(g, Unblocked(g, pl), boot)
  BY <1>0, <1>1, OnwardFamily
<1>3. Family(k', at', boot)
  BY <1>0, <1>2, EndsFamily
<1>4. NoNewSleeper
  <2>1. k'.used = k.used /\ \A q \in k.used : at'[q] = "sleep" => pl[q] = "sleep"
    BY <1>0 DEF Ends, SameFamily
  <2> QED BY <2>1 DEF Onward, NoNewSleeper
<1> QED BY <1>3, <1>4

-----------------------------------------------------------------------------
(* The birth of a process.                                                 *)

\* From g to h, new has been born: a child of the current process, that records it
\* unless it has MAX_CHILDREN children.
Born(g, h, new) ==
    /\ h.used = g.used \cup {new} /\ h.pid = [g.pid EXCEPT ![new] = FreePid(g)]
    /\ h.parent_pid = [g.parent_pid EXCEPT ![new] = g.pid[g.current_process]]
    /\ h.children[new] = {}
    /\ \A q \in g.used : q # g.current_process =>
          /\ h.children[q] = g.children[q] /\ h.waiting_on_child[q] = g.waiting_on_child[q]
    /\ h.children[g.current_process] \in {g.children[g.current_process],
                                          g.children[g.current_process] \cup {FreePid(g)}}
    /\ MAX_CHILDREN = 0 => h.children[g.current_process] = g.children[g.current_process]
    /\ MAX_CHILDREN > 0 /\ g.children[g.current_process] = {}
          => h.children[g.current_process] = {FreePid(g)}
    /\ \A q \in Addr : q # new /\ InRing(h, q) => InRing(g, q)

LEMMA createProcessBorn ==
  ASSUME NEW g, WellFormed(g), g.current_process \in g.used, NEW new \in Addr, new \notin g.used,
         NEW v \in Int, NEW fg \in BOOLEAN, NEW garbage \in 0..2
  PROVE  Born(g, createProcess(g, new, v, fg, garbage), new)
<1> DEFINE parent == g.current_process
           child  == copy_context(g, new, v, fg, garbage)
           n      == child.pid[new]
           c      == IF Cardinality(child.children[parent]) < MAX_CHILDREN
                     THEN child.children[parent] \cup {n} ELSE child.children[parent]
           w      == Saturated(child.waiting_on_child[parent])
           linked == [child EXCEPT !.parent_pid[new] = g.pid[parent],
                                   !.children[parent] = c,
                                   !.waiting_on_child[parent] = w]
           listed == add_to_process_list(linked, new)
           h      == createProcess(g, new, v, fg, garbage)
<1>1. WellFormed(child) /\ child \in Globals
  BY copy_contextWellFormed DEF WellFormed
<1>2. /\ g \in Globals /\ parent \in Addr /\ g.pid[parent] \in Pids /\ parent # new
      /\ g.children[parent] \in SUBSET Pids /\ g.used \subseteq Addr
      /\ g.children \in [Addr -> SUBSET Pids] /\ g.waiting_on_child \in [Addr -> 0..2]
      /\ g.pid \in [Addr -> Pids] /\ FreePid(g) \in Pids
  BY FreePidType DEF WellFormed, Globals
<1>3. /\ child.used = g.used \cup {new} /\ child.pid = [g.pid EXCEPT ![new] = FreePid(g)]
      /\ child.parent_pid = g.parent_pid
      /\ child.children = [g.children EXCEPT ![new] = {}]
      /\ child.waiting_on_child = [g.waiting_on_child EXCEPT ![new] = garbage]
      /\ SameRing(g, child)
  BY <1>2 DEF copy_context, assignForeground, Globals, SameRing
<1>4. h = add_to_ready_list(listed, new)
  <2> HIDE DEF child
  <2>1. createProcess(g, new, v, fg, garbage) = add_to_ready_list(listed, new)
    BY <1>1 DEF createProcess, Globals, child
  <2> QED BY <2>1
<1> HIDE DEF child, parent, h
<1>5. child.children[parent] = g.children[parent] /\ n = FreePid(g)
  BY <1>2, <1>3
<1>6. c \in SUBSET Pids /\ w \in 0..2
  <2>1. child.waiting_on_child[parent] \in 0..2 /\ n \in Pids
    BY <1>1, <1>2, <1>5 DEF Globals
  <2>2. w \in 0..2
    BY <2>1 DEF Saturated
  <2> HIDE DEF n, w
  <2> QED BY <1>2, <1>5, <2>1, <2>2
<1>7. /\ c \in {g.children[parent], g.children[parent] \cup {FreePid(g)}}
      /\ MAX_CHILDREN = 0 => c = g.children[parent]
      /\ MAX_CHILDREN > 0 /\ g.children[parent] = {} => c = {FreePid(g)}
  <2>1. Cardinality(g.children[parent]) \in Nat
    <3>1. IsFiniteSet(Pids)
      BY TableAssumption, FS_Interval DEF Pids
    <3>2. IsFiniteSet(g.children[parent])
      BY <1>2, <3>1, FS_Subset
    <3> QED BY <3>2, FS_CardinalityType
  <2>2. g.children[parent] = {} => Cardinality(g.children[parent]) = 0
    BY FS_EmptySet
  <2>3. c = IF Cardinality(g.children[parent]) < MAX_CHILDREN
            THEN g.children[parent] \cup {FreePid(g)} ELSE g.children[parent]
    BY <1>5
  <2> HIDE DEF c, n
  <2> QED BY <2>1, <2>2, <2>3, TableAssumption
<1> HIDE DEF c, w, n
<1>8. /\ linked \in Globals /\ SameRing(child, linked)
      /\ linked.used = child.used /\ linked.pid = child.pid
      /\ linked.parent_pid = [child.parent_pid EXCEPT ![new] = g.pid[parent]]
      /\ linked.children = [child.children EXCEPT ![parent] = c]
      /\ linked.waiting_on_child = [child.waiting_on_child EXCEPT ![parent] = w]
  BY <1>1, <1>2, <1>6 DEF Globals, SameRing
<1> HIDE DEF linked
<1>9. WellFormed(listed) /\ SameFamily(linked, listed) /\ SameRing(linked, listed)
  <2> DEFINE l == [i \in Slots |-> IF i = FreeSlot(linked) THEN new ELSE linked.processes_list[i]]
  <2>1. l \in [Slots -> Addr \cup {NULL}] /\ listed = [linked EXCEPT !.processes_list = l]
    BY <1>8 DEF Globals, add_to_process_list
  <2> HIDE DEF l, listed
  <2>2. listed \in Globals /\ SameFamily(linked, listed) /\ SameRing(linked, listed)
    BY <1>8, <2>1 DEF Globals, SameFamily, SameRing
  <2> QED BY <1>1, <1>8, <2>2, SameRingWellFormed
<1> HIDE DEF listed
<1>10. SameTable(listed, h) /\ \A q : InRing(h, q) <=> InRing(listed, q) \/ q = new
  BY <1>4, <1>9, add_to_ready_listRing
<1>11. /\ h.used = g.used \cup {new} /\ h.pid = [g.pid EXCEPT ![new] = FreePid(g)]
       /\ h.parent_pid = [g.parent_pid EXCEPT ![new] = g.pid[parent]]
       /\ h.children = [child.children EXCEPT ![parent] = c]
       /\ h.waiting_on_child = [child.waiting_on_child EXCEPT ![parent] = w]
  BY <1>3, <1>8, <1>9, <1>10 DEF SameFamily, SameTable
<1>12. h.children[new] = {} /\ h.children[parent] = c
  BY <1>2, <1>3, <1>11
<1>13. \A q \in g.used : q # parent => /\ h.children[q] = g.children[q]
                                       /\ h.waiting_on_child[q] = g.waiting_on_child[q]
  BY <1>2, <1>3, <1>11
<1>14. \A q : q # new /\ InRing(h, q) => InRing(g, q)
  <2>1. \A q : InRing(listed, q) <=> InRing(g, q)
    BY <1>3, <1>8, <1>9 DEF SameRing, InRing
  <2> QED BY <1>10, <2>1
<1>15. parent = g.current_process
  BY DEF parent
<1> QED BY <1>7, <1>11, <1>12, <1>13, <1>14, <1>15 DEF Born, h

\* A birth keeps the families: the new pid was nobody's.
LEMMA BornFamily ==
  ASSUME NEW g, NEW h, NEW c, NEW pl, NEW b, NEW b2, TableOK(g, c, pl, b), Family(g, pl, b),
         NEW new \in Addr, new \notin g.used, Born(g, h, new), FreePid(g) \in Slots,
         ~g.pids[FreePid(g)], NEW parent \in g.used, parent = g.current_process,
         pl[parent] \notin {"wait", "sleep"}, b = 0 => parent = BOOT /\ FreePid(g) = 2, b2 > 0,
         b \in Nat
  PROVE  Family(h, [pl EXCEPT ![new] = "user"], b2)
<1> DEFINE pl2 == [pl EXCEPT ![new] = "user"]
           n   == FreePid(g)
<1>0. /\ g \in Globals /\ g.used \subseteq Addr /\ pl \in [Addr -> Places] /\ PidsTaken(g)
      /\ g.pid \in [Addr -> Pids] /\ g.parent_pid \in [Addr -> Pids] /\ parent # new
      /\ BOOT \in g.used
  BY DEF TableOK, WellFormed, Globals, IdleReady
<1>1. /\ h.used = g.used \cup {new} /\ h.pid[new] = n /\ h.parent_pid[new] = g.pid[parent]
      /\ h.children[new] = {}
      /\ \A q \in g.used : h.pid[q] = g.pid[q] /\ h.parent_pid[q] = g.parent_pid[q] /\ q # new
      /\ \A q \in g.used : q # parent => /\ h.children[q] = g.children[q]
                                         /\ h.waiting_on_child[q] = g.waiting_on_child[q]
      /\ h.children[parent] \in {g.children[parent], g.children[parent] \cup {n}}
      /\ MAX_CHILDREN = 0 => h.children[parent] = g.children[parent]
      /\ MAX_CHILDREN > 0 /\ g.children[parent] = {} => h.children[parent] = {n}
  BY <1>0 DEF Born
<1>2. \A q \in g.used : g.pid[q] # n
  BY <1>0 DEF PidsTaken
<1>3. \A q \in g.used : \A x \in h.children[q] : x \in g.children[q] \/ (x = n /\ q = parent)
  BY <1>1
<1>4. /\ pl2[new] = "user" /\ \A q \in g.used : pl2[q] = pl[q]
  BY <1>0, <1>1
<1> HIDE DEF n, pl2
<1>5. ChildrenOK(h)
  <2> SUFFICES ASSUME NEW q \in h.used, NEW x \in h.children[q]
               PROVE  \E r \in h.used : h.pid[r] = x /\ h.parent_pid[r] = h.pid[q]
    BY DEF ChildrenOK
  <2>1. q \in g.used /\ h.pid[q] = g.pid[q]
    BY <1>1
  <2>2. CASE x = n /\ q = parent
    BY <1>1, <2>1, <2>2
  <2>3. CASE x \in g.children[q]
    <3>1. PICK r \in g.used : g.pid[r] = x /\ g.parent_pid[r] = g.pid[q]
      BY <2>1, <2>3 DEF Family, ChildrenOK
    <3> QED BY <1>1, <2>1, <3>1
  <2> QED BY <1>3, <2>1, <2>2, <2>3
<1>6. KinOK(h, pl2)
  <2>1. ASSUME NEW r \in h.used, pl2[r] \in {"detached", "terminated", "dequeued"},
               NEW q \in h.used
        PROVE  h.pid[r] \notin h.children[q]
    <3>1. r \in g.used /\ pl[r] \in {"detached", "terminated", "dequeued"} /\ h.pid[r] = g.pid[r]
      BY <1>1, <1>4, <2>1
    <3>2. CASE q = new
      BY <1>1, <3>2
    <3>3. CASE q \in g.used
      <4>1. g.pid[r] \notin g.children[q] /\ g.pid[r] # n
        BY <1>2, <3>1, <3>3 DEF Family, KinOK
      <4> QED BY <1>3, <3>1, <3>3, <4>1
    <3> QED BY <1>1, <3>2, <3>3
  <2>2. ASSUME NEW q \in h.used, pl2[q] = "wait"
        PROVE  h.children[q] # {} /\ h.waiting_on_child[q] = 1
    <3>1. q \in g.used /\ pl[q] = "wait" /\ q # parent
      BY <1>1, <1>4, <2>2
    <3> QED BY <1>1, <3>1 DEF Family, KinOK
  <2> QED BY <2>1, <2>2 DEF KinOK
<1>7. BootFamily(h, b2)
  <2>1. ASSUME MAX_CHILDREN > 0 PROVE 2 \in h.children[BOOT]
    <3>1. CASE b = 0
      BY <1>1, <2>1, <3>1 DEF Family, BootFamily, n
    <3>2. CASE b > 0
      <4>1. 2 \in g.children[BOOT]
        BY <2>1, <3>2 DEF Family, BootFamily
      <4> QED BY <1>0, <1>1, <4>1
    <3> QED BY <3>1, <3>2
  <2>2. ASSUME MAX_CHILDREN = 0, NEW q \in h.used PROVE h.children[q] = {}
    BY <1>1, <2>2 DEF Family, BootFamily
  <2> QED BY <2>1, <2>2 DEF BootFamily
<1>8. pl2[BOOT] # "sleep"
  BY <1>0, <1>4 DEF Family
<1> QED BY <1>5, <1>6, <1>7, <1>8 DEF Family, pl2

-----------------------------------------------------------------------------
(* The actions.                                                            *)

\* at may be read before or after those who were woken have left wait and sleep.
LEMMA UnblockedFamily ==
  ASSUME NEW g, NEW pl, NEW b, Family(g, pl, b), BOOT \in g.used, g.used \subseteq Addr
  PROVE  Family(g, Unblocked(g, pl), b)
<1>1. \A q \in g.used : Unblocked(g, pl)[q] \in {pl[q], "user"}
  BY DEF Unblocked
<1>2. Onward(g.used, pl, Unblocked(g, pl))
  <2> HIDE DEF Unblocked
  <2> QED BY <1>1 DEF Onward
<1> QED BY <1>2, OnwardFamily DEF SameFamily

\* Who runs is neither in wait nor in sleep.
LEMMA RunnerPlace ==
  ASSUME SafeInv, cpu \in k.used, k.state[cpu] = "RUNNING"
  PROVE  at[cpu] \notin {"wait", "sleep", "terminated", "dequeued", "released", "returned"}
BY SafeFacts DEF TableOK, PlacesOK

LEMMA FamilyFacts ==
  ASSUME SafeInv
  PROVE  /\ BOOT \in k.used /\ k.used \subseteq Addr /\ \A q \in k.used : k.pid[q] # 0
         /\ \A q \in k.used : at[q] = "wait" => k.state[q] = "BLOCKED" /\ ~InRing(k, q)
BY SafeFacts DEF TableOK, IdleReady, PidsTaken, PlacesOK, RingOK

LEMMA CreatesFamily ==
  ASSUME SafeInv, Family(k, at, boot), Safe(k', cpu', at', boot'),
         cpu \in k.used, k.state[cpu] = "RUNNING", boot' > 0,
         NEW new \in Addr, boot = 0 => cpu = BOOT /\ new = IDLE,
         NEW v \in Int, NEW fg \in BOOLEAN, NEW garbage \in Garbage,
         Creates(new, v, fg, garbage)
  PROVE  Family(k', at', boot') /\ NoNewSleeper /\ LastChildGone
<1> DEFINE h  == createProcess(k, new, v, fg, garbage)
           pl == [at EXCEPT ![new] = "user"]
<1>1. /\ new \notin k.used /\ FreePid(k) # 0 /\ garbage \in 0..2
      /\ k' = h /\ at' = Unblocked(h, pl)
  BY KernelAssumption DEF Creates, SafeInv, Disciplined
<1>2. Born(k, h, new)
  BY <1>1, SafeFacts, createProcessBorn
<1> HIDE DEF h
<1>3. FreePid(k) \in Slots /\ ~k.pids[FreePid(k)]
  BY <1>1, SafeFacts, FreeSlotExists DEF TableOK
<1>4. at[cpu] \notin {"wait", "sleep"} /\ TableOK(k, cpu, at, boot) /\ boot \in Nat
  BY RunnerPlace, SafeFacts
<1>5. boot = 0 => cpu = BOOT /\ FreePid(k) = 2
  <2>1. new = IDLE => k'.pid[new] = 2
    BY DEF Safe, TableOK, IdleReady
  <2>2. k'.pid[new] = FreePid(k)
    BY <1>1, <1>2, SafeFacts DEF Born, Globals
  <2> QED BY <2>1, <2>2
<1>6. Family(h, pl, boot')
  BY <1>1, <1>2, <1>3, <1>4, <1>5, SafeFacts, BornFamily
<1>7. h.used = k.used \cup {new} /\ \A q \in k.used : q # new /\ pl[q] = at[q]
  BY <1>1, <1>2, SafeFacts DEF Born
<1>8. pl[new] = "user"
  BY SafeFacts
<1> HIDE DEF pl
<1>9. Ends(h, pl)
  BY <1>1 DEF Ends, SameFamily, Unblocked
<1>10. Family(k', at', boot')
  BY <1>1, <1>6, <1>7, FamilyFacts, UnblockedFamily
<1>11. NoNewSleeper
  <2>1. SameSleepers(h, pl) /\ h.used \subseteq Addr
    BY <1>7, <1>8, SafeFacts DEF SameSleepers
  <2> QED BY <1>9, <2>1, EndsSleepers
<1>12. LastChildGone
  <2>1. WakesTheBereft(h) /\ \A q \in k.used : at[q] = "wait" => pl[q] = "wait"
    BY <1>2, <1>7, SafeFacts DEF WakesTheBereft, Born
  <2> QED BY <1>9, <2>1, EndsWaits
<1> QED BY <1>10, <1>11, <1>12

\* A death that ends with a call to the scheduler.
LEMMA DeathFamily ==
  ASSUME SafeInv, Family(k, at, boot), Safe(k', cpu', at', boot'), boot > 0,
         NEW p \in k.used, p # BOOT, p # IDLE,
         NEW h, Bereft(k, h, p), WellFormed(h), CallScheduler(h, at)
  PROVE  Family(k', at', boot) /\ NoNewSleeper /\ LastChildGone
<1>1. Ends(h, at)
  BY SafeFacts, CallSchedulerEnds
<1>2. Family(h, Unblocked(h, at), boot)
  BY SafeFacts, BereftFamily
<1>3. h.used \subseteq k.used /\ BOOT \in h.used
  BY FamilyFacts DEF Bereft
<1>4. Family(k', at', boot)
  BY <1>1, <1>2, <1>3, FamilyFacts, EndsFamily
<1>5. NoNewSleeper
  BY <1>1, <1>3, FamilyFacts, EndsSleepers DEF SameSleepers
<1>6. WakesTheBereft(h)
  BY <1>3 DEF WakesTheBereft, Bereft
<1> QED BY <1>1, <1>4, <1>5, <1>6, EndsWaits

\* A handler that changes no family and wakes nobody up.
LEMMA StillFamily ==
  ASSUME SafeInv, Family(k, at, boot), Safe(k', cpu', at', boot'),
         NEW g, NEW pl, SameFamily(k, g), Onward(k.used, at, pl), Ends(g, pl),
         \A q \in k.used : InRing(g, q) => InRing(k, q),
         \A q \in k.used : at[q] = "wait" => pl[q] = "wait"
  PROVE  Family(k', at', boot) /\ NoNewSleeper /\ LastChildGone
BY SameFamilyStep, EndsWaits DEF WakesTheBereft

LEMMA ReturnFamily ==
  ASSUME SafeInv, Family(k, at, boot), Safe(k', cpu', at', boot'),
         NEW g, SameFamily(k, g), Return(g), \A q \in k.used : InRing(g, q) => InRing(k, q)
  PROVE  Family(k', at', boot) /\ NoNewSleeper /\ LastChildGone
<1>1. Ends(g, at) /\ Onward(k.used, at, at)
  BY ReturnEnds DEF Onward
<1> QED BY <1>1, StillFamily

LEMMA KillsFamily ==
  ASSUME SafeInv, Family(k, at, boot), Safe(k', cpu', at', boot'), NEW pid, Kills(pid)
  PROVE  Family(k', at', boot) /\ NoNewSleeper /\ LastChildGone
<1> DEFINE p == get_process_by_pid(k, pid)
           h == Killed(k, p)
<1>1. CASE pid < 3 \/ p = NULL
  BY <1>1, ReturnFamily DEF Kills, SameFamily
<1>2. CASE ~(pid < 3 \/ p = NULL)
  <2>1. CallScheduler(h, at)
    BY <1>2, Zenon DEF Kills
  <2>2. p \in k.used /\ k.pid[p] = pid /\ ~(pid < 3)
    BY <1>2, SafeFacts, Lookup
  <2> HIDE DEF p
  <2>3. p # BOOT /\ p # IDLE /\ boot > 0
    <3>1. p # BOOT
      BY <2>2, SafeFacts DEF TableOK, IdleReady
    <3>2. boot > 0
      BY <2>2, <3>1, SafeFacts DEF TableOK, IdleReady
    <3> QED BY <2>2, <3>1, <3>2, SafeFacts DEF TableOK, IdleReady
  <2>4. Bereft(k, h, p) /\ WellFormed(h)
    BY <2>2, SafeFacts, FamilyFacts, KilledBereft, KilledWellFormed
  <2> HIDE DEF h
  <2> QED BY <2>1, <2>2, <2>3, <2>4, DeathFamily
<1> QED BY <1>1, <1>2

LEMMA BlockFamily ==
  ASSUME SafeInv, Family(k, at, boot), Safe(k', cpu', at', boot'), NEW pid, Block(pid)
  PROVE  Family(k', at', boot) /\ NoNewSleeper /\ LastChildGone
<1>1. Return(block_process(k, pid))
  BY DEF Block
<1> QED BY <1>1, SafeFacts, block_processFamily, ReturnFamily

LEMMA NiceFamily ==
  ASSUME SafeInv, Family(k, at, boot), Safe(k', cpu', at', boot'), NEW pid, NEW v, Nice(pid, v)
  PROVE  Family(k', at', boot) /\ NoNewSleeper /\ LastChildGone
<1> DEFINE h == modify_priority(k, pid, v, Quanta)
<1>1. Return(h) /\ SameFamily(k, h)
  BY SafeFacts, modify_priorityFamily DEF Nice
<1>2. \A q : InRing(h, q) => InRing(k, q)
  BY SafeFacts DEF modify_priority, Globals, InRing
<1> HIDE DEF h
<1> QED BY <1>1, <1>2, ReturnFamily

\* unblock wakes whoever it is told to, and its children live on.
LEMMA UnblockFamily ==
  ASSUME SafeInv, Family(k, at, boot), NEW pid, Unblock(pid)
  PROVE  Family(k', at', boot) /\ NoNewSleeper
<1>1. Return(unblock_process(k, pid))
  BY DEF Unblock
<1>2. Ends(unblock_process(k, pid), at) /\ Onward(k.used, at, at)
  BY <1>1, ReturnEnds DEF Onward
<1> QED BY <1>2, SafeFacts, unblock_processFamily, SameFamilyStep

\* The caller of wait has a child, and from now on its end will be told.
LEMMA WaitsFamily ==
  ASSUME SafeInv, Family(k, at, boot), Safe(k', cpu', at', boot'),
         cpu \in k.used, k.state[cpu] = "RUNNING", Waits
  PROVE  Family(k', at', boot) /\ NoNewSleeper /\ LastChildGone
<1> DEFINE g  == [k EXCEPT !.waiting_on_child[Self] = 1]
           h  == block_process(g, k.pid[Self])
           pl == [at EXCEPT ![cpu] = "wait"]
<1>1. CASE k.children[Self] # {}
  <2>1. CallScheduler(h, pl) /\ k.children[cpu] # {}
    BY <1>1, SafeFacts DEF Waits
  <2>2. /\ g \in Globals /\ SameRing(k, g) /\ g.used = k.used /\ g.pid = k.pid
        /\ g.parent_pid = k.parent_pid /\ g.children = k.children
        /\ g.waiting_on_child = [k.waiting_on_child EXCEPT ![cpu] = 1]
        /\ k.waiting_on_child \in [Addr -> 0..2]
    <3>1. Self \in Addr /\ 1 \in 0..2 /\ k \in Globals /\ cpu = Self
      BY SafeFacts
    <3> QED BY <3>1 DEF Globals, SameRing
  <2> HIDE DEF g
  <2>3. WellFormed(g)
    BY <2>2, SafeFacts, SameRingWellFormed
  <2>4. WellFormed(h) /\ SameFamily(g, h) /\ \A q : InRing(h, q) => InRing(g, q)
    BY <2>3, block_processWellFormed, block_processFamily
  <2> HIDE DEF h
  <2>5. pl \in [Addr -> Places] /\ \A q \in Addr : pl[q] = IF q = cpu THEN "wait" ELSE at[q]
    BY SafeFacts DEF Places
  <2> HIDE DEF pl
  <2>6. Family(h, pl, boot)
    <3>1. /\ h.used = k.used /\ h.pid = k.pid /\ h.parent_pid = k.parent_pid
          /\ h.children = k.children /\ h.waiting_on_child = [k.waiting_on_child EXCEPT ![cpu] = 1]
      BY <2>2, <2>4 DEF SameFamily
    <3>2. ChildrenOK(h) /\ BootFamily(h, boot)
      BY <3>1 DEF Family, ChildrenOK, BootFamily
    <3>3. \A q \in Addr : h.waiting_on_child[q] = IF q = cpu THEN 1 ELSE k.waiting_on_child[q]
      BY <2>2, <3>1
    <3>4. KinOK(h, pl)
      BY <2>1, <2>5, <3>1, <3>3, FamilyFacts DEF Family, KinOK
    <3>5. pl[BOOT] # "sleep"
      BY <2>5, FamilyFacts DEF Family
    <3> QED BY <3>2, <3>4, <3>5 DEF Family
  <2>7. Ends(h, pl)
    BY <2>1, <2>4, SafeFacts, CallSchedulerEnds
  <2>8. h.used = k.used
    BY <2>2, <2>4 DEF SameFamily
  <2>9. Family(k', at', boot)
    BY <2>6, <2>7, <2>8, FamilyFacts, UnblockedFamily, EndsFamily
  <2>10. NoNewSleeper
    BY <2>5, <2>7, <2>8, FamilyFacts, EndsSleepers DEF SameSleepers
  <2>11. LastChildGone
    <3>1. \A q : InRing(h, q) => InRing(k, q)
      BY <2>2, <2>4 DEF SameRing, InRing
    <3> QED BY <2>5, <2>7, <3>1, FamilyFacts, EndsWaits DEF WakesTheBereft
  <2> QED BY <2>9, <2>10, <2>11
<1>2. CASE k.children[Self] = {}
  BY <1>2, ReturnFamily DEF Waits, SameFamily
<1> QED BY <1>1, <1>2

\* The caller of sleep leaves its families as they are.
LEMMA SleepFamily ==
  ASSUME SafeInv, Family(k, at, boot), Safe(k', cpu', at', boot'), NEW n, Sleep(n)
  PROVE  /\ Family(k', at', boot) /\ LastChildGone
         /\ \A p \in k'.used : at'[p] = "sleep" => p = cpu \/ (p \in k.used /\ at[p] = "sleep")
<1> DEFINE h  == block_process(k, k.pid[Self])
           pl == [at EXCEPT ![cpu] = "sleep"]
<1>1. CallScheduler(h, pl) /\ at[cpu] = "user" /\ cpu # BOOT
  BY DEF Sleep, Allowed, Program
<1>2. WellFormed(h) /\ SameFamily(k, h) /\ \A q : InRing(h, q) => InRing(k, q)
  BY SafeFacts, block_processWellFormed, block_processFamily
<1> HIDE DEF h
<1>3. pl \in [Addr -> Places] /\ \A q \in Addr : pl[q] = IF q = cpu THEN "sleep" ELSE at[q]
  BY SafeFacts DEF Places
<1> HIDE DEF pl
<1>4. Ends(h, pl)
  BY <1>1, <1>2, SafeFacts, CallSchedulerEnds
<1>5. h.used = k.used
  BY <1>2 DEF SameFamily
<1>6. Family(h, pl, boot)
  <2>1. ChildrenOK(h) /\ BootFamily(h, boot)
    BY <1>2 DEF Family, SameFamily, ChildrenOK, BootFamily
  <2>2. KinOK(h, pl)
    BY <1>2, <1>3, FamilyFacts DEF Family, SameFamily, KinOK
  <2>3. pl[BOOT] # "sleep"
    BY <1>1, <1>3, FamilyFacts DEF Family
  <2> QED BY <2>1, <2>2, <2>3 DEF Family
<1>7. Family(k', at', boot)
  BY <1>4, <1>5, <1>6, FamilyFacts, UnblockedFamily, EndsFamily
<1>8. LastChildGone
  BY <1>1, <1>2, <1>3, <1>4, FamilyFacts, EndsWaits DEF WakesTheBereft
<1>9. k'.used = k.used
  BY <1>4, <1>5 DEF Ends, SameFamily
<1>10. \A p \in k.used : at'[p] = "sleep" => pl[p] = "sleep"
  BY <1>4, FamilyFacts DEF Ends
<1> QED BY <1>3, <1>7, <1>8, <1>9, <1>10, FamilyFacts

LEMMA EndProcessFamily ==
  ASSUME SafeInv, Family(k, at, boot), Safe(k', cpu', at', boot'), EndProcess
  PROVE  Family(k', at', boot) /\ NoNewSleeper /\ LastChildGone
<1> DEFINE r == remove_from_processes_list(k, cpu)
           h == PidGivenBack(r)
<1>1. CallScheduler(h, at) /\ at[cpu] = "user" /\ cpu \notin {BOOT, IDLE}
  BY SafeFacts DEF EndProcess, Allowed, Program
<1>2. cpu \in k.used /\ boot > 0
  BY <1>1, InProgram
<1>3. Bereft(k, r, cpu) /\ WellFormed(r)
  BY <1>2, SafeFacts, FamilyFacts, remove_from_processes_listBereft,
     remove_from_processes_listWellFormed
<1> HIDE DEF r
<1>4. WellFormed(h) /\ SameFamily(r, h) /\ h.state = r.state /\ SameRing(r, h)
  <2>1. WellFormed(h)
    BY <1>3, PidGivenBackWellFormed
  <2> QED BY <1>3, <2>1 DEF PidGivenBack, WellFormed, Globals, SameFamily, SameRing
<1> HIDE DEF h
<1>5. \A q : InRing(h, q) <=> InRing(r, q)
  BY <1>4 DEF SameRing, InRing
<1>6. Bereft(k, h, cpu)
  BY <1>3, <1>4, <1>5 DEF Bereft, SameFamily
<1> QED BY <1>1, <1>2, <1>4, <1>6, DeathFamily

\* The parent of a process that ends has forgotten it when the steps of the exit begin.
LEMMA ExitDetachFamily ==
  ASSUME SafeInv, Family(k, at, boot), Safe(k', cpu', at', boot'), ExitDetach
  PROVE  Family(k', at', boot) /\ NoNewSleeper /\ LastChildGone
<1> DEFINE h  == DetachFromParent(k, cpu)
           pl == [at EXCEPT ![cpu] = "detached"]
<1>1. at[cpu] = "user" /\ cpu \notin {BOOT, IDLE}
  BY DEF ExitDetach, Exiting
<1>2. cpu \in k.used /\ k.state[cpu] = "RUNNING" /\ boot > 0
  BY <1>1, InProgram
<1>3. Exiting("user", "detached", h)
  <2>1. foundprocess(k, k.pid[cpu]) \in Slots
    BY <1>2, SafeFacts, Lookup
  <2>2. foundprocess(k, k.pid[Self]) # 0
    BY <2>1, SafeFacts, TableAssumption DEF Slots
  <2> QED BY <2>2, SafeFacts DEF ExitDetach
<1>4. Bereft(k, h, cpu) /\ h.used = k.used /\ WellFormed(h) /\ h.pid = k.pid
  BY <1>2, SafeFacts, FamilyFacts, DetachFromParentBereft, DetachFromParentWellFormed DEF Bereft
<1>5. Ends(h, pl)
  BY <1>3, ExitingEnds
<1> HIDE DEF h
<1>6. \A q \in Addr : pl[q] = IF q = cpu THEN "detached" ELSE at[q]
  BY SafeFacts
<1> HIDE DEF pl
<1>7. Family(h, Unblocked(h, at), boot) /\ \A q \in h.used : k.pid[cpu] \notin h.children[q]
  BY <1>1, <1>2, <1>4, SafeFacts, BereftFamily
<1>8. Family(h, Unblocked(h, pl), boot)
  <2> DEFINE pl1 == Unblocked(h, at)
             pl2 == Unblocked(h, pl)
  <2>1. \A q \in Addr : pl2[q] = IF q = cpu THEN "detached" ELSE pl1[q]
    BY <1>6 DEF Unblocked
  <2>2. ChildrenOK(h) /\ BootFamily(h, boot) /\ KinOK(h, pl1) /\ pl1[BOOT] # "sleep"
    BY <1>7 DEF Family
  <2> HIDE DEF pl1, pl2
  <2>3. KinOK(h, pl2)
    BY <1>4, <1>7, <2>1, <2>2, FamilyFacts DEF KinOK
  <2>4. pl2[BOOT] # "sleep"
    BY <2>1, <2>2, FamilyFacts
  <2> QED BY <2>2, <2>3, <2>4 DEF Family, pl2
<1>9. Family(k', at', boot)
  BY <1>4, <1>5, <1>8, FamilyFacts, EndsFamily
<1>10. NoNewSleeper
  BY <1>1, <1>4, <1>5, <1>6, FamilyFacts, EndsSleepers DEF SameSleepers
<1>11. LastChildGone
  <2>1. WakesTheBereft(h)
    BY <1>4 DEF WakesTheBereft, Bereft
  <2>2. \A q \in k.used : at[q] = "wait" => pl[q] = "wait"
    BY <1>1, <1>6, FamilyFacts
  <2> QED BY <1>5, <2>1, <2>2, EndsWaits
<1> QED BY <1>9, <1>10, <1>11

\* The steps between DetachFromParent and ReleaseSlot.
LEMMA ExitOnFamily ==
  ASSUME SafeInv, Family(k, at, boot), Safe(k', cpu', at', boot'),
         NEW from \in {"detached", "terminated"}, NEW to \in {"terminated", "dequeued"},
         NEW g, SameFamily(k, g), \A q : InRing(g, q) => InRing(k, q), Exiting(from, to, g)
  PROVE  Family(k', at', boot) /\ NoNewSleeper /\ LastChildGone
<1> DEFINE pl == [at EXCEPT ![cpu] = to]
<1>1. Ends(g, pl) /\ at[cpu] = from
  BY ExitingEnds DEF Exiting
<1>2. \A q \in Addr : pl[q] = IF q = cpu THEN to ELSE at[q]
  BY SafeFacts
<1> HIDE DEF pl
<1>3. Onward(k.used, at, pl) /\ \A q \in k.used : at[q] = "wait" => pl[q] = "wait"
  BY <1>1, <1>2, FamilyFacts DEF Onward
<1> QED BY <1>1, <1>3, StillFamily

LEMMA ExitTerminateFamily ==
  ASSUME SafeInv, Family(k, at, boot), Safe(k', cpu', at', boot'), ExitTerminate
  PROVE  Family(k', at', boot) /\ NoNewSleeper /\ LastChildGone
<1> DEFINE g == Terminate(k, cpu)
<1>1. Exiting("detached", "terminated", g)
  BY SafeFacts DEF ExitTerminate
<1>2. SameFamily(k, g) /\ SameRing(k, g)
  BY SafeFacts, TerminateReduced, TerminateFields
<1> HIDE DEF g
<1>3. \A q : InRing(g, q) => InRing(k, q)
  BY <1>2 DEF SameRing, InRing
<1> QED BY <1>1, <1>2, <1>3, ExitOnFamily

LEMMA ExitDequeueFamily ==
  ASSUME SafeInv, Family(k, at, boot), Safe(k', cpu', at', boot'), ExitDequeue
  PROVE  Family(k', at', boot) /\ NoNewSleeper /\ LastChildGone
<1> DEFINE g == remove_from_ready_list(k, cpu)
<1>1. Exiting("terminated", "dequeued", g)
  BY SafeFacts DEF ExitDequeue
<1>2. SameTable(k, g) /\ \A q : InRing(g, q) => InRing(k, q)
  BY SafeFacts, remove_from_ready_listRing
<1> HIDE DEF g
<1>3. SameFamily(k, g)
  BY <1>2 DEF SameTable, SameFamily
<1> QED BY <1>1, <1>2, <1>3, ExitOnFamily

\* By the time its PCB is freed, nobody counts the process among its children.
LEMMA ExitReleaseFamily ==
  ASSUME SafeInv, Family(k, at, boot), Safe(k', cpu', at', boot'), ExitRelease
  PROVE  Family(k', at', boot) /\ NoNewSleeper /\ LastChildGone
<1> DEFINE h  == ReleaseSlot(k, cpu)
           pl == [at EXCEPT ![cpu] = "released"]
<1>1. Exiting("dequeued", "released", h) /\ at[cpu] = "dequeued" /\ cpu \notin {BOOT, IDLE}
  BY SafeFacts DEF ExitRelease, Exiting
<1>2. cpu \in k.used /\ boot > 0
  <2>1. cpu \in k.used
    BY <1>1, Dying
  <2> QED BY <1>1, <2>1, SafeFacts DEF TableOK, IdleReady
<1>3. Reduced(k, h, cpu) /\ h.used = k.used \ {cpu}
  BY SafeFacts, ReleaseSlotReduced
<1>4. Ends(h, pl)
  BY <1>1, ExitingEnds
<1> HIDE DEF h
<1>5. \A q \in Addr : pl[q] = IF q = cpu THEN "released" ELSE at[q]
  BY SafeFacts
<1> HIDE DEF pl
<1>6. \A q \in k.used : k.pid[cpu] \notin k.children[q]
  BY <1>1, <1>2 DEF Family, KinOK
<1>7. \A q \in h.used : q \in k.used /\ q \in Addr /\ q # cpu
  BY <1>3, FamilyFacts
<1>8. Bereft(k, h, cpu)
  <2>1. \A q \in h.used :
           /\ h.parent_pid[q] = k.parent_pid[q] /\ h.waiting_on_child[q] = k.waiting_on_child[q]
           /\ h.children[q] = k.children[q]
           /\ InRing(h, q) => InRing(k, q)
    BY <1>3, <1>7 DEF Reduced
  <2>2. \A q \in h.used : k.children[q] = k.children[q] \ {k.pid[cpu]}
    BY <1>6, <1>7
  <2>3. h.pid = k.pid
    BY <1>3 DEF Reduced
  <2>4. \A q \in h.used :
           /\ h.children[q] = IF k.pid[q] = k.parent_pid[cpu] THEN k.children[q] \ {k.pid[cpu]}
                              ELSE k.children[q]
           /\ h.children[q] = k.children[q]
    <3> SUFFICES ASSUME NEW q \in h.used
                 PROVE  h.children[q] = k.children[q] /\ h.children[q] = k.children[q] \ {k.pid[cpu]}
      OBVIOUS
    <3>1. h.children[q] = k.children[q]
      BY <2>1
    <3>2. k.children[q] = k.children[q] \ {k.pid[cpu]}
      BY <2>2
    <3> QED BY <3>1, <3>2
  <2> QED BY <1>3, <2>1, <2>3, <2>4 DEF Bereft
<1>9. Family(h, Unblocked(h, at), boot)
  BY <1>1, <1>2, <1>8, SafeFacts, BereftFamily
<1>10. Family(h, Unblocked(h, pl), boot)
  <2>1. \A q \in h.used : Unblocked(h, pl)[q] = Unblocked(h, at)[q]
    BY <1>5, <1>7 DEF Unblocked
  <2>2. BOOT \in h.used
    BY <1>1, <1>3, FamilyFacts
  <2>3. Onward(h.used, Unblocked(h, at), Unblocked(h, pl))
    <3> HIDE DEF Unblocked
    <3> QED BY <2>1 DEF Onward
  <2> QED BY <1>9, <2>2, <2>3, OnwardFamily DEF SameFamily
<1>11. Family(k', at', boot)
  BY <1>1, <1>3, <1>4, <1>7, <1>10, FamilyFacts, EndsFamily
<1>12. NoNewSleeper
  BY <1>1, <1>4, <1>5, <1>7, FamilyFacts, EndsSleepers DEF SameSleepers
<1>13. LastChildGone
  <2>1. WakesTheBereft(h)
    BY <1>8 DEF WakesTheBereft, Bereft
  <2>2. \A q \in k.used : at[q] = "wait" => pl[q] = "wait"
    BY <1>1, <1>5, FamilyFacts
  <2> QED BY <1>4, <2>1, <2>2, EndsWaits
<1> QED BY <1>11, <1>12, <1>13

LEMMA ExitFinishFamily ==
  ASSUME SafeInv, Family(k, at, boot), Safe(k', cpu', at', boot'), ExitFinish
  PROVE  Family(k', at', boot) /\ NoNewSleeper /\ LastChildGone
<1> DEFINE h     == PidGivenBack(k)
           place == IF KeepsCpu(h) THEN "returned" ELSE "user"
           pl    == [at EXCEPT ![cpu] = place]
<1>1. at[cpu] = "released" /\ CallScheduler(h, pl)
  BY DEF ExitFinish
<1>2. cpu \notin k.used
  BY <1>1, SafeFacts DEF TableOK, PlacesOK
<1>3. WellFormed(h) /\ SameFamily(k, h) /\ SameRing(k, h)
  <2>1. WellFormed(h)
    BY SafeFacts, PidGivenBackWellFormed
  <2> QED BY <2>1, SafeFacts DEF PidGivenBack, Globals, SameFamily, SameRing
<1>4. Ends(h, pl)
  BY <1>1, <1>3, SafeFacts, CallSchedulerEnds
<1> HIDE DEF h, place
<1>5. \A q \in k.used : pl[q] = at[q]
  BY <1>2, SafeFacts
<1> HIDE DEF pl
<1>6. Onward(k.used, at, pl) /\ \A q : InRing(h, q) => InRing(k, q)
  BY <1>3, <1>5 DEF Onward, SameRing, InRing
<1> QED BY <1>3, <1>4, <1>5, <1>6, StillFamily

\* The sleep queue: an insertion loses nothing, and Drop loses one entry.
LEMMA InsertedKeeps ==
  ASSUME NEW S, NEW s \in Seq(S), NEW e \in S, S \subseteq Entries
  PROVE  /\ \E j \in DOMAIN Inserted(s, e) : Inserted(s, e)[j] = e
         /\ \A i \in DOMAIN s : \E j \in DOMAIN Inserted(s, e) : Inserted(s, e)[j] = s[i]
<1> DEFINE J == {j \in DOMAIN s : s[j].left > e.left}
           m == First(J)
           r == Inserted(s, e)
<1>1. J \subseteq 1..Len(s) /\ J \subseteq Nat /\ Len(s) \in Nat
  OBVIOUS
<1>2. CASE J = {}
  <2>1. r = Append(s, e)
    BY <1>2 DEF Inserted, First
  <2> HIDE DEF r
  <2>2. r[Len(s) + 1] = e /\ DOMAIN r = 1..(Len(s) + 1) /\ \A i \in DOMAIN s : r[i] = s[i]
    BY <1>1, <2>1
  <2> QED BY <1>1, <2>2 DEF r
<1>3. CASE J # {}
  <2>1. m \in J
    BY <1>1, <1>3, FirstIsLeast, Zenon
  <2>2. m # 0 /\ m \in 1..Len(s)
    BY <1>1, <2>1
  <2>3. r = SubSeq(s, 1, m - 1) \o <<e>> \o SubSeq(s, m, Len(s))
    BY <2>2 DEF Inserted
  <2> HIDE DEF r, m, J
  <2>4. /\ SubSeq(s, 1, m - 1) \in Seq(S) /\ Len(SubSeq(s, 1, m - 1)) = m - 1
        /\ \A i \in 1..(m - 1) : SubSeq(s, 1, m - 1)[i] = s[i]
    BY <2>2
  <2>5. /\ SubSeq(s, m, Len(s)) \in Seq(S) /\ Len(SubSeq(s, m, Len(s))) = Len(s) - m + 1
        /\ \A i \in 1..(Len(s) - m + 1) : SubSeq(s, m, Len(s))[i] = s[m - 1 + i]
    BY <2>2
  <2>6. /\ Len(r) = Len(s) + 1 /\ DOMAIN r = 1..(Len(s) + 1) /\ r[m] = e
        /\ \A i \in 1..(m - 1) : r[i] = s[i]
        /\ \A i \in m..Len(s) : r[i + 1] = s[i]
    <3> DEFINE a == SubSeq(s, 1, m - 1)
               z == SubSeq(s, m, Len(s))
               u == a \o <<e>>
    <3>1. a \in Seq(S) /\ Len(a) = m - 1 /\ <<e>> \in Seq(S) /\ z \in Seq(S)
      BY <2>4, <2>5
    <3>2. \A i \in 1..(m - 1) : a[i] = s[i]
      BY <2>4
    <3>3. Len(z) = Len(s) - m + 1 /\ \A i \in 1..(Len(s) - m + 1) : z[i] = s[m - 1 + i]
      BY <2>5
    <3>4. r = u \o z
      BY <2>3
    <3> HIDE DEF a, z
    <3>5. u \in Seq(S) /\ Len(u) = m /\ u[m] = e /\ \A i \in 1..(m - 1) : u[i] = s[i]
      BY <2>2, <3>1, <3>2
    <3> HIDE DEF u
    <3>6. /\ Len(r) = Len(s) + 1 /\ DOMAIN r = 1..(Len(s) + 1)
          /\ \A i \in 1..m : r[i] = u[i]
      <4>0. r \in Seq(S) /\ Len(r) = Len(u) + Len(z) /\ \A i \in 1..Len(u) : r[i] = u[i]
        <5>1. u \in Seq(S) /\ z \in Seq(S)
          BY <3>1, <3>5
        <5>2. u \o z \in Seq(S) /\ Len(u \o z) = Len(u) + Len(z)
          BY <5>1
        <5>3. \A i \in 1..Len(u) : (u \o z)[i] = u[i]
          BY <5>1
        <5> QED BY <3>4, <5>2, <5>3
      <4>1. Len(r) = m + Len(z) /\ r \in Seq(S) /\ \A i \in 1..m : r[i] = u[i]
        BY <3>5, <4>0
      <4>2. m + (Len(s) - m + 1) = Len(s) + 1
        BY <1>1, <2>2
      <4>3. Len(r) = Len(s) + 1
        BY <3>3, <4>1, <4>2
      <4> QED BY <4>1, <4>3
    <3>7. ASSUME NEW i \in m..Len(s) PROVE r[i + 1] = s[i]
      <4>1. r[i + 1] = z[i + 1 - m]
        BY <1>1, <2>2, <3>1, <3>3, <3>4, <3>5
      <4>2. z[i + 1 - m] = s[m - 1 + (i + 1 - m)]
        BY <1>1, <2>2, <3>3
      <4>3. m - 1 + (i + 1 - m) = i
        BY <1>1, <2>2
      <4> QED BY <4>1, <4>2, <4>3
    <3>8. m \in 1..m /\ \A i \in 1..(m - 1) : i \in 1..m
      BY <2>2
    <3> QED BY <3>5, <3>6, <3>7, <3>8
  <2>7. m \in 1..(Len(s) + 1)
    BY <1>1, <2>2
  <2>8. ASSUME NEW i \in DOMAIN s PROVE \E j \in DOMAIN r : r[j] = s[i]
    <3>1. i \in 1..Len(s)
      OBVIOUS
    <3>2. CASE i < m
      <4>1. i \in 1..(m - 1) /\ i \in 1..(Len(s) + 1)
        BY <1>1, <2>2, <3>1, <3>2
      <4> QED BY <2>6, <4>1
    <3>3. CASE ~(i < m)
      <4>1. i \in m..Len(s) /\ i + 1 \in 1..(Len(s) + 1)
        BY <1>1, <2>2, <3>1, <3>3
      <4> QED BY <2>6, <4>1
    <3> QED BY <3>2, <3>3
  <2> QED BY <2>6, <2>7, <2>8 DEF r
<1> QED BY <1>2, <1>3

LEMMA DropKeeps ==
  ASSUME NEW S, NEW s \in Seq(S), NEW i \in DOMAIN s, NEW x \in DOMAIN s, x # i
  PROVE  \E j \in DOMAIN Drop(s, i) : Drop(s, i)[j] = s[x]
<1> DEFINE r == Drop(s, i)
<1>1. /\ r \in Seq(S) /\ Len(r) = Len(s) - 1 /\ Len(s) \in Nat
      /\ \A j \in 1..Len(r) : r[j] = IF j < i THEN s[j] ELSE s[j + 1]
  <2>1. i \in 1..Len(s) /\ Len(s) \in Nat
    OBVIOUS
  <2> QED BY <2>1, WithoutIndex DEF Drop
<1>2. DOMAIN r = 1..Len(r) /\ i \in 1..Len(s) /\ x \in 1..Len(s)
  BY <1>1
<1> HIDE DEF r
<1>3. CASE x < i
  <2>1. x \in 1..Len(r)
    BY <1>1, <1>2, <1>3
  <2> QED BY <1>1, <1>2, <1>3, <2>1 DEF r
<1>4. CASE ~(x < i)
  <2>1. x - 1 \in 1..Len(r) /\ ~(x - 1 < i) /\ (x - 1) + 1 = x
    BY <1>1, <1>2, <1>4
  <2> QED BY <1>1, <1>2, <2>1 DEF r
<1> QED BY <1>3, <1>4

\* Who is still asleep after one entry has been dropped has another entry, if that one
\* was not its own.
LEMMA AlarmsLeft ==
  ASSUME SafeInv, Alarms(k, at, sleep_list), NoNewSleeper, irq \in DOMAIN sleep_list,
         \A p \in k.used : sleep_list[irq].proc = p => at'[p] # "sleep"
  PROVE  Alarms(k', at', Drop(sleep_list, irq))
<1> SUFFICES ASSUME NEW p \in k'.used, at'[p] = "sleep"
             PROVE  \E j \in DOMAIN Drop(sleep_list, irq) : Drop(sleep_list, irq)[j].proc = p
  BY DEF Alarms
<1>1. p \in k.used /\ at[p] = "sleep"
  BY DEF NoNewSleeper
<1>2. PICK i \in DOMAIN sleep_list : sleep_list[i].proc = p
  BY <1>1 DEF Alarms
<1>3. i # irq
  BY <1>1, <1>2
<1>4. sleep_list \in Seq(Entries)
  BY DEF SafeInv, IInv
<1> QED BY <1>2, <1>3, <1>4, DropKeeps

\* The entry of a sleeper is dropped only when the sleeper wakes up.
LEMMA TickScanFamily ==
  ASSUME SafeInv, Family(k, at, boot), Alarms(k, at, sleep_list), TickScan
  PROVE  Family(k', at', boot) /\ Alarms(k', at', sleep_list')
<1> DEFINE e == sleep_list[irq]
<1>1. irq \in DOMAIN sleep_list
  BY DEF TickScan
<1>2. PICK pid \in PidRead(e) :
         \/ /\ foundprocess(k, pid) = 0
            /\ sleep_list' = Drop(sleep_list, irq)
            /\ UNCHANGED <<k, at, irq>>
         \/ /\ foundprocess(k, pid) # 0
            /\ sleep_list' = Drop(sleep_list, irq)
            /\ \E seen : /\ k' = [unblock_process(k, pid) EXCEPT !.state[Self] =
                                     IF Self \in k.used THEN @ ELSE seen]
                         /\ at' = Unblocked(k', at)
         \/ UNCHANGED <<k, at, sleep_list>>
  BY DEF TickScan
<1>3. \A p \in k.used : e.proc = p => pid = k.pid[p] /\ foundprocess(k, pid) # 0
  <2> SUFFICES ASSUME NEW p \in k.used, e.proc = p
               PROVE  pid = k.pid[p] /\ foundprocess(k, pid) # 0
    OBVIOUS
  <2>1. pid = k.pid[p]
    BY <1>2 DEF PidRead
  <2>2. foundprocess(k, k.pid[p]) \in Slots
    BY SafeFacts, Lookup
  <2> QED BY <2>1, <2>2, TableAssumption DEF Slots
<1>4. ASSUME UNCHANGED <<k, at>>,
             \/ UNCHANGED sleep_list
             \/ foundprocess(k, pid) = 0 /\ sleep_list' = Drop(sleep_list, irq)
      PROVE  Family(k', at', boot) /\ Alarms(k', at', sleep_list')
  <2>1. NoNewSleeper /\ Family(k', at', boot)
    BY <1>4 DEF NoNewSleeper
  <2>2. CASE UNCHANGED sleep_list
    BY <1>4, <2>1, <2>2
  <2>3. CASE foundprocess(k, pid) = 0 /\ sleep_list' = Drop(sleep_list, irq)
    <3>1. \A p \in k.used : e.proc # p
      BY <1>3, <2>3
    <3> QED BY <1>1, <2>1, <2>3, <3>1, AlarmsLeft
  <2> QED BY <1>4, <2>2, <2>3
<1>5. ASSUME NEW seen, foundprocess(k, pid) # 0, sleep_list' = Drop(sleep_list, irq),
             k' = [unblock_process(k, pid) EXCEPT !.state[Self] =
                      IF Self \in k.used THEN @ ELSE seen],
             at' = Unblocked(k', at)
      PROVE  Family(k', at', boot) /\ Alarms(k', at', sleep_list')
  <2> DEFINE g  == unblock_process(k, pid)
             st == IF cpu \in k.used THEN g.state[cpu] ELSE seen
  <2>1. WellFormed(g) /\ SameFamily(k, g)
    BY SafeFacts, unblock_processWellFormed, unblock_processFamily
  <2>2. k' = [g EXCEPT !.state[cpu] = st]
    BY <1>5, SafeFacts
  <2>3. cpu \in k.used => st = g.state[cpu]
    OBVIOUS
  <2>4. \A p \in k.used : k.pid[p] = pid /\ p # BOOT => g.state[p] # "BLOCKED"
    <3> SUFFICES ASSUME NEW p \in k.used, k.pid[p] = pid, p # BOOT
                 PROVE  g.state[p] # "BLOCKED"
      OBVIOUS
    <3>1. p \in Addr /\ p = get_process_by_pid(k, pid)
      BY SafeFacts, Lookup
    <3>2. pid # 1
      <4>1. BOOT \in k.used /\ k.pid[BOOT] = 1
        BY SafeFacts DEF TableOK, IdleReady
      <4> QED BY <4>1, SafeFacts, OnePid
    <3> QED BY <3>1, <3>2, SafeFacts, unblock_processWakes
  <2> HIDE DEF g, st
  <2>5. \A q \in k.used : k'.state[q] = g.state[q]
    BY <2>1, <2>2, <2>3, SafeFacts DEF WellFormed, Globals
  <2>6. SameFamily(k, k')
    <3>1. SameFamily(g, k')
      BY <2>1, <2>2 DEF WellFormed, Globals, SameFamily
    <3> QED BY <2>1, <3>1 DEF SameFamily
  <2>7. Ends(k', at)
    BY <1>5 DEF Ends, SameFamily, Unblocked
  <2>8. Family(k', at', boot) /\ NoNewSleeper
    BY <2>6, <2>7, SameFamilyStep DEF Onward
  <2>9. ASSUME NEW p \in k.used, e.proc = p PROVE at'[p] # "sleep"
    <3>1. CASE p = BOOT
      BY <2>8, <3>1 DEF Family
    <3>2. CASE p # BOOT
      <4>1. k'.state[p] # "BLOCKED"
        BY <1>3, <2>4, <2>5, <2>9, <3>2
      <4> QED BY <1>5, <4>1, SafeFacts DEF Unblocked
    <3> QED BY <3>1, <3>2
  <2> QED BY <1>1, <1>5, <2>8, <2>9, AlarmsLeft
<1> QED BY <1>2, <1>4, <1>5

\* A step after which every entry of the sleep queue still has its process.
LEMMA AlarmsKept ==
  ASSUME Alarms(k, at, sleep_list), NoNewSleeper,
         \A i \in DOMAIN sleep_list : \E j \in DOMAIN sleep_list' :
            sleep_list'[j].proc = sleep_list[i].proc
  PROVE  Alarms(k', at', sleep_list')
BY DEF Alarms, NoNewSleeper

LEMMA SameAlarms ==
  ASSUME Alarms(k, at, sleep_list), NoNewSleeper, UNCHANGED sleep_list
  PROVE  Alarms(k', at', sleep_list')
BY DEF Alarms, NoNewSleeper

LEMMA TickStartFamily ==
  ASSUME SafeInv, Family(k, at, boot), Alarms(k, at, sleep_list), TickStart
  PROVE  Family(k', at', boot') /\ Alarms(k', at', sleep_list') /\ LastChildGone
<1>1. UNCHANGED <<k, at, boot>>
  BY DEF TickStart
<1>2. sleep_list \in Seq(Entries)
  BY DEF SafeInv, IInv
<1>3. \A i \in DOMAIN sleep_list : i \in DOMAIN sleep_list' /\ sleep_list'[i].proc = sleep_list[i].proc
  <2> SUFFICES ASSUME NEW i \in DOMAIN sleep_list
               PROVE  i \in DOMAIN sleep_list' /\ sleep_list'[i].proc = sleep_list[i].proc
    OBVIOUS
  <2>1. sleep_list[i] \in Entries
    BY <1>2
  <2>2. sleep_list' = [j \in DOMAIN sleep_list |->
                         [sleep_list[j] EXCEPT !.left = IF @ = 0 THEN 0 ELSE @ - 1]]
    BY DEF TickStart
  <2>3. i \in DOMAIN sleep_list' /\ sleep_list'[i] = [sleep_list[i] EXCEPT !.left = IF @ = 0 THEN 0 ELSE @ - 1]
    BY <2>2
  <2> QED BY <2>1, <2>3 DEF Entries
<1>4. NoNewSleeper /\ LastChildGone
  BY <1>1 DEF NoNewSleeper, LastChildGone
<1> QED BY <1>1, <1>3, <1>4, AlarmsKept

LEMMA TickEndFamily ==
  ASSUME SafeInv, Family(k, at, boot), Safe(k', cpu', at', boot'), TickEnd
  PROVE  Family(k', at', boot) /\ NoNewSleeper /\ LastChildGone
<1>1. CallScheduler(k, at) /\ SameFamily(k, k) /\ Onward(k.used, at, at)
  BY DEF TickEnd, SameFamily, Onward
<1>2. Ends(k, at)
  BY <1>1, SafeFacts, CallSchedulerEnds
<1> QED BY <1>1, <1>2, StillFamily

LEMMA SleepAlarms ==
  ASSUME SafeInv, Alarms(k, at, sleep_list), NEW n \in 0..MaxSleep, Sleep(n),
         \A p \in k'.used : at'[p] = "sleep" => p = cpu \/ (p \in k.used /\ at[p] = "sleep")
  PROVE  Alarms(k', at', sleep_list')
<1> DEFINE e == [proc |-> cpu, left |-> n]
<1>1. sleep_list' = Inserted(sleep_list, e) /\ e \in Entries /\ e.proc = cpu
  BY SafeFacts DEF Sleep, Entries
<1>2. sleep_list \in Seq(Entries)
  BY DEF SafeInv, IInv
<1> HIDE DEF e
<1>3. /\ \E j \in DOMAIN sleep_list' : sleep_list'[j] = e
      /\ \A i \in DOMAIN sleep_list : \E j \in DOMAIN sleep_list' : sleep_list'[j] = sleep_list[i]
  BY <1>1, <1>2, InsertedKeeps
<1>4. ASSUME NEW p \in k'.used, at'[p] = "sleep"
      PROVE  \E j \in DOMAIN sleep_list' : sleep_list'[j].proc = p
  <2>1. CASE p = cpu
    BY <1>1, <1>3, <2>1
  <2>2. CASE p # cpu
    <3>1. PICK i \in DOMAIN sleep_list : sleep_list[i].proc = p
      BY <1>4, <2>2 DEF Alarms
    <3> QED BY <1>3, <3>1
  <2> QED BY <2>1, <2>2
<1> QED BY <1>4 DEF Alarms

\* first_process: from the creation of idle on, it has that child for ever.
LEMMA BootFamilyStep ==
  ASSUME SafeInv, Family(k, at, boot), Safe(k', cpu', at', boot'), Boot
  PROVE  Family(k', at', boot') /\ NoNewSleeper /\ LastChildGone /\ UNCHANGED sleep_list
<1>1. /\ cpu = BOOT /\ boot' = boot + 1 /\ boot' > 0 /\ BOOT \in k.used /\ k.state[cpu] = "RUNNING"
      /\ IDLE \in Addr /\ LOW \in Int /\ NORMAL \in Int /\ TRUE \in BOOLEAN
  <2>1. cpu = BOOT /\ boot' = boot + 1 /\ boot \in Nat
    BY SafeFacts DEF Boot
  <2>2. BOOT \in k.used /\ k.state[BOOT] # "TERMINATED"
    BY SafeFacts DEF TableOK, IdleReady
  <2>3. k.state[cpu] = "RUNNING"
    BY <2>1, <2>2, SafeFacts DEF CpuOK
  <2>4. boot' > 0
    BY <2>1
  <2>5. IDLE \in Addr /\ LOW \in Int /\ NORMAL \in Int /\ TRUE \in BOOLEAN
    BY KernelAssumption
  <2> QED BY <2>1, <2>2, <2>3, <2>4, <2>5
<1>2. ASSUME boot = 0, NEW garbage \in Garbage, Creates(IDLE, LOW, TRUE, garbage)
      PROVE  Family(k', at', boot') /\ NoNewSleeper /\ LastChildGone
  BY <1>1, <1>2, CreatesFamily
<1>3. ASSUME boot = 1, NEW shell \in Addr, NEW garbage \in Garbage,
             Creates(shell, NORMAL, TRUE, garbage)
      PROVE  Family(k', at', boot') /\ NoNewSleeper /\ LastChildGone
  <2>1. boot = 0 => cpu = BOOT /\ shell = IDLE
    BY <1>3
  <2> QED BY <1>1, <1>3, <2>1, CreatesFamily
<1>4. ASSUME boot = 2, Waits
      PROVE  Family(k', at', boot') /\ NoNewSleeper /\ LastChildGone
  <2>1. Family(k', at', boot) /\ NoNewSleeper /\ LastChildGone
    BY <1>1, <1>4, WaitsFamily
  <2>2. boot > 0 /\ boot' > 0 /\ boot' # 0
    BY <1>1, <1>4
  <2> QED BY <2>1, <2>2 DEF Family, BootFamily
<1>5. UNCHANGED sleep_list
  BY DEF Boot, Creates
<1> QED BY <1>2, <1>3, <1>4, <1>5 DEF Boot

-----------------------------------------------------------------------------
(* The inductive invariant.                                                *)

LEMMA CallFamily ==
  ASSUME SafeInv, Family(k, at, boot), Alarms(k, at, sleep_list), Safe(k', cpu', at', boot'), Call
  PROVE  /\ Family(k', at', boot') /\ Alarms(k', at', sleep_list')
         /\ "unblock" \notin Syscalls => LastChildGone
<1>1. ASSUME NEW new \in Addr, NEW prio \in Quanta, NEW fg \in Foreground, NEW garbage \in Garbage,
             Create(new, prio, fg, garbage)
      PROVE  Family(k', at', boot') /\ NoNewSleeper /\ LastChildGone /\ UNCHANGED sleep_list
  <2>1. /\ prio \in Int /\ fg \in BOOLEAN /\ Creates(new, prio, fg, garbage)
        /\ boot' = boot /\ at[cpu] = "user" /\ cpu # BOOT /\ UNCHANGED sleep_list
    BY <1>1, KernelAssumption DEF Create, Creates, Allowed, Program
  <2>2. cpu \in k.used /\ k.state[cpu] = "RUNNING" /\ boot > 0 /\ boot \in Nat
    BY <2>1, InProgram, SafeFacts
  <2>3. boot' > 0 /\ (boot = 0 => cpu = BOOT /\ new = IDLE)
    BY <2>1, <2>2
  <2> QED BY <2>1, <2>2, <2>3, CreatesFamily
<1>2. ASSUME NEW pid, Kill(pid)
      PROVE  Family(k', at', boot') /\ NoNewSleeper /\ LastChildGone /\ UNCHANGED sleep_list
  BY <1>2, KillsFamily DEF Kill
<1>3. ASSUME NEW pid, Block(pid)
      PROVE  Family(k', at', boot') /\ NoNewSleeper /\ LastChildGone /\ UNCHANGED sleep_list
  BY <1>3, BlockFamily DEF Block
<1>4. ASSUME NEW v, NEW pid, Nice(pid, v)
      PROVE  Family(k', at', boot') /\ NoNewSleeper /\ LastChildGone /\ UNCHANGED sleep_list
  BY <1>4, NiceFamily DEF Nice
<1>5. CASE Wait
  <2>1. Waits /\ boot' = boot /\ at[cpu] = "user" /\ UNCHANGED sleep_list
    BY <1>5 DEF Wait, Allowed, Program
  <2>2. cpu \in k.used /\ k.state[cpu] = "RUNNING"
    BY <2>1, InProgram
  <2>3. Family(k', at', boot') /\ NoNewSleeper /\ LastChildGone
    BY <2>1, <2>2, WaitsFamily
  <2> QED BY <2>1, <2>3, SameAlarms
<1>6. CASE EndProcess
  <2>1. Family(k', at', boot') /\ NoNewSleeper /\ LastChildGone /\ UNCHANGED sleep_list
    BY <1>6, EndProcessFamily DEF EndProcess
  <2> QED BY <2>1, SameAlarms
<1>7. ASSUME NEW pid, Unblock(pid)
      PROVE  Family(k', at', boot') /\ NoNewSleeper /\ "unblock" \in Syscalls /\ UNCHANGED sleep_list
  BY <1>7, UnblockFamily DEF Unblock, Allowed
<1>8. ASSUME NEW n \in 0..MaxSleep, Sleep(n)
      PROVE  Family(k', at', boot') /\ Alarms(k', at', sleep_list') /\ LastChildGone
  <2>1. boot' = boot
    BY <1>8 DEF Sleep
  <2> QED BY <1>8, <2>1, SleepFamily, SleepAlarms
<1>9. ~Yield
  BY DEF Yield, Allowed, SafeInv, Disciplined
<1> QED BY <1>1, <1>2, <1>3, <1>4, <1>5, <1>6, <1>7, <1>8, <1>9, SameAlarms DEF Call

LEMMA ExitFamily ==
  ASSUME SafeInv, Family(k, at, boot), Safe(k', cpu', at', boot'), Exit
  PROVE  Family(k', at', boot') /\ NoNewSleeper /\ LastChildGone /\ UNCHANGED sleep_list
<1>1. UNCHANGED <<boot, sleep_list>>
  BY DEF Exit, ExitDetach, ExitTerminate, ExitDequeue, ExitRelease, ExitFinish, Exiting
<1>2. Family(k', at', boot) /\ NoNewSleeper /\ LastChildGone
  BY ExitDetachFamily, ExitTerminateFamily, ExitDequeueFamily, ExitReleaseFamily, ExitFinishFamily
     DEF Exit
<1> QED BY <1>1, <1>2

LEMMA NextFamily ==
  ASSUME FamilyInv, [Next]_vars
  PROVE  /\ FamilyInv'
         /\ "unblock" \notin Syscalls /\ ~TickScan => LastChildGone
<1>1. SafeInv' /\ SafeInv /\ Family(k, at, boot) /\ Alarms(k, at, sleep_list)
  BY NextSafe DEF FamilyInv
<1>2. Safe(k', cpu', at', boot')
  BY <1>1 DEF SafeInv
<1>3. /\ Family(k', at', boot') /\ Alarms(k', at', sleep_list')
      /\ "unblock" \notin Syscalls /\ ~TickScan => LastChildGone
  <2>1. CASE UNCHANGED vars
    <3>1. UNCHANGED <<k, at, boot, sleep_list>>
      BY <2>1 DEF vars
    <3>2. LastChildGone
      BY <3>1 DEF LastChildGone
    <3> QED BY <1>1, <3>1, <3>2
  <2>2. CASE Boot
    BY <1>1, <1>2, <2>2, BootFamilyStep, SameAlarms
  <2>3. CASE Call
    BY <1>1, <1>2, <2>3, CallFamily
  <2>4. CASE Exit
    BY <1>1, <1>2, <2>4, ExitFamily, SameAlarms
  <2>5. CASE CtrlC
    <3>1. \E pid : Kills(pid) /\ UNCHANGED <<boot, sleep_list>>
      BY <2>5 DEF CtrlC
    <3> QED BY <1>1, <1>2, <3>1, KillsFamily, SameAlarms
  <2>6. CASE TickStart
    BY <1>1, <2>6, TickStartFamily
  <2>7. CASE TickScan
    <3>1. boot' = boot
      BY <2>7 DEF TickScan
    <3> QED BY <1>1, <2>7, <3>1, TickScanFamily
  <2>8. CASE TickEnd
    <3>1. UNCHANGED <<boot, sleep_list>>
      BY <2>8 DEF TickEnd
    <3> QED BY <1>1, <1>2, <2>8, <3>1, TickEndFamily, SameAlarms
  <2> QED BY <2>1, <2>2, <2>3, <2>4, <2>5, <2>6, <2>7, <2>8 DEF Next, Tick
<1> QED BY <1>1, <1>3 DEF FamilyInv

LEMMA InitFamily == Disciplined /\ Init => FamilyInv
<1> SUFFICES ASSUME Disciplined, Init PROVE FamilyInv
  OBVIOUS
<1>1. SafeInv /\ BOOT \in Addr
  BY InitSafe, KernelAssumption
<1>2. /\ k.used = {BOOT} /\ k.children = [a \in Addr |-> {}] /\ boot = 0
      /\ at = [a \in Addr |-> "user"]
  BY DEF Init
<1>3. k.children[BOOT] = {} /\ at[BOOT] = "user"
  BY <1>1, <1>2
<1>4. Family(k, at, boot)
  <2>1. ChildrenOK(k) /\ KinOK(k, at)
    BY <1>2, <1>3 DEF ChildrenOK, KinOK
  <2>2. boot = 0 /\ ~(boot > 0) /\ \A p \in k.used : k.children[p] = {}
    BY <1>2, <1>3
  <2>3. BootFamily(k, boot)
    BY <1>3, <2>2 DEF BootFamily
  <2> QED BY <1>3, <2>1, <2>3 DEF Family
<1>5. Alarms(k, at, sleep_list)
  BY <1>2, <1>3 DEF Alarms
<1> QED BY <1>1, <1>4, <1>5 DEF FamilyInv

LEMMA FamilyInvImplies == FamilyInv => ChildrenAreLive /\ WaitersHaveChildren /\ SleepersHaveAlarm
BY DEF FamilyInv, Family, ChildrenOK, KinOK, Alarms, ChildrenAreLive, WaitersHaveChildren,
       SleepersHaveAlarm

-----------------------------------------------------------------------------
(* The properties of families and alarms, in the runs where they hold.     *)

\* Every call, interrupt and step of an exit keeps the families and the alarms.
LEMMA FamilyInductive == Disciplined /\ Spec => []FamilyInv
<1>1. FamilyInv /\ [Next]_vars => FamilyInv'
  BY NextFamily
<1> QED BY <1>1, InitFamily, PTL DEF Spec

\* Nobody waits for the dead: whichever way a process ends (kill, Ctrl-C, endProcess, or
\* exit_process with ticks between its steps), its pid leaves children[] of its parent
\* before its PCB is freed, so no pid given again is taken for that of an old child.
THEOREM NoChildIsDead == Disciplined /\ Spec => []ChildrenAreLive
<1>1. FamilyInv => ChildrenAreLive
  BY FamilyInvImplies
<1> QED BY <1>1, FamilyInductive, PTL

\* The wakeup of the last child is never lost: a process in wait has a child left, and
\* waiting_on_child has the one value that DetachFromParent looks for.
THEOREM NoWakeupIsLost == Disciplined /\ Spec => []WaitersHaveChildren
<1>1. FamilyInv => WaitersHaveChildren
  BY FamilyInvImplies
<1> QED BY <1>1, FamilyInductive, PTL

\* Nobody sleeps for ever for want of an entry in the sleep queue, although the handler
\* drops entries by the pid of a PCB that may have been freed and given again.
THEOREM NoAlarmIsLost == Disciplined /\ Spec => []SleepersHaveAlarm
<1>1. FamilyInv => SleepersHaveAlarm
  BY FamilyInvImplies
<1> QED BY <1>1, FamilyInductive, PTL

\* The runs where only the end of its children takes a process out of wait: unblock and
\* a stale entry of the sleep queue wake any process.
Undisturbed == {"unblock", "sleep"} \cap Syscalls = {}

LEMMA QueueStaysEmpty ==
  ASSUME Undisturbed, DOMAIN sleep_list = {}, [Next]_vars
  PROVE  DOMAIN sleep_list' = {} /\ ~TickScan
<1>1. ~TickScan /\ \A n : ~Sleep(n)
  BY DEF TickScan, Sleep, Allowed, Undisturbed
<1>2. CASE TickStart
  BY <1>1, <1>2 DEF TickStart
<1>3. CASE UNCHANGED sleep_list
  BY <1>1, <1>3
<1>4. UNCHANGED sleep_list \/ TickStart
  <2>1. Boot => UNCHANGED sleep_list
    BY DEF Boot, Creates
  <2>2. Call => UNCHANGED sleep_list
    BY <1>1 DEF Call, Create, Creates, Kill, Block, Unblock, Nice, Yield, Wait, EndProcess
  <2>3. Exit => UNCHANGED sleep_list
    BY DEF Exit, ExitDetach, ExitTerminate, ExitDequeue, ExitRelease, ExitFinish, Exiting
  <2>4. CtrlC \/ TickEnd \/ UNCHANGED vars => UNCHANGED sleep_list
    BY DEF CtrlC, TickEnd, vars
  <2> QED BY <1>1, <2>1, <2>2, <2>3, <2>4 DEF Next, Tick
<1> QED BY <1>2, <1>3, <1>4

\* wait returns when every recorded child is gone and not before, in whatever order
\* the children end and whoever kills them.
THEOREM WaitReturnsLast == Disciplined /\ Undisturbed /\ Spec => WaitForAll
<1>1. Init => DOMAIN sleep_list = {}
  BY DEF Init
<1>2. Undisturbed /\ DOMAIN sleep_list = {} /\ [Next]_vars => (DOMAIN sleep_list = {})'
  BY QueueStaysEmpty
<1>3. Undisturbed /\ DOMAIN sleep_list = {} /\ FamilyInv /\ [Next]_vars
         => [\A p \in k.used : p \in k'.used /\ at[p] = "wait" /\ at'[p] = "user"
                                => k'.children[p] = {}]_vars
  <2> SUFFICES ASSUME Undisturbed, DOMAIN sleep_list = {}, FamilyInv, [Next]_vars
               PROVE  LastChildGone
    BY DEF LastChildGone
  <2>1. ~TickScan /\ "unblock" \notin Syscalls
    BY QueueStaysEmpty DEF Undisturbed
  <2> QED BY <2>1, NextFamily
<1>4. Undisturbed => []Undisturbed
  <2>1. Undisturbed => Undisturbed'
    BY DEF Undisturbed
  <2> QED BY <2>1, PTL
<1> QED BY <1>1, <1>2, <1>3, <1>4, FamilyInductive, PTL DEF Spec, WaitForAll

-----------------------------------------------------------------------------
(* The pool of pids and the foreground, where no exit is interrupted: what *)
(* the table says does not rest on who executes, and a yield keeps it.     *)

\* PidPool of the globals g.
Pooled(g) ==
    \A i \in Slots \ {MAX_PROCESSES} : g.pids[i] => \E p \in g.used : g.pid[p] = i

OneFlag(g) == \A p, q \in g.used : g.is_foreground[p] /\ g.is_foreground[q] => p = q

Tables(g) == Slotted(g) /\ PidsTaken(g) /\ Pooled(g) /\ OneFlag(g)

\* No exit is interrupted and nobody gets pid 0.  A process ends itself only where it
\* is known to be in the table: one that goes on after its death, because
\* nobody else is READY, could end the process that has its pid now.
Tidy == /\ {"exit", "overflow"} \cap Syscalls = {}
        /\ "end" \in Syscalls => Disciplined

TidyInv ==
    /\ IInv /\ Tidy /\ Tables(k) /\ (Disciplined => SafeInv)
    /\ \A a \in Addr : at[a] \in {"user", "wait", "sleep"}

SamePool(g, h) ==
    /\ h.processes_list = g.processes_list /\ h.pids = g.pids /\ h.used = g.used
    /\ h.pid = g.pid /\ h.is_foreground = g.is_foreground

LEMMA SamePoolTables ==
  ASSUME NEW g, NEW h, Tables(g), SamePool(g, h)
  PROVE  Tables(h)
BY DEF Tables, SamePool, Slotted, Listed, PidsTaken, Pooled, OneFlag

LEMMA StatePool ==
  ASSUME NEW g \in Globals, NEW p, NEW st
  PROVE  SamePool(g, [g EXCEPT !.state[p] = st])
BY DEF Globals, SamePool

LEMMA unblock_processPool ==
  ASSUME NEW g, WellFormed(g), NEW n
  PROVE  SamePool(g, unblock_process(g, n))
<1> DEFINE p == get_process_by_pid(g, n)
           s == [g EXCEPT !.state[p] = "READY"]
           h == unblock_process(g, n)
<1>1. CASE n # 1 /\ p # NULL /\ g.state[p] = "BLOCKED"
  <2>1. p \in Addr /\ "READY" \in STATUS /\ g \in Globals
    BY <1>1, foundprocessType DEF WellFormed, STATUS
  <2>2. h = add_to_ready_list(s, p)
    BY <1>1 DEF unblock_process
  <2> HIDE DEF h, p
  <2>3. WellFormed(s) /\ SamePool(g, s)
    BY <2>1, StateWellFormed, StatePool
  <2> HIDE DEF s
  <2>4. SameTable(s, h)
    BY <2>1, <2>2, <2>3, add_to_ready_listRing
  <2> QED BY <2>3, <2>4 DEF SameTable, SamePool, h
<1>2. CASE ~(n # 1 /\ p # NULL /\ g.state[p] = "BLOCKED")
  BY <1>2 DEF unblock_process, SamePool
<1> QED BY <1>1, <1>2

LEMMA block_processPool ==
  ASSUME NEW g, WellFormed(g), NEW n
  PROVE  SamePool(g, block_process(g, n))
<1> DEFINE p == get_process_by_pid(g, n)
           s == [g EXCEPT !.state[p] = "BLOCKED"]
           h == block_process(g, n)
<1>1. CASE p # NULL /\ g.state[p] \in {"RUNNING", "READY"}
  <2>1. p \in Addr /\ "BLOCKED" \in STATUS /\ g \in Globals
    BY <1>1, foundprocessType DEF WellFormed, STATUS
  <2>2. h = remove_from_ready_list(s, p)
    BY <1>1 DEF block_process
  <2> HIDE DEF h, p
  <2>3. WellFormed(s) /\ SamePool(g, s)
    BY <2>1, StateWellFormed, StatePool
  <2> HIDE DEF s
  <2>4. SameTable(s, h)
    BY <2>1, <2>2, <2>3, remove_from_ready_listRing
  <2> QED BY <2>3, <2>4 DEF SameTable, SamePool, h
<1>2. CASE ~(p # NULL /\ g.state[p] \in {"RUNNING", "READY"})
  BY <1>2 DEF block_process, SamePool
<1> QED BY <1>1, <1>2

LEMMA modify_priorityPool ==
  ASSUME NEW g \in Globals, NEW n, NEW v, NEW table
  PROVE  SamePool(g, modify_priority(g, n, v, table))
BY DEF modify_priority, Globals, SamePool

LEMMA schedulerPool ==
  ASSUME NEW g, WellFormed(g), NEW sp \in Addr \cup {NULL}
  PROVE  SamePool(g, scheduler(g, sp).k)
<1> DEFINE charged == Charge(g, sp)
           ready   == Preempted(charged)
           next    == PickNext(ready)
           h       == scheduler(g, sp).k
<1>1. g \in Globals /\ charged \in Globals
  BY ChargeWellFormed DEF WellFormed
<1>2. SamePool(g, charged)
  BY <1>1 DEF Charge, Globals, SamePool
<1>3. ready \in Globals /\ SamePool(charged, ready)
  <2> HIDE DEF charged
  <2>1. ready = charged \/ ready = [charged EXCEPT !.state[charged.current_process] = "READY"]
    BY DEF Preempted
  <2> HIDE DEF ready
  <2>2. CASE ready = charged
    BY <1>1, <2>2 DEF SamePool
  <2>3. CASE ready = [charged EXCEPT !.state[charged.current_process] = "READY"]
    BY <1>1, <2>3 DEF Globals, STATUS, SamePool
  <2> QED BY <2>1, <2>2, <2>3
<1>4. SamePool(ready, next)
  <2> HIDE DEF ready
  <2> QED BY <1>3 DEF PickNext, Dispatch, Globals, SamePool
<1>5. h = g \/ h = charged \/ h = next
  BY DEF scheduler
<1> HIDE DEF h, charged, ready, next
<1>6. SamePool(g, next) /\ SamePool(g, g)
  BY <1>2, <1>3, <1>4 DEF SamePool
<1> QED BY <1>2, <1>5, <1>6 DEF h

\* A call to the scheduler changes nothing of the tables.
LEMMA CallSchedulerPool ==
  ASSUME IInv, NEW g, WellFormed(g), NEW pl, CallScheduler(g, pl)
  PROVE  SamePool(g, k')
<1> DEFINE r == scheduler(g, cpu)
           p == r.k.current_process
           s == IF r.k.stack_pointer[p] = r.sp THEN NULL ELSE r.k.stack_pointer[p]
<1>0. cpu \in Addr \cup {NULL}
  BY DEF IInv, Machine
<1>1. WellFormed(r.k) /\ SamePool(g, r.k)
  BY <1>0, schedulerWellFormed, schedulerPool
<1>2. k' = [r.k EXCEPT !.stack_pointer[p] = s]
  BY <1>1 DEF CallScheduler, WellFormed, Globals
<1> HIDE DEF r, s
<1>3. SamePool(r.k, k')
  BY <1>1, <1>2 DEF WellFormed, Globals, SamePool
<1> QED BY <1>1, <1>3 DEF SamePool

-----------------------------------------------------------------------------
(* Deaths.                                                                 *)

\* From g to h, p has gone; the foreground may have passed to its parent.
Left(g, h, p) ==
    /\ h.used = g.used \ {p} /\ h.pid = g.pid /\ Slotted(h)
    /\ \A q \in h.used : h.is_foreground[q] =>
          g.is_foreground[q] \/ (g.is_foreground[p] /\ g.pid[q] = g.parent_pid[p])

LEMMA DetachFromParentFlags ==
  ASSUME NEW g, WellFormed(g), Slotted(g), NEW p \in Addr,
         NEW q \in g.used, DetachFromParent(g, p).is_foreground[q]
  PROVE  g.is_foreground[q] \/ (g.is_foreground[p] /\ g.pid[q] = g.parent_pid[p])
<1> DEFINE parent == get_process_by_pid(g, g.parent_pid[p])
           forgot == [g EXCEPT !.children[parent] = @ \ {g.pid[p]}]
           woken  == IF /\ forgot.waiting_on_child[parent] = 1
                        /\ forgot.children[parent] = {}
                     THEN unblock_process(forgot, g.parent_pid[p]) ELSE forgot
           h      == DetachFromParent(g, p)
<1>0. g \in Globals /\ g.used \subseteq Addr /\ q \in Addr
  BY DEF WellFormed, Globals
<1>1. CASE g.parent_pid[p] = 0 \/ parent = NULL
  <2>1. h = g
    BY <1>1, Zenon DEF DetachFromParent
  <2> QED BY <2>1
<1>2. CASE ~(g.parent_pid[p] = 0 \/ parent = NULL)
  <2>1. parent \in g.used /\ g.pid[parent] = g.parent_pid[p]
    BY <1>0, <1>2, Lookup
  <2>2. h = IF g.is_foreground[p] THEN [woken EXCEPT !.is_foreground[parent] = TRUE] ELSE woken
    BY <1>2, Zenon DEF DetachFromParent
  <2> HIDE DEF parent, h
  <2>3. forgot \in Globals /\ SameRing(g, forgot) /\ forgot.is_foreground = g.is_foreground
    BY <1>0, <2>1 DEF Globals, SameRing
  <2> HIDE DEF forgot
  <2>4. WellFormed(forgot)
    BY <2>3, SameRingWellFormed
  <2>5. woken.is_foreground = g.is_foreground /\ WellFormed(woken)
    BY <2>3, <2>4, unblock_processPool, unblock_processWellFormed DEF SamePool
  <2> HIDE DEF woken
  <2>6. CASE g.is_foreground[p]
    <3>1. h.is_foreground = [g.is_foreground EXCEPT ![parent] = TRUE]
      BY <2>2, <2>5, <2>6 DEF WellFormed, Globals
    <3>2. q # parent => h.is_foreground[q] = g.is_foreground[q]
      BY <1>0, <3>1 DEF Globals
    <3> QED BY <2>1, <2>6, <3>2 DEF h
  <2>7. CASE ~g.is_foreground[p]
    BY <2>2, <2>5, <2>7 DEF h
  <2> QED BY <2>6, <2>7
<1> QED BY <1>1, <1>2

LEMMA remove_from_processes_listLeft ==
  ASSUME NEW g, WellFormed(g), Slotted(g), NEW p \in g.used
  PROVE  /\ Left(g, remove_from_processes_list(g, p), p)
         /\ remove_from_processes_list(g, p).pids = g.pids
<1> DEFINE d == DetachFromParent(g, p)
           t == Terminate(d, p)
           r == remove_from_ready_list(t, p)
           h == ReleaseSlot(r, p)
<1>0. g \in Globals /\ p \in Addr /\ g.used \subseteq Addr
  BY DEF WellFormed, Globals
<1>1. remove_from_processes_list(g, p) = h
  <2>1. foundprocess(g, g.pid[p]) \in Slots
    BY <1>0, Lookup
  <2>2. foundprocess(g, g.pid[p]) # 0
    BY <2>1, TableAssumption DEF Slots
  <2> QED BY <2>2 DEF remove_from_processes_list
<1>2. WellFormed(d) /\ d.pids = g.pids
  BY <1>0, DetachFromParentWellFormed, DetachFromParentQuiet DEF Quiet
<1>3. \A q \in g.used : d.is_foreground[q] =>
         g.is_foreground[q] \/ (g.is_foreground[p] /\ g.pid[q] = g.parent_pid[p])
  BY <1>0, DetachFromParentFlags
<1> HIDE DEF d
<1>4. WellFormed(t) /\ SamePool(d, t)
  BY <1>0, <1>2, TerminateWellFormed, StatePool DEF Terminate, WellFormed
<1> HIDE DEF t
<1>5. WellFormed(r) /\ SameTable(t, r)
  BY <1>0, <1>4, remove_from_ready_listRing
<1> HIDE DEF r
<1>6. h.pids = r.pids /\ h.is_foreground = [r.is_foreground EXCEPT ![p] = FALSE]
  BY <1>5 DEF ReleaseSlot, WellFormed, Globals
<1> HIDE DEF h
<1>7. h.used = g.used \ {p} /\ h.pid = g.pid /\ Slotted(h)
  BY <1>1, remove_from_processes_listGone DEF Gone
<1>8. r.is_foreground = d.is_foreground /\ r.pids = d.pids /\ r.is_foreground \in [Addr -> BOOLEAN]
  BY <1>4, <1>5 DEF SamePool, SameTable, WellFormed, Globals
<1>9. \A q \in h.used : q \in g.used /\ h.is_foreground[q] = d.is_foreground[q]
  BY <1>0, <1>6, <1>7, <1>8
<1>10. Left(g, h, p)
  BY <1>3, <1>7, <1>9 DEF Left
<1> QED BY <1>1, <1>2, <1>6, <1>8, <1>10

LEMMA KilledLeft ==
  ASSUME NEW g, WellFormed(g), Slotted(g), NEW p \in g.used
  PROVE  /\ Left(g, Killed(g, p), p)
         /\ \A i \in Slots : Killed(g, p).pids[i] = (g.pids[i] /\ (i # g.pid[p] \/ i >= MAX_PROCESSES))
<1> DEFINE pool == [i \in Slots |-> g.pids[i] /\ (i # g.pid[p] \/ i >= MAX_PROCESSES)]
           f == freePid(g, g.pid[p])
           u == remove_from_ready_list(f, p)
           t == Terminate(u, p)
           h == remove_from_processes_list(t, p)
<1>0. g \in Globals /\ p \in Addr /\ g.used \subseteq Addr
  BY DEF WellFormed, Globals
<1>1. /\ WellFormed(f) /\ f.pids = pool /\ f.processes_list = g.processes_list
      /\ f.used = g.used /\ f.pid = g.pid /\ f.is_foreground = g.is_foreground
      /\ f.parent_pid = g.parent_pid
  <2>1. f = [g EXCEPT !.pids = pool] /\ pool \in [Slots -> BOOLEAN]
    BY <1>0 DEF freePid, Globals
  <2> HIDE DEF f, pool
  <2>2. WellFormed(f)
    BY <2>1, PoolWellFormed
  <2> QED BY <1>0, <2>1, <2>2 DEF Globals
<1> HIDE DEF f, pool
<1>2. WellFormed(u) /\ SameTable(f, u)
  BY <1>0, <1>1, remove_from_ready_listRing
<1> HIDE DEF u
<1>3. WellFormed(t) /\ SamePool(u, t) /\ t.parent_pid = u.parent_pid
  BY <1>0, <1>2, TerminateWellFormed, StatePool DEF Terminate, WellFormed, Globals
<1> HIDE DEF t
<1>4. /\ t.processes_list = g.processes_list /\ t.used = g.used /\ t.pid = g.pid
      /\ t.is_foreground = g.is_foreground /\ t.parent_pid = g.parent_pid /\ t.pids = pool
  BY <1>1, <1>2, <1>3 DEF SameTable, SamePool
<1>5. Left(t, h, p) /\ h.pids = t.pids
  <2>1. Slotted(t)
    BY <1>4 DEF Slotted, Listed
  <2> QED BY <1>3, <1>4, <2>1, remove_from_processes_listLeft
<1> HIDE DEF h
<1>6. Left(g, h, p)
  BY <1>4, <1>5 DEF Left
<1>7. h.pids = pool
  BY <1>4, <1>5
<1> QED BY <1>6, <1>7 DEF Killed, h, t, u, f, pool

\* A death keeps the tables, when it clears the entry of its pid and no other.
LEMMA LeftTables ==
  ASSUME NEW g \in Globals, Tables(g), NEW p \in g.used, NEW h, Left(g, h, p),
         \A i \in Slots : i # g.pid[p] => h.pids[i] = g.pids[i],
         g.pid[p] \in Slots \ {MAX_PROCESSES} => ~h.pids[g.pid[p]]
  PROVE  Tables(h)
<1>0. /\ h.used = g.used \ {p} /\ h.pid = g.pid /\ Slotted(h) /\ Slotted(g)
      /\ \A q \in g.used : g.pid[q] \in Pids
  BY DEF Left, Tables, Globals
<1>1. \A q \in h.used : g.pid[q] # g.pid[p]
  BY <1>0, OnePid
<1>2. PidsTaken(h)
  <2> SUFFICES ASSUME NEW q \in h.used PROVE g.pid[q] # 0 /\ h.pids[g.pid[q]]
    BY <1>0 DEF PidsTaken
  <2>1. g.pid[q] # 0 /\ g.pids[g.pid[q]] /\ g.pid[q] \in Pids
    BY <1>0 DEF Tables, PidsTaken
  <2>2. g.pid[q] \in Slots
    BY <2>1, TableAssumption DEF Pids, Slots
  <2> QED BY <1>1, <2>1, <2>2
<1>3. Pooled(h)
  <2> SUFFICES ASSUME NEW i \in Slots \ {MAX_PROCESSES}, h.pids[i]
               PROVE  \E q \in h.used : g.pid[q] = i
    BY <1>0 DEF Pooled
  <2>1. i # g.pid[p] /\ g.pids[i]
    OBVIOUS
  <2>2. PICK q \in g.used : g.pid[q] = i
    BY <2>1 DEF Tables, Pooled
  <2> QED BY <1>0, <2>1, <2>2
<1>4. OneFlag(h)
  <2> SUFFICES ASSUME NEW a \in h.used, NEW b \in h.used, h.is_foreground[a], h.is_foreground[b]
               PROVE  a = b
    BY DEF OneFlag
  <2>1. a \in g.used /\ b \in g.used /\ a # p /\ b # p
    BY <1>0
  <2>2. CASE g.is_foreground[p]
    <3>1. ~g.is_foreground[a] /\ ~g.is_foreground[b]
      BY <2>1, <2>2 DEF Tables, OneFlag
    <3>2. g.pid[a] = g.parent_pid[p] /\ g.pid[b] = g.parent_pid[p]
      BY <3>1 DEF Left
    <3> QED BY <1>0, <2>1, <3>2, OnePid
  <2>3. CASE ~g.is_foreground[p]
    <3>1. g.is_foreground[a] /\ g.is_foreground[b]
      BY <2>3 DEF Left
    <3> QED BY <2>1, <3>1 DEF Tables, OneFlag
  <2> QED BY <2>2, <2>3
<1> QED BY <1>0, <1>2, <1>3, <1>4 DEF Tables

-----------------------------------------------------------------------------
(* Births.                                                                 *)

\* The foreground after a birth: that of the new process, or nobody's if it is a
\* background one (the others that had a second flag keep it).
LEMMA createProcessFlags ==
  ASSUME NEW g, WellFormed(g), NEW new \in Addr, NEW v \in Int, NEW fg \in BOOLEAN,
         NEW garbage \in 0..2
  PROVE  createProcess(g, new, v, fg, garbage).is_foreground
           = [a \in Addr |-> IF a = new THEN fg
                             ELSE a # get_foreground_process(g) /\ g.is_foreground[a]]
<1> DEFINE parent == g.current_process
           n      == FreePid(g)
           mid    == [g EXCEPT !.used                  = @ \cup {new},
                               !.pids                  = [i \in Slots |-> i = n \/ @[i]],
                               !.pid[new]              = n,
                               !.state[new]            = "READY",
                               !.priority[new]         = v,
                               !.waiting_on_child[new] = garbage,
                               !.children[new]         = {},
                               !.stack_pointer[new]    = new]
           flags  == [a \in Addr |-> IF a = new THEN fg
                                     ELSE a # get_foreground_process(mid) /\ mid.is_foreground[a]]
           child  == copy_context(g, new, v, fg, garbage)
           c      == IF Cardinality(child.children[parent]) < MAX_CHILDREN
                     THEN child.children[parent] \cup {child.pid[new]} ELSE child.children[parent]
           w      == Saturated(child.waiting_on_child[parent])
           linked == [child EXCEPT !.parent_pid[new] = g.pid[parent],
                                   !.children[parent] = c,
                                   !.waiting_on_child[parent] = w]
           l      == [i \in Slots |-> IF i = FreeSlot(linked) THEN new ELSE linked.processes_list[i]]
           listed == [linked EXCEPT !.processes_list = l]
           h      == createProcess(g, new, v, fg, garbage)
<1>1. g \in Globals /\ child \in Globals
  BY copy_contextWellFormed DEF WellFormed
<1>2. child = [mid EXCEPT !.is_foreground = flags]
  BY DEF copy_context, assignForeground
<1>3. /\ mid.processes_list = g.processes_list /\ mid.is_foreground = g.is_foreground
      /\ DOMAIN mid = DOMAIN g
  BY <1>1 DEF Globals
<1> HIDE DEF mid
<1>4. get_foreground_process(mid) = get_foreground_process(g)
  BY <1>3 DEF get_foreground_process, Listed
<1>5. flags = [a \in Addr |-> IF a = new THEN fg
                              ELSE a # get_foreground_process(g) /\ g.is_foreground[a]]
  BY <1>3, <1>4
<1> HIDE DEF flags
<1>6. child.is_foreground = flags
  <2>1. "is_foreground" \in DOMAIN mid
    BY <1>1, <1>3 DEF Globals
  <2> QED BY <1>2, <2>1
<1> HIDE DEF child
<1>7. h = add_to_ready_list(listed, new)
  <2>1. createProcess(g, new, v, fg, garbage) = add_to_ready_list(listed, new)
    BY <1>1 DEF createProcess, add_to_process_list, Globals, child
  <2> QED BY <2>1
<1> HIDE DEF c, w, h
<1>8. linked.is_foreground = flags /\ DOMAIN linked = DOMAIN g
  BY <1>1, <1>6 DEF Globals
<1> HIDE DEF linked, l
<1>9. listed.is_foreground = flags /\ DOMAIN listed = DOMAIN g
  BY <1>1, <1>8 DEF Globals
<1> HIDE DEF listed
<1>10. h.is_foreground = flags
  BY <1>1, <1>7, <1>9 DEF add_to_ready_list, Globals
<1> QED BY <1>5, <1>10 DEF h

\* The only foreground process of the table is the one that a search finds.
LEMMA ForegroundFound ==
  ASSUME NEW g \in Globals, Slotted(g), OneFlag(g), NEW p \in g.used, g.is_foreground[p]
  PROVE  get_foreground_process(g) = p
<1> DEFINE F == {j \in Listed(g) : g.is_foreground[g.processes_list[j]]}
<1>0. /\ g.used \subseteq Addr /\ NULL \notin Addr /\ Slots \subseteq Nat /\ 0 \notin Slots
      /\ Listed(g) \subseteq Slots
  BY TableAssumption DEF Globals, Slots, Listed
<1>1. PICK i \in Slots : g.processes_list[i] = p
  BY DEF Slotted
<1>2. i \in F /\ F \subseteq Nat
  BY <1>0, <1>1 DEF Listed
<1>3. First(F) \in F
  BY <1>2, FirstIsLeast, Zenon
<1>4. g.processes_list[First(F)] = p /\ First(F) # 0
  BY <1>0, <1>3 DEF Slotted, OneFlag
<1> QED BY <1>4 DEF get_foreground_process

\* A birth keeps the tables, when a pid is free.
LEMMA BirthTables ==
  ASSUME NEW g, WellFormed(g), Tables(g), FreePid(g) # 0, NEW new \in Addr, new \notin g.used,
         NEW v \in Int, NEW fg \in BOOLEAN, NEW garbage \in 0..2
  PROVE  Tables(createProcess(g, new, v, fg, garbage))
<1> DEFINE h == createProcess(g, new, v, fg, garbage)
<1>0. /\ g \in Globals /\ g.used \subseteq Addr /\ g.pid \in [Addr -> Pids]
      /\ Slotted(g) /\ PidsTaken(g) /\ OneFlag(g)
  BY DEF WellFormed, Globals, Tables
<1>1. h.is_foreground = [a \in Addr |-> IF a = new THEN fg
                                        ELSE a # get_foreground_process(g) /\ g.is_foreground[a]]
  BY createProcessFlags
<1>2. PICK s : WellFormed(s) /\ NewlyListed(g, new, s) /\ h = add_to_ready_list(s, new)
  BY createProcessListed
<1> HIDE DEF h
<1>3. Slotted(h) /\ PidsTaken(h)
  BY <1>0, <1>2, NewlyListedSlotted
<1>4. /\ h.pids = [i \in Slots |-> i = FreePid(g) \/ g.pids[i]]
      /\ h.used = g.used \cup {new} /\ h.pid = [g.pid EXCEPT ![new] = FreePid(g)]
  BY <1>2, add_to_ready_listRing DEF NewlyListed, SameTable
<1>5. Pooled(h)
  <2> SUFFICES ASSUME NEW i \in Slots \ {MAX_PROCESSES}, h.pids[i]
               PROVE  \E q \in h.used : h.pid[q] = i
    BY DEF Pooled
  <2>1. h.pid[new] = FreePid(g) /\ \A q \in g.used : h.pid[q] = g.pid[q]
    BY <1>0, <1>4
  <2>2. CASE i = FreePid(g)
    BY <1>4, <2>1, <2>2
  <2>3. CASE g.pids[i]
    BY <1>4, <2>1, <2>3 DEF Tables, Pooled
  <2> QED BY <1>4, <2>2, <2>3
<1>6. OneFlag(h)
  <2>1. \A q \in g.used : ~h.is_foreground[q]
    <3> SUFFICES ASSUME NEW q \in g.used, h.is_foreground[q] PROVE FALSE
      OBVIOUS
    <3>1. q # get_foreground_process(g) /\ g.is_foreground[q]
      BY <1>0, <1>1
    <3> QED BY <1>0, <3>1, ForegroundFound
  <2> QED BY <1>4, <2>1 DEF OneFlag
<1> QED BY <1>3, <1>5, <1>6 DEF Tables, h

-----------------------------------------------------------------------------
(* The actions.                                                            *)

Outside(pl) == \A a \in Addr : pl[a] \in {"user", "wait", "sleep"}

LEMMA UnblockedOutside ==
  ASSUME NEW g, NEW pl, Outside(pl)
  PROVE  Outside(Unblocked(g, pl))
BY DEF Outside, Unblocked

\* How a handler that keeps the tables ends.
LEMMA ReturnTables ==
  ASSUME NEW g, Tables(g), Outside(at), Return(g)
  PROVE  Tables(k') /\ Outside(at')
BY UnblockedOutside DEF Return

LEMMA CallSchedulerTables ==
  ASSUME IInv, NEW g, WellFormed(g), Tables(g), NEW pl, Outside(pl), CallScheduler(g, pl)
  PROVE  Tables(k') /\ Outside(at')
<1>1. Tables(k')
  BY CallSchedulerPool, SamePoolTables
<1>2. at' = Unblocked(scheduler(g, cpu).k, pl)
  BY DEF CallScheduler
<1> QED BY <1>1, <1>2, UnblockedOutside

LEMMA CreatesTables ==
  ASSUME TidyInv, NEW new \in Addr, NEW v \in Int, NEW fg \in BOOLEAN, NEW garbage \in Garbage,
         Creates(new, v, fg, garbage)
  PROVE  Tables(k') /\ Outside(at')
<1> DEFINE h == createProcess(k, new, v, fg, garbage)
<1>1. WellFormed(k) /\ Tables(k) /\ garbage \in 0..2 /\ Outside(at) /\ at \in [Addr -> Places]
  BY KernelAssumption DEF TidyInv, IInv, Machine, Outside
<1>2. new \notin k.used /\ FreePid(k) # 0
  BY DEF Creates, TidyInv, Tidy
<1>3. Tables(h)
  BY <1>1, <1>2, BirthTables
<1>4. k' = h /\ at' = Unblocked(h, [at EXCEPT ![new] = "user"])
  BY DEF Creates
<1> HIDE DEF h
<1>5. Outside([at EXCEPT ![new] = "user"])
  BY <1>1 DEF Outside
<1> QED BY <1>3, <1>4, <1>5, UnblockedOutside

LEMMA KillsTables ==
  ASSUME TidyInv, NEW pid, Kills(pid)
  PROVE  Tables(k') /\ Outside(at')
<1> DEFINE p == get_process_by_pid(k, pid)
           h == Killed(k, p)
<1>1. WellFormed(k) /\ k \in Globals /\ Tables(k) /\ Slotted(k) /\ Outside(at) /\ IInv
  BY DEF TidyInv, IInv, Machine, Outside, WellFormed, Tables
<1>2. CASE pid < 3 \/ p = NULL
  BY <1>1, <1>2, ReturnTables DEF Kills
<1>3. CASE ~(pid < 3 \/ p = NULL)
  <2>1. CallScheduler(h, at)
    BY <1>3, Zenon DEF Kills
  <2>2. p \in k.used /\ p \in Addr
    BY <1>1, <1>3, Lookup DEF Globals
  <2> HIDE DEF p
  <2>3. /\ Left(k, h, p) /\ WellFormed(h)
        /\ \A i \in Slots : h.pids[i] = (k.pids[i] /\ (i # k.pid[p] \/ i >= MAX_PROCESSES))
    BY <1>1, <2>2, KilledLeft, KilledWellFormed
  <2> HIDE DEF h
  <2>4. \A i \in Slots : i # k.pid[p] => h.pids[i] = k.pids[i]
    <3> SUFFICES ASSUME NEW i \in Slots, i # k.pid[p] PROVE h.pids[i] = k.pids[i]
      OBVIOUS
    <3>1. h.pids[i] = (k.pids[i] /\ TRUE) /\ k.pids[i] \in BOOLEAN
      BY <1>1, <2>3 DEF Globals
    <3> QED BY <3>1
  <2>5. k.pid[p] \in Slots \ {MAX_PROCESSES} => ~h.pids[k.pid[p]]
    <3>1. \A i \in Slots \ {MAX_PROCESSES} : ~(i >= MAX_PROCESSES)
      BY TableAssumption DEF Slots
    <3> QED BY <2>3, <3>1
  <2>6. Tables(h)
    BY <1>1, <2>2, <2>3, <2>4, <2>5, LeftTables
  <2> QED BY <1>1, <2>1, <2>3, <2>6, CallSchedulerTables
<1> QED BY <1>2, <1>3

LEMMA YieldTables ==
  ASSUME TidyInv, Yield
  PROVE  Tables(k') /\ Outside(at')
<1> DEFINE g == [k EXCEPT !.state[Self] = "READY"]
           q == add_to_ready_list(g, Self)
           h == scheduler(q, k.stack_pointer[Self]).k
<1>1. WellFormed(k) /\ k \in Globals /\ Self \in Addr /\ Tables(k) /\ Outside(at)
  BY SelfType DEF TidyInv, IInv, Machine, Outside, WellFormed
<1>2. CASE k.state[Self] = "RUNNING"
  <2>1. Return(h)
    BY <1>2 DEF Yield
  <2>2. k.stack_pointer[Self] \in Addr \cup {NULL} /\ "READY" \in STATUS
    BY <1>1 DEF Globals, STATUS
  <2>3. WellFormed(g) /\ SamePool(k, g)
    BY <1>1, <2>2, StateWellFormed, StatePool
  <2> HIDE DEF g
  <2>4. WellFormed(q) /\ SameTable(g, q)
    BY <1>1, <2>3, add_to_ready_listRing
  <2> HIDE DEF q
  <2>5. SamePool(q, h)
    BY <2>2, <2>4, schedulerPool
  <2> HIDE DEF h
  <2>6. SamePool(k, h)
    BY <2>3, <2>4, <2>5 DEF SameTable, SamePool
  <2> QED BY <1>1, <2>1, <2>6, SamePoolTables, ReturnTables
<1>3. CASE k.state[Self] # "RUNNING"
  BY <1>1, <1>3, ReturnTables DEF Yield
<1> QED BY <1>2, <1>3

LEMMA WaitsTables ==
  ASSUME TidyInv, Waits
  PROVE  Tables(k') /\ Outside(at')
<1> DEFINE g == [k EXCEPT !.waiting_on_child[Self] = 1]
           h == block_process(g, k.pid[Self])
<1>1. WellFormed(k) /\ k \in Globals /\ Self \in Addr /\ Tables(k) /\ Outside(at) /\ IInv
      /\ at \in [Addr -> Places]
  BY SelfType DEF TidyInv, IInv, Machine, Outside, WellFormed
<1>2. CASE k.children[Self] # {}
  <2>1. CallScheduler(h, [at EXCEPT ![cpu] = "wait"])
    BY <1>2 DEF Waits
  <2>2. g \in Globals /\ SameRing(k, g) /\ SamePool(k, g)
    <3>1. 1 \in 0..2
      OBVIOUS
    <3>2. g \in Globals /\ SameRing(k, g)
      BY <1>1, <3>1 DEF Globals, SameRing
    <3>3. SamePool(k, g)
      BY <1>1 DEF Globals, SamePool
    <3> QED BY <3>2, <3>3
  <2> HIDE DEF g
  <2>3. WellFormed(g)
    BY <1>1, <2>2, SameRingWellFormed
  <2>4. WellFormed(h) /\ SamePool(g, h)
    BY <2>3, block_processWellFormed, block_processPool
  <2> HIDE DEF h
  <2>5. Tables(h)
    BY <1>1, <2>2, <2>4, SamePoolTables
  <2>6. Outside([at EXCEPT ![cpu] = "wait"])
    BY <1>1 DEF Outside
  <2> QED BY <1>1, <2>1, <2>4, <2>5, <2>6, CallSchedulerTables
<1>3. CASE k.children[Self] = {}
  BY <1>1, <1>3, ReturnTables DEF Waits
<1> QED BY <1>2, <1>3

LEMMA SleepTables ==
  ASSUME TidyInv, NEW n, Sleep(n)
  PROVE  Tables(k') /\ Outside(at')
<1> DEFINE h == block_process(k, k.pid[Self])
<1>1. WellFormed(k) /\ Tables(k) /\ Outside(at) /\ IInv /\ at \in [Addr -> Places]
  BY DEF TidyInv, IInv, Machine, Outside
<1>2. CallScheduler(h, [at EXCEPT ![cpu] = "sleep"])
  BY DEF Sleep
<1>3. WellFormed(h) /\ Tables(h)
  BY <1>1, block_processWellFormed, block_processPool, SamePoolTables
<1> HIDE DEF h
<1>4. Outside([at EXCEPT ![cpu] = "sleep"])
  BY <1>1 DEF Outside
<1> QED BY <1>1, <1>2, <1>3, <1>4, CallSchedulerTables

\* A process that ends itself is in the table, and the pid given back is its own.
LEMMA EndProcessTables ==
  ASSUME TidyInv, EndProcess
  PROVE  Tables(k') /\ Outside(at')
<1> DEFINE r == remove_from_processes_list(k, cpu)
           h == PidGivenBack(r)
<1>1. SafeInv
  BY DEF TidyInv, Tidy, EndProcess, Allowed
<1>2. /\ CallScheduler(h, at) /\ at[cpu] = "user"
  BY <1>1, SafeFacts DEF EndProcess, Allowed, Program
<1>3. cpu \in k.used /\ Slotted(k) /\ WellFormed(k) /\ k \in Globals /\ Tables(k) /\ Outside(at)
      /\ k.current_process = cpu /\ IInv
  BY <1>1, <1>2, InProgram, SafeFacts DEF TidyInv, Outside
<1>4. Gone(k, r, cpu) /\ WellFormed(r) /\ Left(k, r, cpu) /\ r.pids = k.pids
  BY <1>3, remove_from_processes_listGone, remove_from_processes_listLeft
<1> HIDE DEF r
<1>5. /\ WellFormed(h) /\ SameRing(r, h) /\ h.processes_list = r.processes_list
      /\ h.used = r.used /\ h.pid = r.pid
      /\ \A i \in Slots : h.pids[i] = (r.pids[i] /\ i # r.pid[r.current_process])
  BY <1>4, PidGivenBackFields
<1>6. h.is_foreground = r.is_foreground
  BY <1>4 DEF PidGivenBack, WellFormed, Globals
<1> HIDE DEF h
<1>7. Left(k, h, cpu)
  BY <1>4, <1>5, <1>6 DEF Left, Slotted, Listed
<1>8. r.pid[r.current_process] = k.pid[cpu]
  BY <1>3, <1>4 DEF Gone
<1>9. \A i \in Slots : i # k.pid[cpu] => h.pids[i] = k.pids[i]
  <2> SUFFICES ASSUME NEW i \in Slots, i # k.pid[cpu] PROVE h.pids[i] = k.pids[i]
    OBVIOUS
  <2>1. h.pids[i] = (k.pids[i] /\ TRUE) /\ k.pids[i] \in BOOLEAN
    BY <1>3, <1>4, <1>5, <1>8 DEF Globals
  <2> QED BY <2>1
<1>10. k.pid[cpu] \in Slots \ {MAX_PROCESSES} => ~h.pids[k.pid[cpu]]
  BY <1>5, <1>8
<1>11. Tables(h)
  BY <1>3, <1>7, <1>9, <1>10, LeftTables
<1> QED BY <1>2, <1>3, <1>5, <1>11, CallSchedulerTables

LEMMA TickScanTables ==
  ASSUME TidyInv, TickScan
  PROVE  Tables(k') /\ Outside(at')
<1>1. WellFormed(k) /\ Self \in Addr /\ Tables(k) /\ Outside(at)
  BY SelfType DEF TidyInv, IInv, Machine, Outside
<1>2. CASE UNCHANGED <<k, at>>
  BY <1>1, <1>2 DEF Outside
<1>3. ASSUME NEW pid, NEW seen,
             k' = [unblock_process(k, pid) EXCEPT !.state[Self] =
                      IF Self \in k.used THEN @ ELSE seen],
             at' = Unblocked(k', at)
      PROVE  Tables(k') /\ Outside(at')
  <2> DEFINE g  == unblock_process(k, pid)
             st == IF Self \in k.used THEN g.state[Self] ELSE seen
  <2>1. WellFormed(g) /\ SamePool(k, g)
    BY <1>1, unblock_processWellFormed, unblock_processPool
  <2>2. k' = [g EXCEPT !.state[Self] = st]
    BY <1>3
  <2> HIDE DEF g, st
  <2>3. SamePool(g, k')
    BY <2>1, <2>2, StatePool DEF WellFormed
  <2>4. SamePool(k, k')
    BY <2>1, <2>3 DEF SamePool
  <2> QED BY <1>1, <1>3, <2>4, SamePoolTables, UnblockedOutside
<1> QED BY <1>2, <1>3 DEF TickScan

LEMMA BootTables ==
  ASSUME TidyInv, Boot
  PROVE  Tables(k') /\ Outside(at')
<1>1. LOW \in Int /\ NORMAL \in Int /\ IDLE \in Addr /\ TRUE \in BOOLEAN
  BY KernelAssumption
<1>2. ASSUME NEW garbage \in Garbage, Creates(IDLE, LOW, TRUE, garbage)
      PROVE  Tables(k') /\ Outside(at')
  BY <1>1, <1>2, CreatesTables
<1>3. ASSUME NEW shell \in Addr, NEW garbage \in Garbage, Creates(shell, NORMAL, TRUE, garbage)
      PROVE  Tables(k') /\ Outside(at')
  BY <1>1, <1>3, CreatesTables
<1> QED BY <1>2, <1>3, WaitsTables DEF Boot

LEMMA CallTables ==
  ASSUME TidyInv, Call
  PROVE  Tables(k') /\ Outside(at')
<1>0. WellFormed(k) /\ k \in Globals /\ Tables(k) /\ Outside(at)
  BY DEF TidyInv, IInv, Machine, Outside, WellFormed
<1>1. ASSUME NEW new \in Addr, NEW prio \in Quanta, NEW fg \in Foreground, NEW garbage \in Garbage,
             Create(new, prio, fg, garbage)
      PROVE  Tables(k') /\ Outside(at')
  <2>1. prio \in Int /\ fg \in BOOLEAN /\ Creates(new, prio, fg, garbage)
    BY <1>1, KernelAssumption DEF Create
  <2> QED BY <2>1, CreatesTables
<1>2. ASSUME NEW pid \in Pids, Kill(pid) PROVE Tables(k') /\ Outside(at')
  BY <1>2, KillsTables DEF Kill
<1>3. ASSUME NEW pid \in Pids, Block(pid) PROVE Tables(k') /\ Outside(at')
  BY <1>0, <1>3, block_processPool, SamePoolTables, ReturnTables DEF Block
<1>4. ASSUME NEW pid \in Pids, Unblock(pid) PROVE Tables(k') /\ Outside(at')
  BY <1>0, <1>4, unblock_processPool, SamePoolTables, ReturnTables DEF Unblock
<1>5. ASSUME NEW pid \in Pids, NEW v \in NiceValues, Nice(pid, v)
      PROVE  Tables(k') /\ Outside(at')
  BY <1>0, <1>5, modify_priorityPool, SamePoolTables, ReturnTables DEF Nice
<1>6. ASSUME NEW n \in 0..MaxSleep, Sleep(n) PROVE Tables(k') /\ Outside(at')
  BY <1>6, SleepTables
<1>7. CASE Yield
  BY <1>7, YieldTables
<1>8. CASE Wait
  BY <1>8, WaitsTables DEF Wait
<1>9. CASE EndProcess
  BY <1>9, EndProcessTables
<1> QED BY <1>1, <1>2, <1>3, <1>4, <1>5, <1>6, <1>7, <1>8, <1>9 DEF Call

\* No exit is under way, and none starts.
LEMMA NoExit ==
  ASSUME TidyInv
  PROVE  ~Exit
<1>1. "exit" \notin Syscalls /\ \A a \in Addr : at[a] \in {"user", "wait", "sleep"}
  BY DEF TidyInv, Tidy
<1> QED BY <1>1 DEF Exit, ExitDetach, ExitTerminate, ExitDequeue, ExitRelease, ExitFinish, Exiting

LEMMA NextTidy == TidyInv /\ [Next]_vars => TidyInv'
<1> SUFFICES ASSUME TidyInv, [Next]_vars PROVE TidyInv'
  OBVIOUS
<1>0. WellFormed(k) /\ Tables(k) /\ Outside(at) /\ IInv /\ at \in [Addr -> Places]
  BY DEF TidyInv, IInv, Machine, Outside
<1>1. Tables(k') /\ Outside(at')
  <2>1. CASE UNCHANGED vars
    BY <1>0, <2>1 DEF vars, Outside
  <2>2. CASE Boot
    BY <2>2, BootTables
  <2>3. CASE Call
    BY <2>3, CallTables
  <2>4. CASE CtrlC
    BY <2>4, KillsTables DEF CtrlC
  <2>5. CASE TickStart
    BY <1>0, <2>5 DEF TickStart, Outside
  <2>6. CASE TickScan
    BY <2>6, TickScanTables
  <2>7. CASE TickEnd
    BY <1>0, <2>7, CallSchedulerTables DEF TickEnd
  <2> QED BY <2>1, <2>2, <2>3, <2>4, <2>5, <2>6, <2>7, NoExit DEF Next, Tick
<1>2. IInv' /\ Tidy'
  BY NextIInv DEF TidyInv, Tidy, Disciplined
<1>3. Disciplined => SafeInv'
  BY NextSafe DEF TidyInv
<1> QED BY <1>1, <1>2, <1>3 DEF TidyInv, Outside, Disciplined

-----------------------------------------------------------------------------
(* The theorems.                                                           *)

LEMMA InitTidy == Tidy /\ Init => TidyInv
<1> SUFFICES ASSUME Tidy, Init PROVE TidyInv
  OBVIOUS
<1>1. IInv /\ (Disciplined => SafeInv)
  BY InitIInv, InitSafe
<1>2. /\ k.processes_list = [i \in Slots |-> IF i = 1 THEN BOOT ELSE NULL]
      /\ k.pids = [i \in Slots |-> i = 1] /\ k.used = {BOOT}
      /\ k.pid = [a \in Addr |-> IF a = BOOT THEN 1 ELSE 0]
      /\ at = [a \in Addr |-> "user"]
  BY DEF Init
<1>3. BOOT \in Addr /\ BOOT # NULL /\ 1 \in Slots
  BY TableAssumption, KernelAssumption DEF Slots
<1>4. k.pid[BOOT] = 1 /\ k.pids[1] /\ k.processes_list[1] = BOOT
  BY <1>2, <1>3
<1>5. Slotted(k)
  <2>1. Listed(k) = {1}
    BY <1>2, <1>3 DEF Listed
  <2> QED BY <1>2, <1>3, <1>4, <2>1 DEF Slotted
<1>6. PidsTaken(k) /\ OneFlag(k)
  BY <1>2, <1>4 DEF PidsTaken, OneFlag
<1>7. Pooled(k)
  BY <1>2, <1>4 DEF Pooled
<1>8. \A a \in Addr : at[a] \in {"user", "wait", "sleep"}
  BY <1>2
<1> QED BY <1>1, <1>5, <1>6, <1>7, <1>8 DEF TidyInv, Tables

LEMMA TidyInductive == Tidy /\ Spec => []TidyInv
<1>1. Tidy /\ Init => TidyInv
  BY InitTidy
<1>2. TidyInv /\ [Next]_vars => TidyInv'
  BY NextTidy
<1> QED BY <1>1, <1>2, PTL DEF Spec

\* Every pid that the pool counts as taken, but the last one, is the pid of a process:
\* each death gives its pid back and no pid is taken for nobody, in any order of
\* creations, kills, Ctrl-C and ends, yields included.
THEOREM PidsComeBack == Tidy /\ Spec => []PidPool
<1>1. TidyInv => PidPool
  BY DEF TidyInv, Tables, Pooled, PidPool
<1> QED BY <1>1, TidyInductive, PTL

\* Keyboard and screen have at most one owner, whoever creates and dies: the flag
\* is taken from its owner before it is given, and passed on at most once.
THEOREM OneOwner == Tidy /\ Spec => []OneForeground
<1>1. TidyInv => OneForeground
  BY DEF TidyInv, Tables, OneFlag, OneForeground, ForegroundOwners
<1> QED BY <1>1, TidyInductive, PTL

=============================================================================
