------------------------------ MODULE Process ------------------------------
(***************************************************************************)
(* The process table and the scheduler of the kernel: process/process.c   *)
(* and process/scheduler.c.  The C functions work on a handful of globals; *)
(* here each function that changes them is an operator from one value k of *)
(* those globals to the next, with the name it has in the source, so that  *)
(* Kernel can compose them the way the system calls and the interrupt      *)
(* handlers do.                                                            *)
(*                                                                         *)
(* k has one field per global and, for the PCBs, one field per member of   *)
(* p_info, a function of the address of the PCB:                           *)
(*   processes_list, pids         the process table and the pid pool       *)
(*   used                         the addresses that hold an allocated PCB *)
(*   pid, state, priority, ...    the members of p_info                    *)
(*   ready_list                   the ring of ready nodes, head first: the *)
(*                                successor of the last is the first       *)
(*   counter                      the quantum left in the node of a PCB    *)
(*   current_node, current_process                                         *)
(* A node of the ring is named by the PCB it points to: add_to_ready_list  *)
(* never puts a PCB twice.  A saved context is named by the thread that    *)
(* it resumes, which is the address of its PCB.                            *)
(***************************************************************************)
EXTENDS Integers, Sequences, FiniteSets

CONSTANTS
    MAX_PROCESSES,  \* scheduler.h: slots of processes_list, and pids 1..MAX_PROCESSES
    MAX_CHILDREN,   \* pcb.h: children recorded in a PCB
    Addr,           \* the addresses mm_malloc can give to a PCB
    NULL            \* the null pointer; as a context, one that was already resumed

ASSUME TableAssumption == /\ MAX_PROCESSES \in Nat \ {0}
                          /\ MAX_CHILDREN \in Nat
                          /\ NULL \notin Addr

Slots  == 1..MAX_PROCESSES
Pids   == 0..MAX_PROCESSES
STATUS == {"RUNNING", "READY", "BLOCKED", "TERMINATED"}

\* The globals of the process table and the scheduler.
Globals ==
    [processes_list   : [Slots -> Addr \cup {NULL}],
     pids             : [Slots -> BOOLEAN],
     used             : SUBSET Addr,
     pid              : [Addr -> Pids],
     state            : [Addr -> STATUS],
     priority         : [Addr -> Int],
     parent_pid       : [Addr -> Pids],
     waiting_on_child : [Addr -> 0..2],
     children         : [Addr -> SUBSET Pids],
     is_foreground    : [Addr -> BOOLEAN],
     stack_pointer    : [Addr -> Addr \cup {NULL}],
     ready_list       : Seq(Addr),
     counter          : [Addr -> Int],
     current_node     : Addr \cup {NULL},
     current_process  : Addr]

-----------------------------------------------------------------------------
(* Searching the tables: every search of the C code is for the first index. *)

\* The least element of a set of indices, or 0 (for the -1 of the code).
First(S) == IF S = {} THEN 0 ELSE CHOOSE i \in S : \A j \in S : i <= j

Listed(k) == {i \in Slots : k.processes_list[i] # NULL}

foundprocess(k, pid) ==
    First({i \in Listed(k) : k.pid[k.processes_list[i]] = pid})

get_process_by_pid(k, pid) ==
    IF foundprocess(k, pid) = 0 THEN NULL ELSE k.processes_list[foundprocess(k, pid)]

get_foreground_process(k) ==
    LET i == First({j \in Listed(k) : k.is_foreground[k.processes_list[j]]})
    IN  IF i = 0 THEN NULL ELSE k.processes_list[i]

-----------------------------------------------------------------------------
(* The ready ring.                                                         *)

InRing(k, p) == \E i \in DOMAIN k.ready_list : k.ready_list[i] = p

Index(k, p) == CHOOSE i \in DOMAIN k.ready_list : k.ready_list[i] = p

\* The node d steps after the node of p, going round the ring.
Ahead(k, p, d) == k.ready_list[((Index(k, p) - 1 + d) % Len(k.ready_list)) + 1]

add_to_ready_list(k, p) ==
    IF InRing(k, p)
    THEN k
    ELSE [k EXCEPT !.ready_list   = Append(@, p),
                   !.counter[p]   = k.priority[p],
                   !.current_node = IF k.ready_list = <<>> THEN p ELSE @]

\* The node of p leaves the ring; a current_node that pointed to it moves to
\* its successor, which the next scheduler() call will step over.
remove_from_ready_list(k, p) ==
    IF ~InRing(k, p)
    THEN k
    ELSE LET i == Index(k, p)
             n == Len(k.ready_list)
         IN  [k EXCEPT !.ready_list   = SubSeq(@, 1, i - 1) \o SubSeq(@, i + 1, n),
                       !.counter[p]   = 0,
                       !.current_node = IF n = 1 THEN NULL
                                        ELSE IF @ = p THEN Ahead(k, p, 1) ELSE @]

-----------------------------------------------------------------------------
(* scheduler(current_sp): the globals it leaves and the context it returns. *)

\* Mutants: only a running process has its context saved; no tick is charged.
Charge_RunningOnly(k, current_sp) ==
    LET p == k.current_process
    IN  IF k.state[p] = "RUNNING"
        THEN [k EXCEPT !.stack_pointer[p] = current_sp, !.counter[k.current_node] = @ - 1] ELSE k

Charge_Free(k, current_sp) ==
    IF k.state[k.current_process] \in {"BLOCKED", "RUNNING"}
    THEN [k EXCEPT !.stack_pointer[k.current_process] = current_sp] ELSE k

\* Lines 20-29: the context of a blocked or running process is saved, and a
\* running one is charged a tick of the quantum in current_node.
Charge(k, current_sp) ==
    LET p     == k.current_process
        saved == IF k.state[p] \in {"BLOCKED", "RUNNING"}
                 THEN [k EXCEPT !.stack_pointer[p] = current_sp] ELSE k
    IN  IF k.state[p] = "RUNNING"
        THEN [saved EXCEPT !.counter[k.current_node] = @ - 1] ELSE saved

\* Lines 35-38 and 42-44.
Dispatch(k, node, p) ==
    [k EXCEPT !.current_node    = node,
              !.current_process = p,
              !.state[p]        = "RUNNING",
              !.counter[node]   = k.priority[p]]

\* Mutant: whoever is not blocked is taken for ready.
Steps_AnyState(k) == First({d \in 1..Len(k.ready_list) :
                               k.state[Ahead(k, k.current_node, d)] # "BLOCKED"})

\* How many steps from current_node the first READY process is; current_node
\* itself is looked at last.  0 when there is none.
Steps(k) == First({d \in 1..Len(k.ready_list) :
                      k.state[Ahead(k, k.current_node, d)] = "READY"})

\* Lines 31-45: the round robin; with nobody READY the current process goes on.
PickNext(k) ==
    LET d    == Steps(k)
        next == Ahead(k, k.current_node, d)
    IN  IF d = 0 THEN Dispatch(k, k.current_node, k.current_process)
                 ELSE Dispatch(k, next, next)

\* Line 26: the process still has quantum.
KeepsCpu(k) == /\ k.state[k.current_process] = "RUNNING"
               /\ k.counter[k.current_node] > 1

\* Mutant: the process that loses the CPU stays RUNNING.
Preempted_Not(k) == k

Preempted(k) ==
    IF k.state[k.current_process] = "RUNNING"
    THEN [k EXCEPT !.state[k.current_process] = "READY"] ELSE k

scheduler(k, current_sp) ==
    LET charged == Charge(k, current_sp)
        next    == PickNext(Preempted(charged))
    IN  CASE k.ready_list = <<>> -> [k |-> k, sp |-> current_sp]
          [] k.ready_list # <<>> /\ KeepsCpu(k) -> [k |-> charged, sp |-> current_sp]
          [] OTHER -> [k |-> next, sp |-> next.stack_pointer[next.current_process]]

-----------------------------------------------------------------------------
(* State changes.                                                          *)

\* Mutant: a blocked process stays in the ring.
block_process_InRing(k, pid) ==
    LET p == get_process_by_pid(k, pid)
    IN  IF p # NULL /\ k.state[p] \in {"RUNNING", "READY"}
        THEN [k EXCEPT !.state[p] = "BLOCKED"] ELSE k

block_process(k, pid) ==
    LET p == get_process_by_pid(k, pid)
    IN  IF p # NULL /\ k.state[p] \in {"RUNNING", "READY"}
        THEN remove_from_ready_list([k EXCEPT !.state[p] = "BLOCKED"], p)
        ELSE k

\* first_process (pid 1) is never unblocked.
unblock_process(k, pid) ==
    LET p == get_process_by_pid(k, pid)
    IN  IF pid # 1 /\ p # NULL /\ k.state[p] = "BLOCKED"
        THEN add_to_ready_list([k EXCEPT !.state[p] = "READY"], p)
        ELSE k

\* A value that is not in the table priority[] is stored and then refused.
modify_priority(k, pid, newPriority, table) ==
    LET p == get_process_by_pid(k, pid)
    IN  IF p = NULL THEN k
        ELSE [k EXCEPT !.priority[p] = newPriority,
                       !.counter[p] = IF newPriority \in table /\ InRing(k, p)
                                      THEN newPriority ELSE @]

\* waiting_on_child is incremented by createProcess and compared only with 1:
\* 2 stands for every other non-zero value.
Saturated(n) == IF n < 2 THEN n + 1 ELSE 2

-----------------------------------------------------------------------------
(* Creation.                                                               *)

\* Mutant: a pid that is taken is not skipped.
FreePid_Taken(k) == First({i \in Slots : i > 2})

\* assignPid: 0 when the pool is exhausted.
FreePid(k) == First({i \in Slots : ~k.pids[i]})

FreeSlot(k) == First({i \in Slots : k.processes_list[i] = NULL})

\* Mutant: nobody loses the flag.
assignForeground_Shared(k, new_p, is_fg) == [k EXCEPT !.is_foreground[new_p] = is_fg]

\* The flag is taken from the first foreground process, whoever it is, also
\* when the new process is a background one.
assignForeground(k, new_p, is_fg) ==
    LET fg == get_foreground_process(k)
    IN  [k EXCEPT !.is_foreground =
            [a \in Addr |-> IF a = new_p THEN is_fg ELSE a # fg /\ @[a]]]

\* copy_context, with the garbage that mm_malloc leaves in waiting_on_child.
copy_context(k, new, prio, is_fg, garbage) ==
    LET n == FreePid(k)
    IN  assignForeground(
          [k EXCEPT !.used                  = @ \cup {new},
                    !.pids                  = [i \in Slots |-> i = n \/ @[i]],
                    !.pid[new]              = n,
                    !.state[new]            = "READY",
                    !.priority[new]         = prio,
                    !.waiting_on_child[new] = garbage,
                    !.children[new]         = {},
                    !.stack_pointer[new]    = new], new, is_fg)

add_to_process_list(k, p) ==
    [k EXCEPT !.processes_list = [i \in Slots |-> IF i = FreeSlot(k) THEN p ELSE @[i]]]

\* The PCB of the caller is current_process; a parent with MAX_CHILDREN children
\* does not record another one.
createProcess(k, new, prio, is_fg, garbage) ==
    LET parent == k.current_process
        child  == copy_context(k, new, prio, is_fg, garbage)
        n      == child.pid[new]
        linked == [child EXCEPT
                     !.parent_pid[new]  = k.pid[parent],
                     !.children[parent] = IF Cardinality(@) < MAX_CHILDREN
                                          THEN @ \cup {n} ELSE @,
                     !.waiting_on_child[parent] = Saturated(@)]
    IN  add_to_ready_list(add_to_process_list(linked, new), new)

-----------------------------------------------------------------------------
(* Removal.  remove_from_processes_list is split where an interrupt can     *)
(* come when exit_process runs it with interrupts enabled.                 *)

\* Mutants: the parent keeps the pid of its dead child; it looks whether it has
\* children before it forgets the child; it is woken by the first child.
DetachFromParent_Kept(k, p) ==
    IF k.waiting_on_child[get_process_by_pid(k, k.parent_pid[p])] = 1
    THEN unblock_process(k, k.parent_pid[p]) ELSE k

DetachFromParent_Early(k, p) ==
    LET parent == get_process_by_pid(k, k.parent_pid[p])
        woken  == IF k.waiting_on_child[parent] = 1 /\ k.children[parent] = {}
                  THEN unblock_process(k, k.parent_pid[p]) ELSE k
    IN  IF k.parent_pid[p] = 0 \/ parent = NULL THEN k
        ELSE [woken EXCEPT !.children[parent] = @ \ {k.pid[p]}]

DetachFromParent_First(k, p) ==
    LET parent == get_process_by_pid(k, k.parent_pid[p])
        forgot == [k EXCEPT !.children[parent] = @ \ {k.pid[p]}]
    IN  IF k.parent_pid[p] = 0 \/ parent = NULL THEN k
        ELSE IF k.waiting_on_child[parent] = 1
             THEN unblock_process(forgot, k.parent_pid[p]) ELSE forgot

\* Lines 297-324: the first process whose pid is parent_pid forgets the child,
\* is woken when it waits and has no child left, and gets the foreground.
DetachFromParent(k, p) ==
    LET parent == get_process_by_pid(k, k.parent_pid[p])
        forgot == [k EXCEPT !.children[parent] = @ \ {k.pid[p]}]
        woken  == IF /\ forgot.waiting_on_child[parent] = 1
                     /\ forgot.children[parent] = {}
                  THEN unblock_process(forgot, k.parent_pid[p]) ELSE forgot
    IN  IF k.parent_pid[p] = 0 \/ parent = NULL THEN k
        ELSE IF k.is_foreground[p]
             THEN [woken EXCEPT !.is_foreground[parent] = TRUE] ELSE woken

Terminate(k, p) == [k EXCEPT !.state[p] = "TERMINATED"]

\* Lines 327-337: the slot and the PCB are freed.  Freed memory keeps the pid;
\* what nobody reads again is reset.
ReleaseSlot(k, p) ==
    LET idx == foundprocess(k, k.pid[p])
    IN  [k EXCEPT !.processes_list       = [i \in Slots |-> IF i = idx THEN NULL ELSE @[i]],
                  !.used                 = @ \ {p},
                  !.priority[p]          = 0,
                  !.parent_pid[p]        = 0,
                  !.waiting_on_child[p]  = 0,
                  !.children[p]          = {},
                  !.is_foreground[p]     = FALSE,
                  !.stack_pointer[p]     = NULL]

remove_from_processes_list(k, p) ==
    IF foundprocess(k, k.pid[p]) = 0 THEN k
    ELSE ReleaseSlot(remove_from_ready_list(Terminate(DetachFromParent(k, p), p), p), p)

\* Mutant: the pid is not given back.
freePid_Never(k, pid) == k

\* freePid tests pid < MAX_PROCESSES: the last pid is never given back here.
freePid(k, pid) == [k EXCEPT !.pids = [i \in Slots |-> @[i] /\ (i # pid \/ i >= MAX_PROCESSES)]]

\* The globals before kill_process calls the scheduler.
Killed(k, p) ==
    LET unlinked == remove_from_ready_list(freePid(k, k.pid[p]), p)
    IN  remove_from_processes_list(Terminate(unlinked, p), p)
=============================================================================
