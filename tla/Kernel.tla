------------------------------- MODULE Kernel -------------------------------
(***************************************************************************)
(* The kernel running: one CPU, the system calls on processes, the timer   *)
(* and keyboard interrupts, the sleep queue and the exit of a process.     *)
(*                                                                         *)
(* A system call enters by an interrupt gate and runs with interrupts      *)
(* disabled up to its return or to callScheduler(), so it is one action.   *)
(* exit_process is different: a process that returns from its main function*)
(* runs it with interrupts enabled, so it is a sequence of actions that    *)
(* interrupts can separate.                                                *)
(*                                                                         *)
(* cpu is the thread that executes; current_process is what the kernel     *)
(* believes.  The two are different variables because the code can make    *)
(* them differ.                                                            *)
(***************************************************************************)
EXTENDS Process

CONSTANTS
    BOOT, IDLE,     \* the PCBs of first_process and of idle
    Quanta,         \* the values of the table priority[]
    LOW, NORMAL,    \* priority[PRIORITY_LOW], priority[PRIORITY_NORMAL]
    NiceValues,     \* the values given to nice
    Garbage,        \* what mm_malloc may leave in waiting_on_child
    Foreground,     \* the values of is_foreground given to create
    Syscalls,       \* the calls and events that the run allows
    Unblockable,    \* the pids that nobody passes to block
    MaxSleep,       \* bound: the longest sleep, in ticks
    MaxSleepers     \* bound: the entries of the sleep queue

ASSUME KernelAssumption ==
    /\ BOOT \in Addr /\ IDLE \in Addr /\ BOOT # IDLE
    /\ MAX_PROCESSES > 2
    /\ Quanta \subseteq Int /\ NiceValues \subseteq Int
    /\ LOW \in Quanta /\ NORMAL \in Quanta
    /\ Garbage \subseteq 0..2 /\ Foreground \subseteq BOOLEAN
    /\ MaxSleep \in Nat /\ MaxSleepers \in Nat

VARIABLES
    k,          \* the globals of process.c and scheduler.c (see Process)
    cpu,        \* the thread that executes; NULL: a context that no longer exists was resumed
    sleep_list, \* the sleep queue: [proc, left], left = the ticks to wake_tick
    at,         \* where the code of each thread is
    boot,       \* how much of its program first_process has run
    irq         \* 0, or the entry the timer handler looks at

vars == <<k, cpu, sleep_list, at, boot, irq>>

\* user: the program; wait, sleep: blocked in that system call; the others are
\* the points between the steps of exit_process, and what is after its return,
\* where no code was written.
Places ==
    {"user", "wait", "sleep", "detached", "terminated", "dequeued", "released", "returned"}

TypeOK ==
    /\ k \in Globals
    /\ cpu \in Addr \cup {NULL}
    /\ sleep_list \in Seq([proc : Addr, left : 0..MaxSleep])
    /\ at \in [Addr -> Places]
    /\ boot \in 0..3
    /\ irq \in Nat

-----------------------------------------------------------------------------

\* main() has created first_process and the first tick has dispatched it.
Init ==
    /\ k = [processes_list   |-> [i \in Slots |-> IF i = 1 THEN BOOT ELSE NULL],
            pids             |-> [i \in Slots |-> i = 1],
            used             |-> {BOOT},
            pid              |-> [a \in Addr |-> IF a = BOOT THEN 1 ELSE 0],
            state            |-> [a \in Addr |-> IF a = BOOT THEN "RUNNING" ELSE "TERMINATED"],
            priority         |-> [a \in Addr |-> IF a = BOOT THEN LOW ELSE 0],
            parent_pid       |-> [a \in Addr |-> 0],
            waiting_on_child |-> [a \in Addr |-> 0],
            children         |-> [a \in Addr |-> {}],
            is_foreground    |-> [a \in Addr |-> FALSE],
            stack_pointer    |-> [a \in Addr |-> NULL],
            ready_list       |-> <<BOOT>>,
            counter          |-> [a \in Addr |-> IF a = BOOT THEN LOW ELSE 0],
            current_node     |-> BOOT,
            current_process  |-> BOOT]
    /\ cpu = BOOT
    /\ sleep_list = <<>>
    /\ at = [a \in Addr |-> "user"]
    /\ boot = 0
    /\ irq = 0

-----------------------------------------------------------------------------
(* How a handler ends.                                                     *)

\* A thread that is not blocked any more has left wait or sleep.
Unblocked(k2, places) ==
    [a \in Addr |-> IF places[a] \in {"wait", "sleep"} /\ k2.state[a] # "BLOCKED"
                    THEN "user" ELSE places[a]]

\* iretq to the thread that made the call.
Return(k2) == /\ k' = k2
              /\ at' = Unblocked(k2, at)
              /\ UNCHANGED cpu

\* Mutant: the context that scheduler() returns is not used.
CallScheduler_Ignored(k2, places) ==
    LET r == scheduler(k2, cpu)
    IN  k' = r.k /\ cpu' = cpu /\ at' = Unblocked(r.k, places)

\* int 0x22 and the timer: the context that scheduler() returns is popped, and
\* what stack_pointer points to no longer is a context.
CallScheduler(k2, places) ==
    LET r == scheduler(k2, cpu)
        p == r.k.current_process
    IN  /\ k' = [r.k EXCEPT !.stack_pointer[p] = IF @ = r.sp THEN NULL ELSE @]
        /\ cpu' = r.sp
        /\ at' = Unblocked(r.k, places)

-----------------------------------------------------------------------------
(* System calls.                                                           *)

\* A program runs on the CPU.  first_process and idle have programs of their own.
Program == irq = 0 /\ cpu \in Addr \ {BOOT, IDLE} /\ at[cpu] = "user"

Allowed(call) == Program /\ call \in Syscalls

\* The PCB of the caller, as the kernel sees it.
Self == k.current_process

\* sys_create.  Without "overflow" nobody creates a process when no pid is free (the
\* code gives it pid 0; the theorems of KernelProofs hold with it too).
Creates(new, prio, is_fg, garbage) ==
    /\ new \notin k.used
    /\ FreePid(k) # 0 \/ "overflow" \in Syscalls
    /\ LET k2 == createProcess(k, new, prio, is_fg, garbage)
       IN  k' = k2 /\ at' = Unblocked(k2, [at EXCEPT ![new] = "user"])
    /\ UNCHANGED <<cpu, sleep_list, irq>>

Create(new, prio, is_fg, garbage) ==
    /\ Allowed("create")
    /\ Creates(new, prio, is_fg, garbage)
    /\ UNCHANGED boot

\* kill_process(pid): a pid below 3 or unknown is left alone, with no call to
\* the scheduler.
Kills(pid) ==
    LET p == get_process_by_pid(k, pid)
    IN  IF pid < 3 \/ p = NULL THEN Return(k) ELSE CallScheduler(Killed(k, p), at)

Kill(pid) ==
    /\ Allowed("kill")
    /\ Kills(pid)
    /\ UNCHANGED <<sleep_list, boot, irq>>

\* sys_block does not call the scheduler: a process that blocks itself goes on
\* up to the next tick.
Block(pid) ==
    /\ IF pid = k.pid[Self] THEN Allowed("block_self") ELSE Allowed("block")
    /\ pid \notin Unblockable
    /\ Return(block_process(k, pid))
    /\ UNCHANGED <<sleep_list, boot, irq>>

Unblock(pid) ==
    /\ Allowed("unblock")
    /\ Return(unblock_process(k, pid))
    /\ UNCHANGED <<sleep_list, boot, irq>>

Nice(pid, newPriority) ==
    /\ IF pid = k.pid[Self] THEN Allowed("nice_self") ELSE Allowed("nice")
    /\ Return(modify_priority(k, pid, newPriority, Quanta))
    /\ UNCHANGED <<sleep_list, boot, irq>>

\* quitCPU: the context that scheduler() returns is not used, so the caller
\* goes on under the name of another process.
Yield ==
    /\ Allowed("yield")
    /\ IF k.state[Self] = "RUNNING"
       THEN Return(scheduler(add_to_ready_list([k EXCEPT !.state[Self] = "READY"], Self),
                             k.stack_pointer[Self]).k)
       ELSE Return(k)
    /\ UNCHANGED <<sleep_list, boot, irq>>

\* wait
Waits ==
    IF k.children[Self] # {}
    THEN CallScheduler(block_process([k EXCEPT !.waiting_on_child[Self] = 1], k.pid[Self]),
                       [at EXCEPT ![cpu] = "wait"])
    ELSE Return(k)

Wait ==
    /\ Allowed("wait")
    /\ Waits
    /\ UNCHANGED <<sleep_list, boot, irq>>

\* Mutant: the entries after the new one are lost.
Inserted_Last(s, e) ==
    LET i == First({j \in DOMAIN s : s[j].left > e.left})
    IN  IF i = 0 THEN Append(s, e) ELSE Append(SubSeq(s, 1, i - 1), e)

\* sleep_queue_add: before the first entry that wakes later.
Inserted(s, e) ==
    LET i == First({j \in DOMAIN s : s[j].left > e.left})
    IN  IF i = 0 THEN Append(s, e)
        ELSE SubSeq(s, 1, i - 1) \o <<e>> \o SubSeq(s, i, Len(s))

Sleep(n) ==
    /\ Allowed("sleep")
    /\ Len(sleep_list) < MaxSleepers
    /\ sleep_list' = Inserted(sleep_list, [proc |-> Self, left |-> n])
    /\ CallScheduler(block_process(k, k.pid[Self]), [at EXCEPT ![cpu] = "sleep"])
    /\ UNCHANGED <<boot, irq>>

\* The program of first_process: create idle, create the shell, wait.
Boot ==
    /\ cpu = BOOT /\ irq = 0 /\ boot < 3 /\ boot' = boot + 1
    /\ \/ /\ boot = 0
          /\ \E garbage \in Garbage : Creates(IDLE, LOW, TRUE, garbage)
       \/ /\ boot = 1
          /\ \E shell \in Addr, garbage \in Garbage : Creates(shell, NORMAL, TRUE, garbage)
       \/ /\ boot = 2
          /\ Waits
          /\ UNCHANGED <<sleep_list, irq>>

-----------------------------------------------------------------------------
(* exit_process.                                                           *)

\* Mutant: the entry of the next pid is cleared.
PidGivenBack_Next(k1) == [k1 EXCEPT !.pids = [i \in Slots |-> @[i] /\ i # k1.pid[k1.current_process] + 1]]

\* pids[current->pid - 1] = 0, from the freed PCB; with pid 0 the store is
\* outside the array.
PidGivenBack(k1) == [k1 EXCEPT !.pids = [i \in Slots |-> @[i] /\ i # k1.pid[k1.current_process]]]

\* sys_endProcess: with interrupts disabled.
EndProcess ==
    /\ Allowed("end") /\ cpu = Self
    /\ CallScheduler(PidGivenBack(remove_from_processes_list(k, Self)), at)
    /\ UNCHANGED <<sleep_list, boot, irq>>

\* One step of an exit with interrupts enabled.  Exits by a thread that runs
\* under the name of another process (after a yield) are not modelled.
Exiting(from, to, k2) ==
    /\ irq = 0 /\ cpu \in Addr \ {BOOT, IDLE} /\ cpu = Self /\ at[cpu] = from
    /\ "exit" \in Syscalls
    /\ k' = k2
    /\ at' = Unblocked(k2, [at EXCEPT ![cpu] = to])
    /\ UNCHANGED <<cpu, sleep_list, boot, irq>>

ExitDetach ==
    IF foundprocess(k, k.pid[Self]) = 0
    THEN Exiting("user", "released", k)
    ELSE Exiting("user", "detached", DetachFromParent(k, Self))

ExitTerminate == Exiting("detached", "terminated", Terminate(k, Self))

ExitDequeue == Exiting("terminated", "dequeued", remove_from_ready_list(k, Self))

ExitRelease == Exiting("dequeued", "released", ReleaseSlot(k, Self))

\* exit_process has no code after callScheduler(), but scheduler() keeps the thread
\* on the CPU when the freed PCB reads RUNNING and current_node has quantum left.
ExitFinish ==
    /\ irq = 0 /\ cpu \in Addr /\ cpu = Self /\ at[cpu] = "released"
    /\ CallScheduler(PidGivenBack(k),
                     [at EXCEPT ![cpu] = IF KeepsCpu(PidGivenBack(k)) THEN "returned" ELSE "user"])
    /\ UNCHANGED <<sleep_list, boot, irq>>

-----------------------------------------------------------------------------
(* Interrupts.                                                             *)

\* Ctrl-C: kill_process on the foreground process, from the keyboard handler.
CtrlC ==
    /\ irq = 0 /\ cpu \in Addr /\ "ctrlc" \in Syscalls
    /\ get_foreground_process(k) # NULL
    /\ Kills(k.pid[get_foreground_process(k)])
    /\ UNCHANGED <<sleep_list, boot, irq>>

\* Mutant: the ticks that are left go below 0.
TickStart_Below ==
    /\ irq = 0 /\ cpu \in Addr
    /\ irq' = 1
    /\ sleep_list' = [i \in DOMAIN sleep_list |-> [sleep_list[i] EXCEPT !.left = @ - 1]]
    /\ UNCHANGED <<k, cpu, at, boot>>

\* timer_handler: ticks++ and the walk of sleep_queue_tick_handler starts.
TickStart ==
    /\ irq = 0 /\ cpu \in Addr
    /\ irq' = 1
    /\ sleep_list' = [i \in DOMAIN sleep_list |->
                         [sleep_list[i] EXCEPT !.left = IF @ = 0 THEN 0 ELSE @ - 1]]
    /\ UNCHANGED <<k, cpu, at, boot>>

\* The pid an entry leads to: proc may point to a PCB that was freed, whose
\* memory still has the pid or something that is no pid (0).
PidRead(e) == IF e.proc \in k.used THEN {k.pid[e.proc]} ELSE {k.pid[e.proc], 0}

\* Mutant: the entries after the one taken out are lost.
Drop_Rest(s, i) == SubSeq(s, 1, i - 1)

Drop(s, i) == SubSeq(s, 1, i - 1) \o SubSeq(s, i + 1, Len(s))

\* The ready node of a woken process may be allocated in the PCB that an
\* exiting process has just freed, and the kernel still reads its state there.
FreedStates ==
    IF Self \in k.used THEN {k.state[Self]} ELSE {k.state[Self], "RUNNING"}

\* One entry of the sleep queue.
TickScan ==
    /\ irq \in DOMAIN sleep_list
    /\ \E pid \in PidRead(sleep_list[irq]) :
          \/ /\ foundprocess(k, pid) = 0
             /\ sleep_list' = Drop(sleep_list, irq)
             /\ UNCHANGED <<k, at, irq>>
          \/ /\ foundprocess(k, pid) # 0 /\ sleep_list[irq].left = 0
             /\ sleep_list' = Drop(sleep_list, irq)
             /\ \E seen \in FreedStates :
                   LET k2 == [unblock_process(k, pid) EXCEPT !.state[Self] = 
                                IF Self \in k.used THEN @ ELSE seen]
                   IN  k' = k2 /\ at' = Unblocked(k2, at)
             /\ UNCHANGED irq
          \/ /\ foundprocess(k, pid) # 0 /\ sleep_list[irq].left > 0
             /\ irq' = irq + 1
             /\ UNCHANGED <<k, at, sleep_list>>
    /\ UNCHANGED <<cpu, boot>>

\* The handler is done: scheduler().
TickEnd ==
    /\ irq > Len(sleep_list)
    /\ irq' = 0
    /\ CallScheduler(k, at)
    /\ UNCHANGED <<sleep_list, boot>>

Tick == TickStart \/ TickScan \/ TickEnd

-----------------------------------------------------------------------------

Call ==
    \/ \E new \in Addr, prio \in Quanta, fg \in Foreground, garbage \in Garbage :
          Create(new, prio, fg, garbage)
    \/ \E pid \in Pids : Kill(pid) \/ Block(pid) \/ Unblock(pid)
    \/ \E pid \in Pids, v \in NiceValues : Nice(pid, v)
    \/ \E n \in 0..MaxSleep : Sleep(n)
    \/ Yield \/ Wait \/ EndProcess

Exit == ExitDetach \/ ExitTerminate \/ ExitDequeue \/ ExitRelease \/ ExitFinish

Next == Boot \/ Call \/ Exit \/ CtrlC \/ Tick

Spec == Init /\ [][Next]_vars

\* The timer keeps interrupting and its handler ends; nothing is assumed of the
\* programs.  Only TickEnd takes irq back to 0.
TickReturns == irq > 0 /\ irq' = 0

FairSpec == Spec /\ WF_irq(TickStart) /\ WF_irq(TickReturns)

-----------------------------------------------------------------------------
(* Safety.                                                                 *)

\* The ring and the states tell the same story: every node belongs to an
\* allocated process and to one only, current_node is one of them, whoever can
\* run is in the ring and whoever is blocked is not (add_to_ready_list,
\* remove_from_ready_list and their callers).
ReadyRing ==
    /\ \A i, j \in DOMAIN k.ready_list : k.ready_list[i] = k.ready_list[j] => i = j
    /\ \A i \in DOMAIN k.ready_list : k.ready_list[i] \in k.used
    /\ InRing(k, k.current_node)
    /\ \A p \in k.used : /\ k.state[p] \in {"RUNNING", "READY"} => InRing(k, p)
                         /\ k.state[p] = "BLOCKED" => ~InRing(k, p)

\* At most one process is RUNNING, and it is the one scheduler() charges: both
\* current_process and the process of current_node (lines 24-37 of scheduler.c).
OneRunner ==
    \A p \in k.used : k.state[p] = "RUNNING" => p = k.current_process /\ p = k.current_node

\* The thread that executes is the one of current_process, so that get_pid,
\* wait, sleep and the semaphores act on their caller.
CpuIsCurrent == cpu = k.current_process

\* Every process that does not execute, and will again, has its own context
\* saved in its PCB: none was overwritten, resumed twice or never saved.
ContextsKept ==
    \A p \in k.used : p # cpu /\ k.state[p] # "TERMINATED" => k.stack_pointer[p] = p

\* Processes and pids go together: the allocated PCBs are those of the table,
\* each in one slot, with a pid of its own that the pool counts as taken.
PidsUnique ==
    /\ k.used = {k.processes_list[i] : i \in Listed(k)}
    /\ \A i, j \in Listed(k) :
          /\ k.pid[k.processes_list[i]] = k.pid[k.processes_list[j]] => i = j
          /\ k.pid[k.processes_list[i]] # 0 /\ k.pids[k.pid[k.processes_list[i]]]

\* Every pid that the pool counts as taken, but the last one (see freePid), is the
\* pid of a process: killing gives the pid back (runs where no exit is interrupted).
PidPool ==
    \A i \in Slots \ {MAX_PROCESSES} : k.pids[i] => \E p \in k.used : k.pid[p] = i

\* A pid in children[] is the pid of a live process that names the parent as
\* such: no death leaves an entry that its parent would wait for.
ChildrenAreLive ==
    \A p \in k.used : \A c \in k.children[p] :
        \E q \in k.used : k.pid[q] = c /\ k.parent_pid[q] = k.pid[p]

\* A process blocked in wait still has a child whose exit will find the flag
\* set: the wakeup of the last child is never lost.
WaitersHaveChildren ==
    \A p \in k.used : at[p] = "wait" => k.children[p] # {} /\ k.waiting_on_child[p] = 1

\* A process blocked in sleep has an entry in the sleep queue that will wake it.
SleepersHaveAlarm ==
    \A p \in k.used : at[p] = "sleep" => \E i \in DOMAIN sleep_list : sleep_list[i].proc = p

\* At most one process that is not exiting has the foreground flag: keyboard
\* Ctrl-C and the screen have one owner (assignForeground, and the hand-over
\* to the parent in remove_from_processes_list; runs where no exit is interrupted: a
\* process killed half way through its exit hands the flag over twice).
ForegroundOwners == {p \in k.used : k.is_foreground[p] /\ at[p] \in {"user", "wait", "sleep"}}

OneForeground == \A p, q \in ForegroundOwners : p = q

(* Steps.                                                                  *)

\* A process that is TERMINATED stays so until its PCB is freed: scheduler()
\* never gives the CPU back to it.
NoResurrection ==
    [][\A p \in k.used : p \in k'.used /\ k.state[p] = "TERMINATED"
                          => k'.state[p] = "TERMINATED"]_vars

\* wait returns when every recorded child is gone, not before (runs where
\* nobody calls unblock or sleeps).
WaitForAll ==
    [][\A p \in k.used : p \in k'.used /\ at[p] = "wait" /\ at'[p] = "user"
                          => k'.children[p] = {}]_vars

\* "Gives up the Cpu": after yield another process executes, when one is READY.
YieldGivesUpCpu ==
    [][(Yield /\ \E p \in k.used : p # cpu /\ k.state[p] = "READY") => cpu' # cpu]_vars

(* Progress.                                                               *)

\* The round robin reaches every process that is READY, whatever the others do,
\* except those that can be at the head of the ring: a process that blocks moves
\* current_node to its successor, scheduler() steps over that successor, and a
\* process that wakes up is put just before the head.
NoStarvation ==
    \A p \in Addr \ {BOOT, IDLE} : (p \in k.used /\ k.state[p] = "READY") ~> (k.state[p] # "READY")

\* sleep ends.
SleepEnds == \A p \in Addr : (at[p] = "sleep") ~> (at[p] # "sleep")
=============================================================================
