------------------------------- MODULE Phylo -------------------------------
(***************************************************************************)
(* The dining philosophers of Userland/SampleCodeModule/phylo.c: the       *)
(* program phylo_main adds and removes philosophers at the request of the  *)
(* user while they think and eat.  It composes three parts of the kernel:  *)
(* semaphores (as in Semaphore, here as many as the table needs), the      *)
(* sleep queue, whose entries outlive the process that slept, and the pids *)
(* of dead processes, which go to the next process.                        *)
(*                                                                         *)
(* A system call is one step.  Between its wait for SEM_GLOBAL and its     *)
(* post a process touches only what that semaphore guards, so that the     *)
(* code in between, with the post, is one step too.  Ticks are not counted:*)
(* the sleeps of philosophers have one length, so that they end in the     *)
(* order in which they began, and the one of phylo_main ends at any moment.*)
(***************************************************************************)
EXTENDS Integers, Sequences, FiniteSets

CONSTANTS
    MIN_DINER, MAX_DINER,   \* phylo.h: 3 and 10
    Events,                 \* the keys pressed (a, r, q, ctrlc), and fail: no memory
    TickBeforeReuse,        \* whether a tick comes before a dead pid is given away
    MaxEntries              \* bound: the entries of the sleep queue

ASSUME PhyloAssumption == /\ MIN_DINER \in Nat \ {0}
                          /\ MAX_DINER \in Nat /\ MIN_DINER < MAX_DINER
                          /\ TickBeforeReuse \in BOOLEAN /\ MaxEntries \in Nat

Seats == 0..MAX_DINER - 1
NO_PID == -1

\* The semaphores, named by their distance from SEM_FORK(0).
SEM_FORK(i) == i
SEM_GLOBAL == MAX_DINER
Sems == 0..MAX_DINER

\* The process that runs phylo_main, and the pids of philosophers.
MAIN == 0
Pids == 1..MAX_DINER
Procs == 0..MAX_DINER

PHYLO_STATE == {"NONE", "THINKING", "WAITING", "EATING"}

VARIABLES
    phylo_count, phylo_states, phylo_pids,  \* the globals of phylo.c
    sem,       \* value (-1: not open) and waiting, for each semaphore
    pc,        \* where each process is; none: there is no such process
    seat,      \* the idx of each philosopher: its argv[0]
    sleep_list, \* the pids in the entries of the sleep queue, the first to wake first
    quitting   \* why phylo_main is in remove_all: quit, failed; no: it is not

vars == <<phylo_count, phylo_states, phylo_pids, sem, pc, seat, sleep_list, quitting>>
table == <<phylo_count, phylo_states, phylo_pids, seat, quitting>>

\* Where a blocked process goes on once it is unblocked, whoever unblocks it:
\* sem_wait returns 0 also when no post woke its caller.
Resumes ==
    [think |-> "take",     eat     |-> "leave",    take_q  |-> "take_in",
     fork_q |-> "fed",     leave_q |-> "leave_in", add_q   |-> "add_in",
     rm_q   |-> "rm_in",   again_q |-> "rm_test"]
Blocked == DOMAIN Resumes

\* It was let out of take_forks and has not yet been through leave_forks.
HasForks(p) == pc[p] \in {"fed", "eat", "leave", "leave_q", "leave_in"}

Left(i)  == (i + phylo_count - 1) % phylo_count
Right(i) == (i + 1) % phylo_count

Init ==
    /\ phylo_count = 0
    /\ phylo_states = [i \in Seats |-> "NONE"]
    /\ phylo_pids = [i \in Seats |-> NO_PID]
    /\ sem = [s \in Sems |-> [value |-> -1, waiting |-> <<>>]]
    /\ pc = [p \in Procs |-> IF p = MAIN THEN "off" ELSE "none"]
    /\ seat = [p \in Pids |-> 0]
    /\ sleep_list = <<>>
    /\ quitting = "no"

-----------------------------------------------------------------------------
(* The system calls, on the pair k of the semaphores and the processes.    *)

Now == [sem |-> sem, pc |-> pc]

Goto(k, p, label) == [k EXCEPT !.pc[p] = label]

\* p calls sem_wait(s): a semaphore that is not open lets it pass.
WaitFor(p, s, in, queued) ==
    IF sem[s].value = 0
    THEN [sem |-> [sem EXCEPT ![s].waiting = Append(@, p)], pc |-> [pc EXCEPT ![p] = queued]]
    ELSE [sem |-> [sem EXCEPT ![s].value = IF @ > 0 THEN @ - 1 ELSE @],
          pc |-> [pc EXCEPT ![p] = in]]

\* unblock_process has no effect on one that is not blocked.
Unblock(k, p) == [k EXCEPT !.pc[p] = IF @ \in Blocked THEN Resumes[@] ELSE @]

Living(k, s) ==
    {i \in DOMAIN k.sem[s].waiting : k.pc[k.sem[s].waiting[i]] \notin {"none", "dead"}}

sem_post(k, s) ==
    LET queue == k.sem[s].waiting
        first == CHOOSE i \in Living(k, s) : \A j \in Living(k, s) : i <= j
    IN  CASE k.sem[s].value = -1 -> k
          [] k.sem[s].value # -1 /\ Living(k, s) = {} ->
                [k EXCEPT !.sem[s] = [value |-> @.value + 1, waiting |-> <<>>]]
          [] OTHER ->
                Unblock([k EXCEPT !.sem[s].waiting = SubSeq(queue, first + 1, Len(queue))],
                        queue[first])

Become(k) == sem' = k.sem /\ pc' = k.pc

sleep(p, label) ==
    /\ Len(sleep_list) < MaxEntries
    /\ sleep_list' = Append(sleep_list, p)
    /\ pc' = [pc EXCEPT ![p] = label]

\* The tick handler finds the first entry due, or one whose process is gone.
Fire ==
    /\ sleep_list # <<>>
    /\ sleep_list' = Tail(sleep_list)
    /\ Become(Unblock(Now, Head(sleep_list)))
    /\ UNCHANGED table

Drop ==
    /\ \E i \in DOMAIN sleep_list :
          /\ pc[sleep_list[i]] = "none"
          /\ sleep_list' = SubSeq(sleep_list, 1, i - 1) \o SubSeq(sleep_list, i + 1, Len(sleep_list))
    /\ UNCHANGED table /\ UNCHANGED <<sem, pc>>

-----------------------------------------------------------------------------
(* A philosopher.                                                          *)

SetState(i, s) == phylo_states' = [phylo_states EXCEPT ![i] = s]

UNCHANGED_table == UNCHANGED <<phylo_count, phylo_pids, seat, quitting>>

\* From its start, or from the end of sem_wait, to its sleep.
phylo_process(p) ==
    /\ \/ /\ pc[p] = "start" /\ sleep(p, "think")
          /\ SetState(seat[p], "THINKING")
       \/ /\ pc[p] = "fed" /\ sleep(p, "eat")
          /\ UNCHANGED phylo_states
    /\ UNCHANGED_table /\ UNCHANGED sem

CanEat(i) == phylo_states[Left(i)] # "EATING" /\ phylo_states[Right(i)] # "EATING"

take_forks(p) ==
    LET i == seat[p]
    IN  \/ /\ pc[p] = "take"
           /\ Become(WaitFor(p, SEM_GLOBAL, "take_in", "take_q"))
           /\ UNCHANGED table
        \/ /\ pc[p] = "take_in"
           /\ SetState(i, IF CanEat(i) THEN "EATING" ELSE "WAITING")
           /\ LET k == Goto(Now, p, "fork")
                  granted == IF CanEat(i) THEN sem_post(k, SEM_FORK(i)) ELSE k
              IN  Become(sem_post(granted, SEM_GLOBAL))
           /\ UNCHANGED_table
        \/ /\ pc[p] = "fork"
           /\ Become(WaitFor(p, SEM_FORK(i), "fed", "fork_q"))
           /\ UNCHANGED table


\* Mutant: nobody is let in.
LetIn_Nobody(states, j, beyond) == states

\* A philosopher that waits is let in if the one beyond it does not eat.
LetIn(states, j, beyond) ==
    IF states[j] = "WAITING" /\ states[beyond] # "EATING"
    THEN [states EXCEPT ![j] = "EATING"] ELSE states

\* First the left neighbour, then the right one.
AfterMeal(i) ==
    LET left == LetIn([phylo_states EXCEPT ![i] = "THINKING"], Left(i), Left(Left(i)))
    IN  LetIn(left, Right(i), Right(Right(i)))

\* With the sleep that follows it.
leave_forks(p) ==
    LET i == seat[p]
        serve(k, j) == IF phylo_states[j] = "WAITING" /\ AfterMeal(i)[j] = "EATING"
                       THEN sem_post(k, SEM_FORK(j)) ELSE k
    IN  \/ /\ pc[p] = "leave"
           /\ Become(WaitFor(p, SEM_GLOBAL, "leave_in", "leave_q"))
           /\ UNCHANGED table /\ UNCHANGED sleep_list
        \/ /\ pc[p] = "leave_in"
           /\ phylo_states' = AfterMeal(i)
           /\ LET left  == serve(Goto(Now, p, "think"), Left(i))
                  right == IF Right(i) = Left(i) THEN left ELSE serve(left, Right(i))
              IN  Become(sem_post(right, SEM_GLOBAL))
           /\ Len(sleep_list) < MaxEntries /\ sleep_list' = Append(sleep_list, p)
           /\ UNCHANGED_table

Philosopher(p) ==
    \/ phylo_process(p)
    \/ take_forks(p) /\ UNCHANGED sleep_list
    \/ leave_forks(p)

-----------------------------------------------------------------------------
(* phylo_main.                                                             *)

Main(label) == pc[MAIN] = label

Closed == [value |-> -1, waiting |-> <<>>]

sem_open(k, s, v) == IF k.sem[s].value = -1 THEN [k EXCEPT !.sem[s].value = v] ELSE k

\* Nobody but the philosopher of the seat waits for its semaphore, and it is dead.
sem_close(k, s) == [k EXCEPT !.sem[s] = Closed]

\* phylo_main, until its first philosopher.
Start ==
    /\ Main("off")
    /\ Become(Goto(sem_open(Now, SEM_GLOBAL, 1), MAIN, "add"))
    /\ phylo_states' = [i \in Seats |-> "NONE"]
    /\ phylo_pids' = [i \in Seats |-> NO_PID]
    /\ quitting' = "no"
    /\ UNCHANGED <<phylo_count, seat, sleep_list>>

\* The first pid that is free.
IsFreePid(p) == pc[p] = "none" /\ \A q \in Pids : q < p => pc[q] # "none"

\* new_phylo(phylo_count): it succeeds, or the memory or the processes run out;
\* then phylo_main goes on, or gives up when it has not MIN_DINER yet.
new_phylo ==
    LET i == phylo_count
    IN  \/ /\ Main("add")
           /\ Become(WaitFor(MAIN, SEM_GLOBAL, "add_in", "add_q"))
           /\ UNCHANGED table /\ UNCHANGED sleep_list
        \/ \E p \in Pids :
              /\ Main("add_in") /\ IsFreePid(p)
              /\ TickBeforeReuse => \A j \in DOMAIN sleep_list : sleep_list[j] # p
              /\ LET opened == sem_open(Now, SEM_FORK(i), 0)
                     born   == Goto(Goto(opened, p, "start"),
                                    MAIN, IF i + 1 < MIN_DINER THEN "add" ELSE "menu")
                 IN  Become(sem_post(born, SEM_GLOBAL))
              /\ phylo_pids' = [phylo_pids EXCEPT ![i] = p]
              /\ seat' = [seat EXCEPT ![p] = i]
              /\ phylo_count' = i + 1
              /\ UNCHANGED <<phylo_states, sleep_list, quitting>>
        \/ /\ Main("add_in") /\ "fail" \in Events
           /\ LET k == sem_close(Now, SEM_FORK(i))
              IN  Become(sem_post(Goto(k, MAIN, IF i < MIN_DINER THEN "all" ELSE "menu"), SEM_GLOBAL))
           /\ quitting' = IF i < MIN_DINER THEN "failed" ELSE quitting
           /\ UNCHANGED <<phylo_count, phylo_states, phylo_pids, seat, sleep_list>>

\* Mutant: the neighbours are not looked at.
MustWait_Never(i) == FALSE

\* Line 139, for the seat i that is to go.
MustWait(i) == phylo_states[Left(i)] = "EATING" /\ phylo_states[Right(i)] = "EATING"

\* Mutant: the semaphore of the seat is left as it is.
Removed_Open(i) ==
    LET dead == Goto(Now, phylo_pids[i], "none")
        next == Goto(dead, MAIN, IF quitting = "no" THEN "menu" ELSE "all")
    IN  /\ Become(sem_post(next, SEM_GLOBAL))
        /\ phylo_states' = [phylo_states EXCEPT ![i] = "NONE"]
        /\ phylo_pids' = [phylo_pids EXCEPT ![i] = NO_PID]
        /\ phylo_count' = i
        /\ seat' = [seat EXCEPT ![phylo_pids[i]] = 0]
        /\ UNCHANGED <<sleep_list, quitting>>

\* Lines 141-156: the philosopher of the last seat is killed, whatever it does.
Removed(i) ==
    LET dead == Goto(Now, phylo_pids[i], "none")
        next == Goto(sem_close(dead, SEM_FORK(i)), MAIN, IF quitting = "no" THEN "menu" ELSE "all")
    IN  /\ Become(sem_post(next, SEM_GLOBAL))
        /\ phylo_states' = [phylo_states EXCEPT ![i] = "NONE"]
        /\ phylo_pids' = [phylo_pids EXCEPT ![i] = NO_PID]
        /\ phylo_count' = i
        /\ seat' = [seat EXCEPT ![phylo_pids[i]] = 0]
        /\ UNCHANGED <<sleep_list, quitting>>

\* remove_phylo(phylo_count - 1).
remove_phylo ==
    LET i == phylo_count - 1
        call(label, in, queued) ==
            /\ Main(label)
            /\ Become(WaitFor(MAIN, SEM_GLOBAL, in, queued))
            /\ UNCHANGED table /\ UNCHANGED sleep_list
    IN  \/ call("rm", "rm_in", "rm_q") \/ call("rm_again", "rm_test", "again_q")
        \/ /\ Main("rm_in") \/ (Main("rm_test") /\ MustWait(i))
           /\ Become(sem_post(Goto(Now, MAIN, "nap"), SEM_GLOBAL))
           /\ UNCHANGED table /\ UNCHANGED sleep_list
        \/ /\ Main("nap") /\ Become(Goto(Now, MAIN, "rm_again"))
           /\ UNCHANGED table /\ UNCHANGED sleep_list
        \/ Main("rm_test") /\ ~MustWait(i) /\ Removed(i)

\* The loop of remove_all, and the end of phylo_main.
remove_all ==
    /\ Main("all")
    /\ IF phylo_count > 0
       THEN Become(Goto(Now, MAIN, "rm"))
       ELSE LET k == Goto(Now, MAIN, "off")
            IN  Become(IF quitting = "quit" THEN sem_close(k, SEM_GLOBAL) ELSE k)
    /\ UNCHANGED table /\ UNCHANGED sleep_list

\* The user asks for one more, for one less, or for the end.
Key ==
    /\ Main("menu")
    /\ \/ "a" \in Events /\ phylo_count < MAX_DINER /\ pc' = [pc EXCEPT ![MAIN] = "add"] /\ UNCHANGED quitting
       \/ "r" \in Events /\ phylo_count > MIN_DINER /\ pc' = [pc EXCEPT ![MAIN] = "rm"] /\ UNCHANGED quitting
       \/ "q" \in Events /\ pc' = [pc EXCEPT ![MAIN] = "all"] /\ quitting' = "quit"
    /\ UNCHANGED <<phylo_count, phylo_states, phylo_pids, seat, sem, sleep_list>>

\* Ctrl-C kills phylo_main, which runs in the foreground; the philosophers live on.
CtrlC ==
    /\ "ctrlc" \in Events /\ pc[MAIN] \notin {"off", "dead"}
    /\ pc' = [pc EXCEPT ![MAIN] = "dead"]
    /\ UNCHANGED table /\ UNCHANGED <<sem, sleep_list>>

MainStep == Start \/ new_phylo \/ remove_phylo \/ remove_all

Next ==
    \/ \E p \in Pids : Philosopher(p)
    \/ Fire \/ Drop
    \/ MainStep \/ Key \/ CtrlC

Spec == Init /\ [][Next]_vars

\* The scheduler reaches every ready process and every sleep ends (NoStarvation and
\* SleepEnds of Kernel).  The user need not press a key.
FairSpec == /\ Spec
            /\ \A p \in Pids : WF_vars(Philosopher(p))
            /\ WF_vars(Fire) /\ WF_vars(MainStep)

-----------------------------------------------------------------------------
(* Properties.                                                             *)

Eaters == {p \in Pids : HasForks(p)}

\* Nobody eats while a neighbour does, whoever joins or leaves the table meanwhile.
TwoForks ==
    \A p, q \in Eaters : p # q => seat[p] # seat[q] /\ seat[q] \notin {Left(seat[p]), Right(seat[p])}

\* The permission to eat is given once: the state EATING of a seat stands for one
\* token in its semaphore or for one philosopher that took it.
GrantedOnce ==
    \A i \in 0..phylo_count - 1 :
        LET p == phylo_pids[i]
        IN  /\ sem[SEM_FORK(i)].value = IF phylo_states[i] = "EATING" /\ ~HasForks(p) THEN 1 ELSE 0
            /\ HasForks(p) => phylo_states[i] = "EATING"
            /\ pc[p] = "fork_q" => phylo_states[i] = "WAITING" /\ sem[SEM_FORK(i)].waiting = <<p>>

\* At a table of three the third philosopher eats whenever it waits, also when it
\* waited for a fourth one that was sent away while it ate: only phylo_main, killed
\* with SEM_GLOBAL in its hands, stops it.  (At larger tables two can starve a third.)
WaiterEats ==
    phylo_states[2] = "WAITING" ~>
        phylo_states[2] # "WAITING" \/ phylo_count # 3 \/ pc[MAIN] = "dead"
=============================================================================
