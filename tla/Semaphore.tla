----------------------------- MODULE Semaphore -----------------------------
(***************************************************************************)
(* One semaphore of syncro/sem.c and the processes that use it.            *)
(*                                                                         *)
(* A call runs with interrupts disabled, so it is one step, and the spin   *)
(* lock is always free when it is taken.  The queue of pids, circular in   *)
(* the code, is a sequence.  The scheduler is left open: any process that  *)
(* is ready may make the next call (Kernel has the scheduler).  A process  *)
(* is named by its pid; a kill leaves the pid in the queue, and the pid    *)
(* goes to the next process that is created.                               *)
(***************************************************************************)
EXTENDS Integers, Sequences, FiniteSets, FiniteSetsExt

CONSTANTS
    MAX_PROCESSES,  \* the places of the queue, and the last pid
    Values,         \* the values given to sem_open
    CallSets,       \* the sets of calls and events that a system may be limited to
    MaxTokens       \* bound: the tokens in the semaphore and in its users

ASSUME SemaphoreAssumption ==
    /\ MAX_PROCESSES \in Nat /\ MAX_PROCESSES >= 3
    /\ MaxTokens \in Nat /\ Values \subseteq 0..MaxTokens

\* first_process and idle have pids 1 and 2 and use no semaphores.
Pids == 3..MAX_PROCESSES

VARIABLES
    sem,     \* value and waiting; value -1: not open
    state,   \* the state of the process with a pid: none, ready, blocked
    at,      \* where its code is: user, sem (in sem_wait), other (blocked elsewhere)
    inside,  \* those that have a token: their sem_wait returned 0
    tokens,  \* the tokens put in, less those used up or dead with their owner
    calls    \* the calls and events that this system uses

vars == <<sem, state, at, inside, tokens, calls>>

Exists(pid) == pid \in {1, 2} \/ (pid \in Pids /\ state[pid] # "none")

Init ==
    /\ sem = [value |-> -1, waiting |-> <<>>]
    /\ state = [p \in Pids |-> "ready"]
    /\ at = [p \in Pids |-> "user"]
    /\ inside = {} /\ tokens = 0
    /\ calls \in CallSets

-----------------------------------------------------------------------------

Program(p, call) == state[p] = "ready" /\ call \in calls

IsOpen == sem.value # -1

\* Of the processes in `woken`, those that are blocked go on: out of sem_wait with
\* a token, or out of whatever else they were blocked in.
Unblocks(woken, in) ==
    LET up == {p \in woken : p \in Pids /\ state[p] = "blocked"}
    IN  /\ state' = [p \in Pids |-> IF p \in up THEN "ready" ELSE state[p]]
        /\ at' = [p \in Pids |-> IF p \in up THEN "user" ELSE at[p]]
        /\ inside' = in \cup {p \in up : at[p] = "sem"}

Unchanged == UNCHANGED <<state, at, inside>>

sem_open(p, v) ==
    /\ Program(p, "open")
    /\ IF IsOpen
       THEN UNCHANGED <<sem, tokens>>
       ELSE sem' = [value |-> v, waiting |-> <<>>] /\ tokens' = v
    /\ Unchanged /\ UNCHANGED calls

\* Mutant: room for one more.
QueueFull_OneMore == Len(sem.waiting) > MAX_PROCESSES

QueueFull == Len(sem.waiting) >= MAX_PROCESSES

\* sem_wait, by a process that has no token of this semaphore: it is refused (-1),
\* gets a token, or is queued and blocked.
sem_wait(p) ==
    /\ Program(p, "wait") /\ p \notin inside
    /\ \/ /\ ~IsOpen \/ (sem.value = 0 /\ QueueFull)
          /\ UNCHANGED sem /\ Unchanged
       \/ /\ IsOpen /\ sem.value # 0
          /\ sem' = [sem EXCEPT !.value = @ - 1]
          /\ inside' = inside \cup {p}
          /\ UNCHANGED <<state, at>>
       \/ /\ sem.value = 0 /\ ~QueueFull
          /\ sem' = [sem EXCEPT !.waiting = Append(@, p)]
          /\ state' = [state EXCEPT ![p] = "blocked"]
          /\ at' = [at EXCEPT ![p] = "sem"]
          /\ UNCHANGED inside
    /\ UNCHANGED <<tokens, calls>>

\* The places of the queue whose pid is that of a process.
Living == {i \in DOMAIN sem.waiting : Exists(sem.waiting[i])}

\* Mutants: the last in the queue is served; the rest of the queue is lost; the
\* token is put back although somebody gets it; the queue is not looked at.
Posts_Last(in) ==
    IF Living = {}
    THEN sem' = [value |-> sem.value + 1, waiting |-> <<>>] /\ Unblocks({}, in)
    ELSE LET i == Max(Living)
         IN  sem' = [sem EXCEPT !.waiting = SubSeq(@, 1, i - 1) \o SubSeq(@, i + 1, Len(@))]
             /\ Unblocks({sem.waiting[i]}, in)

Posts_RestLost(in) ==
    IF Living = {}
    THEN sem' = [value |-> sem.value + 1, waiting |-> <<>>] /\ Unblocks({}, in)
    ELSE sem' = [sem EXCEPT !.waiting = <<>>] /\ Unblocks({sem.waiting[Min(Living)]}, in)

Posts_Twice(in) ==
    IF Living = {}
    THEN sem' = [value |-> sem.value + 1, waiting |-> <<>>] /\ Unblocks({}, in)
    ELSE LET i == Min(Living)
         IN  sem' = [value |-> sem.value + 1, waiting |-> SubSeq(sem.waiting, i + 1, Len(sem.waiting))]
             /\ Unblocks({sem.waiting[i]}, in)

Posts_Blind(in) == sem' = [sem EXCEPT !.value = @ + 1] /\ Unblocks({}, in)

\* sem_post on an open semaphore: the entries of dead processes go, and the first
\* process in the queue is unblocked; if there is none the value grows.
Posts(in) ==
    IF Living = {}
    THEN sem' = [value |-> sem.value + 1, waiting |-> <<>>] /\ Unblocks({}, in)
    ELSE LET i == Min(Living)
         IN  sem' = [sem EXCEPT !.waiting = SubSeq(@, i + 1, Len(@))]
             /\ Unblocks({sem.waiting[i]}, in)

\* The post that ends a critical section.
Leave(p) ==
    /\ Program(p, "post") /\ p \in inside /\ IsOpen
    /\ Posts(inside \ {p})
    /\ UNCHANGED <<tokens, calls>>

\* The post of a producer, or of the keyboard handler.
Signal ==
    /\ "signal" \in calls /\ IsOpen /\ tokens < MaxTokens
    /\ Posts(inside)
    /\ tokens' = tokens + 1
    /\ UNCHANGED calls

\* A consumer, as read_keyboard, uses its token up.
Consume(p) ==
    /\ Program(p, "consume") /\ p \in inside
    /\ inside' = inside \ {p} /\ tokens' = tokens - 1
    /\ UNCHANGED <<sem, state, at, calls>>

\* sem_close, when nobody is in the semaphore or waits for it.  The i-th process of
\* the queue is unblocked if there is a process with pid i (counted from 0).
sem_close(p) ==
    /\ Program(p, "close") /\ IsOpen
    /\ inside = {} /\ \A q \in Pids : at[q] # "sem"
    /\ sem' = [value |-> -1, waiting |-> <<>>]
    /\ Unblocks({sem.waiting[i] : i \in {j \in DOMAIN sem.waiting : Exists(j - 1)}}, {})
    /\ tokens' = 0
    /\ UNCHANGED calls

-----------------------------------------------------------------------------
(* The processes.                                                          *)

\* A kill, or an exit when p is ready: its tokens die with it.
Kill(p) ==
    /\ "kill" \in calls /\ state[p] # "none"
    /\ state' = [state EXCEPT ![p] = "none"]
    /\ at' = [at EXCEPT ![p] = "user"]
    /\ inside' = inside \ {p}
    /\ tokens' = IF p \in inside THEN tokens - 1 ELSE tokens
    /\ UNCHANGED <<sem, calls>>

\* A process is created, with the first pid that is free (the last pid is never
\* given back, Process!freePid).
Create ==
    /\ "create" \in calls
    /\ \E p \in Pids \ {MAX_PROCESSES} :
                       /\ state[p] = "none"
                       /\ \A q \in Pids : q < p => state[q] # "none"
                       /\ state' = [state EXCEPT ![p] = "ready"]
    /\ UNCHANGED <<sem, at, inside, tokens, calls>>

\* p sleeps, waits for its children or for another semaphore, and goes on.
Away(p) ==
    /\ Program(p, "away")
    /\ state' = [state EXCEPT ![p] = "blocked"]
    /\ at' = [at EXCEPT ![p] = "other"]
    /\ UNCHANGED <<sem, inside, tokens, calls>>

Back(p) ==
    /\ at[p] = "other"
    /\ state' = [state EXCEPT ![p] = "ready"]
    /\ at' = [at EXCEPT ![p] = "user"]
    /\ UNCHANGED <<sem, inside, tokens, calls>>

-----------------------------------------------------------------------------

Next ==
    \/ \E p \in Pids, v \in Values : sem_open(p, v)
    \/ \E p \in Pids : sem_wait(p) \/ Leave(p) \/ Consume(p) \/ sem_close(p)
    \/ \E p \in Pids : Kill(p) \/ Away(p) \/ Back(p)
    \/ Signal \/ Create

Spec == Init /\ [][Next]_vars

\* Whoever is inside posts in the end, however often it sleeps before, and whoever is
\* blocked elsewhere goes on: the scheduler reaches every ready process (NoStarvation
\* of Kernel) and the users of a mutex, as my_process_inc of test_sync and the
\* philosophers, post what they waited for.
FairSpec == /\ Spec
            /\ \A p \in Pids : SF_vars(Leave(p)) /\ WF_vars(Back(p))

-----------------------------------------------------------------------------
(* Properties.                                                             *)

\* The queue fits in waiting[] and the value is -1 or a number of tokens.
TypeOK ==
    /\ sem \in [value : -1..MaxTokens, waiting : Seq(Pids)]
    /\ Len(sem.waiting) <= MAX_PROCESSES
    /\ state \in [Pids -> {"none", "ready", "blocked"}]
    /\ at \in [Pids -> {"user", "sem", "other"}]
    /\ inside \subseteq Pids
    /\ tokens \in 0..MaxTokens

\* There are never more tokens about than were put in: a semaphore opened with 1
\* has one process inside, although waiters are killed, their pids are reused by
\* processes that wait again, and the queue keeps stale entries.
Exclusion == IsOpen => sem.value + Cardinality(inside) <= tokens

NobodyDies == "kill" \notin calls

\* No token is lost either, when nobody is killed.
TokensConserved == NobodyDies /\ IsOpen => sem.value + Cardinality(inside) = tokens

\* A process blocked in sem_wait is in the queue: a post can find it.
WaiterQueued ==
    \A p \in Pids : at[p] = "sem" =>
        state[p] = "blocked" /\ \E i \in DOMAIN sem.waiting : sem.waiting[i] = p

\* Nobody waits while there is a token to be had.
NoIdleToken == sem.value > 0 => \A p \in Pids : at[p] # "sem"

Before(p, q) == \E i, j \in DOMAIN sem.waiting : i < j /\ sem.waiting[i] = p /\ sem.waiting[j] = q

\* Waiters get in in the order in which they came, when nobody is killed (the next
\* owner of a dead waiter's pid takes its place in the queue).
FirstComeFirstServed ==
    [][\A p, q \in Pids : NobodyDies /\ at[p] = "sem" /\ at[q] = "sem" /\ Before(p, q) /\ at'[q] # "sem"
                          => at'[p] # "sem"]_vars

\* The use as a lock: whoever gets a token posts it back.
UsedAsLock == calls \subseteq {"open", "wait", "post", "away"} /\ tokens > 0

\* Who waits for a lock gets in, when nobody is killed and whoever is inside leaves.
WaitersEnter == \A p \in Pids : (UsedAsLock /\ at[p] = "sem") ~> (p \in inside)
=============================================================================
