-------------------------------- MODULE Pipe --------------------------------
(***************************************************************************)
(* The pipes of pipe/pipe.c and the programs that use them: the shell,     *)
(* which runs `a | b' (shell.c, chekCommand), and the two processes of the *)
(* pipeline, which write, read and exit as they like, or are killed.       *)
(*                                                                         *)
(* Every pipe waits on the same two semaphores: 1 counts the bytes to be   *)
(* read, 2 the free places.  A byte is known by its place: read_pos and    *)
(* write_pos go round the buffer, so that the byte read next is the oldest *)
(* unread one as long as 0 <= unread <= BUFFER_SIZE, where unread is the   *)
(* number of writes less the number of reads.                              *)
(*                                                                         *)
(* A system call is one step up to the point where it blocks, and one more *)
(* when its caller goes on.  Calls move one byte; print and read of the    *)
(* programs that matter here do so too, and a longer call is several ones. *)
(***************************************************************************)
EXTENDS Integers, Sequences, FiniteSets, FiniteSetsExt

CONSTANTS
    MAX_PIPES,    \* pipes that can be open; the indices 2..9 of pipes[]
    MAX_FDS,      \* descriptors, in pairs
    MAX_BUFF,     \* half of the places of the fd_table of a process
    BUFFER_SIZE,  \* bytes in the buffer of a pipe
    Kids,         \* the pids that the shell's children get
    MaxAhead,     \* bound: reads of bytes that nobody wrote, per pipe
    NULL

ASSUME PipeAssumption == /\ {MAX_PIPES, MAX_FDS, MAX_BUFF, BUFFER_SIZE} \subseteq Nat \ {0}
                         /\ MaxAhead \in Nat /\ Kids \subseteq Nat \ {0} /\ IsFiniteSet(Kids)
                         /\ MAX_FDS % 2 = 0
                         /\ NULL \notin [unread : Int, read_open : Int, write_open : Int]

SHELL == 0
Procs == Kids \cup {SHELL}
STDIN == 0
STDOUT == 1
Slots == 2..MAX_PIPES + 1
Fds == 2..MAX_FDS + 1
Places == 1..2 * MAX_BUFF
FREE == 2
DATA == 1

VARIABLES
    pipes,      \* unread, read_open, write_open of each open pipe
    fd_table,   \* pipe, type and in_use of each descriptor
    sem,        \* value and waiting of the semaphores DATA and FREE
    proc,       \* of each process: pc, fd_table, stdin, stdout, the pipe of its call
    new_pipe,   \* the descriptors of the shell's last pipe, and its two children
    killed,     \* somebody was killed, or an exit was cut short
    crossed     \* a pipe was opened while another one, or its tokens, were about

vars == <<pipes, fd_table, sem, proc, new_pipe, killed, crossed>>

Unused == [pipe |-> NULL, type |-> "FD_UNUSED", in_use |-> FALSE]
Nobody == [pc |-> "none", fd_table |-> [i \in Places |-> -1],
           stdin |-> STDIN, stdout |-> STDOUT, pipe |-> NULL]

Init ==
    /\ pipes = [s \in Slots |-> NULL]
    /\ fd_table = [f \in Fds |-> Unused]
    /\ sem = [s \in {DATA, FREE} |-> [value |-> -1, waiting |-> <<>>]]
    /\ proc = [p \in Procs |-> IF p = SHELL THEN [Nobody EXCEPT !.pc = "prompt"] ELSE Nobody]
    /\ new_pipe = [r |-> NULL, w |-> NULL, left |-> NULL, right |-> NULL]
    /\ killed = FALSE /\ crossed = FALSE

Opened == {s \in Slots : pipes[s] # NULL}

\* A process that exits is in no table any more.
Alive(p) == proc[p].pc \notin {"none", "exit"}

-----------------------------------------------------------------------------
(* Semaphores, on the pair k of the semaphores and the processes.          *)

Now == [sem |-> sem, proc |-> proc]
Become(k) == sem' = k.sem /\ proc' = k.proc

\* Whoever is blocked goes on, whatever it is blocked in: it takes the wakeup for
\* the token, or the key, that it waits for.
Resumes == [put_q |-> "put", get_q |-> "get", kbd |-> "run"]

Unblock(k, p) ==
    [k EXCEPT !.proc[p].pc = IF @ \in DOMAIN Resumes THEN Resumes[@] ELSE @]

\* Mutant: a token is added although a waiter gets one.
sem_post_Twice(k, s) ==
    LET queue  == k.sem[s].waiting
        living == {i \in DOMAIN queue : Alive(queue[i])}
        first  == Min(living)
    IN  IF living = {}
        THEN [k EXCEPT !.sem[s] = [value |-> @.value + 1, waiting |-> <<>>]]
        ELSE Unblock([k EXCEPT !.sem[s] = [value |-> @.value + 1,
                                           waiting |-> SubSeq(queue, first + 1, Len(queue))]],
                     queue[first])

sem_post(k, s) ==
    LET queue  == k.sem[s].waiting
        living == {i \in DOMAIN queue : Alive(queue[i])}
        first  == Min(living)
    IN  IF living = {}
        THEN [k EXCEPT !.sem[s] = [value |-> @.value + 1, waiting |-> <<>>]]
        ELSE Unblock([k EXCEPT !.sem[s].waiting = SubSeq(queue, first + 1, Len(queue))],
                     queue[first])

-----------------------------------------------------------------------------
(* Reading and writing, by a child that was given a descriptor.            *)

can_accsess(p, fd) == \E i \in 1..MAX_BUFF : proc[p].fd_table[i] = fd

\* sys_write: what goes to the screen changes nothing here.
CanWrite(p) ==
    LET fd == proc[p].stdout
    IN  /\ proc[p].pc = "run" /\ fd # STDOUT
        /\ fd_table[fd].in_use /\ fd_table[fd].type = "FD_WRITE"
        /\ pipes[fd_table[fd].pipe].write_open > 0 \/ can_accsess(p, fd)

CanRead(p) ==
    LET fd == proc[p].stdin
    IN  /\ proc[p].pc = "run" /\ fd # STDIN
        /\ fd_table[fd].in_use /\ fd_table[fd].type = "FD_READ"
        /\ pipes[fd_table[fd].pipe].read_open > 0 \/ can_accsess(p, fd)

\* p stores a byte in pipe s, or takes one out, and goes on.
Put(k, p, s) ==
    /\ pipes' = [pipes EXCEPT ![s].unread = @ + 1]
    /\ Become(sem_post([k EXCEPT !.proc[p] = [@ EXCEPT !.pc = "run", !.pipe = NULL]], DATA))

Get(k, p, s) ==
    /\ pipes[s].unread > -MaxAhead
    /\ pipes' = [pipes EXCEPT ![s].unread = @ - 1]
    /\ Become(sem_post([k EXCEPT !.proc[p] = [@ EXCEPT !.pc = "run", !.pipe = NULL]], FREE))

\* sem_wait on s: blocked at once, or with a token on to the transfer.
Blocks(p, s, label, pipe) ==
    /\ sem[s].value = 0
    /\ sem' = [sem EXCEPT ![s].waiting = Append(@, p)]
    /\ proc' = [proc EXCEPT ![p].pc = label, ![p].pipe = pipe]
    /\ UNCHANGED pipes

Token(s) == [Now EXCEPT !.sem[s].value = @ - 1]

\* Mutant: a writer does not wait for a free place.
pipe_write_Unbounded(p) ==
    CanWrite(p) /\ Put(Now, p, fd_table[proc[p].stdout].pipe)

pipe_write(p) ==
    \/ /\ CanWrite(p)
       /\ LET s == fd_table[proc[p].stdout].pipe
          IN  \/ Blocks(p, FREE, "put_q", s)
              \/ sem[FREE].value > 0 /\ Put(Token(FREE), p, s)
    \/ proc[p].pc = "put" /\ Put(Now, p, proc[p].pipe)

\* A read from the keyboard blocks until there is a key.
pipe_read(p) ==
    \/ /\ CanRead(p)
       /\ LET s == fd_table[proc[p].stdin].pipe
          IN  \/ Blocks(p, DATA, "get_q", s)
              \/ sem[DATA].value > 0 /\ Get(Token(DATA), p, s)
    \/ proc[p].pc = "get" /\ Get(Now, p, proc[p].pipe)

read_keyboard(p) ==
    /\ \/ p # SHELL /\ proc[p].pc = "run" /\ proc[p].stdin = STDIN
          /\ proc' = [proc EXCEPT ![p].pc = "kbd"]
       \/ proc[p].pc = "kbd" /\ proc' = [proc EXCEPT ![p].pc = "run"]
    /\ UNCHANGED <<pipes, sem>>

-----------------------------------------------------------------------------
(* Opening and closing.                                                    *)

FreeSlots == Slots \ Opened
FreePairs == {f \in Fds : f % 2 = 0 /\ ~fd_table[f].in_use /\ ~fd_table[f + 1].in_use}
Empty(table) == {i \in Places : table[i] = -1}

\* pipe_init opens the two semaphores: those that are open keep what they have.
pipe_init(s) ==
    sem' = [sem EXCEPT ![DATA].value = IF @ = -1 THEN 0 ELSE @,
                       ![FREE].value = IF @ = -1 THEN BUFFER_SIZE ELSE @]

\* create_pipe, by the shell.
create_pipe ==
    LET s == Min(FreeSlots)
        r == Min(FreePairs)
        a == Min(Empty(proc[SHELL].fd_table))
        b == Min(Empty(proc[SHELL].fd_table) \ {a})
    IN  /\ pipes' = [pipes EXCEPT ![s] = [unread |-> 0, read_open |-> 1, write_open |-> 1]]
        /\ pipe_init(s)
        /\ fd_table' = [fd_table EXCEPT
                          ![r]     = [pipe |-> s, type |-> "FD_READ", in_use |-> TRUE],
                          ![r + 1] = [pipe |-> s, type |-> "FD_WRITE", in_use |-> TRUE]]
        /\ proc' = [proc EXCEPT ![SHELL].pc = "left",
                                ![SHELL].fd_table = [@ EXCEPT ![a] = r, ![b] = r + 1]]
        /\ new_pipe' = [r |-> r, w |-> r + 1, left |-> NULL, right |-> NULL]
        /\ crossed' = (crossed \/ Opened # {} \/ sem[DATA].value > 0)

\* One more or one less process holds the descriptor fd.
Counted(pipe, fd, d) ==
    IF fd_table[fd].type = "FD_READ" THEN [pipe EXCEPT !.read_open = @ + d]
                                     ELSE [pipe EXCEPT !.write_open = @ + d]

\* Mutant: nobody is left when the readers are gone.
Last_Reader(pipe) == pipe.read_open = 0

Last(pipe) == pipe.read_open = 0 /\ pipe.write_open = 0

\* pipe_close(fd), by a process that has fd in its table; the last close destroys
\* the pipe and clears the descriptors fd and fd - 1.
pipe_close(fd) ==
    LET s    == fd_table[fd].pipe
        left == Counted(pipes[s], fd, -1)
    IN  IF Last(left)
        THEN /\ pipes' = [pipes EXCEPT ![s] = NULL]
             /\ fd_table' = [f \in Fds |-> IF f \in {fd, fd - 1} THEN Unused ELSE fd_table[f]]
        ELSE /\ pipes' = [pipes EXCEPT ![s] = left]
             /\ UNCHANGED fd_table

\* The place of fd, or of any descriptor, in the table of p.
Place(p, fd) == Min({i \in Places : proc[p].fd_table[i] = fd})

-----------------------------------------------------------------------------
(* The processes.                                                          *)

\* Mutant: the counts are left to the child.
Inherits_Uncounted(fds) == UNCHANGED pipes

\* createProcess: the child inherits every descriptor of the shell (pipe_accses).
Inherits(fds) ==
    pipes' = [s \in Slots |->
        IF pipes[s] = NULL THEN NULL
        ELSE LET held(type) == Cardinality({i \in Places : /\ fds[i] # -1
                                               /\ fd_table[fds[i]].pipe = s
                                               /\ fd_table[fds[i]].type = type})
             IN  [pipes[s] EXCEPT !.read_open = @ + held("FD_READ"),
                                  !.write_open = @ + held("FD_WRITE")]]

FreePid(p) == proc[p].pc = "none" /\ \A q \in Kids : q < p => proc[q].pc # "none"

NewChild(side, next) ==
    \E p \in Kids :
        /\ FreePid(p)
        /\ Inherits(proc[SHELL].fd_table)
        /\ proc' = [proc EXCEPT ![p] = [Nobody EXCEPT !.pc = "run", !.fd_table = proc[SHELL].fd_table],
                                ![SHELL].pc = next]
        /\ new_pipe' = [new_pipe EXCEPT ![side] = p]
        /\ UNCHANGED <<fd_table, sem, crossed>>

\* sys_change_std: it may come after the child has gone, or has left its pid to the
\* other child.
change_std(side, std, fd, next) ==
    /\ LET p == new_pipe[side]
           k == [proc EXCEPT ![SHELL].pc = next]
       IN  proc' = IF Alive(p) THEN [k EXCEPT ![p][std] = fd] ELSE k
    /\ UNCHANGED <<pipes, fd_table, sem, new_pipe, crossed>>

ShellCloses(fd, next) ==
    /\ pipe_close(fd)
    /\ proc' = [proc EXCEPT ![SHELL].pc = next, ![SHELL].fd_table[Place(SHELL, fd)] = -1]
    /\ UNCHANGED <<sem, new_pipe, crossed>>

\* chekCommand with a `|': the children run as soon as they are created.  Without a
\* free pipe the shell goes on with descriptors it never initialised: not followed.
chekCommand ==
    LET at(label) == proc[SHELL].pc = label
    IN  \/ at("prompt") /\ FreeSlots # {} /\ FreePairs # {} /\ create_pipe
        \/ at("left")  /\ NewChild("left", "right")
        \/ at("right") /\ NewChild("right", "std_w")
        \/ at("std_w") /\ change_std("left", "stdout", new_pipe.w, "std_r")
        \/ at("std_r") /\ change_std("right", "stdin", new_pipe.r, "close_r")
        \/ at("close_r") /\ ShellCloses(new_pipe.r, "close_w")
        \/ at("close_w") /\ ShellCloses(new_pipe.w, "wait")
        \/ /\ at("wait") /\ \A p \in Kids : ~Alive(p)
           /\ proc' = [proc EXCEPT ![SHELL].pc = "prompt"]
           /\ UNCHANGED <<pipes, fd_table, sem, new_pipe, crossed>>

\* A child returns from its main function: exit_process frees its PCB, closes its
\* descriptors one by one, and gives its pid back.
exit_process(p) ==
    /\ \/ /\ proc[p].pc = "run" /\ proc' = [proc EXCEPT ![p].pc = "exit"]
          /\ UNCHANGED <<pipes, fd_table>>
       \/ /\ proc[p].pc = "exit"
          /\ LET held == Places \ Empty(proc[p].fd_table)
             IN  IF held = {}
                 THEN proc' = [proc EXCEPT ![p] = Nobody] /\ UNCHANGED <<pipes, fd_table>>
                 ELSE /\ pipe_close(proc[p].fd_table[Min(held)])
                      /\ proc' = [proc EXCEPT ![p].fd_table[Min(held)] = -1]
    /\ UNCHANGED <<sem, new_pipe, crossed, killed>>

\* A kill closes nothing; nor does an exit that the timer interrupts, which is never
\* resumed (that its pid stays taken is left out).
Kill(p) ==
    /\ proc[p].pc # "none"
    /\ proc' = [proc EXCEPT ![p] = Nobody]
    /\ killed' = TRUE
    /\ UNCHANGED <<pipes, fd_table, sem, new_pipe, crossed>>

Next ==
    \/ \E p \in Kids : exit_process(p) \/ Kill(p)
    \/ /\ \E p \in Kids : pipe_write(p) \/ pipe_read(p) \/ read_keyboard(p)
       /\ UNCHANGED <<fd_table, new_pipe, killed, crossed>>
    \/ chekCommand /\ UNCHANGED killed

Spec == Init /\ [][Next]_vars

-----------------------------------------------------------------------------
(* Properties.                                                             *)

\* The holders of fd: its places in the tables of processes, exiting ones included.
Holders(fd) == {h \in Procs \X Places : proc[h[1]].fd_table[h[2]] = fd}

\* Whatever a process can still close, read or write exists, and a pipe is there as
\* long as it has holders: no order of closes, exits and kills frees it under them.
NoDangling ==
    /\ \A fd \in Fds : Holders(fd) # {} =>
          fd_table[fd].in_use /\ fd_table[fd].pipe \in Opened
    /\ \A p \in Procs : proc[p].pc \in {"put", "get", "put_q", "get_q"} => proc[p].pipe \in Opened

\* The counts are those of the holders, and the pipe goes with the last of them,
\* unless somebody was killed: then it stays for ever.
CountsExact ==
    \A fd \in Fds : fd_table[fd].in_use =>
        LET pipe  == pipes[fd_table[fd].pipe]
            count == IF fd_table[fd].type = "FD_READ" THEN pipe.read_open ELSE pipe.write_open
        IN  /\ count >= Cardinality(Holders(fd))
            /\ ~killed => count = Cardinality(Holders(fd)) /\ pipe.read_open + pipe.write_open > 0

InHand == Cardinality({p \in Kids : proc[p].pc \in {"put", "get"}})

\* Every place of the buffer is in one of the semaphores or in the hand of a process
\* that was let through; a kill can lose one, nothing makes one.
TokensKept ==
    sem[FREE].value # -1 =>
        LET total == sem[DATA].value + sem[FREE].value + InHand
        IN  total <= BUFFER_SIZE /\ (~killed => total = BUFFER_SIZE)

\* A pipe that never shared its semaphores gives every byte once and in order, and
\* never writes over one that was not read.
InOrder ==
    ~crossed /\ ~killed => \A s \in Opened : pipes[s].unread \in 0..BUFFER_SIZE
=============================================================================
