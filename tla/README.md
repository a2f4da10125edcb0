# TLA+ models of the G5_TP2_SO kernel

The repository is a small x86-64 kernel (Pure64 boot loader, one CPU, no memory protection) with a process table and
a round-robin scheduler, sleeping, semaphores, pipes, a keyboard driver, two memory managers chosen when compiling,
and a shell with test programs. This directory has TLA+ modules for the parts whose correctness depends on the order
of events, TLC configurations that check them on small instances, and theorems about them checked by TLAPS.

- [1. The system](#1-the-system)
- [2. The modules](#2-the-modules)
- [3. The runs](#3-the-runs)
- [4. The proofs](#4-the-proofs)
- [5. What the models say against the code](#5-what-the-models-say-against-the-code)
- [6. What is left out](#6-what-is-left-out)
- [7. Next](#7-next)

To check everything: `tlc -workers 2 -config X.cfg M.tla` for each row of section 3, `tlapm M.tla` for each module of
section 4.

## 1. The system

`main()` (Kernel/kernel.c) sets up the semaphores, the keyboard, the heap and the sleep queue, creates
`first_process` and enables interrupts; the first tick dispatches it. `first_process` creates `idle` and the shell and
waits for its children for ever. Everything else happens in one of four ways:

- a **system call** (`int 0x80`): an interrupt gate, so the handler runs with interrupts disabled up to its `iretq`;
- **`callScheduler()`** (`int 0x22`): saves the context, calls `scheduler()`, resumes the context it returns;
- the **timer** (IRQ 0): counts, walks the sleep queue, calls `scheduler()`;
- the **keyboard** (IRQ 1): fills the buffer and posts its semaphore, or kills the foreground process (Ctrl-C).

There is one exception to "the kernel is not interruptible", and most of what is hard comes from it: a process that
*returns* from its main function runs `exit_process` as plain kernel code in its own thread, with interrupts enabled
(`entry_point_wrapper`, process.c:77-90). A tick or a key can come between any two of its steps.

| component | state | operations | interacts with | what makes it correct |
| --- | --- | --- | --- | --- |
| Process table and scheduler (process/process.c, scheduler.c) | `processes_list`, `pids`, the PCBs, the ring of ready nodes, `current_node`, `current_process` | create, kill, block, unblock, wait, exit, nice, yield, `scheduler()` | all | the ring has who can run and nobody else, once; one process RUNNING; no context lost or resumed twice; pids unique; parents woken when their last child is gone; ready processes run |
| Sleep queue (process/sleep.c) | entries (PCB, wake tick) in wake order | add, tick handler | scheduler, kill | who sleeps is woken; an entry of a dead process does no harm |
| Timer, context switch (time.c, asm/interrupts.asm) | `ticks`, saved contexts | IRQ 0, `int 0x22` | scheduler | who executes is who `current_process` says |
| Memory manager front end (memory/memory_manager.c) | the manager chosen by the build | `init_memory_manager`, `mm_malloc`, `mm_free`, `mm_get_info` | both managers | the same promise under both |
| Group memory manager (memory/group_memory_manager.c) | ring of blocks, free list, counters | malloc, free, info | everything that allocates, the exit with interrupts on | memory in use is disjoint; nothing is lost; neighbours merge |
| Buddy memory manager (memory/buddy_system.c) | a free list per order, headers | the same | the same, with `-DBUDDY_SYSTEM` | the same |
| Semaphores (syncro/sem.c) | value, queue of pids | open, close, wait, post | block and unblock of the scheduler, kill, pipes, keyboard, user programs | no token too many, no wakeup lost, also with killed waiters and pids used again |
| Pipes (pipe/pipe.c) | table of descriptors, ring buffers | create, read, write, close, destroy | semaphores 1 and 2, shared by all pipes | bytes come out once, in order, from the pipe they were put in |
| Keyboard (drivers/keyboard-driver.c) | buffer, read and write index, modifiers | interrupt, read | semaphore 0, kill | keys come out in order, to one reader each |
| Video driver (drivers/video-driver.c) | cursor, zoom, the screen, the matrix of what was printed | print, delete, clear, zoom | shell, all programs in the foreground | what is deleted from the line leaves the screen |
| Dining philosophers (phylo.c) | states, semaphores per philosopher | take, leave, add, remove | semaphores, kill | neighbours never eat together; the hungry eat |
| Shell and user programs (shell.c, libs-c) | command line, pipeline | edit, parse, run, pipe, wait | all system calls | what runs is what is shown; children are waited for |
| Dispatcher, console, loader, IDT, libraries | none that matters here | | | |

What is hard to test, with the lines, is the list `hazards` of PROJECT.json: interleavings of an interruptible exit
with ticks, kills and allocations; pointers to freed PCBs in the sleep queue and in `current_process`; wakeups that
must not be lost; pids, semaphore entries and sleep entries that outlive their process; the pid pool and the table at
their limits; blocks that must tile the heap after any history; pipes that share two semaphores; pipelines whose
children run before they are connected; philosophers removed in the middle of a meal; a line that is edited while keys
arrive and the screen scrolls.

## 2. The modules

| module | models | lines of code it reads |
| --- | --- | --- |
| `Process` | every function of process.c and scheduler.c that changes the globals, as an operator from one value of the globals to the next, with the name it has in C | process.c 14-161, scheduler.c 17-359 |
| `Kernel` | the machine: system calls, timer, Ctrl-C, the sleep queue, the steps of `exit_process`, `first_process` | syscallsManager.c, sleep.c, interrupts.asm, time.c, keyboard-driver.c 40-49, kernel.c |
| `KernelMC` | symmetry for TLC | |
| `Heap` | the abstract allocator: what malloc and free promise | (specification) |
| `GroupMemory`, `BuddyMemory` | the two managers, as operations on their static data | group_memory_manager.c 10-162, buddy_system.c 6-162 |
| `MemoryManager` | the calls that reach one of the two; implements `Heap` | memory_manager.c 5-51, syscallsManager.c 209-221 |
| `GroupMemoryExit` | `GroupMemory` with the free of an interruptible exit, test by test, and the keyboard | group_memory_manager.c 109-139, process.c 84 |
| `Semaphore` | one semaphore, its users, kills, pids used again | sem.c 10-116, scheduler.c 136-151 |
| `Pipe` | the pipes over their two semaphores, the shell's pipelines, two children | pipe.c 9-208, shell.c 79-109, syscallsManager.c 98-145, 316-332 |
| `Phylo` | the philosophers over several semaphores, the sleep queue, pids used again | phylo.c 6-207 |
| `Keyboard`, `Video` | the two drivers, as operations on a record | keyboard-driver.c 11-172, video-driver.c 69-275 |
| `Shell` | the terminal: both drivers, the line editor, the parser, the commands, their children | shell.c 3-178, shell-lib.c, syscallsManager.c 98-145, keyboard-driver.c 43-49, scheduler.c 179-193, 296-339 |
| `KernelProofs`, `KernelSafetyProofs`, `MemoryProofs`, `BuddyProofs`, `SemaphoreProofs`, `PipeProofs`, `PhyloProofs`, `ShellProofs` | theorems | |

What composes what: `Kernel` is built from `Process`; `MemoryManager` has the two managers as instances and is mapped
to `Heap`; `Shell` extends `Keyboard` and `Video`. `Semaphore` and `Kernel` state for one semaphore and for the
scheduler what `Pipe` and `Phylo` use of them: there a call is the step that `Semaphore` shows it to be, any ready
process may run next, and `Phylo` assumes of the scheduler what `NoStarvation` and `SleepEnds` say.

### Process and Kernel

`k` is one record with a field per C global and per member of `p_info` (a function of the PCB's address). A ready node
is named by the PCB it points to, which is sound because `add_to_ready_list` tests `is_in_ready_list` in every caller
that could insert a PCB twice (`ReadyRing` checks it). A saved stack pointer is named by the thread it resumes.

`cpu` (the thread that executes) and `k.current_process` (what the kernel believes) are two variables, because in the
code they are two facts. `CallScheduler` is `int 0x22`: it uses the context that `scheduler()` returns and takes it out
of the PCB; a context that is resumed a second time, or was never saved, shows as `NULL`. `Yield` is `quitCPU`, which
drops that context.

`at` says where the code of each thread is: in its program, blocked in `wait` or in `sleep`, or between two steps of an
interruptible exit (`ExitDetach`, `ExitTerminate`, `ExitDequeue`, `ExitRelease`, `ExitFinish`; `EndProcess` is the exit
by system call, which is one step), or back from `exit_process`, which is not meant to return and has no code after
`callScheduler()` (`returned`). The timer handler is one step per entry of the sleep queue (`TickStart`,
`TickScan`, `TickEnd`, with `irq` the entry), and no step of a program comes between them. `left` is an entry's
distance to its wake tick instead of the tick itself, so that time needs no bound.

Undefined behaviour is a choice: the entry of a freed PCB may still show the old pid or no pid (`PidRead`), the state
of a freed PCB may be the old one or what a new node's address leaves there (`FreedStates`), `waiting_on_child`, which
`createProcess` never sets, starts as any of `Garbage`. A freed PCB's address is given again to any new process.

### Heap, GroupMemory, BuddyMemory, MemoryManager

Addresses are offsets from `memory_start`. A header is a record per address; the free lists are sequences in the order
a walk visits them; `held` is what the callers hold, with the sizes they asked for, and it is the refinement mapping
(`H == INSTANCE Heap WITH live <- held`). `GroupMemory` keeps the ring by `next` and `prev` as the code does, and the
absorbed header is cleared, which no code reads. `Boot` is the stack of `first_process`, the first block, which is
never freed: this matters, because the ring is circular and `group_free` would merge the last block with the first.
The buddy loops are written by what they do (`Split` from an order down to another, `Merged` up to `Top`); the check
that a buddy is in the free list, which makes stale headers harmless, is a conjunct of `Mergeable`.

`MemoryManager` chooses one manager at `init_memory_manager`, as a build does, and sends each call there. The two heaps
have one size, so that the same `held` maps both to `Heap`.

### Semaphore

A call is one step (interrupts are disabled, so the spin lock is always free). The scheduler is open: any ready
process makes the next call. `inside` and `tokens` are what a user of semaphores counts: who got a token, and how many
were put in, less those used up or dead with their owner. `sem.waiting` keeps the pids of killed waiters, as in the
code, and a new process gets the first free pid, so a stale entry can name a live process that is ready, waits
elsewhere (`Away`) or waits again behind its own stale entry. `calls`, chosen at the start, is the set of calls that
the system uses: with kills and everything else, or only as a lock.

### Pipe

A byte is known by its place, so that a pipe is the number of its unread bytes (`unread`, writes less reads, which goes
below 0 when a reader gets what nobody wrote) and its two counts of openings. `sem` has the semaphores 1 and 2
(`DATA`, `FREE`), which every pipe uses. A call is one step up to where it blocks and one after; in between (`put`,
`get`) the process has a token in its hand. `chekCommand` is the shell, one step per system call: create the pipe, the
left child, the right child, change their stdin and stdout, close both ends, wait. The children run from the moment
they exist. `exit_process` closes descriptors one by one, with interrupts enabled; `Kill` closes nothing. `killed` and
`crossed` remember what a property has to leave out.

### Phylo

`pc` says where each process is. Between its wait for `SEM_GLOBAL` and its post a process touches only what that
semaphore guards, so the code in between is one step with the post. `Unblock` moves a process on whatever it is blocked
in, as `unblock_process` does: this is how a stale entry of the sleep queue (`Fire`, with a pid that was used again)
gets through a `sem_wait`. `TickBeforeReuse` says whether a tick comes before a dead pid is given to somebody else.

### Keyboard, Video, Shell

`Keyboard` and `Video` are operations on the records `kb` and `video`; `Shell` has them as variables. The keyboard's
read is two steps, because a reader that was blocked has its token before it reads. Screen and matrix are functions
from places to characters; a place is a character at zoom 1. The shell takes one character at a time (`ShellKey`),
edits `line` and prints; `parseCommand` makes words of it; `newComand` finds any command that the first word may name,
and runs it or starts a child; children print, read and end at any moment. A word is letters, but which command a
letter stands for is left open, since the bounds have no room for names.

Pids are those that `main` gives away: first_process is 1, idle 2, the shell 3, its children more. `CtrlC` kills whoever is
in the foreground, which at the prompt is the shell itself: `kill_process` refuses only the pids below 3. The foreground
goes to the parent, after the shell to first_process, at which a Ctrl-C prints its prompt and no more. After a kill, the handler
calls the scheduler before it prints. If the process that the key interrupted is the one that was killed, the rest of
the handler never runs; otherwise it runs now, or when that process is scheduled again: `late` has the processes that were
cut off, which do nothing else before they print (`LatePrompt`). `kb.unread` is a history, the characters that were
stored and not read; the code has no such variable.

## 3. The runs

| run | instance | shows | states |
| --- | --- | --- | --- |
| `kernel_core` (KernelMC, KernelCore.cfg) | first_process, idle and 2 more PCBs, 4 pids, two quanta, nice to a third, sleeps of up to 1 tick, garbage 1 in `waiting_on_child`, all calls but yield, self-block and nice of oneself | `ReadyRing`, `OneRunner`, `CpuIsCurrent`, `ContextsKept`, `PidsUnique`, `NoResurrection` | 1 431 533 |
| `kernel_family` (KernelMC, KernelFamily.cfg) | 3 more PCBs, interruptible exits, kills | `ChildrenAreLive`, `WaitersHaveChildren`, `WaitForAll`: no wakeup from wait is lost or early | 1 137 288 |
| `kernel_names` (KernelMC, KernelNames.cfg) | yield, nice, kills, Ctrl-C, foreground hand-over, no interrupted exit | `ReadyRing`, `OneForeground`, `PidPool`: the tables stay consistent when threads run under other names | 834 370 |
| `kernel_progress` (KernelMC, KernelProgress.cfg) | 3 more PCBs, create, sleep up to 2 ticks, wait; fair timer | `NoStarvation`, `SleepEnds`, `SleepersHaveAlarm` | 98 999 |
| `kernel_yield` (KernelMC, KernelYield.cfg) | | violation: yield does not give up the CPU | |
| `memory` (MemoryManager, MemoryManager.cfg) | a heap of 32 bytes; group: at most 5 blocks; buddy: orders of 2 to 16 bytes; 5 sizes each, 0 and more than the largest block among them | `BlocksExact`, `FreeListsExact`, `NeighboursMerged`, `InfoExact`, `LiveDisjoint`, and `ImplementsHeap` | 18 460 |
| `group_memory_exit` (GroupMemoryExit, GroupMemoryExit.cfg) | | violation: memory given out twice | |
| `semaphore` (Semaphore, Semaphore.cfg) | 3 processes, queue of 5, 2 tokens; every call with kills, or a lock | `Exclusion`, `WaiterQueued`, `NoIdleToken`, and without kills `TokensConserved`, `FirstComeFirstServed`, `WaitersEnter` | 37 287 |
| `pipes` (Pipe, Pipe.cfg) | 2 pipes, 4 descriptors, buffers of 2 bytes, 2 children, any number of pipelines one after the other, kills | `NoDangling`, `CountsExact`, `TokensKept`, `InOrder` | 2 745 795 |
| `phylo` (Phylo, Phylo.cfg) | 3 and 4 philosophers, every key, failures, Ctrl-C | `TwoForks`, `GrantedOnce`, `WaiterEats` | 255 623 |
| `phylo_reuse` (Phylo, PhyloReuse.cfg) | | violation: a philosopher eats beside one that eats | |
| `terminal` (Shell, Shell.cfg) | 10 keys, 5 of them pressed in any order, a keyboard buffer of 3, a screen of 3 lines of 2, 2 children; Ctrl-C at the shell, at a child and at first_process | `KeysKept`, `LineShown`, `ParseExact` | 1 828 776 |

`kernel_core`, `memory` and `semaphore` also check the type invariant of their modules.

**Bounds.** Processes: what goes wrong in the scheduler needs a process that leaves, its successor in the ring and the
current one; two PCBs beside first_process and idle give rings of up to four nodes, and freed addresses are reused at
once because there are so few. Parents need two children and a third to be killed, hence three PCBs in `kernel_family`.
The calls allowed in a run are the constant `Syscalls`; a property that the code does not keep with some call is
checked without it, and the comment of the property says so. `MaxSleepers` bounds the queue in the guard of `Sleep`.
The heap has room for a block between two others that is split, merged forward, backward and on both sides, for the
limit `MAX_BLOCKS`, and for a rest exactly at the limit where a block is split or not; it is larger than the largest
block of the buddy manager, as in the code (2 MB and 256 KB). `MAX_PROCESSES = 5` in `semaphore` is more than the
three users, so that the queue fills up only with stale entries, and it does. `MaxTokens` bounds the posts of
producers. Two bytes are enough for a buffer that is full, empty or neither, and two pipes for one that is destroyed
while its semaphores still have its tokens and the next one is open; `MaxAhead` bounds the bytes that a reader takes
before they are written. Four philosophers are the fewest of whom one can be removed (`MIN_DINER` is 3, as in the
code), and `MaxEntries` lets the sleep queue hold an entry of everybody and of two dead ones. In `terminal` words of two
characters, three words and five characters make every limit of the parser and of the line reachable, the line is
longer than a row and the screen overflows; `MaxKeys` bounds the keys.

**Fairness.** `kernel_progress` assumes that the timer keeps interrupting and that its handler ends
(`WF_irq(TickStart)`, `WF_irq(TickReturns)`): the PIT does not stop, interrupts are disabled only within handlers, and
the handler is a walk of a finite queue and of the ring. Nothing is assumed of the programs, which may compute for
ever. `semaphore` assumes that who is inside posts in the end (`SF(Leave)`: it may sleep between, so that its post
is enabled again and again) and that who is blocked elsewhere comes back (`WF(Back)`). The first is the discipline of
test_sync and of the philosophers; the second is `SleepEnds` and `NoStarvation` of the kernel. `phylo` assumes weak
fairness of each philosopher, of phylo_main between two keys, and of the ticks; that a semaphore lets its waiters in
in order is part of the model. The user need not press a key.

**Deadlock** is checked in the kernel runs but `kernel_names`, and in `memory`. A yield in `kernel_names` can make the
next tick resume a context that no longer exists (`cpu = NULL`), after which the code's behaviour is undefined and the
model stops; the run says that the tables are consistent up to that point. A semaphore opened with 0 really blocks all
its users. `pipes` and `phylo` stop where everybody waits and nobody is left to post (a reader of a pipe that nobody
writes to, philosophers after a phylo_main killed with the lock) and `terminal` at the last key, or where the code
reads memory that it never wrote.

## 4. The proofs

| theorem | module | says, for every value of the constants |
| --- | --- | --- |
| `TypeCorrect` | KernelProofs | `Spec => []TypeOK` for the kernel |
| `RingSound` | KernelProofs | no process is twice in the ring, and `current_node` is one of its nodes |
| `RingAndStatesAgree`, `AtMostOneRuns`, `CallerIsCurrent`, `NoContextLost`, `PidsAreUnique` | KernelSafetyProofs | `Disciplined /\ Spec => []P` for the invariants `ReadyRing`, `OneRunner`, `CpuIsCurrent`, `ContextsKept`, `PidsUnique` of `kernel_core` |
| `TheDeadStayDead` | KernelSafetyProofs | `Disciplined /\ Spec => NoResurrection`, an action property |
| `NoChildIsDead`, `NoWakeupIsLost`, `NoAlarmIsLost` | KernelSafetyProofs | `Disciplined /\ Spec => []P` for `ChildrenAreLive`, `WaitersHaveChildren` of `kernel_family` and `SleepersHaveAlarm` of `kernel_progress` |
| `WaitReturnsLast` | KernelSafetyProofs | `Disciplined /\ Undisturbed /\ Spec => WaitForAll`, an action property |
| `PidsComeBack`, `OneOwner` | KernelSafetyProofs | `Tidy /\ Spec => []P` for the invariants `PidPool` and `OneForeground` of `kernel_names`, yields included |
| `BlocksTile`, `FreeListIsExact`, `NeighboursAreMerged` | BuddyProofs | `Spec => []P` for the invariants `BlocksExact`, `FreeListsExact`, `NeighboursMerged` of `memory`, in both builds |
| `HeldIsApart` | BuddyProofs | in both builds no two callers hold the same byte, whatever they ask for |
| `HeldIsInside`, `BothImplementHeap` | BuddyProofs | `Spec => []LiveDisjoint`, and both builds implement the abstract allocator `Heap` (`ImplementsHeap`), where no request is larger than the heap (`RequestsFit`) |
| `CountersFollow`, `ReportIsExact` | BuddyProofs | the counters of both managers are the sums over what is held, and `InfoExact` of `memory` |
| `MemoryTyped` | BuddyProofs | `Spec => []TypeOK` of `memory`, in both builds |
| `NoSharedByte`, `GroupImplementsHeap` | MemoryProofs | `LiveDisjoint` and `ImplementsHeap` in the build with the group manager, with no bound on the requests |
| `BlocksCounted` | MemoryProofs | `current_blocks` of the group manager is the number of pointers held, and never above `MAX_BLOCKS` |
| `SemaphoreTypeOK`, `SemaphoreExclusion` | SemaphoreProofs | `TypeOK` and `Exclusion` of `semaphore`, with kills and reused pids |
| `NoLostWakeup`, `NobodyWaitsForNothing` | SemaphoreProofs | `WaiterQueued` and `NoIdleToken` of `semaphore`, with kills and reused pids |
| `NoTokenLost`, `ServedInOrder` | SemaphoreProofs | `TokensConserved` and the action property `FirstComeFirstServed` of `semaphore`, where nobody is killed |
| `TokensSound` | PipeProofs | `TokensKept` of `pipes`: no order of calls, exits and opened pipes loses a place of the buffer, and no kill makes one |
| `NothingDangles`, `HoldersAreCounted`, `BytesInOrder` | PipeProofs | `Spec => []P` for the invariants `NoDangling`, `CountsExact`, `InOrder` of `pipes`, with kills |
| `NeighboursNeverEatTogether`, `PermissionGivenOnce` | PhyloProofs | `TickBeforeReuse /\ Spec => []P` for the invariants `TwoForks` and `GrantedOnce` of `phylo`, at a table of any size, and `TableSound` for the invariant they follow from |
| `TokensFollowKeys`, `LineIsShown`, `WordsAreParsed` | ShellProofs | `Spec => []P` for the invariants `KeysKept`, `LineShown`, `ParseExact` of `terminal` |

*Kernel.* Type correctness is not inductive alone: `scheduler()` charges the counter of `current_node` and
`remove_from_ready_list` moves it, and these are PCBs only while `current_node` is in the ring; the ring in turn stays
well formed under removal only if no PCB is in it twice. `WellFormed` (`Globals`, `Distinct`, `NodeInRing`) is the
strengthening. KernelProofs shows that each function of process.c and scheduler.c keeps it, with one lemma per
function, then each system call, exit step and interrupt, and puts them together.

*Kernel, safety.* The properties of `kernel_core` hold together or not at all. `scheduler()` puts the CPU where the ring
says, and the ring is right only if the states are; a handler acts on `current_process`, which is the caller only if
the last `scheduler()` resumed the context that belongs to it; with nobody READY it would give the CPU back to whoever
had it, blocked or freed. `Safe` is the conjunction that is inductive: `Slotted` and `PidsTaken` (table, PCBs and pool),
`RingOK`, `RunnerOK`, `ContextsOK`, `IdleReady` (first_process until it has created idle, then idle, can always run),
`PlacesOK` (what the thread of an exit has done so far, and what its PCB and the ring show of it) and `CpuOK` (the
thread that executes is running, or dying, or its PCB is free already and its pid is nobody's). Between a change of the
globals and the call to the scheduler that follows only `TableOK` holds, all but `CpuOK`; `PreScheduler` is what
`CallSchedulerSafe` needs to give `Safe` back. Handlers come in few kinds: those that only wake processes up (`Quiet`),
a process that blocks (`NowBlocked`), one that dies (`Gone`: kill, exit by system call, and the release of an
interrupted exit) and one that is created (`NewlyListed`, where a free pid means a free slot by the pigeonhole
principle of FiniteSetTheorems); there is a lemma per kind, and one per action that says of which kind it is. The action
property `NoResurrection` comes from the same steps (`StaysDead`). `Disciplined` leaves out four things, each of which
really breaks some of these properties when TLC is given it: a `yield` (after which the caller executes under another
name: `CpuIsCurrent`, `ContextsKept`), a process that blocks itself and goes on (`CpuIsCurrent`, `ContextsKept`), idle
blocked (`ReadyRing`, `CpuIsCurrent`, `NoResurrection`: `scheduler()` then gives the CPU back to whoever had it), and
more processes than pids (`PidsUnique`: pid 0). Nothing else is assumed, in particular nothing about quanta (a nice
of 0 or of a negative value included), `waiting_on_child`, or where ticks come in an exit.

*Kernel, families and alarms.* A second invariant, `FamilyInv`, stands on the first. That whoever is in `wait` has a child
to wait for is kept by a death only because the dead child's entry leaves `children[]` of its parent before the PCB is
freed, wherever ticks cut the exit (`KinOK`: between `DetachFromParent` and `ReleaseSlot` nobody has the pid any more),
because every entry is the pid of a live process that names that parent (`ChildrenOK`, with pids unique from the first
invariant), and because the parent whose last entry goes is woken, except `first_process`, which `unblock_process`
never wakes: it always has idle as a child (`BootFamily`; with `MAX_CHILDREN` 0 nobody has one). `Bereft` is what a
death, or its first step, does to a family; it is shown for `DetachFromParent` and carried through the other steps of
a removal (`Reduced`). `Born` is the birth. `Ends` is the end of a handler, by its return or by the scheduler, which
knows nothing of families (`Easier`). An entry of the sleep queue may lead to a PCB that was freed or given again; the
tick handler drops it only when the pid that it reads is nobody's, or after `unblock_process` of that pid, and
a process that still sleeps is neither (`TickScanFamily`). `LastChildGone`, the step property, says that the only
processes that `DetachFromParent` puts in the ring have no child left; `unblock` and stale entries of the sleep queue
wake any process, so that `WaitReturnsLast` is about the runs without them (`Undisturbed`), as `WaitForAll` is.

*Kernel, pids and foreground.* `kernel_names` has yields, so its invariant cannot rest on who executes. What the process
table says does not: `Tables` has `Slotted`, `PidsTaken`, `Pooled` (each entry of the pool that is taken has its process)
and `OneFlag`, and neither `scheduler()` nor any change of states touches what they read (`SamePool`). Only a birth
(`BirthTables`: the flag that `get_foreground_process` finds is the only one, so taking it leaves none before one is
given) and a death do (`Left`, `LeftTables`: the flag goes to whoever has the parent's pid, at most one process because
pids are unique, and only if the dead one had it; the entry of its pid is cleared and no other). `Tidy` leaves out three
things: exits with interrupts enabled, where both properties fail (the entry of the pool is cleared after the PCB is gone;
and a process that is killed between its `DetachFromParent` and its `ReleaseSlot` gives the flag to its parent a second
time, after the parent has created a process that took it: TLC finds the two owners with five slots and `exit` and `kill`
allowed), more processes than pids, and `endProcess` outside `Disciplined`, where a thread that goes on after its
death may end the process that has its pid now.

*Group memory.* That memory in use is disjoint follows from the blocks tiling the heap, but a block list that is only
well formed forwards is not inductive: `group_malloc` and `group_free` rewrite `prev` and `next` of neighbours, and
they trust each other's. `Sound` has the headers' types (`Typed`), the tiling by `next` (`Tiles`), the ring read
backwards (`RingBack`), that every size is a multiple of `ALIGNMENT` (`Aligned`, so that the rest of a block that is
split is not rounded up by `ALIGN_UP` past its own end), and the free list without repetition and equal to the free
blocks (`ListExact`). `GroupSafe` adds what callers see: no two free neighbours (`Merged`), each pointer given out
is a used block at least as long as what was asked for (`HeldExact`), the counter (`CountExact`), and `FirstUsed`: block 0,
the stack of `first_process`, is free only while it is the whole heap. Without the last one the ring, being circular, lets
`group_free` merge the last block with the first. An operation is described by the fields that it leaves alone:
`IsInsert` and `IsRemove` for the list, `IsCut` for the split (with `SplitEffect`), `IsAbsorb` for a merge
(`AbsorbEffect`), `IsStamp` for a header's flag; there is one lemma for each on `Sound`, and `IsCarved`, `IsGiven`,
`IsForward`, `IsReady`, `IsGivenBack` put them together to the paths of malloc and free. `StepImplements` maps every
step to a malloc, a free or a stutter of `Heap`. With the other manager chosen, `UsesGroup` is false for ever, so that
`MemoryInductive`, the invariant of MemoryProofs, speaks of the builds without `-DBUDDY_SYSTEM`.

*Buddy memory.* Nothing in a header says what the neighbours are: a buddy is found by an exclusive or, and is taken for
free because its address is in the list of the order. This is right only if the blocks in use and those in the lists cut the
memory of the largest block along the tree of its halves, the same tree whatever splits and merges came before. `BuddySound` has the headers' types,
that cut (`TreeOf`, `TilesOnce`: each block at a multiple of its own size, and each place in exactly one of them), that each list has, once, the blocks of its order that are free, and never both halves of one block
(`ListsSound`), and that the order of a block in use can be read from its header (`UsedSound`: this is what `buddy_free` goes
by). `BuddySafe` adds what the callers see: a pointer is behind the header of a block in use that is at least as long as
what was asked for, or of the largest order (`HeldFits`), and the counter (`HeldCounted`).
`IsTaken` is what the split from one order down to another leaves, for any number of halves between them, and `IsFreed` what
the chain of merges leaves, with `Grown` the orders that the merged block had at an address; both are shown from the operations of
`BuddyMemory` and then, alone, to keep `BuddySafe`. That the exclusive or is the other half is arithmetic on powers of two,
which is proved from the number of subsets of a set. `MemoryInv` is `OneManager` (the other manager is as it was at the
start) with the invariant of the manager that is used. `RequestsFit` is needed and no more: `buddy_malloc` gives its largest
block for any size, so that a caller which asked for more than that uses what it was not given; below the size of the heap
what it uses is still inside.

The sums of `InfoExact` are folds over sets. `Total` is the sum as a recursive function on the subsets of a set; that there
is one is shown by induction on their cardinality, and with it that a sum splits over a union (`TotalUnion`), and moves with
its terms (`TotalShift`). `Counted` relates the counters to such sums over `held` and over the blocks; it is
inductive where `MemoryInv` holds, because a split adds a header and a merge gives one back.

*Semaphore.* The three invariants need one another: that nobody waits when a post finds an empty queue comes from
`WaiterQueued`, and after `sem_open` nothing may be left from the time before. `IInv` is their conjunction with "a
closed semaphore has nobody in it and nobody waiting". `PostsNobody` and `PostsFirst` are the two outcomes of
`sem_post`; the second shows that dropping the entries in front of the first live process loses no waiter. That no
token is lost and that waiters are served in order hold where nobody is killed, and need more: the queue has each waiter
once and nobody else, and a waiter has no token (`QueueExact`). Then the first entry is the one that is woken, it takes
the token (`ExactPostsFirst`), and the entries behind it keep their order. `ExactInv` adds this to `IInv`; `ExactStep`
shows for every step that it is kept and that the step respects the order.

*Pipe.* `TokensKept` counts tokens and processes between their wakeup and their transfer. A post that finds somebody in
the queue makes no token, so the count is kept only if that process is one that waits there: without kills the queue
of each semaphore holds who is blocked in it, each once (`QueuesExact`). And the first pipe sets the semaphores to
the size of the buffer, so nobody may have a token before. `IInv` adds both. `Posts` shows what one `sem_post` does to
the count from any state inside a call, `Transfers` and `BlocksInQueue` are the two outcomes of a write or a read, and
`Quiet` is every step that touches neither tokens nor the children that have them.

What `pipe_close` relies on is a shape that no line of it checks: the last close clears `fd` and `fd - 1`, which is
right only if the last close is always one of the write end, and nobody has the read end alone. `Linked` is that shape:
whoever has a pipe in its table has the read end in the first place and the write end in the second (`Tab`), or, half
way through its exit or the shell's two closes, only the write end (`TablesOK`); both ends are in use or none, and
pipes do not share descriptors (`Paired`); the counts are at least those of the holders, and exactly those while nobody
is killed (`CountsOK`); children that run hold the shell's last pipe, and the shell opens the next one when they are
gone (`ShellOK`, `ChildrenOK`). `ClosesRead`, `ClosesWrite`, `Opens` and `Inherited` are the four steps that change a
count; each says what a step does to the tables, the descriptors and the counts together. For `InOrder` the unread bytes
of the only pipe there is are the tokens for bytes together with the readers that were let through (`Readable`,
`OrderOK`), which `TokensKept` bounds by the size of the buffer; `TokenMoves` shows that each byte moves both alike. Kills
keep both invariants; after one, `CountsExact` and `InOrder` claim less, and so do the theorems.

*Philosophers.* That neighbours do not eat together is a fact about states (`Apart`), but a philosopher eats because
its `sem_wait` returned, so state, semaphore and place have to agree at each seat: `Plate` says what the place of a
philosopher, its state and its semaphore tell of each other, `Seated` that seats in use and living philosophers are
each other's, also while `remove_phylo` takes away the last seat. Each of these breaks if somebody is woken who is not
the one that was meant. `Sleeping` has the entries of the sleep queue only of those who sleep or are dead, `GlobalQueue`
those of `SEM_GLOBAL` only of those who wait there or are dead; and the dead ones come before `phylo_main`'s, so that
none is left when it has the semaphore and gives a pid away. `Sound` is the conjunction, of values and not of variables,
because an action is a chain of changes with `Sound` in between: a process moves (`PhilosopherMoves`, `MainMoves`), forks
are granted (`Grants`), a semaphore is waited for or posted (`WaitsFork`, `WaitsGlobal`, `PostsGlobal`), a philosopher
is born or dies (`Born`, `Dies`), one falls asleep or is woken (`FallsAsleep`, `Wakes`). One lemma per action puts them
together. `TickBeforeReuse` is the hypothesis that no pid in the sleep queue is given away; `phylo_reuse` shows that
it cannot be dropped. `Sound` does not say that only one process has `SEM_GLOBAL`; the grain of the model does, in
which what a process does between its wait and its post is one step, and that rests on `SemaphoreExclusion`.

*Terminal.* `KeysKept` says nothing of the buffer while it holds less than what is unread, so it is not inductive: a reader may
bring the unread characters back to as many as fit. `InBuffer` says in addition where the last `BUFFER_SIZE` unread
characters are while there are more: the writer has lapped the reader, and what is there will be read in its turn once the
characters before it are gone. `Kept` is this with the exact count of tokens (in `is_key`, with readers that were let
through, and lost with killed ones). A store makes exactly one token, through `sem_post` with stale entries in front
(`sem_postMakesOne`), and goes to the place of no other character that counts (`OtherPlace`); a read takes one; and an end
of a reader that has one, by Ctrl-C or by a command, moves it to the lost ones (`EndsKeys`). `KeysSound` is this with
the types.

What the line looks like depends on where the cursor is: at zoom 1 it is on the screen and never on its last place
(`CursorOn`), which holds because `charVideo` clears a full screen before anything is printed on its end, and needs a
screen of two lines below the first row, and two columns. Then a character moves `Cursor` on by one place or clears the
screen, and `deleteVideo` takes back exactly one, over the end of a line as well. `Displayed` is `LineShown` for any
screen and line, and `LineSound` adds `Family`: while the shell types, starts its first command or prints what it has to
say it has no children, so that nobody prints into the line (`Alone`), and a child in the foreground is alive, so that the
foreground never comes back to a shell that is dead (`EndsFamily`). The prompt of a Ctrl-C that killed is printed when
the shell is not at its line, or comes late and spoils it (`LatePromptLine`). At zoom 2 `CursorOn` does not hold, and nothing is claimed, but
whatever zoom, clear and `rePrint` leave at zoom 1 has the cursor on the screen again.

`parseCommand` reads a line once and forgets; `Words` says of each place of the line whether a word begins there.
`ParsedTo` relates the two after any number of characters: the words are the pieces that have begun (`Count`), each as far
as it goes (`PieceTo`), and the last is open if and only if the next character may still belong to it. A piece ends before
the next one begins (`EndsBefore`), so that no later character changes a word but the last; a character extends the last
word, begins one, or leaves the words alone (`ParsedExtends`, `ParsedBegins`, `ParsedLeaves`).

`Store`, `Imprime`, `Redraw` and `Reads` are run over a sequence by a fold. There is a function with the values of such a fold
(`FoldExists`), and its values at the beginnings of the sequence are the states that the loop of the code goes through
(`StoreSteps`, `ImprimeSteps`, `RedrawSteps`, `ReadsSteps`): an invariant of the step is one of the loop, by induction on
natural numbers, which is proved from the least element of a set and from well-foundedness.

The assumptions are those of the modules on their constants (`TableAssumption`, `KernelAssumption`,
`MemoryAssumption`, `SemaphoreAssumption`, `PipeAssumption`, `PhyloAssumption`, `KeyboardAssumption`, `VideoAssumption`,
`ShellAssumption`): table sizes, the null pointer not an address nor a pipe, descriptors of pipes in pairs (`MAX_FDS` is
`2 * MAX_PIPES`), quanta that are integers, a screen of at least two columns and three rows, words of at least one
character. TLC evaluates them in every run.

Only model-checked: liveness (`NoStarvation`, `SleepEnds`, `WaitersEnter`, `WaiterEats`), for which the prover has no rules
of fairness and ENABLED. Every invariant and every other property of the runs that are to pass is stated by a theorem, those
of `kernel_core`, `kernel_family`, `kernel_names` and `phylo` under the hypotheses above. No module uses RECURSIVE operators.

## 5. What the models say against the code

- `kernel_yield`: `quitCPU` (scheduler.c:285-294) calls `scheduler()` and drops the context it returns. The caller goes
  on executing, under the name of the process that became current. The shell's help says "Gives up the Cpu".
- `phylo_reuse`: a philosopher that is killed leaves its entry in the sleep queue, with a pointer to its freed PCB
  (sleep.c:54). A philosopher added before the next tick gets that memory and that pid, and the tick handler unblocks
  it although it waits for its fork: `sem_wait` returns 0 without a post, and it eats beside a neighbour that eats. The
  program prints "Each philosopher needs two forks to eat." With a tick in between (`phylo`) the table is sound.
- `group_memory_exit`: the `mm_free` of an exit with interrupts enabled can merge a neighbour that a key press has given
  away since it was found free; later the same bytes are given out again.

Behaviour of the code that limits what is claimed, and is noted at the properties or hazards:

- With all pids taken `assignPid` leaves pid 0 and `createProcess` goes on: the process runs, is in no slot of the
  table, and its creator gets 0, not the -1 it tests for. The model has it (`overflow` in `Syscalls`), no run uses it,
  and the theorems `TypeCorrect` and `RingSound` cover it.
- `exit_process` has no code after `callScheduler()`, but `scheduler()` keeps the caller on the CPU while the PCB it has
  just freed reads RUNNING and `current_node` has quantum left: a wakeup by the timer can allocate its node there. The
  thread then returns from `exit_process` and `entry_point_wrapper` with nothing on its stack. The model stops that
  thread (`returned`), and the theorems say that the others are not disturbed.
- An interrupted exit leaks its slot, pid and PCB; a process at the head of the ring can starve; the last pid is never
  given back; two foreground processes can exist while an exit is interrupted.
- A token posted to a stale semaphore entry is lost. `sem_close` tests `foundprocess(i)` where `to_wake[i]` is meant.
- The buddy manager drops all memory beyond its largest block at the first split and then reports it as used for ever.
- All pipes share two semaphores: what an `a | b` leaves unread is counted in the next pipe, whose reader then gets
  bytes that nobody wrote. A process killed with its descriptors open leaves its pipe behind for ever.
- With a background command nobody is in the foreground, nothing is printed, Ctrl-C reads the pid of NULL, and the next
  `createProcess` stores through NULL. The Tab key stores what is at address 0x20.
- A Ctrl-C at the prompt kills the shell: `kill_process` refuses only pids below 3 (scheduler.c:180), and the shell is 3.
  The foreground goes to first_process, nobody reads the keys any more, and further Ctrl-Cs only print prompts.
- The prompt of a Ctrl-C that killed somebody is printed after a call to the scheduler (keyboard-driver.c:45-47): it
  may come late, into another line or into the output of another program, and never if the interrupted process was killed.
- The indices of the keyboard buffer wrap at `BUFFER_SIZE` (2048, pipe.h), the array has `BUFF_SIZE` (1024) places.
- At zoom 2 text beyond the last row and the rows drawn again are not where they were.

## 6. What is left out

- Of a process: names, arguments, stack contents, the fd table; the listing of `ps`.
- Allocation failures of the kernel's own structures (the node, the sleep entry, the stack of a new process).
- Interrupts inside a list operation of an interruptible exit: the exits' steps and the free's tests are atomic.
- Writes through freed memory: only what is read from it is a choice.
- `group_malloc` with sizes near 2^64, where `ALIGN_UP` wraps: the system call passes an int.
- Semaphores: `sem_get_value`, ids out of range, `unblock` by a program on a waiter, which returns from `sem_wait`
  without a token, and a close while somebody waits or is inside.
- Pipes: a `create_pipe` that fails for lack of a pipe, of descriptors or of memory, after which the shell goes on with
  descriptors that it never initialised; calls of more than one byte, which are several calls here; programs that open
  pipes themselves, which none of the repository does.
- Terminal: what `block`, `unblock` and `nice` do to another process (a process that is slow may be a blocked one); a `kill` of
  a child is in the model and in the proofs, but no line of five keys that starts a background child is followed by
  another with a `kill`; `newShell`, the commands that cause an exception, what the commands print, strings of more than the keys of
  the run; a line without a word, or with none after the `|`, where the shell reads what nobody wrote: the model stops.
- Video: pixels, colours, hexadecimal numbers, `imprimirPrograma` on the first line.
- Philosophers: the drawing of the table; a second phylo after one that was killed.
- Boot, IDT, exceptions, time and random numbers, libraries, test programs (the runs are wider than what they do), the
  text console of the boot, the vendored boot loader (Pure64, BMFS), build tools and CuTest: output, wrappers or
  third-party code.

## 7. Next

Done: `Process` and `Kernel`; `Heap`, the managers and their front end; `Semaphore`; `Pipe`; `Phylo`; `Keyboard`, `Video`
and `Shell`; the theorems of section 4. What would add most, in this order:

1. Allocation failures of the kernel's own structures in `Kernel` (the node, the sleep entry, the PCB).
