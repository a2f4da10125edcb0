-------------------------- MODULE GroupMemoryExit --------------------------
(***************************************************************************)
(* The one caller of group_free that interrupts can meet half-way:         *)
(* exit_process of a process whose main function returned runs with        *)
(* interrupts enabled.  The keyboard handler that comes then posts         *)
(* semaphore 0, and the process it wakes gets a ready node from mm_malloc. *)
(*                                                                         *)
(* A step is a test, the merge it decides or the insertion; an interrupt   *)
(* inside a merge or an insertion, and a tick (which never comes back to   *)
(* the exit and leaves the block lost) are left out.                       *)
(***************************************************************************)
EXTENDS GroupMemory

CONSTANT NODE  \* sizeof(ReadyNode)

VARIABLE pc  \* what the exit does next, to which block, of which size

allVars == <<m, held, pc>>

Idle == [at |-> "none", block |-> 0, size |-> 0]

\* Lines 110-119.
ExitFree(p) ==
    /\ pc = Idle /\ p # HEADER_SIZE /\ Freeable(m, p)
    /\ pc' = [at |-> "testNext", block |-> p - HEADER_SIZE, size |-> m.hdr[p - HEADER_SIZE].user_size]
    /\ m' = [m EXCEPT !.hdr[p - HEADER_SIZE].user_size = 0]
    /\ held' = Freed(p)

GoesOn(step) == pc' = [pc EXCEPT !.at = step]

\* Line 120.
TestNext ==
    /\ pc.at = "testNext"
    /\ GoesOn(IF m.hdr[NextOf(m, pc.block)].is_free THEN "mergeNext" ELSE "testPrev")
    /\ UNCHANGED <<m, held>>

\* Lines 121-125: the test is not repeated.
MergeNext ==
    /\ pc.at = "mergeNext"
    /\ m' = AbsorbNext(m, pc.block)
    /\ GoesOn("testPrev")
    /\ UNCHANGED held

\* Line 127.
TestPrev ==
    /\ pc.at = "testPrev"
    /\ GoesOn(IF m.hdr[PrevOf(m, pc.block)].is_free THEN "mergePrev" ELSE "insert")
    /\ UNCHANGED <<m, held>>

\* Lines 128-133.
MergePrev ==
    /\ pc.at = "mergePrev"
    /\ m' = AbsorbPrev(m, pc.block)
    /\ pc' = [pc EXCEPT !.at = "insert", !.block = PrevOf(m, pc.block)]
    /\ UNCHANGED held

\* Lines 135-138.
Insert ==
    /\ pc.at = "insert"
    /\ m' = Finish(m, pc.block, pc.size)
    /\ pc' = Idle
    /\ UNCHANGED held

\* add_to_ready_list of the process that waited for a key.
Keyboard ==
    /\ pc # Idle
    /\ m' = group_malloc(m, NODE)
    /\ held' = Given(NODE)
    /\ UNCHANGED pc

InitExit == Init /\ pc = Idle

NextExit ==
    \/ pc = Idle /\ Next /\ UNCHANGED pc
    \/ \E p \in DOMAIN held : ExitFree(p)
    \/ TestNext \/ MergeNext \/ TestPrev \/ MergePrev \/ Insert
    \/ Keyboard

SpecExit == InitExit /\ [][NextExit]_allVars
=============================================================================
