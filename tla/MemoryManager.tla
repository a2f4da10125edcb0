--------------------------- MODULE MemoryManager ---------------------------
(***************************************************************************)
(* memory/memory_manager.c: the calls of the kernel and of sys_malloc and  *)
(* sys_free go to the manager that the build has chosen (BUDDY_SYSTEM),    *)
(* GroupMemory or BuddyMemory.  Both are checked here against the same     *)
(* promise, Heap.                                                          *)
(*                                                                         *)
(* The heap has the same size under both managers, and `held` is what the  *)
(* callers have of it.                                                     *)
(***************************************************************************)
EXTENDS Integers, FiniteSets

CONSTANTS
    TOTAL,                    \* the size that main() gives to init_memory_manager
    ALIGNMENT, GROUP_HEADER, GROUP_MIN_BLOCK, MAX_BLOCKS, FIRST, GroupSizes,
    BUDDY_HEADER, BUDDY_MIN_BLOCK, MAX_ORDER, BuddySizes

VARIABLES
    current_manager,   \* NULL until init_memory_manager
    m, b,              \* the static data of the two managers
    held               \* what was given out and not freed: the pointers, with their sizes

vars == <<current_manager, m, b, held>>

Group == INSTANCE GroupMemory
         WITH HEADER_SIZE <- GROUP_HEADER, MIN_BLOCK_SIZE <- GROUP_MIN_BLOCK, Sizes <- GroupSizes

Buddy == INSTANCE BuddyMemory
         WITH HEADER_SIZE <- BUDDY_HEADER, MIN_BLOCK_SIZE <- BUDDY_MIN_BLOCK, Sizes <- BuddySizes

ASSUME MemoryAssumption == Group!GroupAssumption /\ Buddy!BuddyAssumption

-----------------------------------------------------------------------------

Init ==
    /\ current_manager = "NULL"
    /\ m = Group!group_static /\ b = Buddy!buddy_static
    /\ held = [p \in {} |-> 0]

init_memory_manager(manager) ==
    /\ current_manager = "NULL"
    /\ current_manager' = manager
    /\ m' = IF manager = "group" THEN Group!group_init ELSE m
    /\ b' = IF manager = "buddy" THEN Buddy!buddy_init ELSE b
    /\ UNCHANGED held

\* A call that reaches the functions of this manager.
Through(manager) == current_manager = manager /\ UNCHANGED current_manager

\* createProcess(first_process): its stack, which is never freed.
Boot == Through("group") /\ Group!Boot /\ UNCHANGED b

mm_malloc ==
    \/ Through("group") /\ (\E size \in GroupSizes : Group!Malloc(size)) /\ UNCHANGED b
    \/ Through("buddy") /\ (\E size \in BuddySizes : Buddy!Malloc(size)) /\ UNCHANGED m

mm_free(p) ==
    \/ Through("group") /\ Group!Free(p) /\ UNCHANGED b
    \/ Through("buddy") /\ Buddy!Free(p) /\ UNCHANGED m

\* What the mem command shows, of the fields that both managers fill in.
mm_get_info ==
    IF current_manager = "group" THEN Group!group_get_info(m) ELSE Buddy!buddy_get_info(b)

Next ==
    \/ \E manager \in {"group", "buddy"} : init_memory_manager(manager)
    \/ Boot
    \/ mm_malloc
    \/ \E p \in DOMAIN held : mm_free(p)

Spec == Init /\ [][Next]_vars

-----------------------------------------------------------------------------
(* Properties.                                                             *)

UsesGroup == current_manager = "group"
UsesBuddy == current_manager = "buddy"

\* What the managers read as pointers, sizes and counters is one, and the manager
\* that the build left out is never touched.
TypeOK ==
    /\ IF UsesGroup THEN Group!TypeOK ELSE m = Group!group_static
    /\ IF UsesBuddy THEN Buddy!TypeOK ELSE b = Buddy!buddy_static

\* After any sequence of splits and merges every byte of the heap is in one block:
\* Tiling of the group manager, Partition of the buddy manager.
BlocksExact == (UsesGroup => Group!Tiling) /\ (UsesBuddy => Buddy!Partition)

\* No free block is lost to malloc and none in use is offered by it: FreeListExact
\* of the group manager, ListsExact of the buddy manager.
FreeListsExact == (UsesGroup => Group!FreeListExact) /\ (UsesBuddy => Buddy!ListsExact)

\* Memory does not fall to pieces: what can be merged is, in whatever order the
\* blocks are freed.
NeighboursMerged == (UsesGroup => Group!Coalesced) /\ (UsesBuddy => Buddy!BuddiesMerged)

\* What the mem command reports is what the callers hold.
InfoExact ==
    /\ current_manager # "NULL" => mm_get_info.current_blocks = Cardinality(DOMAIN held)
    /\ UsesGroup => Group!InfoExact
    /\ UsesBuddy => Buddy!InfoExact

H == INSTANCE Heap WITH live <- held

\* Whichever manager the build has, each allocation is of memory inside the heap
\* that nobody holds, even when the request is larger than the largest block of
\* the buddy manager (the runs ask for no more than the heap).
ImplementsHeap == H!Spec

\* No two callers hold the same byte: what a program wrote in its blocks is there
\* until it frees them.
LiveDisjoint == H!Exclusive
=============================================================================
