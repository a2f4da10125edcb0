---------------------------- MODULE GroupMemory ----------------------------
(***************************************************************************)
(* memory/group_memory_manager.c: first fit over a free list, with the     *)
(* blocks in a ring in address order.                                      *)
(*                                                                         *)
(* An address is an offset from memory_start.  The free list, circular in  *)
(* the code, is the sequence that a walk from free_list visits.  The two   *)
(* totals of the code are one variable, their difference.                  *)
(*                                                                         *)
(* A system call runs with interrupts disabled, so that an operation is    *)
(* one step.  GroupMemoryExit has the one caller that can be interrupted.  *)
(***************************************************************************)
EXTENDS Integers, Sequences, FiniteSets, FiniteSetsExt

CONSTANTS
    ALIGNMENT, HEADER_SIZE, MIN_BLOCK_SIZE, MAX_BLOCKS,
    TOTAL,        \* total_size
    FIRST,        \* the size of the first allocation, the stack of first_process
    Sizes         \* the sizes that are asked for afterwards

ALIGN_UP(x) == ((x + ALIGNMENT - 1) \div ALIGNMENT) * ALIGNMENT

Addrs == 0..(TOTAL - 1)

\* Assumed by MemoryManager.
GroupAssumption ==
    /\ {ALIGNMENT, HEADER_SIZE, FIRST} \subseteq Nat \ {0}
    /\ {MIN_BLOCK_SIZE, MAX_BLOCKS, TOTAL} \subseteq Nat
    /\ Sizes \subseteq Nat
    /\ ALIGN_UP(HEADER_SIZE) = HEADER_SIZE /\ ALIGN_UP(TOTAL) = TOTAL
    /\ TOTAL >= HEADER_SIZE + ALIGN_UP(FIRST)

Header == [size : 0..TOTAL, user_size : 0..TOTAL, is_free : BOOLEAN, next : Addrs, prev : Addrs]

\* Where no header is, or where one was absorbed by its neighbour.
NoHeader == [size |-> 0, user_size |-> 0, is_free |-> FALSE, next |-> 0, prev |-> 0]

VARIABLES
    m,      \* the globals: hdr, free_list, current_blocks, outstanding
    held    \* what was given out and not freed: the pointers, with their sizes

vars == <<m, held>>

-----------------------------------------------------------------------------

insert_into_free_list(g, b) ==
    [g EXCEPT !.hdr[b].is_free   = TRUE,
              !.hdr[b].user_size = 0,
              !.free_list        = <<b>> \o @]

remove_from_free_list(g, b) ==
    LET i == CHOOSE i \in DOMAIN g.free_list : g.free_list[i] = b
    IN  IF g.hdr[b].is_free
        THEN [g EXCEPT !.hdr[b].is_free = FALSE,
                       !.free_list      = SubSeq(@, 1, i - 1) \o SubSeq(@, i + 1, Len(@))]
        ELSE g

\* The static data before group_init.
group_static ==
    [hdr |-> [a \in Addrs |-> NoHeader], free_list |-> <<>>, current_blocks |-> 0, outstanding |-> 0]

group_init ==
    insert_into_free_list([group_static EXCEPT !.hdr[0].size = ALIGN_UP(TOTAL - HEADER_SIZE)], 0)

\* Mutant: the header of the new block is not paid for.
Split_HeaderFree(g, cur, req) ==
    LET nb     == cur + HEADER_SIZE + req
        after  == g.hdr[cur].next
        header == [size |-> g.hdr[cur].size - req, user_size |-> 0, is_free |-> FALSE,
                   next |-> after, prev |-> cur]
    IN  insert_into_free_list(
            [g EXCEPT !.hdr = [[@ EXCEPT ![nb] = header] EXCEPT ![after].prev = nb,
                                                               ![cur].next   = nb,
                                                               ![cur].size   = req]], nb)

\* Lines 87-96.
Split(g, cur, req) ==
    LET nb     == cur + HEADER_SIZE + req
        after  == g.hdr[cur].next
        header == [size |-> ALIGN_UP(g.hdr[cur].size - req - HEADER_SIZE), user_size |-> 0,
                   is_free |-> TRUE, next |-> after, prev |-> cur]
    IN  insert_into_free_list(
            [g EXCEPT !.hdr = [[@ EXCEPT ![nb] = header] EXCEPT ![after].prev = nb,
                                                               ![cur].next   = nb,
                                                               ![cur].size   = req]], nb)

\* The places in the free list of the blocks that are large enough.
Fits(g, req) == {i \in DOMAIN g.free_list : g.hdr[g.free_list[i]].size >= req}

\* Mutant: one block too many.
CanMalloc_OneMore(g, size) ==
    /\ size # 0 /\ g.current_blocks <= MAX_BLOCKS
    /\ Fits(g, ALIGN_UP(size)) # {}

CanMalloc(g, size) ==
    /\ size # 0 /\ g.current_blocks < MAX_BLOCKS
    /\ Fits(g, ALIGN_UP(size)) # {}

\* The block that group_malloc takes: the first that fits.
Chosen(g, size) == g.free_list[Min(Fits(g, ALIGN_UP(size)))]

group_malloc(g, size) ==
    LET req   == ALIGN_UP(size)
        cur   == Chosen(g, size)
        taken == remove_from_free_list(
                    IF g.hdr[cur].size - req > HEADER_SIZE + MIN_BLOCK_SIZE
                    THEN Split(g, cur, req) ELSE g, cur)
    IN  IF CanMalloc(g, size)
        THEN [taken EXCEPT !.hdr[cur].user_size = size,
                           !.outstanding        = @ + size,
                           !.current_blocks     = @ + 1]
        ELSE g

-----------------------------------------------------------------------------
(* group_free.                                                             *)

\* Line 113 and line 116: what is freed at all.
Freeable(g, p) ==
    /\ p >= HEADER_SIZE /\ p < TOTAL
    /\ ~g.hdr[p - HEADER_SIZE].is_free /\ g.hdr[p - HEADER_SIZE].user_size # 0

\* Lines 121-125 and 130-132: a takes in its ring neighbour n.
Absorb(g, a, n) ==
    LET after == g.hdr[n].next
        grown == g.hdr[a].size + HEADER_SIZE + g.hdr[n].size
    IN  [g EXCEPT !.hdr = [[@ EXCEPT ![a].size = grown, ![a].next = after, ![after].prev = a]
                           EXCEPT ![n] = NoHeader]]

NextOf(g, b) == g.hdr[b].next
PrevOf(g, b) == g.hdr[b].prev

\* Mutant: the neighbour that is absorbed stays in the free list.
AbsorbNext_Listed(g, b) == Absorb(g, b, NextOf(g, b))

\* Lines 121-125.
AbsorbNext(g, b) == Absorb(remove_from_free_list(g, NextOf(g, b)), b, NextOf(g, b))

\* Lines 128-132; the block that goes on is the previous one.
AbsorbPrev(g, b) == Absorb(remove_from_free_list(g, PrevOf(g, b)), PrevOf(g, b), b)

\* Lines 135-137.
Finish(g, b, size) ==
    [insert_into_free_list(g, b) EXCEPT !.current_blocks = @ - 1, !.outstanding = @ - size]

\* Mutant: only the next neighbour is looked at.
group_free_NextOnly(g, p) ==
    LET b       == p - HEADER_SIZE
        merged  == IF g.hdr[NextOf(g, b)].is_free THEN AbsorbNext(g, b) ELSE g
    IN  IF Freeable(g, p) THEN Finish(merged, b, g.hdr[b].user_size) ELSE g

group_free(g, p) ==
    LET b       == p - HEADER_SIZE
        forward == IF g.hdr[NextOf(g, b)].is_free THEN AbsorbNext(g, b) ELSE g
        before  == PrevOf(forward, b)
    IN  IF ~Freeable(g, p) THEN g
        ELSE IF forward.hdr[before].is_free
             THEN Finish(AbsorbPrev(forward, b), before, g.hdr[b].user_size)
             ELSE Finish(forward, b, g.hdr[b].user_size)

-----------------------------------------------------------------------------
(* group_get_info.                                                         *)

Listed(g) == {g.free_list[i] : i \in DOMAIN g.free_list}

group_get_info(g) ==
    LET free_mem == MapThenSumSet(LAMBDA b : g.hdr[b].size + HEADER_SIZE, Listed(g))
    IN  [memory_leak      |-> g.outstanding # 0,
         current_blocks   |-> g.current_blocks,
         free_memory      |-> free_mem,
         free_block_count |-> Len(g.free_list),
         used_memory      |-> TOTAL - free_mem,
         block_count      |-> Len(g.free_list) + g.current_blocks]

-----------------------------------------------------------------------------

Init == m = group_init /\ held = [p \in {} |-> 0]

\* What the caller of mm_malloc has afterwards.
Given(size) ==
    IF CanMalloc(m, size)
    THEN [p \in DOMAIN held \cup {Chosen(m, size) + HEADER_SIZE} |->
             IF p = Chosen(m, size) + HEADER_SIZE THEN size ELSE held[p]]
    ELSE held

\* createProcess(first_process): its stack, which is never freed.
Boot ==
    /\ held = [p \in {} |-> 0]
    /\ m' = group_malloc(m, FIRST)
    /\ held' = Given(FIRST)

Malloc(size) ==
    /\ HEADER_SIZE \in DOMAIN held
    /\ m' = group_malloc(m, size)
    /\ held' = Given(size)

Freed(p) == [q \in DOMAIN held \ {p} |-> held[q]]

Free(p) ==
    /\ p # HEADER_SIZE
    /\ m' = group_free(m, p)
    /\ held' = Freed(p)

Next == \/ Boot
        \/ \E size \in Sizes : Malloc(size)
        \/ \E p \in DOMAIN held : Free(p)

Spec == Init /\ [][Next]_vars

-----------------------------------------------------------------------------
(* Properties.                                                             *)

\* m holds headers at addresses of the heap, a free list without repetitions and
\* counters within bounds: what group_malloc and group_free read as pointers and
\* sizes is one.
TypeOK ==
    /\ m \in [hdr : [Addrs -> Header], free_list : Seq(Addrs),
              current_blocks : 0..MAX_BLOCKS, outstanding : Nat]
    /\ DOMAIN held \subseteq Addrs
    /\ \A p \in DOMAIN held : held[p] \in 1..TOTAL

Blocks == {b \in Addrs : m.hdr[b].size > 0}
End(b) == b + HEADER_SIZE + m.hdr[b].size

\* After any sequence of splits and merges the blocks tile the heap from its
\* start to its end, with no gap and no overlap, and the ring visits them in the
\* order of their addresses both ways.
Tiling ==
    /\ 0 \in Blocks
    /\ \A b \in Blocks :
          /\ End(b) <= TOTAL
          /\ m.hdr[b].next = IF End(b) = TOTAL THEN 0 ELSE End(b)
          /\ m.hdr[b].next \in Blocks
          /\ m.hdr[m.hdr[b].next].prev = b
          /\ \A c \in Blocks : ~(b < c /\ c < End(b))

\* The free list has every free block once and nothing else: no memory is lost
\* to group_malloc and none in use is offered by it.
FreeListExact ==
    /\ Listed(m) = {b \in Blocks : m.hdr[b].is_free}
    /\ Cardinality(Listed(m)) = Len(m.free_list)

\* Each free block is separated from the next by one in use, in whatever order
\* they were freed: when all is freed the whole heap is available again.
Coalesced ==
    \A b \in Blocks : m.hdr[b].is_free /\ m.hdr[b].next # 0 => ~m.hdr[m.hdr[b].next].is_free

\* What the mem command reports is what the callers hold: as many blocks and
\* bytes, in as many blocks as tile the heap, with a waste of less than a header
\* and a minimal block each.
InfoExact ==
    LET info == group_get_info(m)
        need == MapThenSumSet(LAMBDA p : HEADER_SIZE + ALIGN_UP(held[p]), DOMAIN held)
    IN  /\ info.current_blocks = Cardinality(DOMAIN held)
        /\ info.block_count = Cardinality(Blocks)
        /\ m.outstanding = MapThenSumSet(LAMBDA p : held[p], DOMAIN held)
        /\ info.used_memory \in
              need .. need + info.current_blocks * (HEADER_SIZE + MIN_BLOCK_SIZE)

H == INSTANCE Heap WITH live <- held

\* No two callers hold the same byte: what a program wrote in its blocks is there
\* until it frees them.
LiveDisjoint == H!Exclusive
=============================================================================
