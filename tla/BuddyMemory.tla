---------------------------- MODULE BuddyMemory ----------------------------
(***************************************************************************)
(* memory/buddy_system.c, the manager of the builds with -DBUDDY_SYSTEM: a *)
(* free list per order, blocks of MIN_BLOCK_SIZE * 2^order bytes.          *)
(*                                                                         *)
(* An address is an offset from memory_start, which is aligned to the      *)
(* largest block.  The two loops are written by what they do: a split goes *)
(* down from the order of the block that is taken to the one asked for, a  *)
(* merge goes up to the first order at which it cannot.  total_freed and   *)
(* memory_leak, which nothing reads, are left out.                         *)
(***************************************************************************)
EXTENDS Integers, Sequences, FiniteSets, FiniteSetsExt

CONSTANTS
    MIN_BLOCK_SIZE, MAX_ORDER,
    HEADER_SIZE,  \* sizeof(block_header_t)
    TOTAL,        \* total_size
    Sizes         \* the sizes that are asked for

Addrs  == 0..(TOTAL - 1)
Orders == 0..MAX_ORDER

Bytes(o) == MIN_BLOCK_SIZE * 2^o

\* Assumed by MemoryManager.
BuddyAssumption ==
    /\ {MIN_BLOCK_SIZE, HEADER_SIZE} \subseteq Nat \ {0} /\ HEADER_SIZE < MIN_BLOCK_SIZE
    /\ MAX_ORDER \in Nat /\ TOTAL \in Nat /\ TOTAL >= Bytes(MAX_ORDER)
    /\ Sizes \subseteq Nat

Header == [size : 0..TOTAL, user_size : Nat, is_free : BOOLEAN]

VARIABLES
    b,      \* the globals: hdr, free_blocks, current_blocks, total_allocated
    held    \* what was given out and not freed: the pointers, with their sizes

-----------------------------------------------------------------------------

\* Mutant: the largest block that is not larger.
get_order_Below(size) == Max({o \in Orders : Bytes(o) <= size} \cup {0})

get_order(size) == Min({o \in Orders : Bytes(o) >= size} \cup {MAX_ORDER})

\* The static data before buddy_init.
buddy_static ==
    [hdr             |-> [a \in Addrs |-> [size |-> 0, user_size |-> 0, is_free |-> FALSE]],
     free_blocks     |-> [o \in Orders |-> <<>>],
     current_blocks  |-> 0,
     total_allocated |-> 0]

buddy_init ==
    [buddy_static EXCEPT !.hdr[0] = [size |-> TOTAL - HEADER_SIZE, user_size |-> 0, is_free |-> TRUE],
                         !.free_blocks[get_order(TOTAL)] = <<0>>]

\* The orders at or above the one that size needs which have a free block.
Candidates(g, size) ==
    {o \in Orders : o >= get_order(size + HEADER_SIZE) /\ g.free_blocks[o] # <<>>}

CanMalloc(g, size) == size # 0 /\ Candidates(g, size) # {}

Chosen(g, size) == Head(g.free_blocks[Min(Candidates(g, size))])

\* Mutant: the size of the block that is taken stays that of the whole.
Split_SizeKept(g, block, from, to) ==
    [g EXCEPT !.hdr = [a \in Addrs |->
                          IF \E o \in to .. from - 1 : a = block + Bytes(o)
                          THEN [size |-> (a - block) - HEADER_SIZE, user_size |-> 0, is_free |-> TRUE]
                          ELSE @[a]],
              !.free_blocks = [o \in Orders |-> IF o \in to .. from - 1
                                                THEN <<block + Bytes(o)>> \o @[o] ELSE @[o]]]

\* Lines 61-71: at each order from the one of the block that is taken down to the
\* one asked for, the upper half goes to the free list.
Split(g, block, from, to) ==
    [g EXCEPT !.hdr = [a \in Addrs |->
                          IF \E o \in to .. from - 1 : a = block + Bytes(o)
                          THEN [size |-> (a - block) - HEADER_SIZE, user_size |-> 0, is_free |-> TRUE]
                          ELSE IF a = block /\ to < from THEN [@[a] EXCEPT !.size = Bytes(to) - HEADER_SIZE]
                          ELSE @[a]],
              !.free_blocks = [o \in Orders |-> IF o \in to .. from - 1
                                                THEN <<block + Bytes(o)>> \o @[o] ELSE @[o]]]

buddy_malloc(g, size) ==
    LET from  == Min(Candidates(g, size))
        block == Chosen(g, size)
        taken == Split([g EXCEPT !.free_blocks[from] = Tail(@)], block, from, get_order(size + HEADER_SIZE))
    IN  IF CanMalloc(g, size)
        THEN [taken EXCEPT !.hdr[block]      = [@ EXCEPT !.is_free = FALSE, !.user_size = size],
                           !.current_blocks  = @ + 1,
                           !.total_allocated = @ + size]
        ELSE g

-----------------------------------------------------------------------------
(* buddy_free.                                                             *)

\* The block of an order that contains a: where merging has taken it.
BlockAt(a, o) == (a \div Bytes(o)) * Bytes(o)

\* Line 100, an exclusive or with the size.
Buddy(a, o) == IF (a \div Bytes(o)) % 2 = 0 THEN BlockAt(a, o) + Bytes(o) ELSE BlockAt(a, o) - Bytes(o)

\* Lines 102-124.
Mergeable(g, a, o) ==
    /\ Buddy(a, o) < TOTAL
    /\ g.hdr[Buddy(a, o)].is_free
    /\ g.hdr[Buddy(a, o)].size = Bytes(o) - HEADER_SIZE
    /\ \E i \in DOMAIN g.free_blocks[o] : g.free_blocks[o][i] = Buddy(a, o)

\* The order at which the block that is freed ends.
Top(g, a, order) ==
    Min({o \in order .. MAX_ORDER - 1 : ~Mergeable(g, a, o)} \cup {MAX_ORDER})

\* Lines 113-125.
Unlink(list, c) ==
    LET i == CHOOSE i \in DOMAIN list : list[i] = c
    IN  SubSeq(list, 1, i - 1) \o SubSeq(list, i + 1, Len(list))

\* Lines 113-134: the buddies leave their lists and the sizes grow.
Merged(g, a, order, top) ==
    [g EXCEPT !.hdr = [c \in Addrs |->
                          LET grown == {o \in order + 1 .. top : BlockAt(a, o) = c}
                          IN  IF grown = {} THEN @[c]
                              ELSE [@[c] EXCEPT !.size = Bytes(Max(grown)) - HEADER_SIZE]],
              !.free_blocks = [o \in Orders |->
                                  IF o \in order .. top - 1 THEN Unlink(@[o], Buddy(a, o)) ELSE @[o]]]

\* Mutant: the size of the block is taken off the total.
buddy_free_Rounded(g, p) ==
    LET block == p - HEADER_SIZE
        order == get_order(g.hdr[block].size + HEADER_SIZE)
        freed == [g EXCEPT !.hdr[block]      = [@ EXCEPT !.is_free = TRUE, !.user_size = 0],
                           !.total_allocated = @ - g.hdr[block].size,
                           !.current_blocks  = @ - 1]
        top   == Top(freed, block, order)
    IN  [Merged(freed, block, order, top) EXCEPT !.free_blocks[top] = <<BlockAt(block, top)>> \o @]

buddy_free(g, p) ==
    LET block == p - HEADER_SIZE
        order == get_order(g.hdr[block].size + HEADER_SIZE)
        user  == g.hdr[block].user_size
        freed == [g EXCEPT !.hdr[block]      = [@ EXCEPT !.is_free = TRUE, !.user_size = 0],
                           !.total_allocated = IF @ >= user THEN @ - user ELSE @,
                           !.current_blocks  = @ - 1]
        top   == Top(freed, block, order)
    IN  [Merged(freed, block, order, top) EXCEPT !.free_blocks[top] = <<BlockAt(block, top)>> \o @]

-----------------------------------------------------------------------------

Listed(g, o) == {g.free_blocks[o][i] : i \in DOMAIN g.free_blocks[o]}
AllListed(g) == UNION {Listed(g, o) : o \in Orders}

buddy_get_info(g) ==
    LET free_mem == MapThenSumSet(LAMBDA a : g.hdr[a].size, AllListed(g))
        count    == MapThenSumSet(LAMBDA o : Len(g.free_blocks[o]), Orders)
    IN  [current_blocks   |-> g.current_blocks,
         free_memory      |-> free_mem,
         free_block_count |-> count,
         total_allocated  |-> g.total_allocated,
         used_memory      |-> TOTAL - free_mem,
         block_count      |-> count + g.current_blocks]

-----------------------------------------------------------------------------

Malloc(size) ==
    /\ b' = buddy_malloc(b, size)
    /\ held' = IF CanMalloc(b, size)
               THEN [p \in DOMAIN held \cup {Chosen(b, size) + HEADER_SIZE} |->
                        IF p = Chosen(b, size) + HEADER_SIZE THEN size ELSE held[p]]
               ELSE held

Free(p) ==
    /\ b' = buddy_free(b, p)
    /\ held' = [q \in DOMAIN held \ {p} |-> held[q]]

-----------------------------------------------------------------------------
(* Properties.                                                             *)

\* The lists hold addresses of the heap and the counters never go below 0.
TypeOK ==
    /\ b \in [hdr : [Addrs -> Header], free_blocks : [Orders -> Seq(Addrs)],
              current_blocks : Nat, total_allocated : Nat]
    /\ DOMAIN held \subseteq Addrs

Used == {p - HEADER_SIZE : p \in DOMAIN held}

\* The bytes of a block: what buddy_free will give back for it.
Extent(a) == a .. a + b.hdr[a].size + HEADER_SIZE - 1

\* After any sequence of splits and merges every byte that the blocks cover is in
\* one block only, in use or in one free list and there once, and they cover the
\* largest block from its start to its end.
Partition ==
    /\ UNION {Extent(a) : a \in Used \cup AllListed(b)} \in {0 .. Bytes(MAX_ORDER) - 1, 0 .. TOTAL - 1}
    /\ \A a, c \in Used \cup AllListed(b) : a # c => Extent(a) \cap Extent(c) = {}
    /\ \A o \in Orders : /\ Cardinality(Listed(b, o)) = Len(b.free_blocks[o])
                          /\ \A p \in Orders \ {o} : Listed(b, o) \cap Listed(b, p) = {}
    /\ Used \cap AllListed(b) = {}

\* Each list has blocks of its order, aligned as the exclusive or needs and marked
\* free; only the largest order can have the block that buddy_init makes.
ListsExact ==
    \A o \in Orders : \A a \in Listed(b, o) :
        /\ a = BlockAt(a, o) /\ b.hdr[a].is_free
        /\ b.hdr[a].size = Bytes(o) - HEADER_SIZE \/ (o = MAX_ORDER /\ b.hdr[a].size = TOTAL - HEADER_SIZE)

\* Two buddies are never both free: when all is freed, one block is left.
BuddiesMerged ==
    \A o \in Orders \ {MAX_ORDER} : \A a \in Listed(b, o) : Buddy(a, o) \notin Listed(b, o)

\* The report counts what the callers hold.
InfoExact ==
    /\ b.current_blocks = Cardinality(DOMAIN held)
    /\ b.total_allocated = MapThenSumSet(LAMBDA p : held[p], DOMAIN held)
=============================================================================
