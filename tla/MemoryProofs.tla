---------------------------- MODULE MemoryProofs ----------------------------
(***************************************************************************)
(* The group manager, for every size of the heap, of the header and of the *)
(* requests: its blocks tile the heap, its free list is exact, neighbours  *)
(* are merged, and it implements Heap.                                     *)
(*                                                                         *)
(* Each operation on the block headers is first described by the fields it *)
(* leaves (the predicates IsInsert, IsRemove, IsCut and IsAbsorb); the     *)
(* invariant is then kept by whatever fits the description.                *)
(***************************************************************************)
EXTENDS MemoryManager, SequenceTheorems, FiniteSetTheorems, WellFoundedInduction, TLAPS

-----------------------------------------------------------------------------
(* Sizes.                                                                  *)

Multiple(x) == \E q \in Nat : x = q * ALIGNMENT

LEMMA Constants ==
  /\ ALIGNMENT \in Nat /\ ALIGNMENT > 0
  /\ GROUP_HEADER \in Nat /\ GROUP_HEADER > 0
  /\ FIRST \in Nat /\ FIRST > 0
  /\ GROUP_MIN_BLOCK \in Nat /\ MAX_BLOCKS \in Nat /\ TOTAL \in Nat
  /\ \A s \in GroupSizes : s \in Nat
  /\ Group!ALIGN_UP(GROUP_HEADER) = GROUP_HEADER /\ Group!ALIGN_UP(TOTAL) = TOTAL
  /\ TOTAL >= GROUP_HEADER + Group!ALIGN_UP(FIRST)
BY MemoryAssumption DEF Group!GroupAssumption

LEMMA DivFacts ==
  ASSUME NEW n \in Nat, NEW a \in Nat, a > 0
  PROVE  /\ n \div a \in Nat /\ (n \div a) * a <= n /\ n < (n \div a) * a + a
OBVIOUS

LEMMA MulDiv ==
  ASSUME NEW q \in Nat, NEW a \in Nat, a > 0
  PROVE  (q * a + (a - 1)) \div a = q
OBVIOUS

LEMMA AlignUp ==
  ASSUME NEW x \in Nat
  PROVE  Group!ALIGN_UP(x) \in Nat /\ x <= Group!ALIGN_UP(x) /\ Multiple(Group!ALIGN_UP(x))
<1> DEFINE n == x + ALIGNMENT - 1
           q == n \div ALIGNMENT
<1>1. ALIGNMENT \in Nat /\ ALIGNMENT > 0 /\ n \in Nat
  BY Constants
<1>2. q \in Nat /\ n < q * ALIGNMENT + ALIGNMENT
  <2> HIDE DEF n
  <2> QED BY <1>1, DivFacts
<1>3. Group!ALIGN_UP(x) = q * ALIGNMENT
  BY DEF Group!ALIGN_UP
<1>4. q * ALIGNMENT \in Nat
  <2> HIDE DEF q
  <2> QED BY <1>1, <1>2
<1>5. Multiple(Group!ALIGN_UP(x))
  <2> HIDE DEF q
  <2> QED BY <1>2, <1>3 DEF Multiple
<1>6. x <= q * ALIGNMENT
  <2> DEFINE y == q * ALIGNMENT
  <2> HIDE DEF q
  <2>1. y \in Nat /\ x + ALIGNMENT - 1 < y + ALIGNMENT
    BY <1>2, <1>4
  <2> HIDE DEF y
  <2>2. x <= y
    BY <2>1, <1>1
  <2> QED BY <2>2 DEF y
<1> HIDE DEF q
<1> QED BY <1>3, <1>4, <1>5, <1>6

LEMMA AlignMultiple ==
  ASSUME NEW x \in Nat, Multiple(x)
  PROVE  Group!ALIGN_UP(x) = x
<1>1. PICK q \in Nat : x = q * ALIGNMENT
  BY DEF Multiple
<1>2. (q * ALIGNMENT + (ALIGNMENT - 1)) \div ALIGNMENT = q
  BY Constants, MulDiv
<1>3. x + ALIGNMENT - 1 = q * ALIGNMENT + (ALIGNMENT - 1)
  BY <1>1, Constants
<1> QED BY <1>1, <1>2, <1>3 DEF Group!ALIGN_UP

LEMMA MultipleSum ==
  ASSUME NEW x \in Nat, NEW y \in Nat, Multiple(x), Multiple(y)
  PROVE  Multiple(x + y)
<1>1. PICK q \in Nat : x = q * ALIGNMENT
  BY DEF Multiple
<1>2. PICK r \in Nat : y = r * ALIGNMENT
  BY DEF Multiple
<1>3. x + y = (q + r) * ALIGNMENT /\ q + r \in Nat
  BY <1>1, <1>2, Constants
<1> QED BY <1>3 DEF Multiple

LEMMA MultipleDifference ==
  ASSUME NEW x \in Nat, NEW y \in Nat, Multiple(x), Multiple(y), y < x
  PROVE  Multiple(x - y)
<1>1. PICK q \in Nat : x = q * ALIGNMENT
  BY DEF Multiple
<1>2. PICK r \in Nat : y = r * ALIGNMENT
  BY DEF Multiple
<1>3. x - y = (q - r) * ALIGNMENT
  BY <1>1, <1>2, Constants
<1>4. q - r \in Nat
  BY <1>1, <1>2, Constants
<1> QED BY <1>3, <1>4 DEF Multiple

LEMMA MultipleConstants == Multiple(GROUP_HEADER) /\ Multiple(TOTAL)
BY Constants, AlignUp

-----------------------------------------------------------------------------
(* Sets and sequences.                                                     *)

\* The first place that fits.
LEMMA MinIsLeast ==
  ASSUME NEW S, S \subseteq Nat, S # {}
  PROVE  Group!Min(S) \in S /\ \A y \in S : Group!Min(S) =< y
<1> DEFINE Less == OpToRel(<, Nat)
<1>1. \E x \in S : \A y \in S : ~(<<y, x>> \in Less)
  BY NatLessThanWellFounded, WFMin, Zenon
<1>2. \A x, y \in Nat : y < x => <<y, x>> \in Less
  <2> SUFFICES ASSUME NEW x \in Nat, NEW y \in Nat, y < x
               PROVE  <<y, x>> \in {ss \in Nat \X Nat : ss[1] < ss[2]}
    BY DEF OpToRel
  <2> QED OBVIOUS
<1> HIDE DEF Less
<1>3. \E x \in S : \A y \in S : x =< y
  <2>1. PICK x \in S : \A y \in S : ~(<<y, x>> \in Less)
    BY <1>1
  <2>2. ASSUME NEW y \in S PROVE x =< y
    <3>1. x \in Nat /\ y \in Nat
      OBVIOUS
    <3>2. ~(y < x)
      BY <2>1, <1>2, <3>1, Zenon
    <3> QED BY <3>1, <3>2
  <2> QED BY <2>2
<1> HIDE DEF Less
<1> QED BY <1>3, Zenon DEF Group!Min

Distinct(s) == \A i, j \in DOMAIN s : s[i] = s[j] => i = j

Elements(s) == {s[i] : i \in DOMAIN s}

LEMMA DistinctCount ==
  ASSUME NEW S, NEW s \in Seq(S), Distinct(s)
  PROVE  Cardinality(Elements(s)) = Len(s)
<1>1. DOMAIN s = 1..Len(s) /\ Len(s) \in Nat
  OBVIOUS
<1>2. s \in Bijection(1..Len(s), Elements(s))
  BY <1>1 DEF Distinct, Elements, Bijection, Injection, Surjection, IsInjective
<1>3. ExistsBijection(1..Len(s), Elements(s))
  BY <1>2 DEF ExistsBijection
<1> QED BY <1>1, <1>3, FS_CountingElements

LEMMA Prepended ==
  ASSUME NEW S, NEW s \in Seq(S), NEW e \in S, e \notin Elements(s), Distinct(s)
  PROVE  LET r == <<e>> \o s
         IN  r \in Seq(S) /\ Distinct(r) /\ Elements(r) = Elements(s) \cup {e}
<1> DEFINE r == <<e>> \o s
<1>1. /\ r \in Seq(S) /\ Len(r) = Len(s) + 1 /\ Len(s) \in Nat
      /\ r[1] = e /\ \A j \in 1..Len(s) : r[j + 1] = s[j]
  OBVIOUS
<1>2. DOMAIN r = 1..Len(r) /\ DOMAIN s = 1..Len(s)
  BY <1>1
<1> HIDE DEF r
<1>3. ASSUME NEW j \in 1..Len(r), j # 1
      PROVE  j - 1 \in 1..Len(s) /\ r[j] = s[j - 1]
  <2>1. j - 1 \in 1..Len(s) /\ (j - 1) + 1 = j
    BY <1>1, <1>3
  <2> QED BY <2>1, <1>1
<1>4. Elements(r) \subseteq Elements(s) \cup {e}
  <2>1. ASSUME NEW j \in 1..Len(r) PROVE r[j] \in Elements(s) \cup {e}
    BY <1>1, <1>2, <1>3 DEF Elements
  <2> QED BY <2>1, <1>2 DEF Elements
<1>5. Elements(s) \cup {e} \subseteq Elements(r)
  <2>1. e \in Elements(r)
    BY <1>1, <1>2 DEF Elements
  <2>2. ASSUME NEW j \in 1..Len(s) PROVE s[j] \in Elements(r)
    <3>1. j + 1 \in 1..Len(r) /\ r[j + 1] = s[j]
      BY <1>1
    <3> QED BY <3>1, <1>2 DEF Elements
  <2> QED BY <2>1, <2>2, <1>2 DEF Elements
<1>6. Distinct(r)
  <2> SUFFICES ASSUME NEW i \in 1..Len(r), NEW j \in 1..Len(r), r[i] = r[j] PROVE i = j
    BY <1>2 DEF Distinct
  <2>1. CASE i = 1 /\ j # 1
    BY <2>1, <1>1, <1>2, <1>3 DEF Elements
  <2>2. CASE i # 1 /\ j = 1
    BY <2>2, <1>1, <1>2, <1>3 DEF Elements
  <2>3. CASE i # 1 /\ j # 1
    <3>1. s[i - 1] = s[j - 1] /\ i - 1 \in DOMAIN s /\ j - 1 \in DOMAIN s
      BY <2>3, <1>2, <1>3
    <3>2. i - 1 = j - 1
      BY <3>1 DEF Distinct
    <3> QED BY <3>2
  <2> QED BY <2>1, <2>2, <2>3
<1> QED BY <1>1, <1>4, <1>5, <1>6 DEF r

LEMMA WithoutIndex ==
  ASSUME NEW S, NEW s \in Seq(S), NEW i \in 1..Len(s), Distinct(s)
  PROVE  LET r == SubSeq(s, 1, i - 1) \o SubSeq(s, i + 1, Len(s))
         IN  r \in Seq(S) /\ Distinct(r) /\ Elements(r) = Elements(s) \ {s[i]}
<1> DEFINE u == SubSeq(s, 1, i - 1)
           v == SubSeq(s, i + 1, Len(s))
           r == u \o v
<1>a. Len(s) \in Nat
  OBVIOUS
<1>0. Len(s) \in Nat /\ DOMAIN s = 1..Len(s)
  BY <1>a
<1>1. u \in Seq(S) /\ Len(u) = i - 1 /\ \A j \in 1..(i - 1) : u[j] = s[j]
  OBVIOUS
<1>2. v \in Seq(S) /\ Len(v) = Len(s) - i /\ \A j \in 1..(Len(s) - i) : v[j] = s[j + i]
  <2> DEFINE a == i + 1
             z == Len(s)
  <2>1. /\ a \in 1..(Len(s) + 1) /\ z \in (a - 1)..Len(s)
        /\ \A j \in 1..(z - i) : a + j - 1 = j + i
    BY <1>0
  <2> HIDE DEF a, z
  <2>2. /\ SubSeq(s, a, z) \in Seq(S)
        /\ Len(SubSeq(s, a, z)) = IF a <= z THEN z - a + 1 ELSE 0
        /\ \A j \in 1..(z - a + 1) : SubSeq(s, a, z)[j] = s[a + j - 1]
    BY <1>0, <2>1, SubSeqProperties
  <2>3. z - a + 1 = z - i /\ (~(a <= z) => z - i = 0)
    BY <1>a DEF a, z
  <2> QED BY <1>0, <2>1, <2>2, <2>3 DEF a, z
<1> HIDE DEF u, v
<1>3. /\ r \in Seq(S) /\ Len(r) = Len(s) - 1
      /\ \A j \in 1..Len(r) : r[j] = IF j < i THEN s[j] ELSE s[j + 1]
  <2>1. /\ r \in Seq(S) /\ Len(r) = Len(u) + Len(v)
        /\ \A j \in 1..(Len(u) + Len(v)) : r[j] = IF j <= Len(u) THEN u[j] ELSE v[j - Len(u)]
    BY <1>1, <1>2, ConcatProperties
  <2> HIDE DEF r
  <2>2. ASSUME NEW j \in 1..Len(r)
        PROVE  r[j] = IF j < i THEN s[j] ELSE s[j + 1]
    <3>1. CASE j < i
      BY <1>0, <1>1, <1>2, <2>1, <3>1
    <3>2. CASE ~(j < i)
      <4>1. j - (i - 1) \in 1..(Len(s) - i) /\ (j - (i - 1)) + i = j + 1
        BY <1>0, <1>1, <1>2, <2>1, <3>2
      <4> QED BY <1>0, <1>1, <1>2, <2>1, <3>2, <4>1
    <3> QED BY <3>1, <3>2
  <2> QED BY <1>0, <1>1, <1>2, <2>1, <2>2
<1>4. DOMAIN r = 1..Len(r)
  BY <1>3
<1> HIDE DEF r
<1>5. ASSUME NEW j \in 1..Len(r)
      PROVE  r[j] \in Elements(s) \ {s[i]}
  <2>1. j \in 1..Len(s) /\ j + 1 \in 1..Len(s)
    BY <1>0, <1>3
  <2>2. (r[j] = s[j] /\ j # i) \/ (r[j] = s[j + 1] /\ j + 1 # i)
    BY <1>0, <1>3
  <2> QED BY <1>0, <2>1, <2>2 DEF Distinct, Elements
<1>6. ASSUME NEW j \in 1..Len(s), j # i
      PROVE  s[j] \in Elements(r)
  <2>1. CASE j < i
    <3>1. j \in 1..Len(r) /\ r[j] = s[j]
      BY <2>1, <1>0, <1>3
    <3> QED BY <3>1, <1>4 DEF Elements
  <2>2. CASE j > i
    <3>1. j - 1 \in 1..Len(r) /\ ~(j - 1 < i) /\ (j - 1) + 1 = j
      BY <2>2, <1>0, <1>3
    <3>2. r[j - 1] = s[j]
      BY <3>1, <1>3
    <3> QED BY <3>1, <3>2, <1>4 DEF Elements
  <2> QED BY <1>6, <2>1, <2>2
<1>7. Elements(r) = Elements(s) \ {s[i]}
  BY <1>0, <1>4, <1>5, <1>6 DEF Elements
<1>8. Distinct(r)
  <2> SUFFICES ASSUME NEW j \in 1..Len(r), NEW l \in 1..Len(r), r[j] = r[l] PROVE j = l
    BY <1>4 DEF Distinct
  <2>1. j \in 1..Len(s) /\ j + 1 \in 1..Len(s) /\ l \in 1..Len(s) /\ l + 1 \in 1..Len(s)
    BY <1>0, <1>3
  <2>2. \A x \in 1..Len(r) : (x < i => r[x] = s[x]) /\ (~(x < i) => r[x] = s[x + 1])
    BY <1>3
  <2>3. \A x, y \in 1..Len(s) : s[x] = s[y] => x = y
    BY <1>0 DEF Distinct
  <2>4. j \in Int /\ l \in Int /\ i \in Int
    BY <1>0, <1>3
  <2>5. CASE j < i /\ l < i
    BY <2>1, <2>2, <2>3, <2>5, Zenon
  <2>6. CASE ~(j < i) /\ ~(l < i)
    <3>1. j + 1 = l + 1
      BY <2>1, <2>2, <2>3, <2>6, Zenon
    <3> QED BY <3>1, <2>4
  <2>7. CASE j < i /\ ~(l < i)
    <3>1. j = l + 1
      BY <2>1, <2>2, <2>3, <2>7, Zenon
    <3> QED BY <3>1, <2>4, <2>7
  <2>8. CASE ~(j < i) /\ l < i
    <3>1. j + 1 = l
      BY <2>1, <2>2, <2>3, <2>8, Zenon
    <3> QED BY <3>1, <2>4, <2>8
  <2> QED BY <2>5, <2>6, <2>7, <2>8
<1> QED BY <1>3, <1>7, <1>8 DEF r, u, v

-----------------------------------------------------------------------------
(* The invariant of the headers and of the free list.                      *)

Typed(g) ==
  g \in [hdr : [Group!Addrs -> Group!Header], free_list : Seq(Group!Addrs),
         current_blocks : Int, outstanding : Int]

BlocksOf(g) == {c \in Group!Addrs : g.hdr[c].size > 0}

EndOf(g, c) == c + GROUP_HEADER + g.hdr[c].size

\* Group!Tiling, of any record of the globals.
Tiles(g) ==
  /\ 0 \in BlocksOf(g)
  /\ \A c \in BlocksOf(g) :
        /\ EndOf(g, c) <= TOTAL
        /\ g.hdr[c].next = IF EndOf(g, c) = TOTAL THEN 0 ELSE EndOf(g, c)
        /\ g.hdr[c].next \in BlocksOf(g)
        /\ g.hdr[g.hdr[c].next].prev = c
        /\ \A d \in BlocksOf(g) : ~(c < d /\ d < EndOf(g, c))

\* The ring the other way, from which a merge with the previous block starts.
RingBack(g) ==
  \A c \in BlocksOf(g) :
     g.hdr[c].prev \in BlocksOf(g) /\ g.hdr[g.hdr[c].prev].next = c

Aligned(g) == \A c \in BlocksOf(g) : Multiple(g.hdr[c].size)

FreeBlocks(g) == {c \in BlocksOf(g) : g.hdr[c].is_free}

ListExact(g) == Distinct(g.free_list) /\ Elements(g.free_list) = FreeBlocks(g)

Sound(g) == Typed(g) /\ Tiles(g) /\ RingBack(g) /\ Aligned(g) /\ ListExact(g)

SameCounters(g, r) ==
  r.current_blocks = g.current_blocks /\ r.outstanding = g.outstanding

SameRing(g, r) ==
  \A a \in Group!Addrs : /\ r.hdr[a].size = g.hdr[a].size
                         /\ r.hdr[a].next = g.hdr[a].next
                         /\ r.hdr[a].prev = g.hdr[a].prev

\* The part of the headers that tells what is in use is as before, in a set of blocks.
SameUse(g, r, S) ==
  \A a \in S : /\ r.hdr[a].size = g.hdr[a].size
               /\ r.hdr[a].user_size = g.hdr[a].user_size
               /\ r.hdr[a].is_free = g.hdr[a].is_free

LEMMA TypedFields ==
  ASSUME NEW g, Typed(g)
  PROVE  /\ g.free_list \in Seq(Group!Addrs)
         /\ g.current_blocks \in Int /\ g.outstanding \in Int
         /\ DOMAIN g.hdr = Group!Addrs
         /\ \A a \in Group!Addrs :
               /\ g.hdr[a] \in Group!Header
               /\ g.hdr[a].size \in 0..TOTAL /\ g.hdr[a].user_size \in 0..TOTAL
               /\ g.hdr[a].is_free \in BOOLEAN
               /\ g.hdr[a].next \in Group!Addrs /\ g.hdr[a].prev \in Group!Addrs
<1>1. g.hdr \in [Group!Addrs -> Group!Header]
  BY DEF Typed
<1>2. \A h \in Group!Header : /\ h.size \in 0..TOTAL /\ h.user_size \in 0..TOTAL
                              /\ h.is_free \in BOOLEAN
                              /\ h.next \in Group!Addrs /\ h.prev \in Group!Addrs
  BY DEF Group!Header
<1> QED BY <1>1, <1>2 DEF Typed

LEMMA AddrsAreNat == Group!Addrs = {a \in Nat : a < TOTAL}
BY Constants DEF Group!Addrs

LEMMA SameRingKeeps ==
  ASSUME NEW g, NEW r, SameRing(g, r), Typed(g), Tiles(g), RingBack(g), Aligned(g)
  PROVE  BlocksOf(r) = BlocksOf(g) /\ Tiles(r) /\ RingBack(r) /\ Aligned(r)
<1>1. BlocksOf(r) = BlocksOf(g)
  BY DEF BlocksOf, SameRing
<1>2. BlocksOf(g) \subseteq Group!Addrs
  BY DEF BlocksOf
<1>3. Tiles(r)
  BY <1>1, <1>2 DEF Tiles, EndOf, SameRing
<1>4. RingBack(r)
  BY <1>1, <1>2 DEF RingBack, SameRing
<1>5. Aligned(r)
  BY <1>1, <1>2 DEF Aligned, SameRing
<1> QED BY <1>1, <1>3, <1>4, <1>5

\* One header is written.
LEMMA WriteHeader ==
  ASSUME NEW f \in [Group!Addrs -> Group!Header], NEW c \in Group!Addrs, NEW e \in Group!Header
  PROVE  /\ [f EXCEPT ![c] = e] \in [Group!Addrs -> Group!Header]
         /\ \A a \in Group!Addrs : [f EXCEPT ![c] = e][a] = IF a = c THEN e ELSE f[a]
OBVIOUS

-----------------------------------------------------------------------------
(* insert_into_free_list and remove_from_free_list.                        *)

IsInsert(g, r, c) ==
  /\ Typed(r) /\ SameCounters(g, r) /\ SameRing(g, r)
  /\ r.free_list = <<c>> \o g.free_list
  /\ \A a \in Group!Addrs : /\ r.hdr[a].is_free = (a = c \/ g.hdr[a].is_free)
                            /\ a # c => r.hdr[a].user_size = g.hdr[a].user_size

LEMMA InsertFields ==
  ASSUME NEW g, Typed(g), NEW c \in Group!Addrs
  PROVE  IsInsert(g, Group!insert_into_free_list(g, c), c)
<1> DEFINE r == Group!insert_into_free_list(g, c)
           h == [g.hdr EXCEPT ![c].is_free = TRUE, ![c].user_size = 0]
<1>1. r = [g EXCEPT !.hdr = h, !.free_list = <<c>> \o g.free_list]
  BY DEF Group!insert_into_free_list, Typed
<1>2. /\ h \in [Group!Addrs -> Group!Header]
      /\ \A a \in Group!Addrs : /\ h[a].size = g.hdr[a].size
                                /\ h[a].next = g.hdr[a].next
                                /\ h[a].prev = g.hdr[a].prev
                                /\ h[a].is_free = (a = c \/ g.hdr[a].is_free)
                                /\ a # c => h[a].user_size = g.hdr[a].user_size
  <2> DEFINE d == g.hdr[c]
             e == [d EXCEPT !.is_free = TRUE, !.user_size = 0]
  <2>1. g.hdr \in [Group!Addrs -> Group!Header] /\ d \in Group!Header
    BY TypedFields DEF Typed
  <2>2. /\ e \in Group!Header
        /\ e.size = d.size /\ e.next = d.next /\ e.prev = d.prev /\ e.is_free = TRUE
    <3>1. 0 \in 0..TOTAL
      BY Constants
    <3> HIDE DEF d
    <3> QED BY <2>1, <3>1 DEF Group!Header
  <2>3. h = [g.hdr EXCEPT ![c] = e]
    BY <2>1
  <2> HIDE DEF e, h
  <2>4. /\ h \in [Group!Addrs -> Group!Header]
        /\ \A a \in Group!Addrs : h[a] = IF a = c THEN e ELSE g.hdr[a]
    BY <2>1, <2>2, <2>3, WriteHeader
  <2>5. \A a \in Group!Addrs : g.hdr[a].is_free \in BOOLEAN
    BY TypedFields
  <2> QED BY <2>2, <2>4, <2>5
<1>3. <<c>> \o g.free_list \in Seq(Group!Addrs)
  BY TypedFields
<1> HIDE DEF h
<1>4. r.hdr = h /\ r.free_list = <<c>> \o g.free_list /\ SameCounters(g, r) /\ Typed(r)
  BY <1>1, <1>2, <1>3 DEF Typed, SameCounters
<1> HIDE DEF r
<1> QED BY <1>2, <1>4 DEF IsInsert, SameRing, r

LEMMA InsertKeeps ==
  ASSUME NEW g, NEW r, NEW c, Sound(g), c \in BlocksOf(g), ~g.hdr[c].is_free, IsInsert(g, r, c)
  PROVE  /\ Sound(r) /\ BlocksOf(r) = BlocksOf(g)
         /\ FreeBlocks(r) = FreeBlocks(g) \cup {c}
         /\ SameUse(g, r, BlocksOf(g) \ {c})
<1>1. BlocksOf(r) = BlocksOf(g) /\ Tiles(r) /\ RingBack(r) /\ Aligned(r) /\ Typed(r)
  BY SameRingKeeps DEF Sound, IsInsert
<1>2. FreeBlocks(r) = FreeBlocks(g) \cup {c}
  BY <1>1 DEF FreeBlocks, BlocksOf, IsInsert
<1>3. c \notin Elements(g.free_list) /\ Distinct(g.free_list) /\ Elements(g.free_list) = FreeBlocks(g)
  BY DEF Sound, ListExact, FreeBlocks
<1>4. g.free_list \in Seq(Group!Addrs) /\ c \in Group!Addrs
  BY TypedFields DEF Sound, BlocksOf
<1>5. Distinct(r.free_list) /\ Elements(r.free_list) = Elements(g.free_list) \cup {c}
  BY <1>3, <1>4, Prepended DEF IsInsert
<1>6. SameUse(g, r, BlocksOf(g) \ {c})
  BY TypedFields DEF SameUse, IsInsert, SameRing, BlocksOf, Sound
<1> QED BY <1>1, <1>2, <1>3, <1>5, <1>6 DEF Sound, ListExact

IsRemove(g, r, c) ==
  /\ Typed(r) /\ SameCounters(g, r) /\ SameRing(g, r)
  /\ Distinct(r.free_list) /\ Elements(r.free_list) = Elements(g.free_list) \ {c}
  /\ \A a \in Group!Addrs : /\ r.hdr[a].is_free = (a # c /\ g.hdr[a].is_free)
                            /\ r.hdr[a].user_size = g.hdr[a].user_size

LEMMA RemoveFields ==
  ASSUME NEW g, Typed(g), NEW c \in Group!Addrs, g.hdr[c].is_free,
         Distinct(g.free_list), c \in Elements(g.free_list)
  PROVE  IsRemove(g, Group!remove_from_free_list(g, c), c)
<1> DEFINE r == Group!remove_from_free_list(g, c)
           i == CHOOSE i \in DOMAIN g.free_list : g.free_list[i] = c
           s == SubSeq(g.free_list, 1, i - 1) \o SubSeq(g.free_list, i + 1, Len(g.free_list))
           h == [g.hdr EXCEPT ![c].is_free = FALSE]
<1>1. r = [g EXCEPT !.hdr = h, !.free_list = s]
  BY DEF Group!remove_from_free_list, Typed
<1>2. /\ h \in [Group!Addrs -> Group!Header]
      /\ \A a \in Group!Addrs : /\ h[a].size = g.hdr[a].size
                                /\ h[a].next = g.hdr[a].next
                                /\ h[a].prev = g.hdr[a].prev
                                /\ h[a].is_free = (a # c /\ g.hdr[a].is_free)
                                /\ h[a].user_size = g.hdr[a].user_size
  <2> DEFINE d == g.hdr[c]
             e == [d EXCEPT !.is_free = FALSE]
  <2>1. g.hdr \in [Group!Addrs -> Group!Header] /\ d \in Group!Header
    BY TypedFields DEF Typed
  <2>2. /\ e \in Group!Header
        /\ e.size = d.size /\ e.next = d.next /\ e.prev = d.prev /\ e.is_free = FALSE /\ e.user_size = d.user_size
    <3> HIDE DEF d
    <3> QED BY <2>1, Constants DEF Group!Header
  <2>3. h = [g.hdr EXCEPT ![c] = e]
    BY <2>1
  <2> HIDE DEF e, h
  <2>4. /\ h \in [Group!Addrs -> Group!Header]
        /\ \A a \in Group!Addrs : h[a] = IF a = c THEN e ELSE g.hdr[a]
    BY <2>1, <2>2, <2>3, WriteHeader
  <2>5. \A a \in Group!Addrs : g.hdr[a].is_free \in BOOLEAN
    BY TypedFields
  <2> QED BY <2>2, <2>4, <2>5
<1>3. g.free_list \in Seq(Group!Addrs)
  BY TypedFields
<1>4. i \in 1..Len(g.free_list) /\ g.free_list[i] = c
  <2>1. \E j \in DOMAIN g.free_list : g.free_list[j] = c
    BY DEF Elements
  <2>2. i \in DOMAIN g.free_list /\ g.free_list[i] = c
    BY <2>1
  <2>3. DOMAIN g.free_list = 1..Len(g.free_list)
    BY <1>3
  <2> QED BY <2>2, <2>3
<1> HIDE DEF i
<1>5. s \in Seq(Group!Addrs) /\ Distinct(s) /\ Elements(s) = Elements(g.free_list) \ {c}
  BY <1>3, <1>4, WithoutIndex
<1> HIDE DEF h, s
<1>6. r.hdr = h /\ r.free_list = s /\ SameCounters(g, r) /\ Typed(r)
  BY <1>1, <1>2, <1>5 DEF Typed, SameCounters
<1> HIDE DEF r
<1> QED BY <1>2, <1>5, <1>6 DEF IsRemove, SameRing, r

LEMMA RemoveKeeps ==
  ASSUME NEW g, NEW r, NEW c, Sound(g), c \in FreeBlocks(g), IsRemove(g, r, c)
  PROVE  /\ Sound(r) /\ BlocksOf(r) = BlocksOf(g)
         /\ FreeBlocks(r) = FreeBlocks(g) \ {c} /\ ~r.hdr[c].is_free
         /\ SameUse(g, r, BlocksOf(g) \ {c})
<1>1. BlocksOf(r) = BlocksOf(g) /\ Tiles(r) /\ RingBack(r) /\ Aligned(r) /\ Typed(r)
  BY SameRingKeeps DEF Sound, IsRemove
<1>2. FreeBlocks(r) = FreeBlocks(g) \ {c} /\ ~r.hdr[c].is_free
  BY <1>1 DEF FreeBlocks, BlocksOf, IsRemove
<1>3. Distinct(r.free_list) /\ Elements(r.free_list) = FreeBlocks(g) \ {c}
  BY DEF IsRemove, Sound, ListExact
<1>4. SameUse(g, r, BlocksOf(g) \ {c})
  BY TypedFields DEF SameUse, IsRemove, SameRing, BlocksOf, Sound
<1> QED BY <1>1, <1>2, <1>3, <1>4 DEF Sound, ListExact

-----------------------------------------------------------------------------
(* Split: a block is cut in two.                                           *)

HeaderTable == [Group!Addrs -> Group!Header]

\* h is f but for one field of the header at c, written with v.
PrevWritten(f, h, c, v) ==
  /\ h \in HeaderTable
  /\ \A a \in Group!Addrs :
        /\ h[a].size = f[a].size /\ h[a].next = f[a].next
        /\ h[a].prev = IF a = c THEN v ELSE f[a].prev
        /\ h[a].is_free = f[a].is_free /\ h[a].user_size = f[a].user_size

NextWritten(f, h, c, v) ==
  /\ h \in HeaderTable
  /\ \A a \in Group!Addrs :
        /\ h[a].size = f[a].size /\ h[a].prev = f[a].prev
        /\ h[a].next = IF a = c THEN v ELSE f[a].next
        /\ h[a].is_free = f[a].is_free /\ h[a].user_size = f[a].user_size

LEMMA WritePrev ==
  ASSUME NEW f \in HeaderTable, NEW c \in Group!Addrs, NEW v \in Group!Addrs,
         NEW h, h = [f EXCEPT ![c].prev = v]
  PROVE  PrevWritten(f, h, c, v)
<1> DEFINE d == f[c]
           e == [d EXCEPT !.prev = v]
<1>1. d \in Group!Header
  BY DEF HeaderTable
<1>2. /\ e \in Group!Header /\ e.prev = v
      /\ e.size = d.size /\ e.next = d.next /\ e.is_free = d.is_free /\ e.user_size = d.user_size
  <2> HIDE DEF d
  <2> QED BY <1>1 DEF Group!Header
<1>3. h = [f EXCEPT ![c] = e]
  BY DEF HeaderTable
<1> HIDE DEF e
<1>4. h \in HeaderTable /\ \A a \in Group!Addrs : h[a] = IF a = c THEN e ELSE f[a]
  BY <1>2, <1>3, WriteHeader DEF HeaderTable
<1> QED BY <1>2, <1>4 DEF PrevWritten

LEMMA WriteNext ==
  ASSUME NEW f \in HeaderTable, NEW c \in Group!Addrs, NEW v \in Group!Addrs,
         NEW h, h = [f EXCEPT ![c].next = v]
  PROVE  NextWritten(f, h, c, v)
<1> DEFINE d == f[c]
           e == [d EXCEPT !.next = v]
<1>1. d \in Group!Header
  BY DEF HeaderTable
<1>2. /\ e \in Group!Header /\ e.next = v
      /\ e.size = d.size /\ e.prev = d.prev /\ e.is_free = d.is_free /\ e.user_size = d.user_size
  <2> HIDE DEF d
  <2> QED BY <1>1 DEF Group!Header
<1>3. h = [f EXCEPT ![c] = e]
  BY DEF HeaderTable
<1> HIDE DEF e
<1>4. h \in HeaderTable /\ \A a \in Group!Addrs : h[a] = IF a = c THEN e ELSE f[a]
  BY <1>2, <1>3, WriteHeader DEF HeaderTable
<1> QED BY <1>2, <1>4 DEF NextWritten

LEMMA SizedHeader ==
  ASSUME NEW d \in Group!Header, NEW v \in 0..TOTAL
  PROVE  LET e == [d EXCEPT !.size = v]
         IN  /\ e \in Group!Header /\ e.size = v /\ e.next = d.next /\ e.prev = d.prev
             /\ e.is_free = d.is_free /\ e.user_size = d.user_size
BY DEF Group!Header

\* q is g with the block cur cut at nb; nb is not in the free list yet.
IsCut(g, q, cur, nb, req) ==
  /\ Typed(q) /\ SameCounters(g, q) /\ q.free_list = g.free_list
  /\ \A a \in Group!Addrs :
        /\ q.hdr[a].size = IF a = nb THEN g.hdr[cur].size - req - GROUP_HEADER
                           ELSE IF a = cur THEN req ELSE g.hdr[a].size
        /\ q.hdr[a].next = IF a = nb THEN g.hdr[cur].next
                           ELSE IF a = cur THEN nb ELSE g.hdr[a].next
        /\ q.hdr[a].prev = IF a = nb THEN cur
                           ELSE IF a = g.hdr[cur].next THEN nb ELSE g.hdr[a].prev
        /\ q.hdr[a].is_free = (a = nb \/ g.hdr[a].is_free)
        /\ a # nb => q.hdr[a].user_size = g.hdr[a].user_size

\* What group_malloc has checked when it splits a block.
Splittable(g, cur, req) ==
  /\ cur \in BlocksOf(g) /\ req \in Nat /\ req > 0 /\ Multiple(req)
  /\ g.hdr[cur].size - req > GROUP_HEADER + GROUP_MIN_BLOCK

LEMMA CutPlace ==
  ASSUME NEW g, Sound(g), NEW cur, NEW req, Splittable(g, cur, req),
         NEW nb, nb = cur + GROUP_HEADER + req
  PROVE  /\ nb \in Group!Addrs /\ nb \notin BlocksOf(g) /\ g.hdr[cur].next # nb
         /\ cur \in Group!Addrs /\ cur < nb /\ nb < EndOf(g, cur)
         /\ LET rest == g.hdr[cur].size - req - GROUP_HEADER
            IN  /\ rest \in 1..TOTAL /\ Multiple(rest)
                /\ Group!ALIGN_UP(rest) = rest
<1> DEFINE s == g.hdr[cur].size
           rest == s - req - GROUP_HEADER
<1>1. cur \in BlocksOf(g) /\ cur \in Group!Addrs /\ cur \in Nat /\ s \in 0..TOTAL /\ s \in Nat
  <2>1. cur \in BlocksOf(g) /\ cur \in Group!Addrs /\ cur \in Nat
    BY AddrsAreNat DEF Splittable, BlocksOf
  <2>2. s \in 0..TOTAL
    BY <2>1, TypedFields DEF Sound
  <2> HIDE DEF s
  <2> QED BY <2>1, <2>2, Constants
<1>2. EndOf(g, cur) = cur + GROUP_HEADER + s /\ EndOf(g, cur) <= TOTAL
  BY <1>1 DEF Sound, Tiles, EndOf
<1>3. s - req > GROUP_HEADER + GROUP_MIN_BLOCK /\ req \in Nat /\ req > 0
  BY DEF Splittable
<1>4. nb \in Nat /\ cur < nb /\ nb < EndOf(g, cur) /\ nb < TOTAL /\ rest \in 1..TOTAL
  <2> HIDE DEF s
  <2> QED BY <1>1, <1>2, <1>3, Constants
<1>5. nb \in Group!Addrs
  BY <1>4, AddrsAreNat
<1>6. nb \notin BlocksOf(g)
  BY <1>1, <1>4 DEF Sound, Tiles
<1>7. g.hdr[cur].next \in BlocksOf(g)
  BY <1>1 DEF Sound, Tiles
<1>8. Multiple(rest)
  <2>1. Multiple(s) /\ Multiple(req) /\ Multiple(GROUP_HEADER)
    BY <1>1, MultipleConstants DEF Sound, Aligned, Splittable
  <2> HIDE DEF s
  <2>2. Multiple(s - req) /\ s - req \in Nat /\ GROUP_HEADER < s - req
    BY <1>1, <1>3, <2>1, Constants, MultipleDifference
  <2> QED BY <2>1, <2>2, Constants, MultipleDifference
<1>9. Group!ALIGN_UP(rest) = rest
  <2> HIDE DEF rest
  <2>1. rest \in Nat
    BY <1>4, Constants
  <2> QED BY <2>1, <1>8, AlignMultiple
<1> QED BY <1>1, <1>4, <1>5, <1>6, <1>7, <1>8, <1>9

LEMMA SplitFields ==
  ASSUME NEW g, Sound(g), NEW cur, NEW req, Splittable(g, cur, req),
         NEW nb, nb = cur + GROUP_HEADER + req
  PROVE  \E q : IsCut(g, q, cur, nb, req) /\ IsInsert(q, Group!Split(g, cur, req), nb)
<1> DEFINE after == g.hdr[cur].next
           rest == g.hdr[cur].size - req - GROUP_HEADER
           header == [size |-> rest, user_size |-> 0, is_free |-> TRUE, next |-> after, prev |-> cur]
           h1 == [g.hdr EXCEPT ![nb] = header]
           h2 == [h1 EXCEPT ![after].prev = nb]
           h3 == [h2 EXCEPT ![cur].next = nb]
           h4 == [h3 EXCEPT ![cur].size = req]
           q == [g EXCEPT !.hdr = h4]
<1>1. /\ nb \in Group!Addrs /\ cur \in Group!Addrs /\ after # nb /\ cur # nb
      /\ rest \in 0..TOTAL /\ Group!ALIGN_UP(rest) = rest
  <2>1. cur < nb /\ rest \in 1..TOTAL /\ cur \in Int
    BY CutPlace, AddrsAreNat
  <2>2. cur # nb /\ rest \in 0..TOTAL
    <3> HIDE DEF rest
    <3> QED BY <2>1
  <2> QED BY <2>2, CutPlace
<1>2. after \in Group!Addrs /\ g.hdr \in HeaderTable /\ req \in 0..TOTAL
  <2>1. g.hdr[cur].size \in 0..TOTAL /\ g.hdr[cur].size - req > GROUP_HEADER + GROUP_MIN_BLOCK /\ req \in Nat
    BY <1>1, TypedFields DEF Sound, Splittable
  <2>2. req \in 0..TOTAL
    BY <2>1, Constants
  <2> QED BY <1>1, <2>2, TypedFields DEF Sound, Typed, HeaderTable
<1>3. /\ h1 \in HeaderTable
      /\ \A a \in Group!Addrs : h1[a] = IF a = nb THEN header ELSE g.hdr[a]
  <2>0. 0 \in 0..TOTAL
    BY Constants
  <2>1. header \in Group!Header
    <3> HIDE DEF rest, after
    <3> QED BY <1>1, <1>2, <2>0 DEF Group!Header
  <2> HIDE DEF header
  <2> QED BY <1>1, <1>2, <2>1, WriteHeader DEF HeaderTable
<1>4. /\ header.size = rest /\ header.user_size = 0 /\ header.is_free = TRUE
      /\ header.next = after /\ header.prev = cur
  OBVIOUS
<1> HIDE DEF h1, header, rest, after
<1>5. /\ h2 \in HeaderTable
      /\ \A a \in Group!Addrs :
            /\ h2[a].size = h1[a].size /\ h2[a].next = h1[a].next
            /\ h2[a].prev = IF a = after THEN nb ELSE h1[a].prev
            /\ h2[a].is_free = h1[a].is_free /\ h2[a].user_size = h1[a].user_size
  <2>1. after \in Group!Addrs /\ nb \in Group!Addrs /\ h1 \in HeaderTable
    BY <1>1, <1>2, <1>3
  <2>2. h2 = [h1 EXCEPT ![after].prev = nb]
    OBVIOUS
  <2> HIDE DEF h2
  <2>3. PrevWritten(h1, h2, after, nb)
    BY <2>1, <2>2, WritePrev
  <2> QED BY <2>3 DEF PrevWritten
<1> HIDE DEF h2
<1>6. /\ h3 \in HeaderTable
      /\ \A a \in Group!Addrs :
            /\ h3[a].size = h2[a].size /\ h3[a].prev = h2[a].prev
            /\ h3[a].next = IF a = cur THEN nb ELSE h2[a].next
            /\ h3[a].is_free = h2[a].is_free /\ h3[a].user_size = h2[a].user_size
  <2>1. cur \in Group!Addrs /\ nb \in Group!Addrs /\ h2 \in HeaderTable
    BY <1>1, <1>5
  <2>2. h3 = [h2 EXCEPT ![cur].next = nb]
    OBVIOUS
  <2> HIDE DEF h3
  <2>3. NextWritten(h2, h3, cur, nb)
    BY <2>1, <2>2, WriteNext
  <2> QED BY <2>3 DEF NextWritten
<1> HIDE DEF h3
<1>7. /\ h4 \in HeaderTable
      /\ \A a \in Group!Addrs :
            /\ h4[a].next = h3[a].next /\ h4[a].prev = h3[a].prev
            /\ h4[a].size = IF a = cur THEN req ELSE h3[a].size
            /\ h4[a].is_free = h3[a].is_free /\ h4[a].user_size = h3[a].user_size
  <2>1. cur \in Group!Addrs /\ req \in 0..TOTAL
    BY <1>1, <1>2
  <2> DEFINE d == h3[cur]
             e == [d EXCEPT !.size = req]
  <2>2. h4 = [h3 EXCEPT ![cur] = e]
    BY <1>6, Zenon DEF HeaderTable
  <2>3. h3 \in HeaderTable /\ d \in Group!Header
    BY <1>6, <2>1 DEF HeaderTable
  <2> HIDE DEF h4
  <2>4. /\ e \in Group!Header /\ e.size = req /\ e.next = d.next /\ e.prev = d.prev
        /\ e.is_free = d.is_free /\ e.user_size = d.user_size
    <3> HIDE DEF d
    <3> QED BY <2>1, <2>3, SizedHeader
  <2> HIDE DEF e
  <2>5. h4 \in HeaderTable /\ \A a \in Group!Addrs : h4[a] = IF a = cur THEN e ELSE h3[a]
    BY <2>1, <2>2, <2>3, <2>4, WriteHeader DEF HeaderTable
  <2> QED BY <2>4, <2>5
<1>8. Group!Split(g, cur, req) = Group!insert_into_free_list(q, nb)
  BY <1>1 DEF Group!Split, h1, h2, h3, header, rest, after
<1> HIDE DEF h4
<1>9. q.hdr = h4 /\ q.free_list = g.free_list /\ SameCounters(g, q) /\ Typed(q)
  BY <1>7 DEF Sound, Typed, SameCounters, HeaderTable
<1> HIDE DEF q
<1>10. \A a \in Group!Addrs :
        /\ q.hdr[a].size = IF a = nb THEN rest ELSE IF a = cur THEN req ELSE g.hdr[a].size
        /\ q.hdr[a].next = IF a = nb THEN after ELSE IF a = cur THEN nb ELSE g.hdr[a].next
        /\ q.hdr[a].prev = IF a = nb THEN cur ELSE IF a = after THEN nb ELSE g.hdr[a].prev
  BY <1>1, <1>3, <1>4, <1>5, <1>6, <1>7, <1>9
<1>11. \A a \in Group!Addrs :
        /\ q.hdr[a].is_free = (a = nb \/ g.hdr[a].is_free)
        /\ a # nb => q.hdr[a].user_size = g.hdr[a].user_size
  <2>1. \A a \in Group!Addrs : g.hdr[a].is_free \in BOOLEAN
    BY TypedFields DEF Sound
  <2> SUFFICES ASSUME NEW a \in Group!Addrs
               PROVE  /\ q.hdr[a].is_free = (a = nb \/ g.hdr[a].is_free)
                      /\ a # nb => q.hdr[a].user_size = g.hdr[a].user_size
    OBVIOUS
  <2>2. q.hdr[a].is_free = h1[a].is_free /\ q.hdr[a].user_size = h1[a].user_size
    BY <1>5, <1>6, <1>7, <1>9
  <2>3. CASE a = nb
    BY <1>3, <1>4, <2>2, <2>3
  <2>4. CASE a # nb
    <3>1. h1[a] = g.hdr[a]
      BY <1>3, <2>4
    <3> QED BY <2>1, <2>2, <2>4, <3>1
  <2> QED BY <2>3, <2>4
<1>12. IsCut(g, q, cur, nb, req)
  BY <1>9, <1>10, <1>11 DEF IsCut, rest, after
<1>13. IsInsert(q, Group!insert_into_free_list(q, nb), nb)
  BY <1>1, <1>9, InsertFields
<1> QED BY <1>8, <1>12, <1>13

\* What a split does to the blocks.
LEMMA CutKeeps ==
  ASSUME NEW g, Sound(g), NEW cur, NEW req, Splittable(g, cur, req),
         NEW nb, nb = cur + GROUP_HEADER + req, NEW q, IsCut(g, q, cur, nb, req)
  PROVE  /\ BlocksOf(q) = BlocksOf(g) \cup {nb} /\ FreeBlocks(q) = FreeBlocks(g) \cup {nb}
         /\ Typed(q) /\ Tiles(q) /\ RingBack(q) /\ Aligned(q)
<1> DEFINE B == BlocksOf(g)
           after == g.hdr[cur].next
           rest == g.hdr[cur].size - req - GROUP_HEADER
<1>0. /\ nb \in Group!Addrs /\ nb \notin B /\ after # nb
      /\ cur \in Group!Addrs /\ cur < nb /\ nb < EndOf(g, cur)
      /\ rest > 0 /\ Multiple(rest) /\ cur \in B /\ req > 0 /\ req \in Nat /\ Multiple(req)
  <2>1. rest \in 1..TOTAL
    BY CutPlace
  <2>2. rest > 0
    <3> HIDE DEF rest
    <3> QED BY <2>1
  <2> QED BY <2>2, CutPlace DEF Splittable
<1>1. /\ B \subseteq Group!Addrs /\ \A a \in Group!Addrs : a \in Int
      /\ GROUP_HEADER \in Nat /\ GROUP_HEADER > 0 /\ TOTAL \in Nat
      /\ \A a \in Group!Addrs : g.hdr[a].size \in Nat
  <2>1. \A a \in Group!Addrs : g.hdr[a].size \in 0..TOTAL
    BY TypedFields DEF Sound
  <2> QED BY <2>1, Constants, AddrsAreNat DEF BlocksOf
<1>2. /\ 0 \in B
      /\ \A c \in B : /\ EndOf(g, c) <= TOTAL
                      /\ g.hdr[c].next = IF EndOf(g, c) = TOTAL THEN 0 ELSE EndOf(g, c)
                      /\ g.hdr[c].next \in B /\ g.hdr[g.hdr[c].next].prev = c
                      /\ \A d \in B : ~(c < d /\ d < EndOf(g, c))
                      /\ g.hdr[c].prev \in B /\ g.hdr[g.hdr[c].prev].next = c
                      /\ Multiple(g.hdr[c].size)
  BY DEF Sound, Tiles, RingBack, Aligned
<1>3. \A a \in Group!Addrs :
        /\ q.hdr[a].size = IF a = nb THEN rest ELSE IF a = cur THEN req ELSE g.hdr[a].size
        /\ q.hdr[a].next = IF a = nb THEN after ELSE IF a = cur THEN nb ELSE g.hdr[a].next
        /\ q.hdr[a].prev = IF a = nb THEN cur ELSE IF a = after THEN nb ELSE g.hdr[a].prev
        /\ q.hdr[a].is_free = (a = nb \/ g.hdr[a].is_free)
  BY DEF IsCut
<1>4. BlocksOf(q) = B \cup {nb}
  <2>1. \A a \in Group!Addrs : q.hdr[a].size > 0 <=> (a = nb \/ g.hdr[a].size > 0)
    <3> SUFFICES ASSUME NEW a \in Group!Addrs
                 PROVE  q.hdr[a].size > 0 <=> (a = nb \/ g.hdr[a].size > 0)
      OBVIOUS
    <3>1. g.hdr[cur].size > 0
      BY <1>0 DEF BlocksOf
    <3> HIDE DEF rest, B, after
    <3> QED BY <1>0, <1>3, <3>1
  <2> QED BY <1>0, <2>1 DEF BlocksOf
<1>5. FreeBlocks(q) = FreeBlocks(g) \cup {nb}
  BY <1>0, <1>1, <1>3, <1>4 DEF FreeBlocks
<1>6. /\ EndOf(q, cur) = nb /\ EndOf(q, nb) = EndOf(g, cur)
      /\ \A c \in B \ {cur} : EndOf(q, c) = EndOf(g, c)
  <2>1. EndOf(q, cur) = nb
    <3>1. q.hdr[cur].size = req
      BY <1>0, <1>1, <1>3
    <3> QED BY <3>1, <1>0, <1>1 DEF EndOf
  <2>2. EndOf(q, nb) = EndOf(g, cur)
    <3>1. q.hdr[nb].size = g.hdr[cur].size - req - GROUP_HEADER
      BY <1>0, <1>3
    <3> QED BY <3>1, <1>0, <1>1 DEF EndOf
  <2>3. \A c \in B \ {cur} : EndOf(q, c) = EndOf(g, c)
    BY <1>0, <1>1, <1>3 DEF EndOf
  <2> QED BY <2>1, <2>2, <2>3
<1> HIDE DEF B, after, rest
<1>7. EndOf(g, cur) \in Int /\ \A c \in B : EndOf(g, c) \in Int
  BY <1>0, <1>1 DEF EndOf
<1>8. after \in B /\ after = (IF EndOf(g, cur) = TOTAL THEN 0 ELSE EndOf(g, cur))
  BY <1>0, <1>2 DEF after
<1>a. ASSUME NEW c \in B, c # cur
      PROVE  g.hdr[c].next # after /\ g.hdr[c].next # nb /\ (c # after => g.hdr[c].prev # cur)
  BY <1>a, <1>0, <1>2 DEF after
<1>9. Tiles(q)
  <2>1. ASSUME NEW c \in B \cup {nb}
        PROVE  /\ EndOf(q, c) <= TOTAL
               /\ q.hdr[c].next = IF EndOf(q, c) = TOTAL THEN 0 ELSE EndOf(q, c)
               /\ q.hdr[c].next \in B \cup {nb}
    <3>1. CASE c = nb
      BY <3>1, <1>0, <1>2, <1>3, <1>6, <1>8
    <3>2. CASE c = cur
      <4>1. nb # TOTAL /\ nb <= TOTAL
        BY <1>0, <1>1, <1>2, <1>7
      <4> QED BY <3>2, <4>1, <1>0, <1>3, <1>6
    <3>3. CASE c # nb /\ c # cur
      BY <3>3, <1>0, <1>1, <1>2, <1>3, <1>6
    <3> QED BY <3>1, <3>2, <3>3
  <2>2. ASSUME NEW c \in B \cup {nb}
        PROVE  q.hdr[q.hdr[c].next].prev = c
    <3>1. CASE c = nb
      BY <3>1, <1>0, <1>1, <1>3, <1>8
    <3>2. CASE c = cur
      BY <3>2, <1>0, <1>1, <1>3
    <3>3. CASE c # nb /\ c # cur
      <4>1. c \in B /\ q.hdr[c].next = g.hdr[c].next /\ g.hdr[c].next \in Group!Addrs
        BY <3>3, <1>1, <1>2, <1>3
      <4>2. q.hdr[g.hdr[c].next].prev = g.hdr[g.hdr[c].next].prev
        BY <3>3, <4>1, <1>a, <1>3
      <4> QED BY <4>1, <4>2, <1>2
    <3> QED BY <3>1, <3>2, <3>3
  <2>3. ASSUME NEW c \in B \cup {nb}, NEW d \in B \cup {nb}
        PROVE  ~(c < d /\ d < EndOf(q, c))
    <3>0. nb \in Int /\ cur \in Int /\ c \in Int /\ d \in Int
      BY <1>0, <1>1
    <3>1. CASE c = nb
      BY <3>0, <3>1, <1>0, <1>2, <1>6, <1>7
    <3>2. CASE c = cur
      BY <3>0, <3>2, <1>0, <1>2, <1>6, <1>7
    <3>3. CASE c # nb /\ c # cur /\ d # nb
      BY <3>3, <1>2, <1>6
    <3>4. CASE c # nb /\ c # cur /\ d = nb
      <4>1. c \in B /\ EndOf(q, c) = EndOf(g, c) /\ EndOf(g, c) \in Int /\ EndOf(g, cur) \in Int
        BY <3>4, <1>6, <1>7
      <4>2. ~(c < cur /\ cur < EndOf(g, c)) /\ ~(cur < c /\ c < EndOf(g, cur))
        BY <4>1, <1>0, <1>2
      <4>3. cur < nb /\ nb < EndOf(g, cur)
        BY <1>0
      <4> QED BY <3>0, <3>4, <4>1, <4>2, <4>3
    <3> QED BY <3>1, <3>2, <3>3, <3>4
  <2> QED BY <1>2, <1>4, <2>1, <2>2, <2>3 DEF Tiles
<1>10. RingBack(q)
  <2> SUFFICES ASSUME NEW c \in B \cup {nb}
               PROVE  q.hdr[c].prev \in B \cup {nb} /\ q.hdr[q.hdr[c].prev].next = c
    BY <1>4 DEF RingBack
  <2>1. CASE c = nb
    BY <2>1, <1>0, <1>3
  <2>2. CASE c = after
    BY <2>2, <1>0, <1>1, <1>3, <1>8
  <2>3. CASE c # nb /\ c # after
    <3>1. c \in B /\ q.hdr[c].prev = g.hdr[c].prev /\ g.hdr[c].prev \in B
      BY <2>3, <1>1, <1>2, <1>3
    <3>2. g.hdr[c].prev # cur /\ g.hdr[c].prev # nb
      BY <2>3, <3>1, <1>0, <1>2 DEF after
    <3> QED BY <3>1, <3>2, <1>1, <1>2, <1>3
  <2> QED BY <2>1, <2>2, <2>3
<1>11. Aligned(q)
  BY <1>0, <1>1, <1>2, <1>3, <1>4 DEF Aligned
<1> QED BY <1>4, <1>5, <1>9, <1>10, <1>11 DEF IsCut, B

\* What a split does to the blocks, the free list and the rest.
SplitEffect(g, r, cur, req, nb) ==
  /\ Sound(r) /\ SameCounters(g, r)
  /\ BlocksOf(r) = BlocksOf(g) \cup {nb} /\ FreeBlocks(r) = FreeBlocks(g) \cup {nb}
  /\ nb \notin BlocksOf(g) /\ r.hdr[cur].size = req
  /\ SameUse(g, r, BlocksOf(g) \ {cur})
  /\ r.hdr[nb].next = g.hdr[cur].next
  /\ \A c \in BlocksOf(g) \ {cur} : r.hdr[c].next = g.hdr[c].next

LEMMA SplitKeeps ==
  ASSUME NEW g, Sound(g), NEW cur, NEW req, Splittable(g, cur, req),
         NEW nb, nb = cur + GROUP_HEADER + req,
         NEW q, IsCut(g, q, cur, nb, req), NEW r, IsInsert(q, r, nb)
  PROVE  SplitEffect(g, r, cur, req, nb)
<1>0. /\ nb \in Group!Addrs /\ nb \notin BlocksOf(g) /\ cur # nb
      /\ cur \in Group!Addrs /\ cur \in BlocksOf(g) /\ BlocksOf(g) \subseteq Group!Addrs
  <2>1. cur < nb /\ cur \in Int
    BY CutPlace, AddrsAreNat
  <2>2. cur # nb
    BY <2>1
  <2> QED BY <2>2, CutPlace DEF BlocksOf, Splittable
<1>1. /\ BlocksOf(q) = BlocksOf(g) \cup {nb} /\ FreeBlocks(q) = FreeBlocks(g) \cup {nb}
      /\ Typed(q) /\ Tiles(q) /\ RingBack(q) /\ Aligned(q)
  BY CutKeeps
<1>2. BlocksOf(r) = BlocksOf(q) /\ Tiles(r) /\ RingBack(r) /\ Aligned(r)
  BY <1>1, SameRingKeeps DEF IsInsert
<1>3. FreeBlocks(r) = FreeBlocks(g) \cup {nb}
  <2>1. \A a \in BlocksOf(q) : r.hdr[a].is_free <=> (a = nb \/ q.hdr[a].is_free)
    BY <1>1 DEF BlocksOf, IsInsert
  <2> QED BY <1>1, <1>2, <2>1 DEF FreeBlocks
<1>4. ListExact(r)
  <2>1. nb \notin Elements(g.free_list) /\ Distinct(g.free_list) /\ Elements(g.free_list) = FreeBlocks(g)
    BY <1>0 DEF Sound, ListExact, FreeBlocks
  <2>2. r.free_list = <<nb>> \o g.free_list /\ g.free_list \in Seq(Group!Addrs)
    BY TypedFields DEF IsInsert, IsCut, Sound
  <2> QED BY <1>0, <1>3, <2>1, <2>2, Prepended DEF ListExact
<1>5. Sound(r) /\ SameCounters(g, r)
  BY <1>2, <1>4 DEF Sound, SameCounters, IsInsert, IsCut
<1>6. \A a \in Group!Addrs : /\ r.hdr[a].size = q.hdr[a].size /\ r.hdr[a].next = q.hdr[a].next
                             /\ a # nb => /\ r.hdr[a].user_size = q.hdr[a].user_size
                                          /\ q.hdr[a].user_size = g.hdr[a].user_size
  BY DEF IsInsert, SameRing, IsCut
<1>7. \A a \in BlocksOf(g) : /\ a # cur => r.hdr[a].size = g.hdr[a].size /\ r.hdr[a].next = g.hdr[a].next
                             /\ a = cur => r.hdr[a].size = req
  BY <1>0, <1>6 DEF IsCut
<1>8. r.hdr[nb].next = g.hdr[cur].next
  BY <1>0, <1>6 DEF IsCut
<1>9. \A a \in BlocksOf(g) : r.hdr[a].is_free = g.hdr[a].is_free
  <2> SUFFICES ASSUME NEW a \in BlocksOf(g) PROVE r.hdr[a].is_free = g.hdr[a].is_free
    OBVIOUS
  <2>1. a \in Group!Addrs /\ a # nb /\ g.hdr[a].is_free \in BOOLEAN
    BY <1>0, TypedFields DEF Sound
  <2>2. q.hdr[a].is_free = (a = nb \/ g.hdr[a].is_free)
    BY <2>1 DEF IsCut
  <2>3. r.hdr[a].is_free = (a = nb \/ q.hdr[a].is_free)
    BY <2>1 DEF IsInsert
  <2> QED BY <2>1, <2>2, <2>3
<1>10. SameUse(g, r, BlocksOf(g) \ {cur})
  BY <1>0, <1>6, <1>7, <1>9 DEF SameUse
<1> QED BY <1>0, <1>1, <1>2, <1>3, <1>5, <1>7, <1>8, <1>10 DEF SplitEffect

-----------------------------------------------------------------------------
(* Absorb: a block takes in the next one.                                  *)

\* r is g with the block n gone and its bytes in a.
IsAbsorb(g, r, a, n) ==
  /\ Typed(r) /\ SameCounters(g, r) /\ r.free_list = g.free_list
  /\ \A c \in Group!Addrs :
        /\ r.hdr[c].size = IF c = n THEN 0
                           ELSE IF c = a THEN g.hdr[a].size + GROUP_HEADER + g.hdr[n].size
                           ELSE g.hdr[c].size
        /\ c # n => /\ r.hdr[c].next = IF c = a THEN g.hdr[n].next ELSE g.hdr[c].next
                    /\ r.hdr[c].prev = IF c = g.hdr[n].next THEN a ELSE g.hdr[c].prev
                    /\ r.hdr[c].is_free = g.hdr[c].is_free
                    /\ r.hdr[c].user_size = g.hdr[c].user_size

\* Two blocks in a row, neither at the end of the ring.
Adjacent(g, a, n) == a \in BlocksOf(g) /\ n = g.hdr[a].next /\ n # 0

LEMMA AdjacentPlace ==
  ASSUME NEW g, Typed(g), Tiles(g), NEW a, NEW n, Adjacent(g, a, n)
  PROVE  /\ a \in Group!Addrs /\ n \in BlocksOf(g) /\ n \in Group!Addrs
         /\ n = EndOf(g, a) /\ a < n /\ g.hdr[n].next # n /\ g.hdr[n].next \in BlocksOf(g)
         /\ g.hdr[a].size + GROUP_HEADER + g.hdr[n].size \in 1..TOTAL
<1>1. a \in BlocksOf(g) /\ n = g.hdr[a].next /\ n # 0 /\ n \in BlocksOf(g)
  BY DEF Adjacent, Tiles
<1>2. /\ a \in Group!Addrs /\ n \in Group!Addrs /\ a \in Nat /\ n \in Nat
      /\ g.hdr[a].size \in 0..TOTAL /\ g.hdr[n].size \in 0..TOTAL
  <2>1. a \in Group!Addrs /\ n \in Group!Addrs
    BY <1>1 DEF BlocksOf
  <2> QED BY <2>1, TypedFields, AddrsAreNat
<1>3. n = EndOf(g, a) /\ EndOf(g, n) <= TOTAL /\ g.hdr[n].next \in BlocksOf(g)
      /\ (g.hdr[n].next = 0 \/ g.hdr[n].next = EndOf(g, n))
  BY <1>1 DEF Tiles
<1>4. a < n /\ n < EndOf(g, n) /\ g.hdr[a].size + GROUP_HEADER + g.hdr[n].size \in 1..TOTAL
  BY <1>2, <1>3, Constants DEF EndOf
<1> QED BY <1>1, <1>2, <1>3, <1>4

LEMMA AbsorbFields ==
  ASSUME NEW g, Typed(g), Tiles(g), NEW a, NEW n, Adjacent(g, a, n)
  PROVE  IsAbsorb(g, Group!Absorb(g, a, n), a, n)
<1> DEFINE after == g.hdr[n].next
           grown == g.hdr[a].size + GROUP_HEADER + g.hdr[n].size
           d == g.hdr[a]
           e == [d EXCEPT !.size = grown]
           h1 == [g.hdr EXCEPT ![a] = e]
           h2 == [h1 EXCEPT ![a].next = after]
           h3 == [h2 EXCEPT ![after].prev = a]
           h4 == [h3 EXCEPT ![n] = Group!NoHeader]
           r == [g EXCEPT !.hdr = h4]
<1>1. /\ a \in Group!Addrs /\ n \in Group!Addrs /\ after \in Group!Addrs
      /\ g.hdr \in HeaderTable /\ d \in Group!Header
  BY AdjacentPlace, TypedFields DEF Typed, HeaderTable, BlocksOf
<1>2. grown \in 0..TOTAL /\ a # n /\ after # n
  <2>1. grown \in 1..TOTAL /\ a < n /\ a \in Int /\ after # n
    BY AdjacentPlace, AddrsAreNat
  <2> HIDE DEF grown, after
  <2> QED BY <2>1
<1>3. Group!Absorb(g, a, n) = r
  <2>1. h1 = [g.hdr EXCEPT ![a].size = grown]
    BY <1>1, Zenon DEF HeaderTable
  <2> HIDE DEF e
  <2>2. Group!Absorb(g, a, n)
        = [g EXCEPT !.hdr = [[[[g.hdr EXCEPT ![a].size = grown] EXCEPT ![a].next = after]
                                      EXCEPT ![after].prev = a] EXCEPT ![n] = Group!NoHeader]]
    BY Zenon DEF Group!Absorb
  <2> QED BY <2>1, <2>2, Zenon
<1>4. /\ e \in Group!Header /\ e.size = grown /\ e.next = d.next /\ e.prev = d.prev
      /\ e.is_free = d.is_free /\ e.user_size = d.user_size
  <2> HIDE DEF d, grown
  <2> QED BY <1>1, <1>2, SizedHeader
<1> HIDE DEF e, grown, after
<1>5. h1 \in HeaderTable /\ \A c \in Group!Addrs : h1[c] = IF c = a THEN e ELSE g.hdr[c]
  BY <1>1, <1>4, WriteHeader DEF HeaderTable
<1> HIDE DEF h1
<1>6. /\ h2 \in HeaderTable
      /\ \A c \in Group!Addrs :
            /\ h2[c].size = h1[c].size /\ h2[c].prev = h1[c].prev
            /\ h2[c].next = IF c = a THEN after ELSE h1[c].next
            /\ h2[c].is_free = h1[c].is_free /\ h2[c].user_size = h1[c].user_size
  <2>1. a \in Group!Addrs /\ after \in Group!Addrs /\ h1 \in HeaderTable
    BY <1>1, <1>5
  <2>2. h2 = [h1 EXCEPT ![a].next = after]
    OBVIOUS
  <2> HIDE DEF h2
  <2>3. NextWritten(h1, h2, a, after)
    BY <2>1, <2>2, WriteNext
  <2> QED BY <2>3 DEF NextWritten
<1> HIDE DEF h2
<1>7. /\ h3 \in HeaderTable
      /\ \A c \in Group!Addrs :
            /\ h3[c].size = h2[c].size /\ h3[c].next = h2[c].next
            /\ h3[c].prev = IF c = after THEN a ELSE h2[c].prev
            /\ h3[c].is_free = h2[c].is_free /\ h3[c].user_size = h2[c].user_size
  <2>1. after \in Group!Addrs /\ a \in Group!Addrs /\ h2 \in HeaderTable
    BY <1>1, <1>6
  <2>2. h3 = [h2 EXCEPT ![after].prev = a]
    OBVIOUS
  <2> HIDE DEF h3
  <2>3. PrevWritten(h2, h3, after, a)
    BY <2>1, <2>2, WritePrev
  <2> QED BY <2>3 DEF PrevWritten
<1> HIDE DEF h3
<1>8. /\ h4 \in HeaderTable
      /\ \A c \in Group!Addrs : h4[c] = IF c = n THEN Group!NoHeader ELSE h3[c]
      /\ Group!NoHeader.size = 0
  <2>1. 0 \in 0..TOTAL /\ 0 \in Group!Addrs
    BY Constants DEF Tiles, BlocksOf
  <2>2. Group!NoHeader \in Group!Header /\ Group!NoHeader.size = 0
    BY <2>1 DEF Group!NoHeader, Group!Header
  <2> QED BY <1>1, <1>7, <2>2, WriteHeader DEF HeaderTable
<1> HIDE DEF h4
<1>9. r.hdr = h4 /\ r.free_list = g.free_list /\ SameCounters(g, r) /\ Typed(r)
  BY <1>8 DEF Typed, SameCounters, HeaderTable
<1> HIDE DEF r
<1>10. ASSUME NEW c \in Group!Addrs
       PROVE  /\ r.hdr[c].size = IF c = n THEN 0 ELSE IF c = a THEN grown ELSE g.hdr[c].size
              /\ c # n => /\ r.hdr[c].next = IF c = a THEN after ELSE g.hdr[c].next
                          /\ r.hdr[c].prev = IF c = after THEN a ELSE g.hdr[c].prev
                          /\ r.hdr[c].is_free = g.hdr[c].is_free
                          /\ r.hdr[c].user_size = g.hdr[c].user_size
  BY <1>2, <1>4, <1>5, <1>6, <1>7, <1>8, <1>9
<1> QED BY <1>3, <1>9, <1>10 DEF IsAbsorb, after, grown

\* What becomes of the blocks when a takes in n.
AbsorbEffect(g, r, a, n) ==
  /\ Sound(r) /\ BlocksOf(r) = BlocksOf(g) \ {n} /\ FreeBlocks(r) = FreeBlocks(g)
  /\ SameUse(g, r, BlocksOf(g) \ {a, n}) /\ r.hdr[a].is_free = g.hdr[a].is_free
  /\ r.hdr[a].next = g.hdr[n].next
  /\ r.hdr[a].user_size = g.hdr[a].user_size
  /\ \A c \in BlocksOf(g) \ {a, n} : r.hdr[c].next = g.hdr[c].next
  /\ g.hdr[a].prev # n => r.hdr[a].prev = g.hdr[a].prev

LEMMA AbsorbKeeps ==
  ASSUME NEW g, Sound(g), NEW a, NEW n, Adjacent(g, a, n), ~g.hdr[n].is_free,
         NEW r, IsAbsorb(g, r, a, n)
  PROVE  AbsorbEffect(g, r, a, n)
<1> DEFINE B == BlocksOf(g)
           after == g.hdr[n].next
           grown == g.hdr[a].size + GROUP_HEADER + g.hdr[n].size
<1>0. /\ a \in Group!Addrs /\ n \in Group!Addrs /\ a \in B /\ n \in B /\ n = EndOf(g, a)
      /\ a < n /\ after # n /\ after \in B /\ n = g.hdr[a].next /\ n # 0
  BY AdjacentPlace DEF Sound, Adjacent
<1>1. /\ B \subseteq Group!Addrs /\ \A c \in Group!Addrs : c \in Int
      /\ GROUP_HEADER \in Nat /\ GROUP_HEADER > 0 /\ TOTAL \in Nat
      /\ \A c \in Group!Addrs : g.hdr[c].size \in Nat
  <2>1. \A c \in Group!Addrs : g.hdr[c].size \in 0..TOTAL
    BY TypedFields DEF Sound
  <2> QED BY <2>1, Constants, AddrsAreNat DEF BlocksOf
<1>2. /\ 0 \in B
      /\ \A c \in B : /\ EndOf(g, c) <= TOTAL
                      /\ g.hdr[c].next = IF EndOf(g, c) = TOTAL THEN 0 ELSE EndOf(g, c)
                      /\ g.hdr[c].next \in B /\ g.hdr[g.hdr[c].next].prev = c
                      /\ \A d \in B : ~(c < d /\ d < EndOf(g, c))
                      /\ g.hdr[c].prev \in B /\ g.hdr[g.hdr[c].prev].next = c
                      /\ Multiple(g.hdr[c].size)
  BY DEF Sound, Tiles, RingBack, Aligned
<1>3. \A c \in Group!Addrs :
        /\ r.hdr[c].size = IF c = n THEN 0 ELSE IF c = a THEN grown ELSE g.hdr[c].size
        /\ c # n => /\ r.hdr[c].next = IF c = a THEN after ELSE g.hdr[c].next
                    /\ r.hdr[c].prev = IF c = after THEN a ELSE g.hdr[c].prev
                    /\ r.hdr[c].is_free = g.hdr[c].is_free
                    /\ r.hdr[c].user_size = g.hdr[c].user_size
  BY DEF IsAbsorb
<1>4. grown > 0 /\ Multiple(grown)
  <2>1. /\ g.hdr[a].size \in Nat /\ g.hdr[n].size \in Nat
        /\ Multiple(g.hdr[a].size) /\ Multiple(g.hdr[n].size) /\ Multiple(GROUP_HEADER)
    BY <1>0, <1>1, <1>2, MultipleConstants
  <2>2. Multiple(g.hdr[a].size + GROUP_HEADER) /\ g.hdr[a].size + GROUP_HEADER \in Nat
    BY <2>1, <1>1, MultipleSum
  <2>3. Multiple(grown)
    BY <2>1, <2>2, MultipleSum
  <2>4. grown > 0
    BY <2>1, <1>1
  <2> QED BY <2>3, <2>4
<1>5. EndOf(g, n) = a + GROUP_HEADER + grown
  BY <1>0, <1>1 DEF EndOf
<1> HIDE DEF grown
<1>6. BlocksOf(r) = B \ {n}
  <2>1. \A c \in Group!Addrs : r.hdr[c].size > 0 <=> (c # n /\ g.hdr[c].size > 0)
    <3> SUFFICES ASSUME NEW c \in Group!Addrs
                 PROVE  r.hdr[c].size > 0 <=> (c # n /\ g.hdr[c].size > 0)
      OBVIOUS
    <3>1. g.hdr[a].size > 0
      BY <1>0 DEF BlocksOf
    <3> HIDE DEF B, after
    <3> QED BY <1>0, <1>3, <1>4, <3>1
  <2> QED BY <1>0, <2>1 DEF BlocksOf
<1>7. FreeBlocks(r) = FreeBlocks(g)
  BY <1>0, <1>1, <1>3, <1>6 DEF FreeBlocks
<1>8. EndOf(r, a) = EndOf(g, n) /\ \A c \in B \ {a, n} : EndOf(r, c) = EndOf(g, c)
  <2>1. r.hdr[a].size = grown
    BY <1>0, <1>1, <1>3
  <2>2. \A c \in B \ {a, n} : EndOf(r, c) = EndOf(g, c)
    BY <1>1, <1>3 DEF EndOf
  <2> QED BY <1>5, <2>1, <2>2 DEF EndOf
<1>9. \A c \in B : EndOf(g, c) \in Int
  BY <1>1 DEF EndOf
<1> HIDE DEF B, after
<1>10. after = (IF EndOf(g, n) = TOTAL THEN 0 ELSE EndOf(g, n)) /\ EndOf(g, n) <= TOTAL
       /\ g.hdr[after].prev = n
  BY <1>0, <1>2 DEF after
<1>11. \A c \in B \ {a, n} : g.hdr[c].next # n /\ g.hdr[c].next # after
  BY <1>0, <1>2, <1>10
<1>a. a # n
  <2>1. a \in Int
    BY <1>0, <1>1
  <2> QED BY <1>0, <2>1
<1>12. Tiles(r)
  <2>1. ASSUME NEW c \in B \ {n}
        PROVE  /\ EndOf(r, c) <= TOTAL
               /\ r.hdr[c].next = IF EndOf(r, c) = TOTAL THEN 0 ELSE EndOf(r, c)
               /\ r.hdr[c].next \in B \ {n}
               /\ r.hdr[r.hdr[c].next].prev = c
    <3>1. CASE c = a
      <4>1. r.hdr[a].next = after /\ r.hdr[after].prev = a
        BY <1>0, <1>1, <1>3, <1>a
      <4> QED BY <3>1, <4>1, <1>0, <1>8, <1>10
    <3>2. CASE c # a
      <4>1. r.hdr[c].next = g.hdr[c].next /\ g.hdr[c].next \in B \ {n} /\ g.hdr[c].next # after
        BY <3>2, <1>1, <1>2, <1>3, <1>11
      <4>2. r.hdr[g.hdr[c].next].prev = g.hdr[g.hdr[c].next].prev
        BY <4>1, <1>1, <1>3
      <4>3. EndOf(r, c) = EndOf(g, c)
        BY <3>2, <1>8
      <4> QED BY <4>1, <4>2, <4>3, <1>2
    <3> QED BY <3>1, <3>2
  <2>2. ASSUME NEW c \in B \ {n}, NEW d \in B \ {n}
        PROVE  ~(c < d /\ d < EndOf(r, c))
    <3>1. CASE c = a
      <4>1. ~(a < d /\ d < n) /\ ~(n < d /\ d < EndOf(g, n)) /\ d # n
        BY <1>0, <1>2
      <4>2. a \in Int /\ d \in Int /\ n \in Int /\ EndOf(g, n) \in Int
        BY <1>0, <1>1, <1>9
      <4> QED BY <3>1, <4>1, <4>2, <1>8
    <3>2. CASE c # a
      BY <3>2, <1>2, <1>8
    <3> QED BY <3>1, <3>2
  <2>3. 0 \in B \ {n}
    BY <1>0, <1>2
  <2> QED BY <1>6, <2>1, <2>2, <2>3 DEF Tiles
<1>13. RingBack(r)
  <2> SUFFICES ASSUME NEW c \in B \ {n}
               PROVE  r.hdr[c].prev \in B \ {n} /\ r.hdr[r.hdr[c].prev].next = c
    BY <1>6 DEF RingBack
  <2>1. CASE c = after
    BY <2>1, <1>0, <1>1, <1>3, <1>a
  <2>2. CASE c # after
    <3>1. r.hdr[c].prev = g.hdr[c].prev /\ g.hdr[c].prev \in B /\ g.hdr[g.hdr[c].prev].next = c
      BY <2>2, <1>1, <1>2, <1>3
    <3>2. g.hdr[c].prev # n /\ g.hdr[c].prev # a
      BY <2>2, <3>1, <1>0 DEF after
    <3> QED BY <3>1, <3>2, <1>1, <1>3
  <2> QED BY <2>1, <2>2
<1>14. Aligned(r)
  BY <1>0, <1>1, <1>2, <1>3, <1>4, <1>6 DEF Aligned
<1>15. ListExact(r)
  BY <1>7 DEF ListExact, Sound, IsAbsorb
<1>16. Sound(r)
  BY <1>12, <1>13, <1>14, <1>15 DEF Sound, IsAbsorb
<1>17. SameUse(g, r, B \ {a, n}) /\ r.hdr[a].is_free = g.hdr[a].is_free
  BY <1>0, <1>1, <1>3, <1>a DEF SameUse
<1>18. /\ r.hdr[a].next = g.hdr[n].next /\ r.hdr[a].user_size = g.hdr[a].user_size
       /\ \A c \in B \ {a, n} : r.hdr[c].next = g.hdr[c].next
  BY <1>0, <1>1, <1>3, <1>a DEF after
<1>19. g.hdr[a].prev # n => r.hdr[a].prev = g.hdr[a].prev
  <2>1. after = a => g.hdr[a].prev = n
    BY <1>10
  <2> QED BY <2>1, <1>0, <1>1, <1>3, <1>a
<1> QED BY <1>6, <1>7, <1>16, <1>17, <1>18, <1>19 DEF B, AbsorbEffect

-----------------------------------------------------------------------------
(* group_malloc.                                                           *)

UsedBlocks(g) == BlocksOf(g) \ FreeBlocks(g)

\* Group!Coalesced, of any record of the globals.
Merged(g) == \A c \in FreeBlocks(g) : g.hdr[c].next = 0 \/ g.hdr[c].next \notin FreeBlocks(g)

\* The first block is given out before any other and never comes back.
FirstUsed(g) == 0 \in FreeBlocks(g) => BlocksOf(g) = {0}

\* r is g with the request written in the block c.
IsStamp(g, r, c, size) ==
  /\ Typed(r) /\ SameRing(g, r) /\ r.free_list = g.free_list
  /\ r.current_blocks = g.current_blocks + 1 /\ r.outstanding = g.outstanding + size
  /\ \A a \in Group!Addrs : /\ r.hdr[a].is_free = g.hdr[a].is_free
                            /\ r.hdr[a].user_size = IF a = c THEN size ELSE g.hdr[a].user_size

Stamp(g, c, size) == [g EXCEPT !.hdr[c].user_size = size,
                               !.outstanding      = @ + size,
                               !.current_blocks   = @ + 1]

LEMMA StampFields ==
  ASSUME NEW g, Typed(g), NEW c \in Group!Addrs, NEW size \in 0..TOTAL
  PROVE  IsStamp(g, Stamp(g, c, size), c, size)
<1> DEFINE r == Stamp(g, c, size)
           d == g.hdr[c]
           e == [d EXCEPT !.user_size = size]
           h == [g.hdr EXCEPT ![c] = e]
<1>1. g.hdr \in HeaderTable /\ d \in Group!Header /\ g.outstanding \in Int /\ g.current_blocks \in Int
  BY DEF Typed, HeaderTable
<1>2. /\ e \in Group!Header /\ e.user_size = size /\ e.size = d.size
      /\ e.next = d.next /\ e.prev = d.prev /\ e.is_free = d.is_free
  <2> HIDE DEF d
  <2> QED BY <1>1 DEF Group!Header
<1>3. h = [g.hdr EXCEPT ![c].user_size = size]
  BY <1>1, Zenon DEF HeaderTable
<1> HIDE DEF e
<1>4. h \in HeaderTable /\ \A a \in Group!Addrs : h[a] = IF a = c THEN e ELSE g.hdr[a]
  BY <1>1, <1>2, WriteHeader DEF HeaderTable
<1>5. r = [g EXCEPT !.hdr = h, !.outstanding = g.outstanding + size,
                    !.current_blocks = g.current_blocks + 1]
  <2>1. r = [g EXCEPT !.hdr = [g.hdr EXCEPT ![c].user_size = size],
                      !.outstanding = g.outstanding + size,
                      !.current_blocks = g.current_blocks + 1]
    <3> HIDE DEF h
    <3> QED BY DEF Stamp, Typed
  <2> QED BY <2>1, <1>3, Zenon
<1> HIDE DEF h
<1>6. g.outstanding + size \in Int /\ g.current_blocks + 1 \in Int
  BY <1>1
<1>7. /\ r.hdr = h /\ r.free_list = g.free_list /\ Typed(r)
      /\ r.current_blocks = g.current_blocks + 1 /\ r.outstanding = g.outstanding + size
  BY <1>4, <1>5, <1>6 DEF Typed, HeaderTable
<1> HIDE DEF r
<1>8. \A a \in Group!Addrs : /\ r.hdr[a].is_free = g.hdr[a].is_free
                             /\ r.hdr[a].user_size = IF a = c THEN size ELSE g.hdr[a].user_size
  BY <1>2, <1>4, <1>7
<1>9. SameRing(g, r)
  BY <1>2, <1>4, <1>7 DEF SameRing
<1> QED BY <1>7, <1>8, <1>9 DEF IsStamp, r

LEMMA StampKeeps ==
  ASSUME NEW g, Sound(g), NEW c, NEW size, NEW r, IsStamp(g, r, c, size)
  PROVE  /\ Sound(r) /\ BlocksOf(r) = BlocksOf(g) /\ FreeBlocks(r) = FreeBlocks(g)
         /\ SameUse(g, r, BlocksOf(g) \ {c})
<1>1. BlocksOf(r) = BlocksOf(g) /\ Tiles(r) /\ RingBack(r) /\ Aligned(r) /\ Typed(r)
  BY SameRingKeeps DEF Sound, IsStamp
<1>2. BlocksOf(g) \subseteq Group!Addrs
  BY DEF BlocksOf
<1>3. FreeBlocks(r) = FreeBlocks(g)
  BY <1>1, <1>2 DEF FreeBlocks, IsStamp
<1>4. SameUse(g, r, BlocksOf(g) \ {c})
  BY <1>2 DEF SameUse, IsStamp, SameRing
<1> QED BY <1>1, <1>3, <1>4 DEF Sound, ListExact, IsStamp

LEMMA ChosenFits ==
  ASSUME NEW g, Sound(g), NEW size \in Nat, Group!CanMalloc(g, size)
  PROVE  /\ Group!Chosen(g, size) \in FreeBlocks(g)
         /\ g.hdr[Group!Chosen(g, size)].size >= Group!ALIGN_UP(size)
<1> DEFINE F == Group!Fits(g, Group!ALIGN_UP(size))
<1>1. F # {}
  BY DEF Group!CanMalloc
<1>2. F \subseteq Nat /\ F \subseteq DOMAIN g.free_list
  <2>1. DOMAIN g.free_list \subseteq Nat
    BY TypedFields DEF Sound
  <2> QED BY <2>1 DEF Group!Fits
<1>3. Group!Min(F) \in F
  <2> HIDE DEF F
  <2> QED BY <1>1, <1>2, MinIsLeast
<1>4. Group!Chosen(g, size) = g.free_list[Group!Min(F)]
  BY DEF Group!Chosen
<1>5. g.free_list[Group!Min(F)] \in Elements(g.free_list)
  <2> HIDE DEF F
  <2> QED BY <1>2, <1>3 DEF Elements
<1>6. g.hdr[g.free_list[Group!Min(F)]].size >= Group!ALIGN_UP(size)
  BY <1>3 DEF Group!Fits
<1> QED BY <1>4, <1>5, <1>6 DEF Sound, ListExact

\* g with the block cur ready to be given out, split or not.  What is not split off
\* is no more than a header and a minimal block.
IsCarved(g, t, cur, req) ==
  /\ Sound(t) /\ SameCounters(g, t) /\ cur \in FreeBlocks(t) /\ t.hdr[cur].size >= req
  /\ t.hdr[cur].size <= req + GROUP_HEADER + GROUP_MIN_BLOCK
  /\ UsedBlocks(t) = UsedBlocks(g) /\ SameUse(g, t, UsedBlocks(g))
  /\ \A c \in FreeBlocks(t) \ {cur} :
        t.hdr[c].next = 0 \/ t.hdr[c].next \notin FreeBlocks(t) \ {cur}
  /\ 0 \in FreeBlocks(t) => cur = 0

Carve(g, cur, req) ==
  IF g.hdr[cur].size - req > GROUP_HEADER + GROUP_MIN_BLOCK
  THEN Group!Split(g, cur, req) ELSE g

LEMMA CarveFields ==
  ASSUME NEW g, Sound(g), Merged(g), FirstUsed(g),
         NEW cur \in FreeBlocks(g), NEW req \in Nat, req > 0, Multiple(req), g.hdr[cur].size >= req
  PROVE  IsCarved(g, Carve(g, cur, req), cur, req)
<1>1. 0 \in FreeBlocks(g) => cur = 0
  BY DEF FirstUsed, FreeBlocks
<1>2. CASE g.hdr[cur].size - req > GROUP_HEADER + GROUP_MIN_BLOCK
  <2> DEFINE r == Group!Split(g, cur, req)
             nb == cur + GROUP_HEADER + req
  <2>1. Splittable(g, cur, req)
    BY <1>2 DEF Splittable, FreeBlocks
  <2>2. PICK q : IsCut(g, q, cur, nb, req) /\ IsInsert(q, r, nb)
    BY <2>1, SplitFields
  <2>a. nb = cur + GROUP_HEADER + req
    OBVIOUS
  <2> HIDE DEF r, nb
  <2>3. /\ Sound(r) /\ SameCounters(g, r)
        /\ BlocksOf(r) = BlocksOf(g) \cup {nb} /\ FreeBlocks(r) = FreeBlocks(g) \cup {nb}
        /\ nb \notin BlocksOf(g) /\ r.hdr[cur].size = req
        /\ SameUse(g, r, BlocksOf(g) \ {cur})
        /\ r.hdr[nb].next = g.hdr[cur].next
        /\ \A c \in BlocksOf(g) \ {cur} : r.hdr[c].next = g.hdr[c].next
    <3>1. SplitEffect(g, r, cur, req, nb)
      BY <2>1, <2>2, <2>a, SplitKeeps
    <3> QED BY <3>1 DEF SplitEffect
  <2>4. FreeBlocks(g) \subseteq BlocksOf(g) /\ 0 \in BlocksOf(g)
    BY DEF FreeBlocks, Sound, Tiles
  <2>5. UsedBlocks(r) = UsedBlocks(g) /\ SameUse(g, r, UsedBlocks(g))
    BY <2>3, <2>4 DEF UsedBlocks, SameUse
  <2>6. ASSUME NEW c \in FreeBlocks(r) \ {cur}
        PROVE  r.hdr[c].next = 0 \/ r.hdr[c].next \notin FreeBlocks(r) \ {cur}
    <3>0. \A d \in BlocksOf(g) : g.hdr[d].next # nb
      BY <2>3 DEF Sound, Tiles
    <3>1. CASE c = nb
      BY <3>0, <3>1, <2>3, <2>4 DEF Merged
    <3>2. CASE c # nb
      BY <3>0, <3>2, <2>3, <2>4 DEF Merged
    <3> QED BY <3>1, <3>2
  <2>7. req >= req /\ req <= req + GROUP_HEADER + GROUP_MIN_BLOCK
    BY Constants
  <2>8. 0 \in FreeBlocks(r) => cur = 0
    BY <1>1, <2>3, <2>4
  <2>9. IsCarved(g, r, cur, req)
    BY <2>3, <2>5, <2>6, <2>7, <2>8 DEF IsCarved
  <2> QED BY <1>2, <2>9 DEF Carve, r
<1>3. CASE ~(g.hdr[cur].size - req > GROUP_HEADER + GROUP_MIN_BLOCK)
  <2>1. g.hdr[cur].size <= req + GROUP_HEADER + GROUP_MIN_BLOCK
    <3>1. g.hdr[cur].size \in 0..TOTAL
      BY TypedFields DEF Sound, FreeBlocks, BlocksOf
    <3> QED BY <1>3, <3>1, Constants
  <2>2. IsCarved(g, g, cur, req)
    BY <1>1, <2>1 DEF IsCarved, SameCounters, SameUse, Merged
  <2> QED BY <1>3, <2>2 DEF Carve
<1> QED BY <1>2, <1>3

\* What an allocation does to the heap: the block cur, free before, is in use.
IsGiven(g, r, cur, size) ==
  /\ Sound(r) /\ Merged(r) /\ 0 \notin FreeBlocks(r)
  /\ UsedBlocks(r) = UsedBlocks(g) \cup {cur} /\ cur \in FreeBlocks(g) /\ cur \in Group!Addrs
  /\ SameUse(g, r, UsedBlocks(g))
  /\ r.hdr[cur].user_size = size /\ r.hdr[cur].size >= size
  /\ r.hdr[cur].size <= Group!ALIGN_UP(size) + GROUP_HEADER + GROUP_MIN_BLOCK
  /\ r.current_blocks = g.current_blocks + 1 /\ r.outstanding = g.outstanding + size

LEMMA MallocGives ==
  ASSUME NEW g, Sound(g), Merged(g), FirstUsed(g), NEW size \in Nat, Group!CanMalloc(g, size)
  PROVE  IsGiven(g, Group!group_malloc(g, size), Group!Chosen(g, size), size)
<1> DEFINE req == Group!ALIGN_UP(size)
           cur == Group!Chosen(g, size)
           t == Carve(g, cur, req)
           u == Group!remove_from_free_list(t, cur)
           r == Stamp(u, cur, size)
<1>1. Group!group_malloc(g, size) = r
  BY DEF Group!group_malloc, Stamp, Carve
<1>2. /\ req \in Nat /\ size <= req /\ req > 0 /\ Multiple(req)
      /\ cur \in FreeBlocks(g) /\ g.hdr[cur].size >= req
  <2>1. req \in Nat /\ size <= req /\ Multiple(req)
    BY AlignUp
  <2>2. size # 0
    BY DEF Group!CanMalloc
  <2>3. cur \in FreeBlocks(g) /\ g.hdr[cur].size >= req
    BY ChosenFits
  <2> HIDE DEF req, cur
  <2>4. req > 0
    BY <2>1, <2>2
  <2> QED BY <2>1, <2>3, <2>4
<1> HIDE DEF cur, req
<1>3. IsCarved(g, t, cur, req)
  BY <1>2, CarveFields
<1> HIDE DEF t
<1>4. /\ Sound(t) /\ cur \in FreeBlocks(t) /\ cur \in Group!Addrs /\ t.hdr[cur].is_free
      /\ Distinct(t.free_list) /\ cur \in Elements(t.free_list) /\ Typed(t)
  BY <1>3 DEF IsCarved, Sound, ListExact, FreeBlocks, BlocksOf
<1>5. IsRemove(t, u, cur)
  BY <1>4, RemoveFields
<1> HIDE DEF u
<1>6. /\ Sound(u) /\ BlocksOf(u) = BlocksOf(t) /\ FreeBlocks(u) = FreeBlocks(t) \ {cur}
      /\ SameUse(t, u, BlocksOf(t) \ {cur}) /\ ~u.hdr[cur].is_free
  BY <1>4, <1>5, RemoveKeeps
<1>7. size \in 0..TOTAL
  <2>1. t.hdr[cur].size \in 0..TOTAL /\ t.hdr[cur].size >= req
    BY <1>3, <1>4, TypedFields DEF IsCarved
  <2> QED BY <2>1, <1>2, Constants
<1>8. IsStamp(u, r, cur, size)
  BY <1>4, <1>6, <1>7, StampFields DEF Sound
<1> HIDE DEF r
<1>9. /\ Sound(r) /\ BlocksOf(r) = BlocksOf(t) /\ FreeBlocks(r) = FreeBlocks(t) \ {cur}
      /\ SameUse(u, r, BlocksOf(t) \ {cur})
  BY <1>6, <1>8, StampKeeps
<1>10. UsedBlocks(r) = UsedBlocks(g) \cup {cur} /\ cur \notin UsedBlocks(g)
  <2>1. UsedBlocks(t) = UsedBlocks(g) /\ cur \in BlocksOf(t)
    BY <1>3, <1>4 DEF IsCarved, FreeBlocks
  <2> QED BY <1>2, <1>9, <2>1 DEF UsedBlocks
<1>11. SameUse(g, r, UsedBlocks(g))
  <2>1. UsedBlocks(g) \subseteq BlocksOf(t) \ {cur} /\ SameUse(g, t, UsedBlocks(g))
    BY <1>3, <1>10 DEF IsCarved, UsedBlocks
  <2> QED BY <2>1, <1>6, <1>9 DEF SameUse
<1>12. \A a \in Group!Addrs : r.hdr[a].next = t.hdr[a].next /\ r.hdr[a].size = t.hdr[a].size
  BY <1>5, <1>8 DEF IsRemove, IsStamp, SameRing
<1>13. Merged(r)
  <2>1. FreeBlocks(t) \subseteq Group!Addrs
    BY DEF FreeBlocks, BlocksOf
  <2> QED BY <1>3, <1>9, <1>12, <2>1 DEF Merged, IsCarved
<1>14. 0 \notin FreeBlocks(r)
  BY <1>3, <1>9 DEF IsCarved
<1>15. r.hdr[cur].user_size = size /\ r.hdr[cur].size >= size
  <2>1. t.hdr[cur].size \in 0..TOTAL /\ t.hdr[cur].size >= req
    BY <1>3, <1>4, TypedFields DEF IsCarved
  <2>2. t.hdr[cur].size >= size
    BY <2>1, <1>2, Constants
  <2>3. r.hdr[cur].user_size = size
    BY <1>4, <1>8 DEF IsStamp
  <2> QED BY <1>4, <1>12, <2>2, <2>3
<1>16. r.current_blocks = g.current_blocks + 1 /\ r.outstanding = g.outstanding + size
  BY <1>3, <1>5, <1>8 DEF IsCarved, IsRemove, IsStamp, SameCounters
<1>17. r.hdr[cur].size <= req + GROUP_HEADER + GROUP_MIN_BLOCK
  BY <1>3, <1>4, <1>12 DEF IsCarved
<1>18. IsGiven(g, r, cur, size)
  BY <1>2, <1>4, <1>9, <1>10, <1>11, <1>13, <1>14, <1>15, <1>16, <1>17 DEF IsGiven, req
<1> QED BY <1>1, <1>18 DEF cur

-----------------------------------------------------------------------------
(* group_free.                                                             *)

\* g when the block c, in use, has taken in its next neighbour if that was free.
IsForward(g, f, c) ==
  /\ Sound(f) /\ SameCounters(g, f) /\ c \in UsedBlocks(f)
  /\ UsedBlocks(f) = UsedBlocks(g) /\ SameUse(g, f, UsedBlocks(g) \ {c})
  /\ Merged(f) /\ 0 \notin FreeBlocks(f)
  /\ f.hdr[c].next \notin FreeBlocks(f) /\ f.hdr[c].prev = g.hdr[c].prev

Forward(g, c) ==
  IF g.hdr[Group!NextOf(g, c)].is_free THEN Group!AbsorbNext(g, c) ELSE g

\* The two ends of a block in use.
LEMMA Neighbours ==
  ASSUME NEW g, Sound(g), NEW c \in BlocksOf(g)
  PROVE  /\ c \in Group!Addrs /\ BlocksOf(g) \subseteq Group!Addrs
         /\ FreeBlocks(g) \subseteq BlocksOf(g)
         /\ g.hdr[c].next \in BlocksOf(g) /\ g.hdr[c].prev \in BlocksOf(g)
         /\ g.hdr[g.hdr[c].next].prev = c /\ g.hdr[g.hdr[c].prev].next = c
         /\ \A d \in BlocksOf(g) : g.hdr[d].is_free <=> d \in FreeBlocks(g)
BY DEF Sound, Tiles, RingBack, BlocksOf, FreeBlocks

LEMMA ForwardFields ==
  ASSUME NEW g, Sound(g), Merged(g), 0 \notin FreeBlocks(g), NEW c \in UsedBlocks(g), c # 0
  PROVE  IsForward(g, Forward(g, c), c)
<1> DEFINE n == g.hdr[c].next
<1>0. /\ c \in BlocksOf(g) /\ c \notin FreeBlocks(g) /\ n \in BlocksOf(g) /\ g.hdr[n].prev = c
      /\ c \in Group!Addrs /\ n \in Group!Addrs /\ FreeBlocks(g) \subseteq BlocksOf(g)
      /\ (g.hdr[n].is_free <=> n \in FreeBlocks(g)) /\ Group!NextOf(g, c) = n
  BY Neighbours DEF UsedBlocks, Group!NextOf
<1>1. CASE n \notin FreeBlocks(g)
  <2>1. IsForward(g, g, c)
    BY <1>0, <1>1 DEF IsForward, SameCounters, SameUse
  <2> QED BY <1>0, <1>1, <2>1 DEF Forward
<1>2. CASE n \in FreeBlocks(g)
  <2> DEFINE t == Group!remove_from_free_list(g, n)
             f == Group!Absorb(t, c, n)
  <2>1. n # 0 /\ n # c
    BY <1>0, <1>2
  <2>2. IsRemove(g, t, n)
    BY <1>0, <1>2, RemoveFields DEF Sound, ListExact
  <2>3. Forward(g, c) = f
    BY <1>0, <1>2 DEF Forward, Group!AbsorbNext
  <2> HIDE DEF t, n
  <2>4. /\ Sound(t) /\ BlocksOf(t) = BlocksOf(g) /\ FreeBlocks(t) = FreeBlocks(g) \ {n}
        /\ SameUse(g, t, BlocksOf(g) \ {n}) /\ ~t.hdr[n].is_free
    BY <1>2, <2>2, RemoveKeeps
  <2>5. \A a \in Group!Addrs : /\ t.hdr[a].next = g.hdr[a].next /\ t.hdr[a].prev = g.hdr[a].prev
                               /\ t.hdr[a].size = g.hdr[a].size
    BY <2>2 DEF IsRemove, SameRing
  <2>6. Adjacent(t, c, n)
    BY <1>0, <2>1, <2>4, <2>5 DEF Adjacent, n
  <2>7. IsAbsorb(t, f, c, n)
    BY <2>4, <2>6, AbsorbFields DEF Sound
  <2> HIDE DEF f
  <2>8. /\ Sound(f) /\ BlocksOf(f) = BlocksOf(t) \ {n} /\ FreeBlocks(f) = FreeBlocks(t)
        /\ SameUse(t, f, BlocksOf(t) \ {c, n})
        /\ f.hdr[c].next = t.hdr[n].next
        /\ \A a \in BlocksOf(t) \ {c, n} : f.hdr[a].next = t.hdr[a].next
        /\ t.hdr[c].prev # n => f.hdr[c].prev = t.hdr[c].prev
    <3>1. AbsorbEffect(t, f, c, n)
      BY <2>4, <2>6, <2>7, AbsorbKeeps
    <3> QED BY <3>1 DEF AbsorbEffect
  <2>9. UsedBlocks(f) = UsedBlocks(g)
    BY <1>0, <1>2, <2>4, <2>8 DEF UsedBlocks
  <2>10. SameUse(g, f, UsedBlocks(g) \ {c})
    <3>1. UsedBlocks(g) \ {c} \subseteq BlocksOf(g) \ {c, n}
      BY <1>2 DEF UsedBlocks
    <3> QED BY <3>1, <2>4, <2>8 DEF SameUse
  <2>11. f.hdr[c].next \notin FreeBlocks(f)
    <3>1. f.hdr[c].next = g.hdr[n].next
      BY <1>0, <2>5, <2>8
    <3>2. g.hdr[n].next = 0 \/ g.hdr[n].next \notin FreeBlocks(g)
      BY <1>2 DEF Merged
    <3> QED BY <3>1, <3>2, <2>4, <2>8
  <2>12. Merged(f)
    <3> SUFFICES ASSUME NEW d \in FreeBlocks(f)
                 PROVE  f.hdr[d].next = 0 \/ f.hdr[d].next \notin FreeBlocks(f)
      BY DEF Merged
    <3>1. d \in FreeBlocks(g) /\ d # n /\ d # c /\ d \in BlocksOf(t) /\ d \in Group!Addrs
      BY <1>0, <2>4, <2>8 DEF FreeBlocks, BlocksOf
    <3>2. f.hdr[d].next = g.hdr[d].next
      BY <3>1, <2>5, <2>8
    <3> QED BY <3>1, <3>2, <2>4, <2>8 DEF Merged
  <2>13. f.hdr[c].prev = g.hdr[c].prev
    <3>1. g.hdr[c].prev # n
      <4>1. n = EndOf(g, c) /\ c < n /\ n \in BlocksOf(g)
        <5>1. Adjacent(g, c, n)
          BY <1>0, <2>1 DEF Adjacent, n
        <5> QED BY <5>1, AdjacentPlace DEF Sound
      <4>2. g.hdr[n].next = 0 \/ g.hdr[n].next = EndOf(g, n)
        BY <4>1 DEF Sound, Tiles
      <4>3. EndOf(g, n) > n
        <5>1. n \in Nat /\ g.hdr[n].size \in 0..TOTAL
          BY <1>0, AddrsAreNat, TypedFields DEF Sound
        <5> QED BY <5>1, Constants DEF EndOf
      <4>4. g.hdr[n].next # c
        <5>1. c \in Nat /\ n \in Nat
          BY <1>0, AddrsAreNat
        <5>2. EndOf(g, n) # c
          <6> SUFFICES ASSUME EndOf(g, n) = c PROVE FALSE
            OBVIOUS
          <6>1. c > n
            BY <4>3
          <6> QED BY <6>1, <4>1, <5>1
        <5> QED BY <4>2, <5>2
      <4> QED BY <4>4, <1>0, Neighbours
    <3> QED BY <3>1, <1>0, <2>5, <2>8
  <2>14. SameCounters(g, f) /\ 0 \notin FreeBlocks(f)
    BY <2>2, <2>4, <2>7, <2>8 DEF SameCounters, IsRemove, IsAbsorb
  <2>15. IsForward(g, f, c)
    BY <1>0, <2>8, <2>9, <2>10, <2>11, <2>12, <2>13, <2>14 DEF IsForward
  <2> QED BY <2>3, <2>15
<1> QED BY <1>1, <1>2

\* g when what is to be freed is in one block, a, still in use.
IsReady(g, w, c, a) ==
  /\ Sound(w) /\ SameCounters(g, w) /\ a \in BlocksOf(w) /\ ~w.hdr[a].is_free /\ a # 0
  /\ UsedBlocks(w) \ {a} = UsedBlocks(g) \ {c} /\ SameUse(g, w, UsedBlocks(g) \ {c})
  /\ Merged(w) /\ 0 \notin FreeBlocks(w)
  /\ w.hdr[a].next \notin FreeBlocks(w) /\ \A d \in FreeBlocks(w) : w.hdr[d].next # a

LEMMA BackwardFields ==
  ASSUME NEW g, NEW f, NEW c, IsForward(g, f, c), c # 0,
         NEW a, a = Group!PrevOf(f, c)
  PROVE  /\ f.hdr[a].is_free => IsReady(g, Group!AbsorbPrev(f, c), c, a)
         /\ ~f.hdr[a].is_free => IsReady(g, f, c, c)
<1>0. /\ Sound(f) /\ c \in BlocksOf(f) /\ c \notin FreeBlocks(f) /\ ~f.hdr[c].is_free /\ a = f.hdr[c].prev
      /\ a \in BlocksOf(f) /\ f.hdr[a].next = c /\ a \in Group!Addrs /\ c \in Group!Addrs
      /\ FreeBlocks(f) \subseteq BlocksOf(f) /\ f.hdr[c].next \in BlocksOf(f)
      /\ (f.hdr[a].is_free <=> a \in FreeBlocks(f))
      /\ \A d \in BlocksOf(f) : f.hdr[f.hdr[d].next].prev = d
  <2>1. Sound(f) /\ c \in BlocksOf(f) /\ c \notin FreeBlocks(f) /\ a = f.hdr[c].prev
    BY DEF IsForward, UsedBlocks, Group!PrevOf
  <2> QED BY <2>1, Neighbours
<1>f. /\ SameCounters(g, f) /\ UsedBlocks(f) = UsedBlocks(g) /\ SameUse(g, f, UsedBlocks(g) \ {c})
      /\ Merged(f) /\ 0 \notin FreeBlocks(f) /\ f.hdr[c].next \notin FreeBlocks(f)
  BY DEF IsForward
<1>1. CASE ~f.hdr[a].is_free
  <2>1. \A d \in FreeBlocks(f) : f.hdr[d].next # c
    BY <1>0, <1>1
  <2>2. UsedBlocks(f) \ {c} = UsedBlocks(g) \ {c}
    BY <1>f
  <2> QED BY <1>0, <1>f, <1>1, <2>1, <2>2 DEF IsReady
<1>2. CASE f.hdr[a].is_free
  <2> DEFINE t == Group!remove_from_free_list(f, a)
             w == Group!Absorb(t, a, c)
  <2>1. a \in FreeBlocks(f) /\ a # 0 /\ a # c
    BY <1>0, <1>f, <1>2
  <2>2. IsRemove(f, t, a)
    BY <1>0, <1>2, <2>1, RemoveFields DEF Sound, ListExact
  <2>3. Group!AbsorbPrev(f, c) = w
    BY <1>0 DEF Group!AbsorbPrev, Group!PrevOf
  <2> HIDE DEF t
  <2>4. /\ Sound(t) /\ BlocksOf(t) = BlocksOf(f) /\ FreeBlocks(t) = FreeBlocks(f) \ {a}
        /\ SameUse(f, t, BlocksOf(f) \ {a}) /\ ~t.hdr[a].is_free
    <3>1. Sound(f) /\ a \in FreeBlocks(f)
      BY <1>0, <2>1
    <3> QED BY <2>2, <3>1, RemoveKeeps, Zenon
  <2>5. \A d \in Group!Addrs : t.hdr[d].next = f.hdr[d].next
    BY <2>2 DEF IsRemove, SameRing
  <2>6. Adjacent(t, a, c) /\ ~t.hdr[c].is_free
    <3>1. ~t.hdr[c].is_free
      BY <1>0, <2>1, <2>4 DEF SameUse
    <3> QED BY <3>1, <1>0, <2>4, <2>5 DEF Adjacent
  <2>7. IsAbsorb(t, w, a, c)
    BY <2>4, <2>6, AbsorbFields DEF Sound
  <2> HIDE DEF w
  <2>8. AbsorbEffect(t, w, a, c)
    BY <2>4, <2>6, <2>7, AbsorbKeeps
  <2>9. /\ Sound(w) /\ BlocksOf(w) = BlocksOf(f) \ {c} /\ FreeBlocks(w) = FreeBlocks(f) \ {a}
        /\ SameUse(t, w, BlocksOf(f) \ {a, c}) /\ ~w.hdr[a].is_free
        /\ w.hdr[a].next = f.hdr[c].next
    BY <2>4, <2>5, <2>8, <1>0 DEF AbsorbEffect
  <2>10. \A d \in BlocksOf(f) \ {a, c} : w.hdr[d].next = f.hdr[d].next
    <3>1. BlocksOf(f) \subseteq Group!Addrs
      BY DEF BlocksOf
    <3> QED BY <3>1, <2>4, <2>5, <2>8 DEF AbsorbEffect
  <2>11. UsedBlocks(w) \ {a} = UsedBlocks(g) \ {c}
    <3>1. UsedBlocks(w) \ {a} = UsedBlocks(f) \ {c}
      BY <1>0, <2>1, <2>9 DEF UsedBlocks
    <3> QED BY <3>1, <1>f
  <2>12. SameUse(g, w, UsedBlocks(g) \ {c})
    <3>1. UsedBlocks(g) \ {c} \subseteq BlocksOf(f) \ {a, c}
      BY <1>f, <2>1 DEF UsedBlocks
    <3> QED BY <3>1, <1>f, <2>4, <2>9 DEF SameUse
  <2>13. ASSUME NEW d \in FreeBlocks(w)
         PROVE  /\ d \in FreeBlocks(f) /\ w.hdr[d].next = f.hdr[d].next
                /\ w.hdr[d].next # a
                /\ w.hdr[d].next = 0 \/ w.hdr[d].next \notin FreeBlocks(w)
    <3>1. d \in FreeBlocks(f) /\ d # a /\ d # c /\ d \in BlocksOf(f)
      BY <1>0, <2>9
    <3>2. w.hdr[d].next = f.hdr[d].next
      BY <3>1, <2>10
    <3>3. f.hdr[d].next = 0 \/ f.hdr[d].next \notin FreeBlocks(f)
      BY <3>1, <1>f DEF Merged
    <3> QED BY <3>1, <3>2, <3>3, <2>1, <2>9
  <2>14. Merged(w)
    BY <2>13 DEF Merged
  <2>15. w.hdr[a].next \notin FreeBlocks(w) /\ 0 \notin FreeBlocks(w)
    BY <1>f, <2>9
  <2>16. SameCounters(g, w)
    BY <1>f, <2>2, <2>7 DEF SameCounters, IsRemove, IsAbsorb
  <2>17. a \in BlocksOf(w)
    BY <1>0, <2>1, <2>9
  <2>18. IsReady(g, w, c, a)
    BY <2>1, <2>9, <2>11, <2>12, <2>13, <2>14, <2>15, <2>16, <2>17 DEF IsReady
  <2> QED BY <1>2, <2>3, <2>18
<1> QED BY <1>1, <1>2

\* What a free does to the heap: the block c is not in use any more.
IsGivenBack(g, r, c) ==
  /\ Sound(r) /\ Merged(r) /\ 0 \notin FreeBlocks(r)
  /\ UsedBlocks(r) = UsedBlocks(g) \ {c}
  /\ SameUse(g, r, UsedBlocks(g) \ {c})
  /\ r.current_blocks = g.current_blocks - 1
  /\ r.outstanding = g.outstanding - g.hdr[c].user_size

LEMMA FinishFields ==
  ASSUME NEW g, NEW w, NEW c, NEW a, IsReady(g, w, c, a),
         NEW size \in Int, size = g.hdr[c].user_size
  PROVE  IsGivenBack(g, Group!Finish(w, a, size), c)
<1> DEFINE u == Group!insert_into_free_list(w, a)
           r == [u EXCEPT !.current_blocks = @ - 1, !.outstanding = @ - size]
<1>0. /\ Sound(w) /\ SameCounters(g, w) /\ a \in BlocksOf(w) /\ ~w.hdr[a].is_free /\ a # 0
      /\ UsedBlocks(w) \ {a} = UsedBlocks(g) \ {c} /\ SameUse(g, w, UsedBlocks(g) \ {c})
      /\ Merged(w) /\ 0 \notin FreeBlocks(w) /\ w.hdr[a].next \notin FreeBlocks(w)
      /\ \A d \in FreeBlocks(w) : w.hdr[d].next # a
  BY DEF IsReady
<1>1. a \in Group!Addrs /\ Typed(w)
  BY <1>0 DEF BlocksOf, Sound
<1>2. IsInsert(w, u, a)
  BY <1>1, InsertFields
<1>3. Group!Finish(w, a, size) = r
  BY DEF Group!Finish
<1> HIDE DEF u
<1>4. /\ Sound(u) /\ BlocksOf(u) = BlocksOf(w) /\ FreeBlocks(u) = FreeBlocks(w) \cup {a}
      /\ SameUse(w, u, BlocksOf(w) \ {a})
  BY <1>0, <1>2, InsertKeeps
<1>5. /\ r.hdr = u.hdr /\ r.free_list = u.free_list /\ Typed(r)
      /\ r.current_blocks = u.current_blocks - 1 /\ r.outstanding = u.outstanding - size
  <2>1. u.current_blocks \in Int /\ u.outstanding \in Int
    BY <1>4, TypedFields DEF Sound
  <2>2. u.current_blocks - 1 \in Int /\ u.outstanding - size \in Int
    BY <2>1
  <2> QED BY <1>4, <2>2 DEF Sound, Typed
<1> HIDE DEF r
<1>6. Sound(r) /\ BlocksOf(r) = BlocksOf(w) /\ FreeBlocks(r) = FreeBlocks(w) \cup {a}
  <2>1. BlocksOf(r) = BlocksOf(u) /\ FreeBlocks(r) = FreeBlocks(u)
    BY <1>5 DEF BlocksOf, FreeBlocks
  <2>2. Tiles(r) /\ RingBack(r) /\ Aligned(r)
    BY <1>4, <1>5, <2>1 DEF Sound, Tiles, RingBack, Aligned, EndOf
  <2>3. ListExact(r)
    BY <1>4, <1>5, <2>1 DEF Sound, ListExact
  <2> QED BY <1>4, <1>5, <2>1, <2>2, <2>3 DEF Sound
<1>7. UsedBlocks(r) = UsedBlocks(g) \ {c}
  BY <1>0, <1>6 DEF UsedBlocks
<1>8. SameUse(g, r, UsedBlocks(g) \ {c})
  <2>1. UsedBlocks(g) \ {c} \subseteq BlocksOf(w) \ {a}
    BY <1>0 DEF UsedBlocks
  <2> QED BY <2>1, <1>0, <1>4, <1>5 DEF SameUse
<1>9. \A d \in BlocksOf(w) : r.hdr[d].next = w.hdr[d].next
  BY <1>2, <1>5 DEF IsInsert, SameRing, BlocksOf
<1>10. Merged(r)
  <2> SUFFICES ASSUME NEW d \in FreeBlocks(w) \cup {a}
               PROVE  r.hdr[d].next = 0 \/ r.hdr[d].next \notin FreeBlocks(w) \cup {a}
    BY <1>6 DEF Merged
  <2>1. CASE d = a
    <3>1. w.hdr[a].next # a \/ w.hdr[a].next = 0
      <4>1. w.hdr[a].next = 0 \/ w.hdr[a].next = EndOf(w, a)
        BY <1>0 DEF Sound, Tiles
      <4>2. EndOf(w, a) # a
        <5>1. a \in Nat /\ w.hdr[a].size \in 0..TOTAL
          BY <1>1, AddrsAreNat, TypedFields
        <5> QED BY <5>1, Constants DEF EndOf
      <4> QED BY <4>1, <4>2
    <3> QED BY <2>1, <3>1, <1>0, <1>9
  <2>2. CASE d \in FreeBlocks(w)
    <3>1. d \in BlocksOf(w)
      BY <2>2 DEF FreeBlocks
    <3> QED BY <2>2, <3>1, <1>0, <1>9 DEF Merged
  <2> QED BY <2>1, <2>2
<1>11. 0 \notin FreeBlocks(r)
  BY <1>0, <1>6
<1>12. r.current_blocks = g.current_blocks - 1 /\ r.outstanding = g.outstanding - g.hdr[c].user_size
  BY <1>0, <1>2, <1>5 DEF SameCounters, IsInsert
<1>13. IsGivenBack(g, r, c)
  BY <1>6, <1>7, <1>8, <1>10, <1>11, <1>12 DEF IsGivenBack
<1> QED BY <1>3, <1>13

LEMMA FreeGivesBack ==
  ASSUME NEW g, Sound(g), Merged(g), 0 \notin FreeBlocks(g),
         NEW c \in UsedBlocks(g), c # 0, g.hdr[c].user_size > 0,
         NEW p, p = c + GROUP_HEADER
  PROVE  IsGivenBack(g, Group!group_free(g, p), c)
<1> DEFINE f == Forward(g, c)
           a == Group!PrevOf(f, c)
           s == g.hdr[c].user_size
<1>1. c \in BlocksOf(g) /\ c \in Group!Addrs /\ ~g.hdr[c].is_free /\ c \in Nat
  BY AddrsAreNat DEF UsedBlocks, FreeBlocks, BlocksOf
<1>2. p - GROUP_HEADER = c /\ p >= GROUP_HEADER /\ p < TOTAL
  <2>1. EndOf(g, c) <= TOTAL /\ g.hdr[c].size > 0 /\ g.hdr[c].size \in 0..TOTAL
    BY <1>1, TypedFields DEF Sound, Tiles, BlocksOf
  <2> QED BY <1>1, <2>1, Constants DEF EndOf
<1>3. s \in Int /\ s > 0 /\ s = g.hdr[c].user_size
  <2>1. s \in 0..TOTAL
    BY <1>1, TypedFields DEF Sound
  <2> QED BY <2>1
<1>4. Group!Freeable(g, p)
  <2>1. s # 0
    BY <1>3
  <2> QED BY <1>1, <1>2, <2>1 DEF Group!Freeable
<1>5. Group!group_free(g, p) = IF f.hdr[a].is_free THEN Group!Finish(Group!AbsorbPrev(f, c), a, s)
                               ELSE Group!Finish(f, c, s)
  <2> HIDE DEF f, a, s
  <2>1. Group!group_free(g, p)
        = LET e == p - GROUP_HEADER
              forward == IF g.hdr[Group!NextOf(g, e)].is_free THEN Group!AbsorbNext(g, e) ELSE g
              before == Group!PrevOf(forward, e)
          IN  IF forward.hdr[before].is_free
              THEN Group!Finish(Group!AbsorbPrev(forward, e), before, g.hdr[e].user_size)
              ELSE Group!Finish(forward, e, g.hdr[e].user_size)
    BY <1>4, Zenon DEF Group!group_free
  <2> QED BY <1>2, <2>1, Zenon DEF Forward, f, a, s
<1>6. IsForward(g, f, c)
  BY ForwardFields
<1> HIDE DEF f, s
<1>7. /\ f.hdr[a].is_free => IsReady(g, Group!AbsorbPrev(f, c), c, a)
      /\ ~f.hdr[a].is_free => IsReady(g, f, c, c)
  BY <1>6, BackwardFields
<1> HIDE DEF a
<1>8. CASE f.hdr[a].is_free
  BY <1>3, <1>5, <1>7, <1>8, FinishFields
<1>9. CASE ~f.hdr[a].is_free
  BY <1>3, <1>5, <1>7, <1>9, FinishFields
<1> QED BY <1>8, <1>9

-----------------------------------------------------------------------------
(* The invariant.                                                          *)

\* The callers hold the blocks in use and nothing else, each for as many bytes as
\* its header says, and the block has them.
HeldExact(g, hd) ==
  /\ DOMAIN hd = {c + GROUP_HEADER : c \in UsedBlocks(g)}
  /\ \A c \in UsedBlocks(g) : /\ hd[c + GROUP_HEADER] = g.hdr[c].user_size
                              /\ g.hdr[c].user_size > 0
                              /\ g.hdr[c].user_size <= g.hdr[c].size

CountExact(g, hd) ==
  /\ IsFiniteSet(DOMAIN hd) /\ g.current_blocks = Cardinality(DOMAIN hd)
  /\ g.current_blocks <= MAX_BLOCKS

GroupSafe(g, hd) ==
  /\ Sound(g) /\ Merged(g) /\ FirstUsed(g)
  /\ HeldExact(g, hd) /\ CountExact(g, hd)

Inv ==
  /\ current_manager = "NULL" => held = [p \in {} |-> 0]
  /\ UsesGroup => GroupSafe(m, held)

LEMMA UsedIsNat ==
  ASSUME NEW g
  PROVE  \A c \in UsedBlocks(g) : c \in Nat /\ c \in Group!Addrs /\ c \in BlocksOf(g)
BY AddrsAreNat DEF UsedBlocks, BlocksOf

\* One block, of the whole heap.
LEMMA InitSound ==
  /\ Sound(Group!group_init) /\ Merged(Group!group_init) /\ FirstUsed(Group!group_init)
  /\ UsedBlocks(Group!group_init) = {}
  /\ Group!group_init.current_blocks = 0 /\ Group!group_init.outstanding = 0
<1> DEFINE whole == Group!ALIGN_UP(TOTAL - GROUP_HEADER)
           f == [a \in Group!Addrs |-> Group!NoHeader]
           d == f[0]
           e == [d EXCEPT !.size = whole]
           h == [f EXCEPT ![0] = e]
           q == [hdr |-> h, free_list |-> <<>>, current_blocks |-> 0, outstanding |-> 0]
           r == Group!insert_into_free_list(q, 0)
<1>1. /\ TOTAL \in Nat /\ GROUP_HEADER \in Nat /\ GROUP_HEADER > 0 /\ TOTAL > GROUP_HEADER
      /\ 0 \in Group!Addrs /\ 0 \in 0..TOTAL
  <2>1. Group!ALIGN_UP(FIRST) \in Nat /\ FIRST <= Group!ALIGN_UP(FIRST)
    BY Constants, AlignUp
  <2>2. TOTAL > GROUP_HEADER
    BY <2>1, Constants
  <2> QED BY <2>2, Constants, AddrsAreNat
<1>2. whole = TOTAL - GROUP_HEADER /\ Multiple(whole) /\ whole \in 0..TOTAL /\ whole > 0
  <2>1. Multiple(TOTAL - GROUP_HEADER) /\ TOTAL - GROUP_HEADER \in Nat
    BY <1>1, MultipleConstants, MultipleDifference
  <2>2. whole = TOTAL - GROUP_HEADER
    BY <2>1, AlignMultiple
  <2> QED BY <1>1, <2>1, <2>2
<1>3. /\ Group!NoHeader \in Group!Header /\ Group!NoHeader.size = 0 /\ Group!NoHeader.is_free = FALSE
      /\ Group!NoHeader.next = 0 /\ Group!NoHeader.prev = 0
  BY <1>1 DEF Group!NoHeader, Group!Header
<1>4. f \in HeaderTable /\ d = Group!NoHeader /\ \A a \in Group!Addrs : f[a] = Group!NoHeader
  BY <1>1, <1>3 DEF HeaderTable
<1>5. Group!group_init = r
  <2>1. Group!group_static = [hdr |-> f, free_list |-> <<>>, current_blocks |-> 0, outstanding |-> 0]
    BY DEF Group!group_static
  <2>2. [Group!group_static EXCEPT !.hdr[0].size = whole] = q
    <3> DEFINE k == [f EXCEPT ![0].size = whole]
    <3>1. k = h
      BY <1>1, <1>4, Zenon DEF HeaderTable
    <3>2. [Group!group_static EXCEPT !.hdr[0].size = whole]
          = [hdr |-> k, free_list |-> <<>>, current_blocks |-> 0, outstanding |-> 0]
      <4> HIDE DEF f, h, whole
      <4> QED BY <2>1
    <3> HIDE DEF k, h
    <3> QED BY <3>1, <3>2
  <2> HIDE DEF q
  <2> QED BY <2>2, Zenon DEF Group!group_init
<1>6. /\ e \in Group!Header /\ e.size = whole /\ e.next = 0 /\ e.prev = 0 /\ e.is_free = FALSE
  <2>1. d \in Group!Header /\ d.next = 0 /\ d.prev = 0 /\ d.is_free = FALSE
    BY <1>3, <1>4
  <2> HIDE DEF d, whole
  <2> QED BY <1>2, <2>1, SizedHeader
<1> HIDE DEF e, f, whole
<1>7. h \in HeaderTable /\ \A a \in Group!Addrs : h[a] = IF a = 0 THEN e ELSE f[a]
  BY <1>1, <1>4, <1>6, WriteHeader DEF HeaderTable
<1> HIDE DEF h
<1>8. q.hdr = h /\ q.free_list = <<>> /\ q.current_blocks = 0 /\ q.outstanding = 0 /\ Typed(q)
  BY <1>7 DEF Typed, HeaderTable
<1> HIDE DEF q
<1>9. BlocksOf(q) = {0} /\ FreeBlocks(q) = {}
  <2>1. \A a \in Group!Addrs : q.hdr[a].size = IF a = 0 THEN whole ELSE 0
    BY <1>3, <1>4, <1>6, <1>7, <1>8
  <2>2. ~q.hdr[0].is_free
    BY <1>1, <1>6, <1>7, <1>8
  <2>3. BlocksOf(q) = {0}
    BY <1>1, <1>2, <2>1 DEF BlocksOf
  <2> QED BY <2>2, <2>3 DEF FreeBlocks
<1>10. q.hdr[0].size = whole /\ q.hdr[0].next = 0 /\ q.hdr[0].prev = 0 /\ ~q.hdr[0].is_free
  BY <1>1, <1>6, <1>7, <1>8
<1>11. EndOf(q, 0) = TOTAL
  BY <1>1, <1>2, <1>10 DEF EndOf
<1>12. Sound(q)
  <2>1. Tiles(q)
    BY <1>1, <1>9, <1>10, <1>11 DEF Tiles
  <2>2. RingBack(q) /\ Aligned(q)
    BY <1>2, <1>9, <1>10 DEF RingBack, Aligned
  <2>3. ListExact(q)
    BY <1>8, <1>9 DEF ListExact, Distinct, Elements
  <2> QED BY <1>8, <2>1, <2>2, <2>3 DEF Sound
<1>13. IsInsert(q, r, 0)
  BY <1>1, <1>8, InsertFields
<1> HIDE DEF r
<1>14. Sound(r) /\ BlocksOf(r) = {0} /\ FreeBlocks(r) = {0}
  <2>1. PICK z : z = 0
    OBVIOUS
  <2>2. z \in BlocksOf(q) /\ ~q.hdr[z].is_free /\ IsInsert(q, r, z)
    BY <1>9, <1>10, <1>13, <2>1
  <2>3. Sound(r) /\ BlocksOf(r) = BlocksOf(q) /\ FreeBlocks(r) = FreeBlocks(q) \cup {z}
    BY <1>12, <2>2, InsertKeeps
  <2> QED BY <1>9, <2>1, <2>3
<1>15. r.hdr[0].next = 0 /\ r.current_blocks = 0 /\ r.outstanding = 0
  BY <1>1, <1>8, <1>10, <1>13 DEF IsInsert, SameRing, SameCounters
<1> QED BY <1>5, <1>14, <1>15 DEF Merged, FirstUsed, UsedBlocks

LEMMA InitSafe ==
  ASSUME NEW hd, hd = [p \in {} |-> 0]
  PROVE  GroupSafe(Group!group_init, hd)
<1>1. DOMAIN hd = {}
  OBVIOUS
<1>2. HeldExact(Group!group_init, hd)
  BY <1>1, InitSound DEF HeldExact
<1>3. CountExact(Group!group_init, hd)
  BY <1>1, InitSound, FS_EmptySet, Constants DEF CountExact
<1> QED BY <1>2, <1>3, InitSound DEF GroupSafe

\* A block, and what is in use in it, ends before the next one begins.
LEMMA UsedApart ==
  ASSUME NEW g, NEW hd, Sound(g), HeldExact(g, hd), NEW c \in UsedBlocks(g)
  PROVE  /\ c + GROUP_HEADER \in Nat /\ hd[c + GROUP_HEADER] \in Nat
         /\ c + GROUP_HEADER + hd[c + GROUP_HEADER] <= TOTAL
         /\ \A d \in UsedBlocks(g) :
               c < d => c + GROUP_HEADER + hd[c + GROUP_HEADER] <= d
<1>1. /\ c \in BlocksOf(g) /\ c \in Nat /\ c \in Group!Addrs
      /\ \A d \in UsedBlocks(g) : d \in BlocksOf(g) /\ d \in Nat
  BY UsedIsNat
<1>2. g.hdr[c].size \in 0..TOTAL /\ g.hdr[c].user_size \in 0..TOTAL
  BY <1>1, TypedFields DEF Sound
<1>3. hd[c + GROUP_HEADER] = g.hdr[c].user_size /\ g.hdr[c].user_size <= g.hdr[c].size
  BY DEF HeldExact
<1>4. EndOf(g, c) <= TOTAL /\ \A d \in BlocksOf(g) : ~(c < d /\ d < EndOf(g, c))
  BY <1>1 DEF Sound, Tiles
<1>5. EndOf(g, c) = c + GROUP_HEADER + g.hdr[c].size
  BY DEF EndOf
<1>6. c + GROUP_HEADER + g.hdr[c].user_size <= EndOf(g, c) /\ EndOf(g, c) \in Nat
      /\ c + GROUP_HEADER + g.hdr[c].user_size \in Nat
  BY <1>1, <1>2, <1>3, <1>5, Constants
<1>7. ASSUME NEW d \in UsedBlocks(g), c < d
      PROVE  c + GROUP_HEADER + g.hdr[c].user_size <= d
  BY <1>1, <1>4, <1>6, <1>7
<1>8. c + GROUP_HEADER + g.hdr[c].user_size <= TOTAL
  BY <1>4, <1>6, Constants
<1> QED BY <1>1, <1>2, <1>3, <1>7, <1>8, Constants

LEMMA GivenSafe ==
  ASSUME GroupSafe(m, held), NEW size \in Nat,
         m' = Group!group_malloc(m, size), held' = Group!Given(size)
  PROVE  GroupSafe(m', held')
<1>1. CASE ~Group!CanMalloc(m, size)
  <2>1. m' = m
    BY <1>1 DEF Group!group_malloc
  <2>2. held' = held
    BY <1>1 DEF Group!Given
  <2> QED BY <2>1, <2>2
<1>2. CASE Group!CanMalloc(m, size)
  <2> DEFINE cur == Group!Chosen(m, size)
             p == cur + GROUP_HEADER
  <2>1. IsGiven(m, m', cur, size)
    BY <1>2, MallocGives DEF GroupSafe
  <2>2. held' = [q \in DOMAIN held \cup {p} |-> IF q = p THEN size ELSE held[q]]
    BY <1>2 DEF Group!Given
  <2>3. size > 0 /\ m.current_blocks < MAX_BLOCKS
    BY <1>2 DEF Group!CanMalloc
  <2> HIDE DEF cur
  <2>4. /\ Sound(m') /\ Merged(m') /\ 0 \notin FreeBlocks(m')
        /\ UsedBlocks(m') = UsedBlocks(m) \cup {cur} /\ cur \in FreeBlocks(m) /\ cur \in Nat
        /\ SameUse(m, m', UsedBlocks(m))
        /\ m'.hdr[cur].user_size = size /\ m'.hdr[cur].size >= size
        /\ m'.current_blocks = m.current_blocks + 1
    BY <2>1, AddrsAreNat DEF IsGiven
  <2>5. cur \notin UsedBlocks(m) /\ \A c \in UsedBlocks(m) : c \in Nat
    BY <2>4, UsedIsNat DEF UsedBlocks
  <2>6. DOMAIN held' = DOMAIN held \cup {p}
    BY <2>2
  <2>7. p \notin DOMAIN held /\ \A c \in UsedBlocks(m) : c + GROUP_HEADER # p
    <3>1. \A c \in UsedBlocks(m) : c + GROUP_HEADER # p
      BY <2>4, <2>5, Constants
    <3> QED BY <3>1 DEF GroupSafe, HeldExact
  <2>8. HeldExact(m', held')
    <3>1. DOMAIN held = {c + GROUP_HEADER : c \in UsedBlocks(m)}
      BY DEF GroupSafe, HeldExact
    <3>2. DOMAIN held' = {c + GROUP_HEADER : c \in UsedBlocks(m')}
      BY <2>4, <2>6, <3>1
    <3>3. ASSUME NEW c \in UsedBlocks(m')
          PROVE  /\ held'[c + GROUP_HEADER] = m'.hdr[c].user_size
                 /\ m'.hdr[c].user_size > 0 /\ m'.hdr[c].user_size <= m'.hdr[c].size
      <4>1. CASE c = cur
        <5>1. held'[p] = size
          BY <2>2
        <5>2. m'.hdr[cur].size \in Nat
          <6>1. cur \in Group!Addrs
            BY <2>1 DEF IsGiven
          <6>2. m'.hdr[cur].size \in 0..TOTAL
            BY <2>4, <6>1, TypedFields DEF Sound
          <6> QED BY <6>2, Constants
        <5> QED BY <2>3, <2>4, <4>1, <5>1, <5>2
      <4>2. CASE c # cur
        <5>1. c \in UsedBlocks(m)
          BY <2>4, <4>2
        <5>2. /\ held[c + GROUP_HEADER] = m.hdr[c].user_size
              /\ m.hdr[c].user_size > 0 /\ m.hdr[c].user_size <= m.hdr[c].size
          BY <5>1 DEF GroupSafe, HeldExact
        <5>3. m'.hdr[c].user_size = m.hdr[c].user_size /\ m'.hdr[c].size = m.hdr[c].size
          BY <2>4, <5>1 DEF SameUse
        <5>4. c + GROUP_HEADER \in DOMAIN held /\ c + GROUP_HEADER # p
          BY <2>7, <3>1, <5>1
        <5>5. held'[c + GROUP_HEADER] = held[c + GROUP_HEADER]
          BY <2>2, <5>4
        <5> QED BY <5>2, <5>3, <5>5
      <4> QED BY <4>1, <4>2
    <3> QED BY <3>2, <3>3 DEF HeldExact
  <2>9. CountExact(m', held')
    <3>1. IsFiniteSet(DOMAIN held) /\ m.current_blocks = Cardinality(DOMAIN held)
      BY DEF GroupSafe, CountExact
    <3>2. IsFiniteSet(DOMAIN held') /\ Cardinality(DOMAIN held') = Cardinality(DOMAIN held) + 1
      BY <2>6, <2>7, <3>1, FS_AddElement
    <3>3. m.current_blocks \in Int
      BY TypedFields DEF GroupSafe, Sound
    <3>4. m'.current_blocks <= MAX_BLOCKS
      BY <2>3, <2>4, <3>3, Constants
    <3> QED BY <2>4, <3>1, <3>2, <3>4 DEF CountExact
  <2> QED BY <2>4, <2>8, <2>9 DEF GroupSafe, FirstUsed
<1> QED BY <1>1, <1>2

LEMMA FreedSafe ==
  ASSUME GroupSafe(m, held), NEW p \in DOMAIN held, Group!Free(p)
  PROVE  GroupSafe(m', held')
<1>1. PICK c \in UsedBlocks(m) : p = c + GROUP_HEADER
  BY DEF GroupSafe, HeldExact
<1>2. c \in Nat /\ c \in BlocksOf(m) /\ \A d \in UsedBlocks(m) : d \in Nat
  BY UsedIsNat
<1>3. c # 0 /\ m' = Group!group_free(m, p) /\ held' = [q \in DOMAIN held \ {p} |-> held[q]]
  BY <1>1, Constants DEF Group!Free, Group!Freed
<1>4. 0 \notin FreeBlocks(m)
  BY <1>2, <1>3 DEF GroupSafe, FirstUsed
<1>5. m.hdr[c].user_size > 0
  BY DEF GroupSafe, HeldExact
<1>6. IsGivenBack(m, m', c)
  BY <1>1, <1>3, <1>4, <1>5, FreeGivesBack DEF GroupSafe
<1>7. /\ Sound(m') /\ Merged(m') /\ 0 \notin FreeBlocks(m')
      /\ UsedBlocks(m') = UsedBlocks(m) \ {c}
      /\ SameUse(m, m', UsedBlocks(m) \ {c})
      /\ m'.current_blocks = m.current_blocks - 1
  BY <1>6 DEF IsGivenBack
<1>8. DOMAIN held' = DOMAIN held \ {p} /\ \A q \in DOMAIN held \ {p} : held'[q] = held[q]
  BY <1>3
<1>9. HeldExact(m', held')
  <2>1. DOMAIN held = {d + GROUP_HEADER : d \in UsedBlocks(m)}
    BY DEF GroupSafe, HeldExact
  <2>2. \A d \in UsedBlocks(m) : d # c => d + GROUP_HEADER # p
    BY <1>1, <1>2, Constants
  <2>3. DOMAIN held' = {d + GROUP_HEADER : d \in UsedBlocks(m')}
    BY <1>1, <1>7, <1>8, <2>1, <2>2
  <2>4. ASSUME NEW d \in UsedBlocks(m')
        PROVE  /\ held'[d + GROUP_HEADER] = m'.hdr[d].user_size
               /\ m'.hdr[d].user_size > 0 /\ m'.hdr[d].user_size <= m'.hdr[d].size
    <3>1. d \in UsedBlocks(m) \ {c}
      BY <1>7
    <3>2. /\ held[d + GROUP_HEADER] = m.hdr[d].user_size
          /\ m.hdr[d].user_size > 0 /\ m.hdr[d].user_size <= m.hdr[d].size
      BY <3>1 DEF GroupSafe, HeldExact
    <3>3. m'.hdr[d].user_size = m.hdr[d].user_size /\ m'.hdr[d].size = m.hdr[d].size
      BY <1>7, <3>1 DEF SameUse
    <3>4. held'[d + GROUP_HEADER] = held[d + GROUP_HEADER]
      BY <1>8, <2>1, <2>2, <3>1
    <3> QED BY <3>2, <3>3, <3>4
  <2> QED BY <2>3, <2>4 DEF HeldExact
<1>10. CountExact(m', held')
  <2>1. /\ IsFiniteSet(DOMAIN held) /\ m.current_blocks = Cardinality(DOMAIN held)
        /\ m.current_blocks <= MAX_BLOCKS
    BY DEF GroupSafe, CountExact
  <2>2. IsFiniteSet(DOMAIN held') /\ Cardinality(DOMAIN held') = Cardinality(DOMAIN held) - 1
    BY <1>8, <2>1, FS_RemoveElement
  <2>3. m.current_blocks \in Int
    BY TypedFields DEF GroupSafe, Sound
  <2>4. m'.current_blocks <= MAX_BLOCKS
    BY <1>7, <2>1, <2>3, Constants
  <2> QED BY <1>7, <2>1, <2>2, <2>4 DEF CountExact
<1> QED BY <1>7, <1>9, <1>10 DEF GroupSafe, FirstUsed

LEMMA InvInit == Init => Inv
BY DEF Init, Inv, UsesGroup

\* The steps that the group manager takes.
GroupStep ==
  \/ \E size \in Nat : m' = Group!group_malloc(m, size) /\ held' = Group!Given(size)
  \/ \E p \in DOMAIN held : Group!Free(p)

LEMMA GroupSteps ==
  ASSUME Next, UsesGroup
  PROVE  GroupStep /\ UNCHANGED current_manager
<1>1. CASE \E manager \in {"group", "buddy"} : init_memory_manager(manager)
  BY <1>1 DEF init_memory_manager, UsesGroup
<1>2. CASE Boot
  <2>1. FIRST \in Nat
    BY Constants
  <2> QED BY <1>2, <2>1 DEF Boot, Group!Boot, GroupStep, Through
<1>3. CASE mm_malloc
  <2>1. GroupSizes \subseteq Nat
    BY Constants
  <2>2. \E size \in GroupSizes : Group!Malloc(size)
    BY <1>3 DEF mm_malloc, Through, UsesGroup
  <2>3. UNCHANGED current_manager
    BY <1>3 DEF mm_malloc, Through
  <2> QED BY <2>1, <2>2, <2>3 DEF Group!Malloc, GroupStep
<1>4. CASE \E p \in DOMAIN held : mm_free(p)
  BY <1>4 DEF mm_free, Through, UsesGroup, GroupStep
<1> QED BY <1>1, <1>2, <1>3, <1>4 DEF Next

LEMMA InvNext ==
  ASSUME Inv, [Next]_vars
  PROVE  Inv'
<1>1. CASE UNCHANGED vars
  BY <1>1 DEF Inv, vars, UsesGroup
<1>2. CASE Next /\ UsesGroup
  <2>1. GroupStep /\ UsesGroup' /\ current_manager' # "NULL"
    BY <1>2, GroupSteps DEF UsesGroup
  <2>2. GroupSafe(m, held)
    BY <1>2 DEF Inv
  <2>3. GroupSafe(m', held')
    BY <2>1, <2>2, GivenSafe, FreedSafe DEF GroupStep
  <2> QED BY <2>1, <2>3 DEF Inv
<1>3. CASE Next /\ ~UsesGroup
  <2>1. CASE \E manager \in {"group", "buddy"} : init_memory_manager(manager)
    <3>1. PICK manager \in {"group", "buddy"} : init_memory_manager(manager)
      BY <2>1
    <3>2. held' = [p \in {} |-> 0] /\ current_manager' = manager
          /\ (manager = "group" => m' = Group!group_init)
      BY <3>1 DEF init_memory_manager, Inv
    <3>3. manager = "group" => GroupSafe(m', held')
      BY <3>2, InitSafe
    <3> QED BY <3>2, <3>3 DEF Inv, UsesGroup
  <2>2. CASE ~\E manager \in {"group", "buddy"} : init_memory_manager(manager)
    <3>1. current_manager = "buddy" /\ current_manager' = current_manager
      BY <1>3, <2>2 DEF Next, Boot, mm_malloc, mm_free, Through, UsesGroup
    <3> QED BY <3>1 DEF Inv, UsesGroup
  <2> QED BY <2>1, <2>2
<1> QED BY <1>1, <1>2, <1>3

LEMMA InvImplies ==
  ASSUME Inv
  PROVE  /\ UsesGroup => (BlocksExact /\ FreeListsExact /\ NeighboursMerged)
         /\ UsesGroup => LiveDisjoint
<1>1. ASSUME UsesGroup
      PROVE  BlocksExact /\ FreeListsExact /\ NeighboursMerged
  <2>1. Sound(m) /\ Merged(m) /\ ~UsesBuddy
    BY <1>1 DEF Inv, GroupSafe, UsesGroup, UsesBuddy
  <2>2. Group!Blocks = BlocksOf(m) /\ \A c : Group!End(c) = EndOf(m, c)
    BY DEF Group!Blocks, BlocksOf, Group!End, EndOf
  <2>3. Group!Tiling
    BY <2>1, <2>2 DEF Group!Tiling, Sound, Tiles
  <2>4. Group!Listed(m) = Elements(m.free_list)
    BY DEF Group!Listed, Elements
  <2>5. Cardinality(Elements(m.free_list)) = Len(m.free_list)
    BY <2>1, TypedFields, DistinctCount DEF Sound, ListExact
  <2>6. Group!FreeListExact
    <3>1. FreeBlocks(m) = {c \in Group!Blocks : m.hdr[c].is_free}
      BY <2>2, Zenon DEF FreeBlocks
    <3>2. Group!Listed(m) = FreeBlocks(m)
      BY <2>1, <2>4 DEF Sound, ListExact
    <3>3. Group!Cardinality(Group!Listed(m)) = Len(m.free_list)
      <4>1. Group!Cardinality(Group!Listed(m)) = Cardinality(Group!Listed(m))
        BY Zenon DEF Cardinality, Group!Cardinality
      <4> QED BY <2>4, <2>5, <4>1
    <3> QED BY <3>1, <3>2, <3>3, Zenon DEF Group!FreeListExact
  <2>7. Group!Coalesced
    <3> SUFFICES ASSUME NEW c \in Group!Blocks, m.hdr[c].is_free, m.hdr[c].next # 0
                 PROVE  ~m.hdr[m.hdr[c].next].is_free
      BY Zenon DEF Group!Coalesced
    <3>1. c \in FreeBlocks(m) /\ m.hdr[c].next \in BlocksOf(m)
      BY <2>1, <2>2 DEF FreeBlocks, Sound, Tiles
    <3> QED BY <2>1, <3>1 DEF Merged, FreeBlocks
  <2> QED BY <2>1, <2>3, <2>6, <2>7 DEF BlocksExact, FreeListsExact, NeighboursMerged
<1>2. ASSUME UsesGroup
      PROVE  LiveDisjoint
  <2>1. Sound(m) /\ HeldExact(m, held)
    BY <1>2 DEF Inv, GroupSafe
  <2>2. DOMAIN held = {c + GROUP_HEADER : c \in UsedBlocks(m)}
    BY <2>1 DEF HeldExact
  <2>3. ASSUME NEW p \in DOMAIN held PROVE p + held[p] <= TOTAL
    BY <2>1, <2>2, UsedApart
  <2>4. ASSUME NEW p \in DOMAIN held, NEW q \in DOMAIN held, p # q
        PROVE  ~H!Overlap(p, held[p], q, held[q])
    <3>1. PICK c \in UsedBlocks(m) : p = c + GROUP_HEADER
      BY <2>2
    <3>2. PICK d \in UsedBlocks(m) : q = d + GROUP_HEADER
      BY <2>2
    <3>3. c \in Nat /\ d \in Nat /\ c # d
      BY <2>4, <3>1, <3>2, UsedIsNat
    <3>4. p \in Nat /\ q \in Nat /\ held[p] \in Nat /\ held[q] \in Nat
      BY <2>1, <3>1, <3>2, UsedApart
    <3>5. (c < d => p + held[p] <= d) /\ (d < c => q + held[q] <= c)
      BY <2>1, <3>1, <3>2, UsedApart
    <3> QED BY <3>1, <3>2, <3>3, <3>4, <3>5, Constants DEF H!Overlap
  <2> QED BY <2>3, <2>4 DEF LiveDisjoint, H!Exclusive
<1> QED BY <1>1, <1>2

-----------------------------------------------------------------------------
(* The refinement of Heap.                                                 *)

\* An allocation of the group manager is one of Heap, or fails and changes nothing.
LEMMA GivenImplements ==
  ASSUME GroupSafe(m, held), NEW size \in Nat,
         m' = Group!group_malloc(m, size), held' = Group!Given(size)
  PROVE  [H!Next]_held
<1>1. CASE ~Group!CanMalloc(m, size)
  BY <1>1 DEF Group!Given
<1>2. CASE Group!CanMalloc(m, size)
  <2> DEFINE cur == Group!Chosen(m, size)
             p == cur + GROUP_HEADER
  <2>1. IsGiven(m, m', cur, size)
    BY <1>2, MallocGives DEF GroupSafe
  <2>2. held' = [q \in DOMAIN held \cup {p} |-> IF q = p THEN size ELSE held[q]]
    BY <1>2 DEF Group!Given
  <2>3. GroupSafe(m', held')
    BY GivenSafe
  <2>4. size # 0
    BY <1>2 DEF Group!CanMalloc
  <2> HIDE DEF cur
  <2>5. Sound(m') /\ HeldExact(m', held') /\ UsedBlocks(m') = UsedBlocks(m) \cup {cur}
        /\ cur \in FreeBlocks(m)
    BY <2>1, <2>3 DEF IsGiven, GroupSafe
  <2>6. held'[p] = size /\ \A q \in DOMAIN held : q # p => held'[q] = held[q]
    BY <2>2
  <2>7. p \in Nat /\ p + size <= TOTAL
    BY <2>5, <2>6, UsedApart
  <2>8. p \in 0..TOTAL /\ size \in 1..TOTAL
    BY <2>4, <2>7, Constants
  <2>9. ASSUME NEW q \in DOMAIN held PROVE ~H!Overlap(p, size, q, held[q])
    <3>1. PICK d \in UsedBlocks(m) : q = d + GROUP_HEADER
      BY DEF GroupSafe, HeldExact
    <3>2. cur \in UsedBlocks(m') /\ d \in UsedBlocks(m') /\ cur # d
      BY <2>5, <3>1 DEF UsedBlocks
    <3>3. cur \in Nat /\ d \in Nat
      BY <3>2, UsedIsNat
    <3>4. held'[q] = held[q]
      BY <2>6, <3>1, <3>2, <3>3, Constants
    <3>5. q \in Nat /\ held'[q] \in Nat
      BY <2>5, <3>1, <3>2, UsedApart
    <3>6. cur < d => p + held'[p] <= d
      BY <2>5, <3>2, UsedApart
    <3>7. d < cur => q + held'[q] <= cur
      BY <2>5, <3>1, <3>2, UsedApart
    <3> QED BY <2>6, <2>7, <3>1, <3>2, <3>3, <3>4, <3>5, <3>6, <3>7, Constants DEF H!Overlap
  <2>10. H!Malloc(p, size)
    BY <2>2, <2>7, <2>9 DEF H!Malloc
  <2> QED BY <2>8, <2>10 DEF H!Next
<1> QED BY <1>1, <1>2

LEMMA StepImplements ==
  ASSUME Inv, ~UsesBuddy, ~UsesBuddy', [Next]_vars
  PROVE  [H!Next]_held
<1>1. CASE UNCHANGED vars
  BY <1>1 DEF vars
<1>2. CASE Next /\ UsesGroup
  <2>1. GroupStep /\ GroupSafe(m, held)
    BY <1>2, GroupSteps DEF Inv
  <2>2. ASSUME NEW p \in DOMAIN held, Group!Free(p)
        PROVE  [H!Next]_held
    BY <2>2 DEF Group!Free, Group!Freed, H!Free, H!Next
  <2> QED BY <2>1, <2>2, GivenImplements DEF GroupStep
<1>3. CASE Next /\ ~UsesGroup
  <2>1. \E manager \in {"group", "buddy"} : init_memory_manager(manager)
    BY <1>3 DEF Next, Boot, mm_malloc, mm_free, Through, UsesGroup, UsesBuddy
  <2> QED BY <2>1 DEF init_memory_manager
<1> QED BY <1>1, <1>2, <1>3

-----------------------------------------------------------------------------
(* The theorems.                                                           *)

\* Every step of either build keeps the invariant; for the group manager it is
\* GroupSafe: the headers, the free list, and what the callers hold, agree.
THEOREM MemoryInductive == Spec => []Inv
<1>1. Init => Inv
  BY InvInit
<1>2. Inv /\ [Next]_vars => Inv'
  BY InvNext
<1> QED BY <1>1, <1>2, PTL DEF Spec

\* No two callers of mm_malloc hold the same byte under the group manager.
THEOREM NoSharedByte == Spec => [](UsesGroup => LiveDisjoint)
<1>1. Inv => (UsesGroup => LiveDisjoint)
  BY InvImplies
<1> QED BY <1>1, MemoryInductive, PTL

\* The group manager counts the blocks that are held, and no sequence of calls
\* takes more than MAX_BLOCKS of them.
THEOREM BlocksCounted ==
  Spec => [](UsesGroup => /\ m.current_blocks = Cardinality(DOMAIN held)
                          /\ m.current_blocks <= MAX_BLOCKS)
<1>1. Inv => (UsesGroup => /\ m.current_blocks = Cardinality(DOMAIN held)
                           /\ m.current_blocks <= MAX_BLOCKS)
  BY DEF Inv, GroupSafe, CountExact
<1> QED BY <1>1, MemoryInductive, PTL

\* A build with the group manager implements Heap: each of its steps allocates
\* memory inside the heap that nobody holds, frees memory that is held, or leaves
\* what is held as it is.
THEOREM GroupImplementsHeap == Spec /\ []~UsesBuddy => ImplementsHeap
<1>1. Init => H!Init
  BY DEF Init, H!Init
<1>2. Inv /\ ~UsesBuddy /\ (~UsesBuddy)' /\ [Next]_vars => [H!Next]_held
  BY StepImplements
<1> QED BY <1>1, <1>2, MemoryInductive, PTL DEF Spec, ImplementsHeap, H!Spec

=============================================================================
