---------------------------- MODULE BuddyProofs ----------------------------
(***************************************************************************)
(* The buddy manager, for every number of orders and size of the smallest  *)
(* block, of the heap, of the header and of the requests: its blocks are a *)
(* cut of the tree of halves.  With it and MemoryProofs, what the calls of *)
(* memory_manager.c promise and report in both builds.                     *)
(***************************************************************************)
EXTENDS MemoryProofs

-----------------------------------------------------------------------------
(* Induction, and powers of two.                                           *)

LEMMA AllNaturals ==
  ASSUME NEW S, 0 \in S, \A n \in Nat : n \in S => n + 1 \in S
  PROVE  \A n \in Nat : n \in S
<1> DEFINE C == Nat \ S
           x == Group!Min(C)
<1> SUFFICES ASSUME C # {} PROVE FALSE
  OBVIOUS
<1>1. C # {} /\ C \subseteq Nat
  OBVIOUS
<1>2. x \in C /\ \A y \in C : x =< y
  BY <1>1, MinIsLeast
<1> HIDE DEF x
<1>3. x \in Nat /\ x # 0 /\ x - 1 \in Nat /\ ~(x =< x - 1) /\ (x - 1) + 1 = x
  BY <1>2
<1>4. x - 1 \in S
  BY <1>2, <1>3
<1>5. x \in S
  BY <1>3, <1>4
<1> QED BY <1>2, <1>5

LEMMA PowerNat == ASSUME NEW n \in Nat PROVE 2^n \in Nat /\ 2^n > 0 /\ IsFiniteSet(1..n)
<1>1. IsFiniteSet(1..n) /\ Cardinality(1..n) = n
  BY FS_Interval
<1>2. IsFiniteSet(SUBSET (1..n)) /\ Cardinality(SUBSET (1..n)) = 2^n
  BY <1>1, FS_SUBSET
<1>3. Cardinality(SUBSET (1..n)) \in Nat
  BY <1>2, FS_CardinalityType
<1>4. Cardinality(SUBSET (1..n)) # 0
  BY <1>2, FS_EmptySet
<1> QED BY <1>1, <1>2, <1>3, <1>4

LEMMA PowerNext == ASSUME NEW n \in Nat PROVE 2^(n + 1) = 2 * 2^n
<1> DEFINE A == SUBSET (1..n)
           e == n + 1
           B == {T \cup {e} : T \in A}
           f == [T \in A |-> T \cup {e}]
<1>1. e \notin 1..n /\ 1..e = (1..n) \cup {e} /\ e \in Nat
  OBVIOUS
<1>2. f \in Bijection(A, B)
  <2>1. \A T, U \in A : T \cup {e} = U \cup {e} => T = U
    BY <1>1
  <2> HIDE DEF A
  <2> QED BY <2>1 DEF Bijection, Injection, Surjection, IsInjective
<1>3. IsFiniteSet(A) /\ Cardinality(A) = 2^n
  <2>1. IsFiniteSet(1..n) /\ Cardinality(1..n) = n
    BY FS_Interval
  <2> QED BY <2>1, FS_SUBSET
<1>4. IsFiniteSet(B) /\ Cardinality(B) = Cardinality(A)
  BY <1>2, <1>3, FS_Bijection DEF ExistsBijection
<1>5. A \cap B = {}
  BY <1>1
<1>6. SUBSET (1..e) = A \cup B
  <2>1. ASSUME NEW T \in SUBSET (1..e) PROVE T \in A \cup B
    <3>1. CASE e \in T
      <4>1. T \ {e} \in A /\ T = (T \ {e}) \cup {e}
        BY <1>1, <3>1
      <4> QED BY <4>1
    <3>2. CASE e \notin T
      BY <1>1, <3>2
    <3> QED BY <3>1, <3>2
  <2>2. ASSUME NEW T \in A PROVE T \in SUBSET (1..e) /\ T \cup {e} \in SUBSET (1..e)
    BY <1>1
  <2>3. A \subseteq SUBSET (1..e) /\ B \subseteq SUBSET (1..e)
    BY <2>2, Zenon
  <2>4. SUBSET (1..e) \subseteq A \cup B
    BY <2>1, Zenon
  <2> QED BY <2>3, <2>4, Zenon
<1>7. Cardinality(A \cup B) = Cardinality(A) + Cardinality(B) - Cardinality(A \cap B)
  BY <1>3, <1>4, FS_Union
<1>8. Cardinality(SUBSET (1..e)) = 2^e
  <2>1. IsFiniteSet(1..e) /\ Cardinality(1..e) = e
    BY <1>1, FS_Interval
  <2> QED BY <2>1, FS_SUBSET
<1>9. Cardinality(A \cap B) = 0
  BY <1>5, FS_EmptySet
<1>10. 2^n \in Nat
  BY PowerNat
<1>11. 2^e = Cardinality(A) + Cardinality(B) - 0
  BY <1>6, <1>7, <1>8, <1>9
<1>12. 2^e = 2^n + 2^n - 0
  BY <1>3, <1>4, <1>11
<1> HIDE DEF A, B
<1> QED BY <1>10, <1>12

-----------------------------------------------------------------------------
(* The sizes of the orders, and the block of an order that has an address. *)

LEMMA BuddyConstants ==
  /\ BUDDY_HEADER \in Nat /\ BUDDY_HEADER > 0 /\ BUDDY_HEADER < BUDDY_MIN_BLOCK
  /\ BUDDY_MIN_BLOCK \in Nat /\ MAX_ORDER \in Nat /\ TOTAL \in Nat
  /\ TOTAL >= Buddy!Bytes(MAX_ORDER)
  /\ \A s \in BuddySizes : s \in Nat
  /\ Buddy!Orders = 0..MAX_ORDER /\ 0 \in Buddy!Orders /\ MAX_ORDER \in Buddy!Orders
BY MemoryAssumption DEF Buddy!BuddyAssumption, Buddy!Orders

LEMMA BytesNat ==
  ASSUME NEW n \in Nat
  PROVE  Buddy!Bytes(n) \in Nat /\ Buddy!Bytes(n) > BUDDY_HEADER /\ Buddy!Bytes(n) > 0
<1>1. 2^n \in Nat /\ 2^n >= 1
  BY PowerNat
<1>2. \A k, l \in Nat : l >= 1 => k * l \in Nat /\ k * l >= k
  OBVIOUS
<1>3. BUDDY_MIN_BLOCK * 2^n \in Nat /\ BUDDY_MIN_BLOCK * 2^n >= BUDDY_MIN_BLOCK
  BY <1>1, <1>2, BuddyConstants
<1> QED BY <1>3, BuddyConstants DEF Buddy!Bytes

LEMMA BytesNext ==
  ASSUME NEW n \in Nat
  PROVE  Buddy!Bytes(n + 1) = 2 * Buddy!Bytes(n)
<1>1. 2^(n + 1) = 2 * 2^n /\ 2^n \in Nat
  BY PowerNext, PowerNat
<1>2. \A k, l \in Nat : k * (2 * l) = 2 * (k * l)
  OBVIOUS
<1> QED BY <1>1, <1>2, BuddyConstants DEF Buddy!Bytes

LEMMA BytesGrow ==
  ASSUME NEW n \in Nat, NEW p \in Nat, p < n
  PROVE  Buddy!Bytes(p) < Buddy!Bytes(n)
<1> DEFINE S == {k \in Nat : \A l \in Nat : l < k => Buddy!Bytes(l) < Buddy!Bytes(k)}
<1>1. 0 \in S
  OBVIOUS
<1>2. ASSUME NEW k \in Nat, k \in S PROVE k + 1 \in S
  <2>1. /\ Buddy!Bytes(k) \in Nat /\ Buddy!Bytes(k) > 0
        /\ Buddy!Bytes(k + 1) = 2 * Buddy!Bytes(k)
    <3>1. Buddy!Bytes(k) \in Nat /\ Buddy!Bytes(k) > 0
      BY BytesNat, BuddyConstants
    <3>2. Buddy!Bytes(k + 1) = 2 * Buddy!Bytes(k)
      BY BytesNext
    <3> QED BY <3>1, <3>2
  <2>2. ASSUME NEW l \in Nat, l < k + 1 PROVE Buddy!Bytes(l) < Buddy!Bytes(k + 1)
    <3>1. Buddy!Bytes(l) \in Nat
      BY BytesNat
    <3>2. l = k \/ Buddy!Bytes(l) < Buddy!Bytes(k)
      BY <1>2, <2>2
    <3> QED BY <2>1, <3>1, <3>2
  <2> QED BY <2>2
<1> HIDE DEF S
<1>3. n \in S
  BY <1>1, <1>2, AllNaturals
<1> QED BY <1>3 DEF S

LEMMA DivUnique ==
  ASSUME NEW x \in Nat, NEW a \in Nat, a > 0, NEW q \in Nat, q * a <= x, x < q * a + a
  PROVE  x \div a = q
OBVIOUS

LEMMA DivTwice ==
  ASSUME NEW x \in Nat, NEW a \in Nat, a > 0
  PROVE  LET q == x \div a
             h == x \div (2 * a)
         IN  q \in Nat /\ h \in Nat /\ (q % 2 = 0 => q = 2 * h) /\ (q % 2 # 0 => q = 2 * h + 1)
<1> DEFINE q == x \div a
           k == q \div 2
<1>1. q \in Nat /\ q * a <= x /\ x < q * a + a
  BY DivFacts
<1> HIDE DEF q
<1>2. k \in Nat /\ (q % 2 = 0 => q = 2 * k) /\ (q % 2 # 0 => q = 2 * k + 1)
  BY <1>1
<1> HIDE DEF k
<1>3. q = 2 * k \/ q = 2 * k + 1
  BY <1>2
<1>4. (2 * k) * a = k * (2 * a) /\ (2 * k + 1) * a = k * (2 * a) + a /\ k * (2 * a) \in Nat
  BY <1>2
<1> DEFINE b2 == 2 * a
           kb == k * b2
<1>5. kb <= x /\ x < kb + b2
  BY <1>1, <1>3, <1>4
<1>6. b2 \in Nat /\ b2 > 0
  OBVIOUS
<1>7. x \div b2 = k
  <2> HIDE DEF b2
  <2> QED BY <1>2, <1>5, <1>6, DivUnique
<1> QED BY <1>1, <1>2, <1>7 DEF q

LEMMA Within ==
  ASSUME NEW n \in Nat, NEW x \in Nat
  PROVE  /\ Buddy!BlockAt(x, n) \in Nat /\ Buddy!BlockAt(x, n) <= x
         /\ x < Buddy!BlockAt(x, n) + Buddy!Bytes(n)
<1> DEFINE a == Buddy!Bytes(n)
<1>1. a \in Nat /\ a > 0
  BY BytesNat
<1> HIDE DEF a
<1>2. x \div a \in Nat /\ (x \div a) * a <= x /\ x < (x \div a) * a + a
  BY <1>1, DivFacts
<1>3. (x \div a) * a \in Nat
  BY <1>1, <1>2
<1> QED BY <1>2, <1>3 DEF Buddy!BlockAt, a

LEMMA SameBlock ==
  ASSUME NEW n \in Nat, NEW x \in Nat, NEW y \in Nat, Buddy!BlockAt(x, n) <= y,
         y < Buddy!BlockAt(x, n) + Buddy!Bytes(n)
  PROVE  Buddy!BlockAt(y, n) = Buddy!BlockAt(x, n)
<1> DEFINE a == Buddy!Bytes(n)
           q == x \div a
<1>1. a \in Nat /\ a > 0
  BY BytesNat
<1>2. q \in Nat
  <2> HIDE DEF a
  <2> QED BY <1>1, DivFacts
<1>3. q * a <= y /\ y < q * a + a
  BY DEF Buddy!BlockAt
<1>4. y \div a = q
  <2> HIDE DEF a, q
  <2> QED BY <1>1, <1>2, <1>3, DivUnique
<1> QED BY <1>4 DEF Buddy!BlockAt

\* A block of the next order has two halves: the block of x and its buddy.
LEMMA Halves ==
  ASSUME NEW n \in Nat, NEW x \in Nat
  PROVE  LET c == Buddy!BlockAt(x, n + 1)
         IN  \/ Buddy!BlockAt(x, n) = c /\ Buddy!Buddy(x, n) = c + Buddy!Bytes(n)
             \/ Buddy!BlockAt(x, n) = c + Buddy!Bytes(n) /\ Buddy!Buddy(x, n) = c
<1> DEFINE a == Buddy!Bytes(n)
           q == x \div a
           h == x \div (2 * a)
           c == h * (2 * a)
           d == q * a
<1>1. a \in Nat /\ a > 0 /\ Buddy!Bytes(n + 1) = 2 * a
  <2>1. a \in Nat /\ a > 0
    BY BytesNat, BuddyConstants
  <2>2. Buddy!Bytes(n + 1) = 2 * a
    BY BytesNext
  <2> QED BY <2>1, <2>2
<1>2. Buddy!BlockAt(x, n) = d /\ Buddy!BlockAt(x, n + 1) = c
  BY <1>1 DEF Buddy!BlockAt
<1>3. Buddy!Buddy(x, n) = IF q % 2 = 0 THEN d + a ELSE d - a
  BY DEF Buddy!Buddy, Buddy!BlockAt
<1> HIDE DEF a
<1>4. q \in Nat /\ h \in Nat /\ (q % 2 = 0 => q = 2 * h) /\ (q % 2 # 0 => q = 2 * h + 1)
  BY <1>1, DivTwice
<1> HIDE DEF q, h
<1>5. (2 * h) * a = c /\ (2 * h + 1) * a = c + a /\ c \in Nat
  BY <1>1, <1>4
<1>6. (q % 2 = 0 => d = c) /\ (q % 2 # 0 => d = c + a)
  BY <1>4, <1>5
<1> HIDE DEF c, d
<1>7. (q % 2 = 0 => d + a = c + a) /\ (q % 2 # 0 => d - a = c)
  BY <1>1, <1>5, <1>6
<1> QED BY <1>2, <1>3, <1>6, <1>7 DEF a

LEMMA Idempotent ==
  ASSUME NEW n \in Nat, NEW x \in Nat
  PROVE  Buddy!BlockAt(Buddy!BlockAt(x, n), n) = Buddy!BlockAt(x, n)
<1> DEFINE c == Buddy!BlockAt(x, n)
<1>1. c \in Nat /\ Buddy!Bytes(n) \in Nat /\ Buddy!Bytes(n) > 0
  <2>1. c \in Nat
    BY Within
  <2>2. Buddy!Bytes(n) \in Nat /\ Buddy!Bytes(n) > 0
    BY BytesNat
  <2> QED BY <2>1, <2>2
<1>2. c < c + Buddy!Bytes(n) /\ c <= c
  BY <1>1
<1> QED BY <1>1, <1>2, SameBlock

\* A block lies in the block of the next order that has its address.
LEMMA NestedOnce ==
  ASSUME NEW n \in Nat, NEW x \in Nat
  PROVE  /\ Buddy!BlockAt(Buddy!BlockAt(x, n), n + 1) = Buddy!BlockAt(x, n + 1)
         /\ Buddy!BlockAt(x, n + 1) <= Buddy!BlockAt(x, n)
         /\ Buddy!BlockAt(x, n) + Buddy!Bytes(n) <= Buddy!BlockAt(x, n + 1) + Buddy!Bytes(n + 1)
<1> DEFINE c == Buddy!BlockAt(x, n + 1)
           d == Buddy!BlockAt(x, n)
           a == Buddy!Bytes(n)
<1>1. c \in Nat /\ d \in Nat
  <2>1. c \in Nat
    BY Within
  <2>2. d \in Nat
    BY Within
  <2> QED BY <2>1, <2>2
<1>2. a \in Nat /\ a > 0
  BY BytesNat
<1>3. Buddy!Bytes(n + 1) = 2 * a
  BY BytesNext
<1>4. d = c \/ d = c + a
  BY Halves
<1> HIDE DEF c, d, a
<1>5. c <= d /\ d < c + 2 * a /\ d + a <= c + 2 * a
  BY <1>1, <1>2, <1>4
<1>6. Buddy!BlockAt(d, n + 1) = c
  BY <1>1, <1>3, <1>5, SameBlock DEF c
<1> QED BY <1>3, <1>5, <1>6 DEF c, d, a

LEMMA Nested ==
  ASSUME NEW n \in Nat, NEW k \in Nat, n <= k, NEW x \in Nat
  PROVE  /\ Buddy!BlockAt(Buddy!BlockAt(x, n), k) = Buddy!BlockAt(x, k)
         /\ Buddy!BlockAt(x, k) <= Buddy!BlockAt(x, n)
         /\ Buddy!BlockAt(x, n) + Buddy!Bytes(n) <= Buddy!BlockAt(x, k) + Buddy!Bytes(k)
<1> DEFINE In(l) == /\ Buddy!BlockAt(Buddy!BlockAt(x, n), l) = Buddy!BlockAt(x, l)
                    /\ Buddy!BlockAt(x, l) <= Buddy!BlockAt(x, n)
                    /\ Buddy!BlockAt(x, n) + Buddy!Bytes(n) <= Buddy!BlockAt(x, l) + Buddy!Bytes(l)
           S == {d \in Nat : In(n + d)}
           c == Buddy!BlockAt(x, n)
<1>0. c \in Nat /\ Buddy!Bytes(n) \in Nat
  BY Within, BytesNat
<1>1. 0 \in S
  <2>1. n + 0 = n
    OBVIOUS
  <2>2. In(n)
    BY <1>0, Idempotent
  <2> QED BY <2>1, <2>2
<1>2. ASSUME NEW d \in Nat, d \in S PROVE d + 1 \in S
  <2> DEFINE l == n + d
  <2>1. l \in Nat /\ n + (d + 1) = l + 1 /\ In(l)
    BY <1>2
  <2> HIDE DEF l, In
  <2>2. /\ Buddy!BlockAt(x, l) \in Nat /\ Buddy!BlockAt(x, l + 1) \in Nat
        /\ Buddy!Bytes(l) \in Nat /\ Buddy!Bytes(l + 1) \in Nat
    <3>1. l + 1 \in Nat
      BY <2>1
    <3>2. Buddy!BlockAt(x, l) \in Nat
      BY <2>1, Within
    <3>3. Buddy!BlockAt(x, l + 1) \in Nat
      BY <3>1, Within
    <3>4. Buddy!Bytes(l) \in Nat
      BY <2>1, BytesNat
    <3>5. Buddy!Bytes(l + 1) \in Nat
      BY <3>1, BytesNat
    <3> QED BY <3>2, <3>3, <3>4, <3>5
  <2>3. /\ Buddy!BlockAt(Buddy!BlockAt(x, l), l + 1) = Buddy!BlockAt(x, l + 1)
        /\ Buddy!BlockAt(x, l + 1) <= Buddy!BlockAt(x, l)
        /\ Buddy!BlockAt(x, l) + Buddy!Bytes(l) <= Buddy!BlockAt(x, l + 1) + Buddy!Bytes(l + 1)
    BY <2>1, NestedOnce
  <2>4. Buddy!BlockAt(Buddy!BlockAt(c, l), l + 1) = Buddy!BlockAt(c, l + 1)
    BY <1>0, <2>1, NestedOnce
  <2>5. /\ Buddy!BlockAt(c, l) = Buddy!BlockAt(x, l)
        /\ Buddy!BlockAt(x, l) <= c
        /\ c + Buddy!Bytes(n) <= Buddy!BlockAt(x, l) + Buddy!Bytes(l)
    BY <2>1 DEF In
  <2>6. Buddy!BlockAt(c, l + 1) = Buddy!BlockAt(x, l + 1)
    BY <2>3, <2>4, <2>5
  <2> HIDE DEF c
  <2>7. /\ Buddy!BlockAt(x, l + 1) <= c
        /\ c + Buddy!Bytes(n) <= Buddy!BlockAt(x, l + 1) + Buddy!Bytes(l + 1)
    BY <1>0, <2>2, <2>3, <2>5
  <2>8. In(l + 1)
    BY <2>6, <2>7 DEF In, c
  <2> QED BY <2>1, <2>8
<1> HIDE DEF S
<1>3. k - n \in Nat /\ n + (k - n) = k
  OBVIOUS
<1>4. k - n \in S
  BY <1>1, <1>2, <1>3, AllNaturals
<1> HIDE DEF In
<1>5. In(k)
  BY <1>3, <1>4 DEF S
<1> QED BY <1>5 DEF In

LEMMA NestedSame ==
  ASSUME NEW n \in Nat, NEW k \in Nat, n <= k, NEW x \in Nat, NEW y \in Nat,
         Buddy!BlockAt(x, n) = Buddy!BlockAt(y, n)
  PROVE  Buddy!BlockAt(x, k) = Buddy!BlockAt(y, k)
<1>1. Buddy!BlockAt(Buddy!BlockAt(x, n), k) = Buddy!BlockAt(x, k)
  BY Nested
<1>2. Buddy!BlockAt(Buddy!BlockAt(y, n), k) = Buddy!BlockAt(y, k)
  BY Nested
<1> QED BY <1>1, <1>2

\* What is aligned to an order is aligned to the orders below.
LEMMA AlignedBelow ==
  ASSUME NEW n \in Nat, NEW k \in Nat, n <= k, NEW x \in Nat, Buddy!BlockAt(x, k) = x
  PROVE  Buddy!BlockAt(x, n) = x
<1>1. Buddy!BlockAt(x, k) <= Buddy!BlockAt(x, n)
  BY Nested
<1>2. Buddy!BlockAt(x, n) \in Nat /\ Buddy!BlockAt(x, n) <= x
  BY Within
<1> QED BY <1>1, <1>2

LEMMA BuddyFacts ==
  ASSUME NEW n \in Nat, NEW x \in Nat
  PROVE  LET y == Buddy!Buddy(x, n)
         IN  /\ y \in Nat /\ y # Buddy!BlockAt(x, n)
             /\ Buddy!BlockAt(y, n) = y
             /\ Buddy!BlockAt(y, n + 1) = Buddy!BlockAt(x, n + 1)
             /\ Buddy!Buddy(y, n) = Buddy!BlockAt(x, n)
<1> DEFINE c == Buddy!BlockAt(x, n + 1)
           d == Buddy!BlockAt(x, n)
           y == Buddy!Buddy(x, n)
           a == Buddy!Bytes(n)
<1>1. c \in Nat /\ d \in Nat
  <2>1. c \in Nat
    BY Within
  <2>2. d \in Nat
    BY Within
  <2> QED BY <2>1, <2>2
<1>2. a \in Nat /\ a > 0
  BY BytesNat
<1>3. Buddy!Bytes(n + 1) = 2 * a
  BY BytesNext
<1>4. (d = c /\ y = c + a) \/ (d = c + a /\ y = c)
  BY Halves
<1> HIDE DEF c, d, y, a
<1>5. y \in Nat /\ y # d /\ c <= y /\ y < c + 2 * a
  BY <1>1, <1>2, <1>4
<1>6. Buddy!BlockAt(y, n + 1) = c
  BY <1>1, <1>3, <1>5, SameBlock DEF c
<1>7. \/ Buddy!BlockAt(y, n) = c /\ Buddy!Buddy(y, n) = c + a
      \/ Buddy!BlockAt(y, n) = c + a /\ Buddy!Buddy(y, n) = c
  BY <1>5, <1>6, Halves DEF a
<1>8. Buddy!BlockAt(y, n) <= y /\ y < Buddy!BlockAt(y, n) + a
  BY <1>5, Within DEF a
<1>9. Buddy!BlockAt(y, n) = y /\ Buddy!Buddy(y, n) = d
  BY <1>1, <1>2, <1>4, <1>5, <1>7, <1>8
<1> QED BY <1>5, <1>6, <1>9 DEF c, d, y

\* The two halves are all of the block.
LEMMA OneOfTwo ==
  ASSUME NEW n \in Nat, NEW x \in Nat, NEW z \in Nat,
         Buddy!BlockAt(z, n + 1) = Buddy!BlockAt(x, n + 1)
  PROVE  /\ Buddy!BlockAt(z, n) \in {Buddy!BlockAt(x, n), Buddy!Buddy(x, n)}
         /\ Buddy!BlockAt(z, n) = Buddy!BlockAt(x, n) => Buddy!Buddy(z, n) = Buddy!Buddy(x, n)
<1> DEFINE c == Buddy!BlockAt(x, n + 1)
           a == Buddy!Bytes(n)
<1>1. c \in Nat
  BY Within
<1>2. a \in Nat /\ a > 0
  BY BytesNat
<1>3. \/ Buddy!BlockAt(x, n) = c /\ Buddy!Buddy(x, n) = c + a
      \/ Buddy!BlockAt(x, n) = c + a /\ Buddy!Buddy(x, n) = c
  BY Halves
<1>4. \/ Buddy!BlockAt(z, n) = c /\ Buddy!Buddy(z, n) = c + a
      \/ Buddy!BlockAt(z, n) = c + a /\ Buddy!Buddy(z, n) = c
  BY Halves
<1> HIDE DEF c, a
<1> QED BY <1>1, <1>2, <1>3, <1>4

LEMMA BuddySame ==
  ASSUME NEW n \in Nat, NEW x \in Nat, NEW z \in Nat, Buddy!BlockAt(z, n) = Buddy!BlockAt(x, n)
  PROVE  Buddy!Buddy(z, n) = Buddy!Buddy(x, n)
<1>1. n <= n + 1 /\ n + 1 \in Nat
  OBVIOUS
<1>2. Buddy!BlockAt(z, n + 1) = Buddy!BlockAt(x, n + 1)
  BY <1>1, NestedSame
<1> QED BY <1>2, OneOfTwo

-----------------------------------------------------------------------------
(* Tilings of the largest block: the addresses of the blocks, by order.    *)

Cells == 0 .. Buddy!Bytes(MAX_ORDER) - 1

\* Each address is in one block, which is aligned to its order.
TilesOnce(T) ==
  /\ \A o \in Buddy!Orders : \A c \in T[o] : c \in Cells /\ Buddy!BlockAt(c, o) = c
  /\ \A x \in Cells : \E o \in Buddy!Orders : Buddy!BlockAt(x, o) \in T[o]
  /\ \A x \in Cells : \A o, p \in Buddy!Orders :
        Buddy!BlockAt(x, o) \in T[o] /\ Buddy!BlockAt(x, p) \in T[p] => o = p

\* What the block of order hi that has a is cut into, down to order lo; and what is
\* merged into it, from order lo up.
IsPiece(a, lo, hi, c, o) ==
  \/ o = lo /\ c = Buddy!BlockAt(a, lo)
  \/ lo <= o /\ o < hi /\ c = Buddy!Buddy(a, o)

LEMMA CellsWhole ==
  ASSUME NEW x \in Nat
  PROVE  x \in Cells <=> Buddy!BlockAt(x, MAX_ORDER) = 0
<1> DEFINE a == Buddy!Bytes(MAX_ORDER)
<1>1. a \in Nat /\ a > 0 /\ MAX_ORDER \in Nat
  BY BytesNat, BuddyConstants
<1>2. Cells = 0 .. a - 1
  BY DEF Cells
<1>3. Buddy!BlockAt(x, MAX_ORDER) = 0 => x < a
  BY <1>1, Within
<1>4. x < a => Buddy!BlockAt(x, MAX_ORDER) = 0
  <2>1. 0 * a <= x /\ (x < a => x < 0 * a + a)
    BY <1>1
  <2>2. x < a => x \div a = 0
    <3> HIDE DEF a
    <3> QED BY <1>1, <2>1, DivUnique
  <2> QED BY <1>1, <2>2 DEF Buddy!BlockAt
<1> HIDE DEF a
<1> QED BY <1>1, <1>2, <1>3, <1>4

LEMMA OrdersNat == ASSUME NEW o \in Buddy!Orders PROVE o \in Nat /\ o <= MAX_ORDER
BY BuddyConstants

LEMMA CellsSame ==
  ASSUME NEW x \in Cells, NEW y \in Nat, NEW o \in Buddy!Orders,
         Buddy!BlockAt(x, o) = Buddy!BlockAt(y, o)
  PROVE  y \in Cells
<1>1. x \in Nat /\ o \in Nat /\ o <= MAX_ORDER /\ MAX_ORDER \in Nat
  BY OrdersNat, BuddyConstants DEF Cells
<1>2. Buddy!BlockAt(x, MAX_ORDER) = Buddy!BlockAt(y, MAX_ORDER)
  BY <1>1, NestedSame
<1>3. Buddy!BlockAt(x, MAX_ORDER) = 0
  BY <1>1, CellsWhole
<1> QED BY <1>2, <1>3, CellsWhole

LEMMA PieceAbove ==
  ASSUME NEW a \in Nat, NEW x \in Nat, NEW lo \in Nat, NEW hi \in Nat, NEW o \in Nat,
         IsPiece(a, lo, hi, Buddy!BlockAt(x, o), o), NEW k \in Nat, o < k
  PROVE  Buddy!BlockAt(x, k) = Buddy!BlockAt(a, k)
<1>1. CASE o = lo /\ Buddy!BlockAt(x, o) = Buddy!BlockAt(a, lo)
  BY <1>1, NestedSame
<1>2. CASE Buddy!BlockAt(x, o) = Buddy!Buddy(a, o)
  <2> DEFINE y == Buddy!Buddy(a, o)
  <2>1. y \in Nat /\ Buddy!BlockAt(y, o) = y /\ Buddy!BlockAt(y, o + 1) = Buddy!BlockAt(a, o + 1)
    BY BuddyFacts
  <2> HIDE DEF y
  <2>2. Buddy!BlockAt(x, o) = Buddy!BlockAt(y, o)
    BY <1>2, <2>1 DEF y
  <2>3. o + 1 \in Nat /\ o <= o + 1 /\ o + 1 <= k
    OBVIOUS
  <2>4. Buddy!BlockAt(x, o + 1) = Buddy!BlockAt(y, o + 1)
    BY <2>1, <2>2, <2>3, NestedSame
  <2>5. Buddy!BlockAt(x, o + 1) = Buddy!BlockAt(a, o + 1)
    BY <2>1, <2>4
  <2> QED BY <2>3, <2>5, NestedSame
<1> QED BY <1>1, <1>2 DEF IsPiece

LEMMA PieceInside ==
  ASSUME NEW a \in Nat, NEW x \in Nat, NEW lo \in Nat, NEW hi \in Nat, NEW o \in Nat, lo <= hi,
         IsPiece(a, lo, hi, Buddy!BlockAt(x, o), o)
  PROVE  o \in lo..hi /\ Buddy!BlockAt(x, hi) = Buddy!BlockAt(a, hi)
<1>1. o \in lo..hi
  BY DEF IsPiece
<1>2. CASE o < hi
  BY <1>1, <1>2, PieceAbove
<1>3. CASE o = hi
  BY <1>3 DEF IsPiece
<1> QED BY <1>1, <1>2, <1>3

LEMMA PieceOnce ==
  ASSUME NEW a \in Nat, NEW x \in Nat, NEW lo \in Nat, NEW hi \in Nat,
         NEW o \in Nat, IsPiece(a, lo, hi, Buddy!BlockAt(x, o), o),
         NEW k \in Nat, IsPiece(a, lo, hi, Buddy!BlockAt(x, k), k), o < k
  PROVE  FALSE
<1>1. Buddy!BlockAt(x, k) = Buddy!BlockAt(a, k)
  BY PieceAbove
<1>2. Buddy!BlockAt(x, k) = Buddy!Buddy(a, k)
  BY DEF IsPiece
<1>3. Buddy!Buddy(a, k) # Buddy!BlockAt(a, k)
  BY BuddyFacts
<1> QED BY <1>1, <1>2, <1>3

LEMMA PieceCovers ==
  ASSUME NEW a \in Nat, NEW x \in Nat, NEW lo \in Nat, NEW hi \in Nat, lo <= hi,
         Buddy!BlockAt(x, hi) = Buddy!BlockAt(a, hi)
  PROVE  \E o \in lo..hi : IsPiece(a, lo, hi, Buddy!BlockAt(x, o), o)
<1> DEFINE S == {o \in lo..hi : Buddy!BlockAt(x, o) = Buddy!BlockAt(a, o)}
           r == Group!Min(S)
<1>1. hi \in S /\ S \subseteq Nat
  OBVIOUS
<1>2. r \in S /\ \A y \in S : r =< y
  <2> HIDE DEF S
  <2>1. S # {}
    BY <1>1
  <2> QED BY <1>1, <2>1, MinIsLeast
<1> HIDE DEF r
<1>3. r \in lo..hi /\ Buddy!BlockAt(x, r) = Buddy!BlockAt(a, r) /\ r \in Nat
  BY <1>2
<1>4. CASE r = lo
  BY <1>3, <1>4 DEF IsPiece
<1>5. CASE r # lo
  <2> DEFINE o == r - 1
  <2>1. o \in Nat /\ o \in lo..hi /\ o < hi /\ r = o + 1 /\ ~(r =< o) /\ lo <= o
    BY <1>3, <1>5
  <2> HIDE DEF o
  <2>2. Buddy!BlockAt(x, o) # Buddy!BlockAt(a, o)
    BY <1>2, <2>1
  <2>3. Buddy!BlockAt(x, o + 1) = Buddy!BlockAt(a, o + 1)
    BY <1>3, <2>1
  <2>4. Buddy!BlockAt(x, o) = Buddy!Buddy(a, o)
    BY <2>1, <2>2, <2>3, OneOfTwo
  <2> QED BY <2>1, <2>4 DEF IsPiece
<1> QED BY <1>4, <1>5

LEMMA PieceCell ==
  ASSUME NEW a \in Cells, NEW lo \in Nat, NEW hi \in Buddy!Orders, lo <= hi,
         NEW o \in Buddy!Orders, NEW c, IsPiece(a, lo, hi, c, o)
  PROVE  c \in Cells /\ Buddy!BlockAt(c, o) = c
<1>1. a \in Nat /\ o \in Nat /\ o + 1 \in Nat
  BY OrdersNat DEF Cells
<1>2. CASE o = lo /\ c = Buddy!BlockAt(a, lo)
  <2>1. c \in Nat /\ Buddy!BlockAt(c, o) = c
    BY <1>1, <1>2, Within, Idempotent
  <2> QED BY <1>2, <2>1, CellsSame
<1>3. CASE o < hi /\ c = Buddy!Buddy(a, o)
  <2>1. c \in Nat /\ Buddy!BlockAt(c, o) = c /\ Buddy!BlockAt(c, o + 1) = Buddy!BlockAt(a, o + 1)
    BY <1>1, <1>3, BuddyFacts
  <2>2. o + 1 \in Buddy!Orders
    BY <1>1, <1>3, BuddyConstants
  <2> QED BY <2>1, <2>2, CellsSame
<1> QED BY <1>2, <1>3 DEF IsPiece

\* Cutting a block keeps a tiling.
LEMMA SplitTiles ==
  ASSUME NEW T, TilesOnce(T), NEW a \in Cells, NEW lo \in Buddy!Orders, NEW hi \in Buddy!Orders,
         lo <= hi, Buddy!BlockAt(a, hi) \in T[hi], NEW U,
         \A o \in Buddy!Orders : \A c :
            c \in U[o] <=> \/ c \in T[o] /\ ~(o = hi /\ c = Buddy!BlockAt(a, hi))
                           \/ IsPiece(a, lo, hi, c, o)
  PROVE  TilesOnce(U)
<1>0. /\ a \in Nat /\ lo \in Nat /\ hi \in Nat /\ Buddy!Orders \subseteq Nat /\ Cells \subseteq Nat
      /\ lo..hi \subseteq Buddy!Orders
  BY OrdersNat, BuddyConstants DEF Cells
<1>1. ASSUME NEW o \in Buddy!Orders, NEW c \in U[o]
      PROVE  c \in Cells /\ Buddy!BlockAt(c, o) = c
  <2>1. CASE c \in T[o]
    BY <2>1 DEF TilesOnce
  <2>2. CASE IsPiece(a, lo, hi, c, o)
    BY <1>0, <2>2, PieceCell
  <2> QED BY <1>1, <2>1, <2>2
<1>2. ASSUME NEW x \in Cells
      PROVE  \E o \in Buddy!Orders : Buddy!BlockAt(x, o) \in U[o]
  <2>1. PICK o \in Buddy!Orders : Buddy!BlockAt(x, o) \in T[o]
    BY DEF TilesOnce
  <2>2. CASE o = hi /\ Buddy!BlockAt(x, o) = Buddy!BlockAt(a, hi)
    <3>1. \E k \in lo..hi : IsPiece(a, lo, hi, Buddy!BlockAt(x, k), k)
      BY <1>0, <2>2, PieceCovers
    <3> QED BY <1>0, <3>1
  <2>3. CASE ~(o = hi /\ Buddy!BlockAt(x, o) = Buddy!BlockAt(a, hi))
    BY <2>1, <2>3
  <2> QED BY <2>2, <2>3
<1>3. ASSUME NEW x \in Cells, NEW o \in Buddy!Orders, NEW p \in Buddy!Orders, o < p,
             Buddy!BlockAt(x, o) \in U[o], Buddy!BlockAt(x, p) \in U[p]
      PROVE  FALSE
  <2> DEFINE Piece(k) == IsPiece(a, lo, hi, Buddy!BlockAt(x, k), k)
             Old(k) == Buddy!BlockAt(x, k) \in T[k] /\ ~(k = hi /\ Buddy!BlockAt(x, k) = Buddy!BlockAt(a, hi))
  <2>1. ASSUME NEW k \in Buddy!Orders, Piece(k), NEW l \in Buddy!Orders, Old(l) PROVE FALSE
    <3>1. Buddy!BlockAt(x, hi) = Buddy!BlockAt(a, hi)
      BY <1>0, <2>1, PieceInside
    <3>2. l = hi
      BY <2>1, <3>1 DEF TilesOnce
    <3> QED BY <2>1, <3>1, <3>2
  <2>2. ~(Piece(o) /\ Piece(p))
    BY <1>0, <1>3, PieceOnce
  <2>3. ~(Old(o) /\ Old(p))
    BY <1>0, <1>3 DEF TilesOnce
  <2>4. (Piece(o) \/ Old(o)) /\ (Piece(p) \/ Old(p))
    BY <1>3
  <2> QED BY <2>1, <2>2, <2>3, <2>4
<1>4. ASSUME NEW x \in Cells, NEW o \in Buddy!Orders, NEW p \in Buddy!Orders,
             Buddy!BlockAt(x, o) \in U[o], Buddy!BlockAt(x, p) \in U[p]
      PROVE  o = p
  <2>1. ~(o < p) /\ ~(p < o)
    BY <1>3, <1>4
  <2> QED BY <1>0, <2>1
<1> QED BY <1>1, <1>2, <1>4 DEF TilesOnce

\* Merging keeps one.
LEMMA MergeTiles ==
  ASSUME NEW T, TilesOnce(T), NEW a \in Cells, NEW lo \in Buddy!Orders, NEW hi \in Buddy!Orders,
         lo <= hi, \A o \in Buddy!Orders : \A c : IsPiece(a, lo, hi, c, o) => c \in T[o], NEW U,
         \A o \in Buddy!Orders : \A c :
            c \in U[o] <=> \/ c \in T[o] /\ ~IsPiece(a, lo, hi, c, o)
                           \/ o = hi /\ c = Buddy!BlockAt(a, hi)
  PROVE  TilesOnce(U)
<1>0. /\ a \in Nat /\ lo \in Nat /\ hi \in Nat /\ Buddy!Orders \subseteq Nat /\ Cells \subseteq Nat
      /\ lo..hi \subseteq Buddy!Orders
  BY OrdersNat, BuddyConstants DEF Cells
<1>1. ASSUME NEW o \in Buddy!Orders, NEW c \in U[o]
      PROVE  c \in Cells /\ Buddy!BlockAt(c, o) = c
  <2>1. CASE c \in T[o]
    BY <2>1 DEF TilesOnce
  <2>2. CASE o = hi /\ c = Buddy!BlockAt(a, hi)
    <3>1. c \in Nat /\ Buddy!BlockAt(c, o) = c
      BY <1>0, <2>2, Within, Idempotent
    <3> QED BY <2>2, <3>1, CellsSame
  <2> QED BY <1>1, <2>1, <2>2
<1>2. ASSUME NEW x \in Cells
      PROVE  \E o \in Buddy!Orders : Buddy!BlockAt(x, o) \in U[o]
  <2>1. PICK o \in Buddy!Orders : Buddy!BlockAt(x, o) \in T[o]
    BY DEF TilesOnce
  <2>2. CASE IsPiece(a, lo, hi, Buddy!BlockAt(x, o), o)
    <3>1. Buddy!BlockAt(x, hi) = Buddy!BlockAt(a, hi)
      BY <1>0, <2>2, PieceInside
    <3> QED BY <3>1
  <2>3. CASE ~IsPiece(a, lo, hi, Buddy!BlockAt(x, o), o)
    BY <2>1, <2>3
  <2> QED BY <2>2, <2>3
<1>3. ASSUME NEW x \in Cells, NEW o \in Buddy!Orders, Buddy!BlockAt(x, o) \in T[o],
             ~IsPiece(a, lo, hi, Buddy!BlockAt(x, o), o)
      PROVE  Buddy!BlockAt(x, hi) # Buddy!BlockAt(a, hi)
  <2> SUFFICES ASSUME Buddy!BlockAt(x, hi) = Buddy!BlockAt(a, hi) PROVE FALSE
    OBVIOUS
  <2>1. PICK k \in lo..hi : IsPiece(a, lo, hi, Buddy!BlockAt(x, k), k)
    BY <1>0, PieceCovers
  <2>2. k \in Buddy!Orders /\ Buddy!BlockAt(x, k) \in T[k]
    BY <1>0, <2>1
  <2>3. k = o
    BY <1>3, <2>2 DEF TilesOnce
  <2> QED BY <1>3, <2>1, <2>3
<1>4. ASSUME NEW x \in Cells, NEW o \in Buddy!Orders, NEW p \in Buddy!Orders,
             Buddy!BlockAt(x, o) \in U[o], Buddy!BlockAt(x, p) \in U[p]
      PROVE  o = p
  <2> DEFINE New(k) == k = hi /\ Buddy!BlockAt(x, k) = Buddy!BlockAt(a, hi)
             Old(k) == Buddy!BlockAt(x, k) \in T[k] /\ ~IsPiece(a, lo, hi, Buddy!BlockAt(x, k), k)
  <2>1. (New(o) \/ Old(o)) /\ (New(p) \/ Old(p))
    BY <1>4
  <2>2. \A k, l \in Buddy!Orders : ~(New(k) /\ Old(l))
    BY <1>3
  <2>3. Old(o) /\ Old(p) => o = p
    BY DEF TilesOnce
  <2>4. New(o) /\ New(p) => o = p
    OBVIOUS
  <2> QED BY <2>1, <2>2, <2>3, <2>4
<1> QED BY <1>1, <1>2, <1>4 DEF TilesOnce

-----------------------------------------------------------------------------
(* The invariant of the headers and of the free lists.                     *)

BuddyTyped(g) ==
  g \in [hdr : [Buddy!Addrs -> Buddy!Header], free_blocks : [Buddy!Orders -> Seq(Buddy!Addrs)],
         current_blocks : Int, total_allocated : Nat]

\* The order that buddy_free reads in a header.
OrderOf(g, a) == Buddy!get_order(g.hdr[a].size + BUDDY_HEADER)

SizeFits(g, a, o) ==
  \/ g.hdr[a].size = Buddy!Bytes(o) - BUDDY_HEADER
  \/ o = MAX_ORDER /\ g.hdr[a].size = TOTAL - BUDDY_HEADER

\* The blocks of each order, listed or in use.
TreeOf(g, used) ==
  [o \in Buddy!Orders |-> Buddy!Listed(g, o) \cup {a \in used : OrderOf(g, a) = o}]

ListsSound(g) ==
  \A o \in Buddy!Orders :
     /\ Distinct(g.free_blocks[o])
     /\ \A a \in Buddy!Listed(g, o) : /\ g.hdr[a].is_free /\ SizeFits(g, a, o)
                                      /\ o # MAX_ORDER => Buddy!Buddy(a, o) \notin Buddy!Listed(g, o)

UsedSound(g, used) ==
  \A a \in used : a \in Cells /\ ~g.hdr[a].is_free /\ SizeFits(g, a, OrderOf(g, a))

BuddySound(g, used) ==
  BuddyTyped(g) /\ TilesOnce(TreeOf(g, used)) /\ ListsSound(g) /\ UsedSound(g, used)

UsedBy(hd) == {p - BUDDY_HEADER : p \in DOMAIN hd}

KeepsHeaders(g, r, used) == \A c \in used : r.hdr[c] = g.hdr[c]

\* A request is given a block that is large enough, or the largest.
HeldFits(g, hd) ==
  \A p \in DOMAIN hd :
     LET a == p - BUDDY_HEADER
     IN  /\ p \in Nat /\ hd[p] \in BuddySizes /\ hd[p] > 0 /\ g.hdr[a].user_size = hd[p]
         /\ OrderOf(g, a) = MAX_ORDER \/ hd[p] + BUDDY_HEADER <= Buddy!Bytes(OrderOf(g, a))

HeldCounted(g, hd) == IsFiniteSet(DOMAIN hd) /\ g.current_blocks = Cardinality(DOMAIN hd)

BuddySafe(g, hd) == BuddySound(g, UsedBy(hd)) /\ HeldFits(g, hd) /\ HeldCounted(g, hd)

LEMMA BuddyMin ==
  ASSUME NEW S, S \subseteq Nat, S # {}
  PROVE  Buddy!Min(S) \in S /\ \A y \in S : Buddy!Min(S) =< y
<1>1. Buddy!Min(S) = Group!Min(S)
  BY Zenon DEF Buddy!Min, Group!Min
<1> QED BY <1>1, MinIsLeast

LEMMA BuddyMax ==
  ASSUME NEW k \in Nat, NEW S, S \subseteq 0..k, S # {}
  PROVE  Buddy!Max(S) \in S /\ \A y \in S : y =< Buddy!Max(S)
<1> DEFINE R == {j \in 0..k : k - j \in S}
           x == k - Group!Min(R)
<1>1. R # {} /\ R \subseteq Nat
  <2>1. PICK s \in S : TRUE
    OBVIOUS
  <2>2. k - s \in 0..k /\ k - (k - s) = s
    BY <2>1
  <2>3. k - s \in R
    BY <2>1, <2>2
  <2> QED BY <2>3
<1>2. Group!Min(R) \in R /\ \A y \in R : Group!Min(R) =< y
  BY <1>1, MinIsLeast
<1>3. x \in S
  BY <1>2
<1>4. ASSUME NEW y \in S PROVE y =< x
  <2>1. y \in 0..k /\ k - y \in 0..k /\ k - (k - y) = y
    OBVIOUS
  <2>2. k - y \in R
    BY <2>1
  <2>3. Group!Min(R) =< k - y /\ Group!Min(R) \in 0..k
    BY <1>2, <2>2
  <2> QED BY <2>1, <2>3
<1> HIDE DEF x
<1> QED BY <1>3, <1>4, Zenon DEF Buddy!Max

LEMMA GetOrder ==
  ASSUME NEW n \in Nat
  PROVE  LET k == Buddy!get_order(n)
         IN  /\ k \in Buddy!Orders /\ (k = MAX_ORDER \/ n <= Buddy!Bytes(k))
             /\ \A o \in Buddy!Orders : Buddy!Bytes(o) >= n => k <= o
<1> DEFINE S == {o \in Buddy!Orders : Buddy!Bytes(o) >= n} \cup {MAX_ORDER}
<1>1. S # {} /\ S \subseteq Nat /\ S \subseteq Buddy!Orders
  BY BuddyConstants
<1>2. Buddy!Min(S) \in S /\ \A y \in S : Buddy!Min(S) =< y
  BY <1>1, BuddyMin
<1>3. Buddy!get_order(n) = Buddy!Min(S)
  BY DEF Buddy!get_order
<1>4. \A o \in Buddy!Orders : Buddy!Bytes(o) >= n => o \in S
  OBVIOUS
<1>5. \A o \in S : o = MAX_ORDER \/ Buddy!Bytes(o) >= n
  OBVIOUS
<1>6. \A o \in S : Buddy!Bytes(o) \in Nat
  BY <1>1, BytesNat
<1> HIDE DEF S
<1>7. Buddy!get_order(n) \in S
  BY <1>2, <1>3
<1>8. Buddy!get_order(n) = MAX_ORDER \/ n <= Buddy!Bytes(Buddy!get_order(n))
  BY <1>5, <1>6, <1>7
<1>9. \A o \in Buddy!Orders : Buddy!Bytes(o) >= n => Buddy!get_order(n) <= o
  BY <1>2, <1>3, <1>4
<1> QED BY <1>1, <1>7, <1>8, <1>9

\* A header that has the size of an order leads buddy_free to that order.
LEMMA OrderOfSize ==
  ASSUME NEW o \in Buddy!Orders, NEW s, s = Buddy!Bytes(o) \/ (o = MAX_ORDER /\ s = TOTAL)
  PROVE  Buddy!get_order(s) = o
<1>1. o \in Nat /\ o <= MAX_ORDER /\ MAX_ORDER \in Nat /\ Buddy!Orders \subseteq Nat
  BY OrdersNat, BuddyConstants
<1>2. Buddy!Bytes(o) \in Nat /\ Buddy!Bytes(MAX_ORDER) \in Nat
  <2>1. Buddy!Bytes(o) \in Nat
    BY <1>1, BytesNat
  <2>2. Buddy!Bytes(MAX_ORDER) \in Nat
    BY <1>1, BytesNat
  <2> QED BY <2>1, <2>2
<1>3. s \in Nat /\ s >= Buddy!Bytes(o)
  BY <1>2, BuddyConstants
<1> DEFINE k == Buddy!get_order(s)
<1>4. k \in Buddy!Orders /\ (k = MAX_ORDER \/ s <= Buddy!Bytes(k))
      /\ \A p \in Buddy!Orders : Buddy!Bytes(p) >= s => k <= p
  BY <1>3, GetOrder
<1> HIDE DEF k
<1>5. k \in Nat /\ k <= MAX_ORDER /\ Buddy!Bytes(k) \in Nat
  BY <1>4, OrdersNat, BytesNat
<1>6. ~(k < o)
  <2> SUFFICES ASSUME k < o PROVE FALSE
    OBVIOUS
  <2>1. Buddy!Bytes(k) < Buddy!Bytes(o)
    BY <1>1, <1>5, BytesGrow
  <2>2. k # MAX_ORDER
    BY <1>1, <1>5
  <2> QED BY <1>2, <1>3, <1>4, <1>5, <2>1, <2>2
<1>7. ~(o < k)
  <2>1. o = MAX_ORDER \/ k <= o
    BY <1>2, <1>3, <1>4
  <2> QED BY <1>1, <1>5, <2>1
<1>8. k = o
  BY <1>1, <1>5, <1>6, <1>7
<1> QED BY <1>8 DEF k

LEMMA OrderExact ==
  ASSUME NEW g, NEW a, NEW o \in Buddy!Orders, SizeFits(g, a, o)
  PROVE  OrderOf(g, a) = o
<1>1. Buddy!Bytes(o) \in Nat /\ BUDDY_HEADER \in Nat /\ TOTAL \in Nat
  BY BytesNat, OrdersNat, BuddyConstants
<1> DEFINE s == g.hdr[a].size + BUDDY_HEADER
<1>2. s = Buddy!Bytes(o) \/ (o = MAX_ORDER /\ s = TOTAL)
  <2>1. CASE g.hdr[a].size = Buddy!Bytes(o) - BUDDY_HEADER
    BY <1>1, <2>1
  <2>2. CASE o = MAX_ORDER /\ g.hdr[a].size = TOTAL - BUDDY_HEADER
    BY <1>1, <2>2
  <2> QED BY <2>1, <2>2 DEF SizeFits
<1> HIDE DEF s
<1>3. Buddy!get_order(s) = o
  BY <1>2, OrderOfSize
<1> QED BY <1>3 DEF OrderOf, s

LEMMA BytesFit ==
  ASSUME NEW o \in Buddy!Orders
  PROVE  /\ Buddy!Bytes(o) \in Nat /\ Buddy!Bytes(o) > BUDDY_HEADER
         /\ Buddy!Bytes(o) <= Buddy!Bytes(MAX_ORDER) /\ Buddy!Bytes(o) <= TOTAL
         /\ Buddy!Bytes(o) - BUDDY_HEADER \in 0..TOTAL
<1>1. o \in Nat /\ o <= MAX_ORDER /\ MAX_ORDER \in Nat
  BY OrdersNat, BuddyConstants
<1>2. Buddy!Bytes(o) \in Nat /\ Buddy!Bytes(o) > BUDDY_HEADER
  BY <1>1, BytesNat
<1>3. Buddy!Bytes(MAX_ORDER) \in Nat
  BY <1>1, BytesNat
<1>4. Buddy!Bytes(o) <= Buddy!Bytes(MAX_ORDER)
  <2>1. CASE o < MAX_ORDER
    BY <1>1, <1>2, <1>3, <2>1, BytesGrow
  <2>2. CASE o = MAX_ORDER
    BY <1>2, <2>2
  <2> QED BY <1>1, <2>1, <2>2
<1> QED BY <1>2, <1>3, <1>4, BuddyConstants

LEMMA CellsAddrs == Cells \subseteq Buddy!Addrs /\ Buddy!Addrs \subseteq Nat /\ 0 \in Cells
<1>1. Buddy!Bytes(MAX_ORDER) \in Nat /\ Buddy!Bytes(MAX_ORDER) > 0
  BY BytesNat, BuddyConstants
<1> QED BY <1>1, BuddyConstants DEF Cells, Buddy!Addrs

LEMMA BuddyFields ==
  ASSUME NEW g, BuddyTyped(g)
  PROVE  /\ g.hdr \in [Buddy!Addrs -> Buddy!Header]
         /\ g.free_blocks \in [Buddy!Orders -> Seq(Buddy!Addrs)]
         /\ g.current_blocks \in Int /\ g.total_allocated \in Nat
         /\ g = [hdr |-> g.hdr, free_blocks |-> g.free_blocks, current_blocks |-> g.current_blocks,
                 total_allocated |-> g.total_allocated]
BY DEF BuddyTyped

LEMMA ListedElements == \A g, o : Buddy!Listed(g, o) = Elements(g.free_blocks[o])
BY DEF Buddy!Listed, Elements

\* A block of a tiling that lies in one of a tiling is that one.
LEMMA InsideIsSame ==
  ASSUME NEW T, TilesOnce(T), NEW hi \in Buddy!Orders, NEW a \in Nat, Buddy!BlockAt(a, hi) \in T[hi],
         NEW o \in Buddy!Orders, NEW c \in T[o], Buddy!BlockAt(c, hi) = Buddy!BlockAt(a, hi)
  PROVE  o = hi /\ c = Buddy!BlockAt(a, hi)
<1>1. c \in Cells /\ Buddy!BlockAt(c, o) = c
  BY DEF TilesOnce
<1>2. o = hi
  BY <1>1 DEF TilesOnce
<1> QED BY <1>1, <1>2

-----------------------------------------------------------------------------
(* buddy_malloc.                                                           *)

\* What buddy_malloc leaves: the block a, of order hi, is cut down to order lo.
IsTaken(g, r, a, lo, hi, size) ==
  /\ r = [hdr |-> r.hdr, free_blocks |-> r.free_blocks, current_blocks |-> g.current_blocks + 1,
          total_allocated |-> g.total_allocated + size]
  /\ r.hdr \in [Buddy!Addrs -> [size : Int, user_size : Nat, is_free : BOOLEAN]]
  /\ r.hdr[a].size = IF lo < hi THEN Buddy!Bytes(lo) - BUDDY_HEADER ELSE g.hdr[a].size
  /\ r.hdr[a].user_size = size /\ r.hdr[a].is_free = FALSE
  /\ \A o \in lo .. hi - 1 :
        a + Buddy!Bytes(o) \in Buddy!Addrs =>
           /\ r.hdr[a + Buddy!Bytes(o)].size = Buddy!Bytes(o) - BUDDY_HEADER
           /\ r.hdr[a + Buddy!Bytes(o)].is_free = TRUE
  /\ \A c \in Buddy!Addrs :
        c # a /\ (\A o \in lo .. hi - 1 : c # a + Buddy!Bytes(o)) => r.hdr[c] = g.hdr[c]
  /\ r.free_blocks = [o \in Buddy!Orders |->
                        IF o \in lo .. hi - 1 THEN <<a + Buddy!Bytes(o)>> \o g.free_blocks[o]
                        ELSE IF o = hi THEN Tail(g.free_blocks[o]) ELSE g.free_blocks[o]]

LEMMA MallocFields ==
  ASSUME NEW g, BuddyTyped(g), NEW size \in Nat, Buddy!CanMalloc(g, size),
         NEW a \in Buddy!Addrs, a = Buddy!Chosen(g, size),
         NEW lo \in Buddy!Orders, lo = Buddy!get_order(size + BUDDY_HEADER),
         NEW hi \in Buddy!Orders, hi = Buddy!Min(Buddy!Candidates(g, size)),
         NEW r, r = Buddy!buddy_malloc(g, size)
  PROVE  IsTaken(g, r, a, lo, hi, size)
<1> DEFINE q == [g EXCEPT !.free_blocks[hi] = Tail(@)]
           t == Buddy!Split(q, a, hi, lo)
           h == [c \in Buddy!Addrs |->
                    IF \E o \in lo .. hi - 1 : c = a + Buddy!Bytes(o)
                    THEN [size |-> (c - a) - BUDDY_HEADER, user_size |-> 0, is_free |-> TRUE]
                    ELSE IF c = a /\ lo < hi THEN [g.hdr[a] EXCEPT !.size = Buddy!Bytes(lo) - BUDDY_HEADER]
                    ELSE g.hdr[c]]
           e == [h[a] EXCEPT !.is_free = FALSE, !.user_size = size]
           k == [h EXCEPT ![a] = e]
           x == [g.free_blocks EXCEPT ![hi] = Tail(@)]
           f == [o \in Buddy!Orders |->
                    IF o \in lo .. hi - 1 THEN <<a + Buddy!Bytes(o)>> \o x[o] ELSE x[o]]
<1>1. /\ g.hdr \in [Buddy!Addrs -> Buddy!Header]
      /\ g.free_blocks \in [Buddy!Orders -> Seq(Buddy!Addrs)]
      /\ g = [hdr |-> g.hdr, free_blocks |-> g.free_blocks, current_blocks |-> g.current_blocks,
              total_allocated |-> g.total_allocated]
  BY BuddyFields
<1>2. q = [hdr |-> g.hdr, free_blocks |-> x, current_blocks |-> g.current_blocks,
           total_allocated |-> g.total_allocated]
  <2>1. q = [g EXCEPT !.free_blocks = x]
    OBVIOUS
  <2> HIDE DEF x, q
  <2> QED BY <1>1, <2>1
<1>3. t = [hdr |-> h, free_blocks |-> f, current_blocks |-> g.current_blocks,
           total_allocated |-> g.total_allocated]
  <2> HIDE DEF x
  <2>1. q.hdr = g.hdr /\ q.free_blocks = x
    BY <1>2
  <2>2. t = [q EXCEPT !.hdr = h, !.free_blocks = f]
    <3>1. t = [q EXCEPT !.hdr = [c \in Buddy!Addrs |->
                    IF \E o \in lo .. hi - 1 : c = a + Buddy!Bytes(o)
                    THEN [size |-> (c - a) - BUDDY_HEADER, user_size |-> 0, is_free |-> TRUE]
                    ELSE IF c = a /\ lo < hi THEN [q.hdr[c] EXCEPT !.size = Buddy!Bytes(lo) - BUDDY_HEADER]
                    ELSE q.hdr[c]],
                        !.free_blocks = [o \in Buddy!Orders |->
                    IF o \in lo .. hi - 1 THEN <<a + Buddy!Bytes(o)>> \o q.free_blocks[o]
                    ELSE q.free_blocks[o]]]
      BY DEF Buddy!Split
    <3> HIDE DEF q, t
    <3> QED BY <2>1, <3>1
  <2> HIDE DEF h, f, t
  <2> QED BY <1>2, <2>2
<1>4. r = [hdr |-> k, free_blocks |-> f, current_blocks |-> g.current_blocks + 1,
           total_allocated |-> g.total_allocated + size]
  <2>1. r = [t EXCEPT !.hdr[a]          = [@ EXCEPT !.is_free = FALSE, !.user_size = size],
                      !.current_blocks  = @ + 1,
                      !.total_allocated = @ + size]
    BY Zenon DEF Buddy!buddy_malloc
  <2> HIDE DEF h, f, t
  <2>2. t.hdr = h /\ t.current_blocks = g.current_blocks /\ t.total_allocated = g.total_allocated
    BY <1>3
  <2>3. r = [t EXCEPT !.hdr             = k,
                      !.current_blocks  = g.current_blocks + 1,
                      !.total_allocated = g.total_allocated + size]
    BY <2>1, <2>2, Zenon
  <2> HIDE DEF k
  <2> QED BY <1>3, <2>3
<1>5. \A c \in Buddy!Addrs :
         h[c] = IF \E o \in lo .. hi - 1 : c = a + Buddy!Bytes(o)
                THEN [size |-> (c - a) - BUDDY_HEADER, user_size |-> 0, is_free |-> TRUE]
                ELSE IF c = a /\ lo < hi THEN [g.hdr[a] EXCEPT !.size = Buddy!Bytes(lo) - BUDDY_HEADER]
                ELSE g.hdr[c]
  OBVIOUS
<1>6. /\ a \in Nat /\ BUDDY_HEADER \in Nat /\ lo \in Nat /\ hi \in Nat
      /\ \A c \in Buddy!Addrs : c \in Nat
      /\ \A o \in lo .. hi - 1 : o \in Buddy!Orders
      /\ \A o \in Buddy!Orders : Buddy!Bytes(o) \in Nat /\ Buddy!Bytes(o) > 0
  <2>1. \A o \in Buddy!Orders : Buddy!Bytes(o) \in Nat /\ Buddy!Bytes(o) > 0
    BY OrdersNat, BytesNat
  <2> QED BY <2>1, CellsAddrs, OrdersNat, BuddyConstants
<1> DEFINE HT == [size : Int, user_size : Nat, is_free : BOOLEAN]
<1>7. \A c \in Buddy!Addrs : g.hdr[c] \in HT
  BY <1>1, BuddyConstants DEF Buddy!Header
<1>8. h \in [Buddy!Addrs -> HT]
  <2>1. ASSUME NEW c \in Buddy!Addrs PROVE h[c] \in HT
    <3>1. c \in Int /\ a \in Int /\ (c - a) - BUDDY_HEADER \in Int /\ Buddy!Bytes(lo) - BUDDY_HEADER \in Int
      BY <1>6
    <3>2. [size |-> (c - a) - BUDDY_HEADER, user_size |-> 0, is_free |-> TRUE] \in HT
      BY <3>1
    <3>3. [g.hdr[a] EXCEPT !.size = Buddy!Bytes(lo) - BUDDY_HEADER] \in HT
      <4>1. g.hdr[a] \in HT
        BY <1>7
      <4> QED BY <3>1, <4>1
    <3> HIDE DEF h, HT
    <3> QED BY <1>5, <1>7, <3>2, <3>3
  <2>2. h = [c \in Buddy!Addrs |-> h[c]]
    OBVIOUS
  <2> HIDE DEF h, HT
  <2> QED BY <2>1, <2>2
<1>9. a \notin {a + Buddy!Bytes(o) : o \in lo .. hi - 1}
  BY <1>6
<1>10. h[a].size = IF lo < hi THEN Buddy!Bytes(lo) - BUDDY_HEADER ELSE g.hdr[a].size
  <2>1. h[a] = IF lo < hi THEN [g.hdr[a] EXCEPT !.size = Buddy!Bytes(lo) - BUDDY_HEADER] ELSE g.hdr[a]
    <3> HIDE DEF h
    <3> QED BY <1>5, <1>9
  <2>2. g.hdr[a] \in HT
    BY <1>7
  <2> HIDE DEF h
  <2> QED BY <2>1, <2>2
<1> HIDE DEF h
<1>11. h[a] \in HT
  BY <1>8
<1>12a. /\ e \in HT /\ e.size = h[a].size /\ e.user_size = size /\ e.is_free = FALSE
  BY <1>11
<1> HIDE DEF e, HT
<1>12. /\ k \in [Buddy!Addrs -> HT] /\ k[a].size = h[a].size /\ k[a].user_size = size /\ k[a].is_free = FALSE
       /\ \A c \in Buddy!Addrs : c # a => k[c] = h[c]
  BY <1>8, <1>12a
<1> HIDE DEF k
<1>13. ASSUME NEW o \in lo .. hi - 1, a + Buddy!Bytes(o) \in Buddy!Addrs
       PROVE  /\ k[a + Buddy!Bytes(o)].size = Buddy!Bytes(o) - BUDDY_HEADER
              /\ k[a + Buddy!Bytes(o)].is_free = TRUE
  <2> DEFINE c == a + Buddy!Bytes(o)
  <2>1. c # a /\ c - a = Buddy!Bytes(o)
    BY <1>6
  <2>2. h[c] = [size |-> (c - a) - BUDDY_HEADER, user_size |-> 0, is_free |-> TRUE]
    BY <1>5, <1>13
  <2>3. k[c] = h[c]
    BY <1>12, <1>13, <2>1
  <2> QED BY <2>1, <2>2, <2>3
<1>14. \A c \in Buddy!Addrs :
         c # a /\ (\A o \in lo .. hi - 1 : c # a + Buddy!Bytes(o)) => k[c] = g.hdr[c]
  BY <1>5, <1>12
<1>15. f = [o \in Buddy!Orders |->
                        IF o \in lo .. hi - 1 THEN <<a + Buddy!Bytes(o)>> \o g.free_blocks[o]
                        ELSE IF o = hi THEN Tail(g.free_blocks[o]) ELSE g.free_blocks[o]]
  <2>1. ASSUME NEW o \in Buddy!Orders
        PROVE  x[o] = IF o = hi THEN Tail(g.free_blocks[o]) ELSE g.free_blocks[o]
    BY <1>1
  <2>2. \A o \in lo .. hi - 1 : o # hi
    BY <1>6
  <2> HIDE DEF x
  <2> QED BY <2>1, <2>2
<1> HIDE DEF f
<1>16. r.hdr = k /\ r.free_blocks = f
  BY <1>4
<1> QED BY <1>4, <1>10, <1>12, <1>13, <1>14, <1>15, <1>16 DEF IsTaken, HT

LEMMA TailElements ==
  ASSUME NEW S, NEW s \in Seq(S), s # <<>>, Distinct(s)
  PROVE  /\ Tail(s) \in Seq(S) /\ Distinct(Tail(s)) /\ Head(s) \in Elements(s)
         /\ Elements(Tail(s)) = Elements(s) \ {Head(s)}
<1> DEFINE u == Tail(s)
<1>1. /\ Len(s) \in Nat /\ Len(s) > 0 /\ u \in Seq(S) /\ Len(u) = Len(s) - 1 /\ Head(s) = s[1]
      /\ \A j \in 1..Len(u) : u[j] = s[j + 1]
  OBVIOUS
<1>2. DOMAIN s = 1..Len(s) /\ DOMAIN u = 1..Len(u)
  BY <1>1
<1> HIDE DEF u
<1>3. \A i, j \in 1..Len(s) : s[i] = s[j] => i = j
  BY <1>2 DEF Distinct
<1>4. Distinct(u)
  <2> SUFFICES ASSUME NEW i \in 1..Len(u), NEW j \in 1..Len(u), u[i] = u[j] PROVE i = j
    BY <1>2 DEF Distinct
  <2>1. i + 1 \in 1..Len(s) /\ j + 1 \in 1..Len(s)
    BY <1>1
  <2>2. i + 1 = j + 1
    BY <1>1, <1>3, <2>1
  <2> QED BY <2>2
<1>5. ASSUME NEW j \in 1..Len(u) PROVE u[j] \in Elements(s) \ {s[1]}
  <2>1. j + 1 \in 1..Len(s) /\ 1 \in 1..Len(s) /\ j + 1 # 1
    BY <1>1
  <2>2. s[j + 1] # s[1]
    BY <1>3, <2>1
  <2> QED BY <1>1, <1>2, <2>1, <2>2 DEF Elements
<1>6. ASSUME NEW j \in 1..Len(s), s[j] # s[1] PROVE s[j] \in Elements(u)
  <2>1. j - 1 \in 1..Len(u) /\ (j - 1) + 1 = j
    BY <1>1, <1>6
  <2>2. u[j - 1] = s[j]
    BY <1>1, <2>1
  <2> QED BY <1>2, <2>1, <2>2 DEF Elements
<1>7. Elements(u) = Elements(s) \ {s[1]}
  BY <1>2, <1>5, <1>6 DEF Elements
<1>8. 1 \in DOMAIN s
  BY <1>1, <1>2
<1>9. s[1] \in Elements(s)
  BY <1>8 DEF Elements
<1> QED BY <1>1, <1>4, <1>7, <1>9 DEF u

LEMMA ChosenFacts ==
  ASSUME NEW g, BuddyTyped(g), NEW size \in Nat, Buddy!CanMalloc(g, size)
  PROVE  LET hi == Buddy!Min(Buddy!Candidates(g, size))
             lo == Buddy!get_order(size + BUDDY_HEADER)
         IN  /\ hi \in Buddy!Orders /\ lo \in Buddy!Orders /\ lo <= hi
             /\ lo = MAX_ORDER \/ size + BUDDY_HEADER <= Buddy!Bytes(lo)
             /\ Buddy!Chosen(g, size) = Head(g.free_blocks[hi]) /\ g.free_blocks[hi] # <<>>
             /\ Buddy!Chosen(g, size) \in Buddy!Addrs
             /\ \A o \in lo .. hi - 1 : g.free_blocks[o] = <<>>
             /\ size > 0
<1> DEFINE C == Buddy!Candidates(g, size)
           hi == Buddy!Min(C)
           lo == Buddy!get_order(size + BUDDY_HEADER)
<1>1. C = {o \in Buddy!Orders : o >= lo /\ g.free_blocks[o] # <<>>}
  BY DEF Buddy!Candidates
<1>2. Buddy!Orders \subseteq Nat /\ Buddy!Orders = 0..MAX_ORDER /\ MAX_ORDER \in Nat /\ BUDDY_HEADER \in Nat
  BY BuddyConstants
<1>3. C # {} /\ C \subseteq Nat /\ size > 0
  BY <1>1, <1>2 DEF Buddy!CanMalloc
<1>4. hi \in C /\ \A y \in C : hi =< y
  BY <1>3, BuddyMin
<1>5. size + BUDDY_HEADER \in Nat
  BY <1>2
<1>6. lo \in Buddy!Orders /\ (lo = MAX_ORDER \/ size + BUDDY_HEADER <= Buddy!Bytes(lo))
  BY <1>5, GetOrder
<1>7. Buddy!Chosen(g, size) = Head(g.free_blocks[hi])
  BY DEF Buddy!Chosen
<1> HIDE DEF C, hi, lo
<1>8. hi \in Buddy!Orders /\ lo <= hi /\ g.free_blocks[hi] # <<>>
  BY <1>1, <1>2, <1>4, <1>6
<1>9. g.free_blocks[hi] \in Seq(Buddy!Addrs)
  BY <1>8, BuddyFields
<1>10. Head(g.free_blocks[hi]) \in Buddy!Addrs
  BY <1>8, <1>9
<1>11. ASSUME NEW o \in lo .. hi - 1 PROVE g.free_blocks[o] = <<>>
  <2>1. o \in Buddy!Orders /\ o >= lo /\ ~(hi =< o)
    BY <1>2, <1>6, <1>8
  <2> QED BY <1>1, <1>4, <2>1
<1> QED BY <1>3, <1>6, <1>7, <1>8, <1>10, <1>11 DEF hi, lo, C

\* The block a is the first of the lowest list that has one large enough.
CanTake(g, a, lo, hi) ==
  /\ lo \in Buddy!Orders /\ hi \in Buddy!Orders /\ lo <= hi
  /\ a = Head(g.free_blocks[hi]) /\ g.free_blocks[hi] # <<>>
  /\ \A o \in lo .. hi - 1 : g.free_blocks[o] = <<>>

LEMMA TakenSound ==
  ASSUME NEW g, NEW used, BuddySound(g, used), NEW r, NEW size \in Nat, NEW a, NEW lo, NEW hi,
         CanTake(g, a, lo, hi), IsTaken(g, r, a, lo, hi, size)
  PROVE  /\ BuddySound(r, used \cup {a}) /\ a \notin used /\ a \in Cells
         /\ KeepsHeaders(g, r, used)
         /\ OrderOf(r, a) = lo
<1> DEFINE T == TreeOf(g, used)
           U == TreeOf(r, used \cup {a})
           L(o) == Buddy!Listed(g, o)
           M(o) == Buddy!Listed(r, o)
<1>0. /\ lo \in Buddy!Orders /\ hi \in Buddy!Orders /\ lo <= hi
      /\ a = Head(g.free_blocks[hi]) /\ g.free_blocks[hi] # <<>>
      /\ \A o \in lo .. hi - 1 : g.free_blocks[o] = <<>>
  BY DEF CanTake
<1>1. /\ BuddyTyped(g) /\ TilesOnce(T) /\ ListsSound(g) /\ UsedSound(g, used)
      /\ Buddy!Orders \subseteq Nat /\ Buddy!Orders = 0..MAX_ORDER /\ lo \in Nat /\ hi \in Nat
      /\ lo \in Buddy!Orders /\ hi \in Buddy!Orders /\ lo <= hi
      /\ MAX_ORDER \in Nat /\ lo .. hi - 1 \subseteq Buddy!Orders
  BY <1>0, BuddyConstants DEF BuddySound
<1>2. /\ g.hdr \in [Buddy!Addrs -> Buddy!Header]
      /\ g.free_blocks \in [Buddy!Orders -> Seq(Buddy!Addrs)]
      /\ g.current_blocks \in Int /\ g.total_allocated \in Nat
  BY <1>1, BuddyFields
<1>3. \A o \in Buddy!Orders : T[o] = L(o) \cup {c \in used : OrderOf(g, c) = o}
  BY DEF TreeOf
<1>4. \A o \in Buddy!Orders : U[o] = M(o) \cup {c \in used \cup {a} : OrderOf(r, c) = o}
  BY DEF TreeOf
<1>5. Distinct(g.free_blocks[hi]) /\ L(hi) = Elements(g.free_blocks[hi])
  BY <1>1, ListedElements DEF ListsSound
<1>6. /\ Tail(g.free_blocks[hi]) \in Seq(Buddy!Addrs) /\ Distinct(Tail(g.free_blocks[hi]))
      /\ a \in L(hi) /\ Elements(Tail(g.free_blocks[hi])) = L(hi) \ {a}
  <2>1. g.free_blocks[hi] \in Seq(Buddy!Addrs)
    BY <1>1, <1>2
  <2> QED BY <1>0, <1>5, <2>1, TailElements
<1>7. a \in T[hi] /\ g.hdr[a].is_free /\ SizeFits(g, a, hi)
  BY <1>1, <1>3, <1>6 DEF ListsSound
<1> HIDE DEF T, U
<1>8. a \in Cells /\ a \in Nat /\ a \in Buddy!Addrs /\ Buddy!BlockAt(a, hi) = a
  BY <1>1, <1>7, CellsAddrs DEF TilesOnce
<1>9. a \notin used
  BY <1>1, <1>7 DEF UsedSound
\* The halves that are cut off.
<1>10. ASSUME NEW o \in Nat, o <= hi PROVE Buddy!BlockAt(a, o) = a
  BY <1>1, <1>8, <1>10, AlignedBelow
<1>11. ASSUME NEW o \in lo .. hi - 1
       PROVE  /\ a + Buddy!Bytes(o) = Buddy!Buddy(a, o) /\ Buddy!Buddy(a, o) \in Cells
              /\ Buddy!BlockAt(Buddy!Buddy(a, o), hi) = a /\ Buddy!Buddy(a, o) # a
              /\ Buddy!BlockAt(Buddy!Buddy(a, o), o) = Buddy!Buddy(a, o)
              /\ Buddy!Buddy(Buddy!Buddy(a, o), o) = a
  <2> DEFINE y == Buddy!Buddy(a, o)
  <2>1. o \in Nat /\ o + 1 \in Nat /\ o <= hi /\ o + 1 <= hi
    BY <1>1
  <2>2. Buddy!BlockAt(a, o) = a /\ Buddy!BlockAt(a, o + 1) = a
    BY <1>10, <2>1
  <2>3. Buddy!Bytes(o) \in Nat /\ Buddy!Bytes(o) > 0
    BY <2>1, BytesNat
  <2>4. y = a + Buddy!Bytes(o)
    <3>1. \/ a = a /\ y = a + Buddy!Bytes(o)
          \/ a = a + Buddy!Bytes(o) /\ y = a
      BY <1>8, <2>1, <2>2, Halves
    <3> QED BY <1>8, <2>3, <3>1
  <2>5. y \in Nat /\ y # a /\ Buddy!BlockAt(y, o) = y /\ Buddy!BlockAt(y, o + 1) = a /\ Buddy!Buddy(y, o) = a
    <3>1. /\ y \in Nat /\ y # Buddy!BlockAt(a, o) /\ Buddy!BlockAt(y, o) = y
          /\ Buddy!BlockAt(y, o + 1) = Buddy!BlockAt(a, o + 1)
          /\ Buddy!Buddy(y, o) = Buddy!BlockAt(a, o)
      BY <1>8, <2>1, BuddyFacts
    <3> QED BY <2>2, <3>1
  <2> HIDE DEF y
  <2>6. Buddy!BlockAt(y, hi) = Buddy!BlockAt(a, hi)
    BY <1>1, <1>8, <2>1, <2>2, <2>5, NestedSame
  <2>7. y \in Cells
    BY <1>1, <1>8, <2>5, <2>6, CellsSame
  <2> QED BY <1>8, <2>4, <2>5, <2>6, <2>7 DEF y
\* No other block is touched.
<1>12. ASSUME NEW o \in Buddy!Orders, NEW c \in T[o], ~(o = hi /\ c = a)
       PROVE  c \in Cells /\ c \in Buddy!Addrs /\ r.hdr[c] = g.hdr[c] /\ c # a
  <2>1. c \in Cells /\ c \in Buddy!Addrs
    BY <1>1, CellsAddrs DEF TilesOnce
  <2>2. Buddy!BlockAt(c, hi) # a
    BY <1>1, <1>7, <1>8, <1>12, InsideIsSame
  <2>3. c # a
    BY <1>8, <2>2
  <2>4. \A k \in lo .. hi - 1 : c # a + Buddy!Bytes(k)
    BY <1>11, <2>2
  <2> QED BY <2>1, <2>3, <2>4 DEF IsTaken
<1>13. ASSUME NEW c \in used
       PROVE  r.hdr[c] = g.hdr[c] /\ OrderOf(r, c) = OrderOf(g, c) /\ OrderOf(g, c) \in Buddy!Orders
  <2>1. c \in Cells /\ c \in Buddy!Addrs
    BY <1>1, CellsAddrs DEF UsedSound
  <2>2. g.hdr[c].size + BUDDY_HEADER \in Nat
    <3>1. g.hdr[c] \in Buddy!Header
      BY <1>2, <2>1
    <3>2. g.hdr[c].size \in Nat
      BY <3>1, BuddyConstants DEF Buddy!Header
    <3> QED BY <3>2, BuddyConstants
  <2>3. OrderOf(g, c) \in Buddy!Orders
    BY <2>2, GetOrder DEF OrderOf
  <2>4. c \in T[OrderOf(g, c)]
    BY <1>3, <2>3
  <2>5. r.hdr[c] = g.hdr[c]
    BY <1>9, <1>12, <2>3, <2>4
  <2> QED BY <2>3, <2>5 DEF OrderOf
<1>14. SizeFits(r, a, lo) /\ OrderOf(r, a) = lo
  <2>1. SizeFits(r, a, lo)
    <3>1. CASE lo < hi
      BY <3>1 DEF IsTaken, SizeFits
    <3>2. CASE lo = hi
      BY <1>1, <1>7, <3>2 DEF IsTaken, SizeFits
    <3> QED BY <1>1, <3>1, <3>2
  <2> QED BY <1>1, <2>1, OrderExact
\* The lists.
<1>15. /\ r.free_blocks \in [Buddy!Orders -> Seq(Buddy!Addrs)]
       /\ \A o \in Buddy!Orders :
             /\ o \in lo .. hi - 1 => r.free_blocks[o] = <<Buddy!Buddy(a, o)>>
             /\ o = hi => r.free_blocks[o] = Tail(g.free_blocks[o])
             /\ o \notin lo .. hi => r.free_blocks[o] = g.free_blocks[o]
  <2>1. ASSUME NEW o \in lo .. hi - 1
        PROVE  <<a + Buddy!Bytes(o)>> \o g.free_blocks[o] = <<Buddy!Buddy(a, o)>>
               /\ <<Buddy!Buddy(a, o)>> \in Seq(Buddy!Addrs)
    <3>1. a + Buddy!Bytes(o) = Buddy!Buddy(a, o) /\ g.free_blocks[o] = <<>> /\ Buddy!Buddy(a, o) \in Buddy!Addrs
      BY <1>0, <1>11, CellsAddrs
    <3>2. \A e \in Buddy!Addrs : <<e>> \o <<>> = <<e>> /\ <<e>> \in Seq(Buddy!Addrs)
      OBVIOUS
    <3> QED BY <3>1, <3>2
  <2>2. \A o \in Buddy!Orders :
             /\ o \in lo .. hi - 1 => r.free_blocks[o] = <<Buddy!Buddy(a, o)>>
             /\ o = hi => r.free_blocks[o] = Tail(g.free_blocks[o])
             /\ o \notin lo .. hi => r.free_blocks[o] = g.free_blocks[o]
    <3>1. /\ r.free_blocks = [o \in Buddy!Orders |->
                        IF o \in lo .. hi - 1 THEN <<a + Buddy!Bytes(o)>> \o g.free_blocks[o]
                        ELSE IF o = hi THEN Tail(g.free_blocks[o]) ELSE g.free_blocks[o]]
      BY DEF IsTaken
    <3>2. hi \notin lo .. hi - 1 /\ \A o \in Buddy!Orders : o \notin lo .. hi => o # hi /\ o \notin lo .. hi - 1
      BY <1>1
    <3> QED BY <2>1, <3>1, <3>2
  <2>3. \A o \in Buddy!Orders : r.free_blocks[o] \in Seq(Buddy!Addrs)
    <3>1. \A o \in Buddy!Orders : o \in lo .. hi - 1 \/ o = hi \/ o \notin lo .. hi
      BY <1>1
    <3> QED BY <1>2, <1>6, <2>1, <2>2, <3>1
  <2>4. r.free_blocks = [o \in Buddy!Orders |-> r.free_blocks[o]]
    BY DEF IsTaken
  <2> QED BY <2>2, <2>3, <2>4
<1>16. \A o \in Buddy!Orders :
          /\ o \in lo .. hi - 1 => L(o) = {} /\ M(o) = {Buddy!Buddy(a, o)}
          /\ o = hi => M(o) = L(o) \ {a}
          /\ o \notin lo .. hi => M(o) = L(o)
          /\ Distinct(r.free_blocks[o])
  <2>1. Elements(<<>>) = {}
    BY DEF Elements
  <2>2. \A e : Elements(<<e>>) = {e} /\ Distinct(<<e>>)
    BY DEF Elements, Distinct
  <2>3. \A o \in Buddy!Orders : L(o) = Elements(g.free_blocks[o]) /\ M(o) = Elements(r.free_blocks[o])
    BY ListedElements
  <2>4. \A o \in Buddy!Orders : Distinct(g.free_blocks[o])
    BY <1>1 DEF ListsSound
  <2>5. \A o \in Buddy!Orders : o \in lo .. hi - 1 \/ o = hi \/ o \notin lo .. hi
    BY <1>1
  <2> HIDE DEF L, M
  <2>6. ASSUME NEW o \in lo .. hi - 1
        PROVE  L(o) = {} /\ M(o) = {Buddy!Buddy(a, o)} /\ Distinct(r.free_blocks[o])
    <3>1. o \in Buddy!Orders /\ g.free_blocks[o] = <<>> /\ r.free_blocks[o] = <<Buddy!Buddy(a, o)>>
      BY <1>0, <1>1, <1>15
    <3> QED BY <2>1, <2>2, <2>3, <3>1
  <2>7. M(hi) = L(hi) \ {a} /\ Distinct(r.free_blocks[hi])
    <3>1. r.free_blocks[hi] = Tail(g.free_blocks[hi])
      BY <1>1, <1>15
    <3>2. M(hi) = Elements(r.free_blocks[hi])
      BY <1>1, <2>3
    <3>3. Elements(Tail(g.free_blocks[hi])) = L(hi) \ {a}
      BY <1>6 DEF L
    <3> QED BY <1>6, <3>1, <3>2, <3>3
  <2>8. ASSUME NEW o \in Buddy!Orders, o \notin lo .. hi
        PROVE  M(o) = L(o) /\ Distinct(r.free_blocks[o])
    BY <1>15, <2>3, <2>4, <2>8
  <2> QED BY <2>5, <2>6, <2>7, <2>8
<1>17. TilesOnce(U)
  <2>1. ASSUME NEW o \in Buddy!Orders, NEW c
        PROVE  c \in U[o] <=> \/ c \in T[o] /\ ~(o = hi /\ c = Buddy!BlockAt(a, hi))
                              \/ IsPiece(a, lo, hi, c, o)
    <3>1. Buddy!BlockAt(a, hi) = a /\ Buddy!BlockAt(a, lo) = a
      BY <1>1, <1>8, <1>10
    <3>2. c \in U[o] <=> c \in M(o) \/ (c \in used /\ OrderOf(g, c) = o) \/ (c = a /\ o = lo)
      BY <1>4, <1>9, <1>13, <1>14
    <3>3. c \in T[o] <=> c \in L(o) \/ (c \in used /\ OrderOf(g, c) = o)
      BY <1>3
    <3>4. IsPiece(a, lo, hi, c, o) <=> (c = a /\ o = lo) \/ (o \in lo .. hi - 1 /\ c = Buddy!Buddy(a, o))
      BY <1>1, <3>1 DEF IsPiece
    <3>5. o \in lo .. hi - 1 => o # hi
      BY <1>1
    <3>6. o \in lo .. hi - 1 \/ o = hi \/ o \notin lo .. hi
      BY <1>1
    <3> HIDE DEF L, M
    <3>7. CASE o \in lo .. hi - 1
      BY <1>16, <3>1, <3>2, <3>3, <3>4, <3>5, <3>7
    <3>8. CASE o = hi
      <4>1. o \notin lo .. hi - 1
        BY <1>1, <3>8
      <4> QED BY <1>9, <1>16, <3>1, <3>2, <3>3, <3>4, <3>8, <4>1
    <3>9. CASE o \notin lo .. hi
      <4>1. o \notin lo .. hi - 1 /\ o # hi
        BY <1>1, <3>9
      <4> QED BY <1>16, <3>1, <3>2, <3>3, <3>4, <3>9, <4>1
    <3> QED BY <3>6, <3>7, <3>8, <3>9
  <2>2. Buddy!BlockAt(a, hi) \in T[hi]
    BY <1>7, <1>8
  <2> QED BY <1>1, <1>8, <2>1, <2>2, SplitTiles
<1>18. ListsSound(r)
  <2>1. ASSUME NEW o \in Buddy!Orders, NEW c \in M(o)
        PROVE  /\ r.hdr[c].is_free /\ SizeFits(r, c, o)
               /\ o # MAX_ORDER => Buddy!Buddy(c, o) \notin M(o)
    <3>1. CASE o \in lo .. hi - 1
      <4>1. c = Buddy!Buddy(a, o) /\ M(o) = {c}
        BY <1>16, <2>1, <3>1
      <4>2. c = a + Buddy!Bytes(o) /\ c \in Buddy!Addrs /\ Buddy!Buddy(c, o) = a /\ c # a
        BY <1>11, <3>1, <4>1, CellsAddrs
      <4>3. r.hdr[c].size = Buddy!Bytes(o) - BUDDY_HEADER /\ r.hdr[c].is_free
        BY <3>1, <4>2 DEF IsTaken
      <4> QED BY <4>1, <4>2, <4>3 DEF SizeFits
    <3>2. CASE o \notin lo .. hi - 1
      <4>1. M(o) \subseteq L(o) /\ ~(o = hi /\ c = a)
        <5>1. o = hi \/ o \notin lo .. hi
          BY <1>1, <3>2
        <5> HIDE DEF L, M
        <5> QED BY <1>16, <2>1, <5>1
      <4>2. c \in L(o) /\ c \in T[o]
        BY <1>3, <2>1, <4>1
      <4>3. g.hdr[c].is_free /\ SizeFits(g, c, o) /\ (o # MAX_ORDER => Buddy!Buddy(c, o) \notin L(o))
        BY <1>1, <4>2 DEF ListsSound
      <4>4. r.hdr[c] = g.hdr[c]
        BY <1>12, <4>1, <4>2
      <4> QED BY <4>1, <4>3, <4>4 DEF SizeFits
    <3> QED BY <3>1, <3>2
  <2> QED BY <1>16, <2>1 DEF ListsSound
<1>19. UsedSound(r, used \cup {a})
  <2>1. ASSUME NEW c \in used
        PROVE  c \in Cells /\ ~r.hdr[c].is_free /\ SizeFits(r, c, OrderOf(r, c))
    <3>1. c \in Cells /\ ~g.hdr[c].is_free /\ SizeFits(g, c, OrderOf(g, c))
      BY <1>1 DEF UsedSound
    <3> QED BY <1>13, <3>1 DEF SizeFits
  <2>2. a \in Cells /\ ~r.hdr[a].is_free /\ SizeFits(r, a, OrderOf(r, a))
    BY <1>8, <1>14 DEF IsTaken
  <2> QED BY <2>1, <2>2 DEF UsedSound
<1>20. BuddyTyped(r)
  <2>1. ASSUME NEW c \in Buddy!Addrs PROVE r.hdr[c] \in Buddy!Header
    <3>1. r.hdr[c] \in [size : Int, user_size : Nat, is_free : BOOLEAN]
      BY DEF IsTaken
    <3>2. r.hdr[c].size \in 0..TOTAL
      <4>1. CASE c = a
        <5>1. g.hdr[a].size \in 0..TOTAL /\ Buddy!Bytes(lo) - BUDDY_HEADER \in 0..TOTAL
          BY <1>1, <1>2, <1>8, BytesFit DEF Buddy!Header
        <5> QED BY <4>1, <5>1 DEF IsTaken
      <4>2. CASE \E o \in lo .. hi - 1 : c = a + Buddy!Bytes(o)
        <5>1. PICK o \in lo .. hi - 1 : c = a + Buddy!Bytes(o)
          BY <4>2
        <5>2. o \in Buddy!Orders /\ r.hdr[c].size = Buddy!Bytes(o) - BUDDY_HEADER
          BY <1>1, <5>1 DEF IsTaken
        <5> QED BY <5>2, BytesFit
      <4>3. CASE c # a /\ ~\E o \in lo .. hi - 1 : c = a + Buddy!Bytes(o)
        <5>1. r.hdr[c] = g.hdr[c] /\ g.hdr[c].size \in 0..TOTAL
          BY <1>2, <4>3 DEF IsTaken, Buddy!Header
        <5> QED BY <5>1
      <4> QED BY <4>1, <4>2, <4>3
    <3> QED BY <3>1, <3>2 DEF Buddy!Header
  <2>2. r.hdr \in [Buddy!Addrs -> Buddy!Header]
    BY <2>1 DEF IsTaken
  <2>3. r.current_blocks \in Int /\ r.total_allocated \in Nat
    BY <1>2 DEF IsTaken
  <2>4. r = [hdr |-> r.hdr, free_blocks |-> r.free_blocks, current_blocks |-> r.current_blocks,
             total_allocated |-> r.total_allocated]
    BY DEF IsTaken
  <2> QED BY <1>15, <2>2, <2>3, <2>4 DEF BuddyTyped
<1>21. KeepsHeaders(g, r, used)
  BY <1>13 DEF KeepsHeaders
<1> QED BY <1>8, <1>9, <1>14, <1>17, <1>18, <1>19, <1>20, <1>21 DEF BuddySound, U

\* An allocation cuts its block out of the lists, with the others as they were.
LEMMA MallocTakes ==
  ASSUME NEW g, NEW used, BuddySound(g, used), NEW size \in Nat, Buddy!CanMalloc(g, size),
         NEW r, r = Buddy!buddy_malloc(g, size), NEW a, a = Buddy!Chosen(g, size)
  PROVE  /\ BuddySound(r, used \cup {a}) /\ a \notin used /\ a \in Cells /\ size > 0
         /\ KeepsHeaders(g, r, used)
         /\ r.hdr[a].user_size = size
         /\ OrderOf(r, a) = MAX_ORDER \/ size + BUDDY_HEADER <= Buddy!Bytes(OrderOf(r, a))
         /\ r.current_blocks = g.current_blocks + 1
         /\ r.total_allocated = g.total_allocated + size
<1> DEFINE hi == Buddy!Min(Buddy!Candidates(g, size))
           lo == Buddy!get_order(size + BUDDY_HEADER)
<1>1. BuddyTyped(g)
  BY DEF BuddySound
<1>2. /\ hi \in Buddy!Orders /\ lo \in Buddy!Orders /\ lo <= hi
      /\ lo = MAX_ORDER \/ size + BUDDY_HEADER <= Buddy!Bytes(lo)
      /\ a = Head(g.free_blocks[hi]) /\ g.free_blocks[hi] # <<>>
      /\ a \in Buddy!Addrs
      /\ \A o \in lo .. hi - 1 : g.free_blocks[o] = <<>>
      /\ size > 0
  BY <1>1, ChosenFacts
<1>3. lo = Buddy!get_order(size + BUDDY_HEADER) /\ hi = Buddy!Min(Buddy!Candidates(g, size))
  OBVIOUS
<1> HIDE DEF hi, lo
<1>4. IsTaken(g, r, a, lo, hi, size)
  BY <1>1, <1>2, <1>3, MallocFields
<1>5. /\ BuddySound(r, used \cup {a}) /\ a \notin used /\ a \in Cells
      /\ KeepsHeaders(g, r, used)
      /\ OrderOf(r, a) = lo
  <2>1. CanTake(g, a, lo, hi)
    BY <1>2 DEF CanTake
  <2>2. BuddySound(r, used \cup {a}) /\ a \notin used /\ a \in Cells
    BY <2>1, <1>4, TakenSound
  <2>3. OrderOf(r, a) = lo
    BY <2>1, <1>4, TakenSound
  <2>4. KeepsHeaders(g, r, used)
    BY <2>1, <1>4, TakenSound
  <2> QED BY <2>2, <2>3, <2>4
<1>6. /\ r.hdr[a].user_size = size
      /\ r.current_blocks = g.current_blocks + 1
      /\ r.total_allocated = g.total_allocated + size
  BY <1>4 DEF IsTaken
<1> QED BY <1>2, <1>5, <1>6

-----------------------------------------------------------------------------
(* buddy_free.                                                             *)

\* The orders from which the size of the header at c is written.
Grown(a, lo, hi, c) == {o \in lo + 1 .. hi : Buddy!BlockAt(a, o) = c}

\* Before the first merge.
Released(g, a) ==
  [g EXCEPT !.hdr[a]          = [@ EXCEPT !.is_free = TRUE, !.user_size = 0],
            !.total_allocated = IF @ >= g.hdr[a].user_size THEN @ - g.hdr[a].user_size ELSE @,
            !.current_blocks  = @ - 1]

\* What buddy_free leaves: the block a, of order lo, has been merged up to order hi.
IsFreed(g, r, a, lo, hi) ==
  /\ r = [hdr |-> r.hdr, free_blocks |-> r.free_blocks, current_blocks |-> g.current_blocks - 1,
          total_allocated |-> IF g.total_allocated >= g.hdr[a].user_size
                              THEN g.total_allocated - g.hdr[a].user_size ELSE g.total_allocated]
  /\ r.hdr \in [Buddy!Addrs -> [size : Int, user_size : Nat, is_free : BOOLEAN]]
  /\ \A c \in Buddy!Addrs :
        /\ r.hdr[c].size = IF Grown(a, lo, hi, c) = {} THEN g.hdr[c].size
                           ELSE Buddy!Bytes(Buddy!Max(Grown(a, lo, hi, c))) - BUDDY_HEADER
        /\ r.hdr[c].is_free = IF c = a THEN TRUE ELSE g.hdr[c].is_free
        /\ c # a /\ Grown(a, lo, hi, c) = {} => r.hdr[c] = g.hdr[c]
  /\ r.free_blocks = [o \in Buddy!Orders |->
                        IF o \in lo .. hi - 1 THEN Buddy!Unlink(g.free_blocks[o], Buddy!Buddy(a, o))
                        ELSE IF o = hi THEN <<Buddy!BlockAt(a, hi)>> \o g.free_blocks[o]
                        ELSE g.free_blocks[o]]

LEMMA ReleasedFields ==
  ASSUME NEW g, BuddyTyped(g), NEW a \in Buddy!Addrs
  PROVE  /\ Released(g, a) = [hdr |-> Released(g, a).hdr, free_blocks |-> g.free_blocks,
              current_blocks |-> g.current_blocks - 1,
              total_allocated |-> IF g.total_allocated >= g.hdr[a].user_size
                                  THEN g.total_allocated - g.hdr[a].user_size ELSE g.total_allocated]
         /\ Released(g, a).hdr \in [Buddy!Addrs -> Buddy!Header]
         /\ \A c \in Buddy!Addrs : c # a => Released(g, a).hdr[c] = g.hdr[c]
         /\ Released(g, a).hdr[a].size = g.hdr[a].size /\ Released(g, a).hdr[a].is_free = TRUE
<1> DEFINE d == g.hdr[a]
           e == [d EXCEPT !.is_free = TRUE, !.user_size = 0]
           h == [g.hdr EXCEPT ![a] = e]
           n == IF g.total_allocated >= g.hdr[a].user_size
                THEN g.total_allocated - g.hdr[a].user_size ELSE g.total_allocated
           k == g.current_blocks - 1
           r == Released(g, a)
<1>1. /\ g.hdr \in [Buddy!Addrs -> Buddy!Header]
      /\ g = [hdr |-> g.hdr, free_blocks |-> g.free_blocks, current_blocks |-> g.current_blocks,
              total_allocated |-> g.total_allocated]
  BY BuddyFields
<1>2. e \in Buddy!Header /\ e.size = g.hdr[a].size /\ e.is_free = TRUE
  <2>1. d \in Buddy!Header
    BY <1>1
  <2> HIDE DEF d
  <2>2. e \in Buddy!Header /\ e.size = d.size /\ e.is_free = TRUE
    BY <2>1 DEF Buddy!Header
  <2> QED BY <2>2 DEF d
<1>3. r = [g EXCEPT !.hdr = h, !.total_allocated = n, !.current_blocks = k]
  BY Zenon DEF Released
<1> HIDE DEF e
<1>4. h \in [Buddy!Addrs -> Buddy!Header] /\ h[a] = e /\ \A c \in Buddy!Addrs : c # a => h[c] = g.hdr[c]
  BY <1>1, <1>2
<1> HIDE DEF h, r
<1>5. r = [hdr |-> h, free_blocks |-> g.free_blocks, current_blocks |-> k, total_allocated |-> n]
  <2> HIDE DEF k, n
  <2> QED BY <1>1, <1>3
<1>6. r.hdr = h
  BY <1>5
<1> QED BY <1>2, <1>4, <1>5, <1>6 DEF r

LEMMA FreeFields ==
  ASSUME NEW g, BuddyTyped(g), NEW a \in Buddy!Addrs, NEW lo \in Buddy!Orders, lo = OrderOf(g, a),
         NEW hi \in Buddy!Orders, hi = Buddy!Top(Released(g, a), a, lo), lo <= hi,
         NEW r, r = Buddy!buddy_free(g, a + BUDDY_HEADER)
  PROVE  IsFreed(g, r, a, lo, hi)
<1> DEFINE f == Released(g, a)
           t == Buddy!Merged(f, a, lo, hi)
           G(c) == Grown(a, lo, hi, c)
           h == [c \in Buddy!Addrs |->
                    IF G(c) = {} THEN f.hdr[c]
                    ELSE [f.hdr[c] EXCEPT !.size = Buddy!Bytes(Buddy!Max(G(c))) - BUDDY_HEADER]]
           x == [o \in Buddy!Orders |->
                    IF o \in lo .. hi - 1 THEN Buddy!Unlink(f.free_blocks[o], Buddy!Buddy(a, o))
                    ELSE f.free_blocks[o]]
           y == [x EXCEPT ![hi] = <<Buddy!BlockAt(a, hi)>> \o @]
           n == IF g.total_allocated >= g.hdr[a].user_size
                THEN g.total_allocated - g.hdr[a].user_size ELSE g.total_allocated
           k == g.current_blocks - 1
<1>1. a \in Nat /\ BUDDY_HEADER \in Nat /\ lo \in Nat /\ hi \in Nat /\ (a + BUDDY_HEADER) - BUDDY_HEADER = a
  BY CellsAddrs, OrdersNat, BuddyConstants
<1>2. g.hdr \in [Buddy!Addrs -> Buddy!Header]
  BY BuddyFields
<1>3. /\ f = [hdr |-> f.hdr, free_blocks |-> g.free_blocks, current_blocks |-> k, total_allocated |-> n]
      /\ f.hdr \in [Buddy!Addrs -> Buddy!Header]
      /\ \A c \in Buddy!Addrs : c # a => f.hdr[c] = g.hdr[c]
      /\ f.hdr[a].size = g.hdr[a].size /\ f.hdr[a].is_free = TRUE
  BY ReleasedFields
<1>4. r = [t EXCEPT !.free_blocks[hi] = <<Buddy!BlockAt(a, hi)>> \o @]
  <2>1. Buddy!buddy_free(g, a + BUDDY_HEADER)
        = [t EXCEPT !.free_blocks[hi] = <<Buddy!BlockAt(a, hi)>> \o @]
    BY <1>1 DEF Buddy!buddy_free, Released, OrderOf
  <2> QED BY <2>1
<1> HIDE DEF f
<1>5. t = [hdr |-> h, free_blocks |-> x, current_blocks |-> k, total_allocated |-> n]
  <2>1. t = [f EXCEPT !.hdr = h, !.free_blocks = x]
    BY DEF Buddy!Merged, Grown
  <2>2. f = [hdr |-> f.hdr, free_blocks |-> g.free_blocks, current_blocks |-> k, total_allocated |-> n]
    BY <1>3
  <2> HIDE DEF h, x, t, n, k
  <2> DEFINE w == [f EXCEPT !.hdr = h]
  <2>3. t = [w EXCEPT !.free_blocks = x]
    BY <2>1
  <2>4. w = [hdr |-> h, free_blocks |-> g.free_blocks, current_blocks |-> k, total_allocated |-> n]
    BY <2>2
  <2> HIDE DEF w
  <2> QED BY <2>3, <2>4
<1>6. r = [hdr |-> h, free_blocks |-> y, current_blocks |-> k, total_allocated |-> n]
  <2>1. t.free_blocks = x
    <3> HIDE DEF h, x, t, n, k
    <3> QED BY <1>5
  <2>2. r = [t EXCEPT !.free_blocks = y]
    <3> HIDE DEF t, x
    <3> QED BY <1>4, <2>1
  <2> HIDE DEF h, x, t, n, k, y
  <2> QED BY <1>5, <2>2
<1>7. y = [o \in Buddy!Orders |->
                        IF o \in lo .. hi - 1 THEN Buddy!Unlink(g.free_blocks[o], Buddy!Buddy(a, o))
                        ELSE IF o = hi THEN <<Buddy!BlockAt(a, hi)>> \o g.free_blocks[o]
                        ELSE g.free_blocks[o]]
  <2>1. f.free_blocks = g.free_blocks
    BY <1>3
  <2>2. hi \notin lo .. hi - 1
    BY <1>1
  <2>3. x[hi] = g.free_blocks[hi]
    BY <2>1, <2>2
  <2> QED BY <2>1, <2>2, <2>3
<1> HIDE DEF y, x
<1> DEFINE HT == [size : Int, user_size : Nat, is_free : BOOLEAN]
<1>8. ASSUME NEW c \in Buddy!Addrs
      PROVE  /\ h[c] \in HT
             /\ h[c].size = IF G(c) = {} THEN g.hdr[c].size
                            ELSE Buddy!Bytes(Buddy!Max(G(c))) - BUDDY_HEADER
             /\ h[c].is_free = IF c = a THEN TRUE ELSE g.hdr[c].is_free
             /\ c # a /\ G(c) = {} => h[c] = g.hdr[c]
  <2> DEFINE s == Buddy!Bytes(Buddy!Max(G(c))) - BUDDY_HEADER
             e == f.hdr[c]
  <2>1. h[c] = IF G(c) = {} THEN e ELSE [e EXCEPT !.size = s]
    OBVIOUS
  <2>2. e \in Buddy!Header
    BY <1>3
  <2>3. e.size = g.hdr[c].size /\ e.is_free = (IF c = a THEN TRUE ELSE g.hdr[c].is_free)
        /\ (c # a => e = g.hdr[c])
    BY <1>3, Zenon
  <2>4. G(c) # {} => s \in Int
    <3>1. G(c) \subseteq 0..hi
      BY <1>1 DEF Grown
    <3>2. G(c) # {} => Buddy!Max(G(c)) \in G(c)
      BY <1>1, <3>1, BuddyMax
    <3>3. G(c) # {} => Buddy!Max(G(c)) \in Nat
      <4> HIDE DEF G
      <4> QED BY <1>1, <3>1, <3>2
    <3>4. G(c) # {} => Buddy!Bytes(Buddy!Max(G(c))) \in Nat
      BY <3>3, BytesNat
    <3> HIDE DEF G
    <3> QED BY <1>1, <3>4
  <2>5. [e EXCEPT !.size = s].size = s /\ [e EXCEPT !.size = s].is_free = e.is_free
        /\ (s \in Int => [e EXCEPT !.size = s] \in HT) /\ e \in HT
    <3> HIDE DEF e, s
    <3> QED BY <2>2, BuddyConstants DEF Buddy!Header
  <2> HIDE DEF e, s, h, G, HT
  <2> QED BY <2>1, <2>3, <2>4, <2>5 DEF s
<1>9. h = [c \in Buddy!Addrs |-> h[c]]
  OBVIOUS
<1> HIDE DEF h, HT, G
<1>10. h \in [Buddy!Addrs -> HT]
  BY <1>8, <1>9
<1>11. r.hdr = h /\ r.free_blocks = y
  BY <1>6
<1> QED BY <1>6, <1>7, <1>8, <1>10, <1>11 DEF IsFreed, HT, G

LEMMA TopFacts ==
  ASSUME NEW f, NEW a, NEW lo \in Buddy!Orders
  PROVE  LET hi == Buddy!Top(f, a, lo)
         IN  /\ hi \in Buddy!Orders /\ lo <= hi
             /\ \A o \in lo .. hi - 1 : Buddy!Mergeable(f, a, o)
             /\ hi = MAX_ORDER \/ ~Buddy!Mergeable(f, a, hi)
<1> DEFINE S == {o \in lo .. MAX_ORDER - 1 : ~Buddy!Mergeable(f, a, o)} \cup {MAX_ORDER}
           hi == Buddy!Top(f, a, lo)
<1>1. Buddy!Orders = 0..MAX_ORDER /\ MAX_ORDER \in Nat /\ lo \in Nat /\ lo <= MAX_ORDER
  BY BuddyConstants
<1>2. S # {} /\ S \subseteq Nat /\ S \subseteq lo..MAX_ORDER
  BY <1>1
<1>3. \A o \in lo .. MAX_ORDER - 1 : ~Buddy!Mergeable(f, a, o) => o \in S
  OBVIOUS
<1>4. \A o \in S : o = MAX_ORDER \/ ~Buddy!Mergeable(f, a, o)
  OBVIOUS
<1>5. hi = Buddy!Min(S)
  BY DEF Buddy!Top
<1> HIDE DEF S, hi
<1>6. hi \in S /\ \A y \in S : hi =< y
  BY <1>2, <1>5, BuddyMin
<1>7. ASSUME NEW o \in lo .. hi - 1 PROVE Buddy!Mergeable(f, a, o)
  <2>1. o \in lo .. MAX_ORDER - 1 /\ ~(hi =< o)
    BY <1>1, <1>2, <1>6
  <2> QED BY <1>3, <1>6, <2>1
<1>8. hi \in Buddy!Orders /\ lo <= hi
  BY <1>1, <1>2, <1>6
<1> QED BY <1>4, <1>6, <1>7, <1>8 DEF hi

\* The block a, in use and of order lo, will merge up to order hi.
CanMerge(g, used, a, lo, hi) ==
  /\ a \in used /\ lo \in Buddy!Orders /\ hi \in Buddy!Orders /\ lo <= hi
  /\ lo = OrderOf(g, a)
  /\ \A o \in lo .. hi - 1 : Buddy!Buddy(a, o) \in Buddy!Listed(g, o)
  /\ hi = MAX_ORDER \/ Buddy!Buddy(a, hi) \notin Buddy!Listed(g, hi)

\* The tests of buddy_free on the buddy's header and list come down to the list.
LEMMA MergeableListed ==
  ASSUME NEW g, NEW used, BuddySound(g, used), NEW a \in used, NEW o \in Buddy!Orders, o # MAX_ORDER
  PROVE  Buddy!Mergeable(Released(g, a), a, o) <=> Buddy!Buddy(a, o) \in Buddy!Listed(g, o)
<1> DEFINE f == Released(g, a)
           y == Buddy!Buddy(a, o)
<1>1. /\ BuddyTyped(g) /\ TilesOnce(TreeOf(g, used)) /\ ListsSound(g) /\ UsedSound(g, used)
      /\ a \in Cells /\ a \in Buddy!Addrs /\ a \in Nat /\ o \in Nat
  BY CellsAddrs, OrdersNat DEF BuddySound, UsedSound
<1>2. f.free_blocks = g.free_blocks /\ \A c \in Buddy!Addrs : c # a => f.hdr[c] = g.hdr[c]
  <2>1. /\ f = [hdr |-> f.hdr, free_blocks |-> g.free_blocks,
              current_blocks |-> g.current_blocks - 1,
              total_allocated |-> IF g.total_allocated >= g.hdr[a].user_size
                                  THEN g.total_allocated - g.hdr[a].user_size ELSE g.total_allocated]
        /\ \A c \in Buddy!Addrs : c # a => f.hdr[c] = g.hdr[c]
    BY <1>1, ReleasedFields
  <2> HIDE DEF f
  <2> QED BY <2>1
<1> HIDE DEF f
<1>3. y \in Buddy!Listed(g, o) <=> \E i \in DOMAIN f.free_blocks[o] : f.free_blocks[o][i] = y
  BY <1>2 DEF Buddy!Listed
<1>4. ASSUME y \in Buddy!Listed(g, o)
      PROVE  y < TOTAL /\ f.hdr[y].is_free /\ f.hdr[y].size = Buddy!Bytes(o) - BUDDY_HEADER
  <2>1. y \in Cells /\ Buddy!BlockAt(y, o) = y
    <3>1. y \in TreeOf(g, used)[o]
      BY <1>4 DEF TreeOf
    <3> QED BY <1>1, <3>1 DEF TilesOnce
  <2>2. y \in Buddy!Addrs /\ y < TOTAL
    <3> HIDE DEF y
    <3>1. y \in Buddy!Addrs
      BY <2>1, CellsAddrs
    <3>2. y \in 0..(TOTAL - 1)
      BY <3>1 DEF Buddy!Addrs
    <3> QED BY <3>1, <3>2, BuddyConstants
  <2>3. y # Buddy!BlockAt(a, o)
    BY <1>1, BuddyFacts
  <2> HIDE DEF y
  <2>4. f.hdr[y] = g.hdr[y]
    BY <1>2, <2>1, <2>2, <2>3
  <2>5. g.hdr[y].is_free /\ SizeFits(g, y, o)
    BY <1>1, <1>4 DEF ListsSound
  <2> QED BY <2>2, <2>4, <2>5 DEF SizeFits
<1>5. Buddy!Mergeable(f, a, o) <=>
        /\ y < TOTAL /\ f.hdr[y].is_free /\ f.hdr[y].size = Buddy!Bytes(o) - BUDDY_HEADER
        /\ \E i \in DOMAIN f.free_blocks[o] : f.free_blocks[o][i] = y
  BY Zenon DEF Buddy!Mergeable
<1> HIDE DEF y
<1> QED BY <1>3, <1>4, <1>5 DEF f, y

LEMMA MergeFacts ==
  ASSUME NEW g, NEW used, BuddySound(g, used), NEW a \in used
  PROVE  CanMerge(g, used, a, OrderOf(g, a), Buddy!Top(Released(g, a), a, OrderOf(g, a)))
<1> DEFINE lo == OrderOf(g, a)
           f == Released(g, a)
           hi == Buddy!Top(f, a, lo)
<1>1. lo \in Buddy!Orders
  <2>1. BuddyTyped(g) /\ a \in Buddy!Addrs
    BY CellsAddrs DEF BuddySound, UsedSound
  <2>2. g.hdr[a] \in Buddy!Header
    BY <2>1, BuddyFields
  <2>3. g.hdr[a].size + BUDDY_HEADER \in Nat
    BY <2>2, BuddyConstants DEF Buddy!Header
  <2> QED BY <2>3, GetOrder DEF OrderOf
<1>2. /\ hi \in Buddy!Orders /\ lo <= hi
      /\ \A o \in lo .. hi - 1 : Buddy!Mergeable(f, a, o)
      /\ hi = MAX_ORDER \/ ~Buddy!Mergeable(f, a, hi)
  <2> HIDE DEF lo, f
  <2> QED BY <1>1, TopFacts
<1>3. Buddy!Orders = 0..MAX_ORDER /\ MAX_ORDER \in Nat
  BY BuddyConstants
<1>4. \A o \in Buddy!Orders : o # MAX_ORDER =>
        (Buddy!Mergeable(f, a, o) <=> Buddy!Buddy(a, o) \in Buddy!Listed(g, o))
  BY MergeableListed
<1> HIDE DEF hi, f
<1>5. lo = OrderOf(g, a)
  OBVIOUS
<1> HIDE DEF lo
<1>6. \A o \in lo .. hi - 1 : o \in Buddy!Orders /\ o # MAX_ORDER
  BY <1>1, <1>2, <1>3
<1>7. CanMerge(g, used, a, lo, hi)
  BY <1>1, <1>2, <1>4, <1>5, <1>6 DEF CanMerge
<1> QED BY <1>7 DEF lo, hi, f

LEMMA UnlinkElements ==
  ASSUME NEW S, NEW s \in Seq(S), Distinct(s), NEW c \in Elements(s)
  PROVE  /\ Buddy!Unlink(s, c) \in Seq(S) /\ Distinct(Buddy!Unlink(s, c))
         /\ Elements(Buddy!Unlink(s, c)) = Elements(s) \ {c}
<1> DEFINE i == CHOOSE j \in DOMAIN s : s[j] = c
<1>1. i \in DOMAIN s /\ s[i] = c
  BY DEF Elements
<1>2. Buddy!Unlink(s, c) = SubSeq(s, 1, i - 1) \o SubSeq(s, i + 1, Len(s))
  BY Zenon DEF Buddy!Unlink
<1> HIDE DEF i
<1>3. i \in 1..Len(s)
  BY <1>1
<1>4. LET r == SubSeq(s, 1, i - 1) \o SubSeq(s, i + 1, Len(s))
      IN  r \in Seq(S) /\ Distinct(r) /\ Elements(r) = Elements(s) \ {s[i]}
  BY <1>3, WithoutIndex
<1> QED BY <1>1, <1>2, <1>4

LEMMA FreedSound ==
  ASSUME NEW g, NEW used, BuddySound(g, used), NEW a, NEW lo, NEW hi,
         CanMerge(g, used, a, lo, hi), NEW r, IsFreed(g, r, a, lo, hi)
  PROVE  BuddySound(r, used \ {a}) /\ KeepsHeaders(g, r, used \ {a})
<1> DEFINE T == TreeOf(g, used)
           U == TreeOf(r, used \ {a})
           L(o) == Buddy!Listed(g, o)
           M(o) == Buddy!Listed(r, o)
           top == Buddy!BlockAt(a, hi)
<1>0. /\ a \in used /\ lo \in Buddy!Orders /\ hi \in Buddy!Orders /\ lo <= hi
      /\ lo = OrderOf(g, a)
      /\ \A o \in lo .. hi - 1 : Buddy!Buddy(a, o) \in L(o)
      /\ hi = MAX_ORDER \/ Buddy!Buddy(a, hi) \notin L(hi)
  BY DEF CanMerge
<1>1. /\ BuddyTyped(g) /\ TilesOnce(T) /\ ListsSound(g) /\ UsedSound(g, used)
      /\ Buddy!Orders \subseteq Nat /\ Buddy!Orders = 0..MAX_ORDER /\ lo \in Nat /\ hi \in Nat
      /\ MAX_ORDER \in Nat /\ lo .. hi - 1 \subseteq Buddy!Orders /\ lo .. hi \subseteq Buddy!Orders
  BY <1>0, BuddyConstants DEF BuddySound
<1>2. a \in Cells /\ a \in Nat /\ a \in Buddy!Addrs /\ ~g.hdr[a].is_free /\ SizeFits(g, a, lo)
  BY <1>0, <1>1, CellsAddrs DEF UsedSound
<1>3. /\ g.hdr \in [Buddy!Addrs -> Buddy!Header]
      /\ g.free_blocks \in [Buddy!Orders -> Seq(Buddy!Addrs)]
      /\ g.current_blocks \in Int /\ g.total_allocated \in Nat
  BY <1>1, BuddyFields
<1>4. /\ \A o \in Buddy!Orders : T[o] = L(o) \cup {c \in used : OrderOf(g, c) = o}
      /\ \A o \in Buddy!Orders : U[o] = M(o) \cup {c \in used \ {a} : OrderOf(r, c) = o}
  BY DEF TreeOf
<1> HIDE DEF T, U
<1>5. a \in T[lo] /\ Buddy!BlockAt(a, lo) = a
  <2>1. a \in T[lo]
    BY <1>0, <1>4
  <2> QED BY <1>0, <1>1, <2>1 DEF TilesOnce
<1>6. \A o \in Buddy!Orders : \A c \in L(o) : g.hdr[c].is_free /\ c \notin used /\ c \in T[o]
  BY <1>1, <1>4 DEF ListsSound, UsedSound
\* The pieces are blocks, and the only ones inside the block that they make.
<1>7. ASSUME NEW o \in Buddy!Orders, NEW c
      PROVE  IsPiece(a, lo, hi, c, o) <=> \/ o = lo /\ c = a
                                          \/ o \in lo .. hi - 1 /\ c = Buddy!Buddy(a, o)
  BY <1>1, <1>5 DEF IsPiece
<1>8. ASSUME NEW o \in Buddy!Orders, NEW c, IsPiece(a, lo, hi, c, o) PROVE c \in T[o]
  BY <1>0, <1>5, <1>6, <1>7, <1>8
<1>9. ASSUME NEW o \in Buddy!Orders, NEW c \in T[o], Buddy!BlockAt(c, hi) = top
      PROVE  IsPiece(a, lo, hi, c, o)
  <2>1. c \in Cells /\ c \in Nat /\ Buddy!BlockAt(c, o) = c
    BY <1>1 DEF TilesOnce, Cells
  <2>2. PICK k \in lo..hi : IsPiece(a, lo, hi, Buddy!BlockAt(c, k), k)
    BY <1>0, <1>1, <1>2, <1>9, <2>1, PieceCovers
  <2>3. k \in Buddy!Orders /\ Buddy!BlockAt(c, k) \in T[k]
    BY <1>1, <1>8, <2>2
  <2>4. k = o
    BY <1>1, <2>1, <2>3 DEF TilesOnce
  <2> QED BY <2>1, <2>2, <2>4
<1>10. /\ top \in Cells /\ top \in Nat /\ top \in Buddy!Addrs /\ Buddy!BlockAt(top, hi) = top
       /\ top = a \/ g.hdr[top].is_free
  <2>1. top \in Nat /\ Buddy!BlockAt(top, hi) = top
    BY <1>1, <1>2, Within, Idempotent
  <2>2. top \in Cells
    BY <1>0, <1>2, <2>1, CellsSame
  <2> HIDE DEF top
  <2>3. PICK k \in lo..hi : IsPiece(a, lo, hi, Buddy!BlockAt(top, k), k)
    BY <1>0, <1>1, <1>2, <2>1, PieceCovers DEF top
  <2>4. k \in Buddy!Orders /\ k \in Nat /\ k <= hi
    BY <1>1, <2>3
  <2>5. Buddy!BlockAt(top, k) = top
    BY <1>1, <2>1, <2>4, AlignedBelow
  <2>6. top = a \/ (k \in lo .. hi - 1 /\ top = Buddy!Buddy(a, k))
    BY <1>7, <2>3, <2>4, <2>5
  <2>7. top = a \/ g.hdr[top].is_free
    BY <1>0, <1>6, <2>4, <2>6
  <2> QED BY <2>1, <2>2, <2>7, CellsAddrs
<1>11. SizeFits(r, top, hi) /\ r.hdr[top].is_free
  <2>1. CASE lo = hi
    <3>1. Grown(a, lo, hi, top) = {} /\ top = a
      BY <1>1, <1>5, <2>1 DEF Grown
    <3>2. r.hdr[top].size = g.hdr[top].size
      BY <1>10, <3>1 DEF IsFreed
    <3> QED BY <1>2, <1>10, <2>1, <3>1, <3>2 DEF SizeFits, IsFreed
  <2>2. CASE lo # hi
    <3> DEFINE G == Grown(a, lo, hi, top)
    <3>1. hi \in G /\ G \subseteq 0..hi
      BY <1>0, <1>1, <2>2 DEF Grown
    <3>2. Buddy!Max(G) = hi
      <4> HIDE DEF G
      <4>1. Buddy!Max(G) \in G /\ \A y \in G : y =< Buddy!Max(G)
        BY <1>1, <3>1, BuddyMax
      <4>2. Buddy!Max(G) \in 0..hi /\ hi =< Buddy!Max(G)
        BY <3>1, <4>1
      <4> QED BY <1>1, <4>2
    <3> HIDE DEF top
    <3>3. r.hdr[top].size = Buddy!Bytes(Buddy!Max(G)) - BUDDY_HEADER
      BY <1>10, <3>1 DEF IsFreed
    <3>4. r.hdr[top].is_free
      BY <1>10 DEF IsFreed
    <3> QED BY <3>2, <3>3, <3>4 DEF SizeFits
  <2> QED BY <2>1, <2>2
\* No other block is touched.
<1>12. ASSUME NEW o \in Buddy!Orders, NEW c \in T[o], ~IsPiece(a, lo, hi, c, o)
       PROVE  c \in Cells /\ c \in Buddy!Addrs /\ r.hdr[c] = g.hdr[c] /\ c # a
  <2>1. c \in Cells /\ c \in Buddy!Addrs
    BY <1>1, CellsAddrs DEF TilesOnce
  <2>2. Buddy!BlockAt(c, hi) # top
    BY <1>9, <1>12
  <2>3. c # a
    BY <2>2
  <2>4. ASSUME NEW k \in lo + 1 .. hi PROVE Buddy!BlockAt(a, k) # c
    <3>1. k \in Nat /\ k <= hi
      BY <1>1
    <3>2. Buddy!BlockAt(Buddy!BlockAt(a, k), hi) = top
      BY <1>1, <1>2, <3>1, Nested
    <3> QED BY <2>2, <3>2
  <2>5. Grown(a, lo, hi, c) = {}
    BY <2>4 DEF Grown
  <2> QED BY <2>1, <2>3, <2>5 DEF IsFreed
<1>13. ASSUME NEW c \in used \ {a}
       PROVE  r.hdr[c] = g.hdr[c] /\ OrderOf(r, c) = OrderOf(g, c)
  <2>1. c \in Cells /\ c \in Buddy!Addrs
    BY <1>1, CellsAddrs DEF UsedSound
  <2>2. g.hdr[c].size + BUDDY_HEADER \in Nat
    <3>1. g.hdr[c] \in Buddy!Header
      BY <1>3, <2>1
    <3>2. g.hdr[c].size \in Nat
      BY <3>1, BuddyConstants DEF Buddy!Header
    <3> QED BY <3>2, BuddyConstants
  <2>3. OrderOf(g, c) \in Buddy!Orders
    BY <2>2, GetOrder DEF OrderOf
  <2>4. c \in T[OrderOf(g, c)]
    BY <1>4, <2>3
  <2>5. ~IsPiece(a, lo, hi, c, OrderOf(g, c))
    BY <1>0, <1>1, <1>6, <1>7, <2>3
  <2>6. r.hdr[c] = g.hdr[c]
    BY <1>12, <2>3, <2>4, <2>5
  <2> QED BY <2>6 DEF OrderOf
\* The lists.
<1>14. top \notin L(hi)
  <2> SUFFICES ASSUME top \in L(hi) PROVE FALSE
    OBVIOUS
  <2>1. top \in T[hi] /\ top # a
    BY <1>0, <1>2, <1>6
  <2>2. IsPiece(a, lo, hi, top, hi)
    BY <1>0, <1>9, <1>10, <2>1
  <2>3. hi \notin lo .. hi - 1
    BY <1>1
  <2> HIDE DEF top
  <2> QED BY <1>0, <1>7, <2>1, <2>2, <2>3
<1>15. ASSUME NEW o \in Buddy!Orders
       PROVE  /\ r.free_blocks[o] \in Seq(Buddy!Addrs) /\ Distinct(r.free_blocks[o])
              /\ o \in lo .. hi - 1 => M(o) = L(o) \ {Buddy!Buddy(a, o)}
              /\ o = hi => M(o) = L(o) \cup {top}
              /\ o \notin lo .. hi - 1 /\ o # hi => M(o) = L(o)
  <2> DEFINE s == g.free_blocks[o]
             t == r.free_blocks[o]
  <2>1. s \in Seq(Buddy!Addrs) /\ Distinct(s) /\ L(o) = Elements(s) /\ M(o) = Elements(t)
    BY <1>1, <1>3, ListedElements DEF ListsSound
  <2>2. t = IF o \in lo .. hi - 1 THEN Buddy!Unlink(s, Buddy!Buddy(a, o))
            ELSE IF o = hi THEN <<top>> \o s ELSE s
    BY DEF IsFreed
  <2> HIDE DEF s, t, L, M
  <2>3. CASE o \in lo .. hi - 1
    <3>1. Buddy!Buddy(a, o) \in Elements(s)
      BY <1>0, <2>1, <2>3
    <3>2. /\ Buddy!Unlink(s, Buddy!Buddy(a, o)) \in Seq(Buddy!Addrs)
          /\ Distinct(Buddy!Unlink(s, Buddy!Buddy(a, o)))
          /\ Elements(Buddy!Unlink(s, Buddy!Buddy(a, o))) = Elements(s) \ {Buddy!Buddy(a, o)}
      BY <2>1, <3>1, UnlinkElements
    <3>3. o # hi
      BY <1>1, <2>3
    <3> QED BY <2>1, <2>2, <2>3, <3>2, <3>3 DEF t
  <2>4. CASE o = hi
    <3> HIDE DEF top
    <3>1. top \notin Elements(s) /\ top \in Buddy!Addrs
      BY <1>10, <1>14, <2>1, <2>4
    <3>2. /\ <<top>> \o s \in Seq(Buddy!Addrs) /\ Distinct(<<top>> \o s)
          /\ Elements(<<top>> \o s) = Elements(s) \cup {top}
      BY <2>1, <3>1, Prepended
    <3>3. o \notin lo .. hi - 1
      BY <1>1, <2>4
    <3> QED BY <2>1, <2>2, <2>4, <3>2, <3>3 DEF t
  <2>5. CASE o \notin lo .. hi - 1 /\ o # hi
    BY <2>1, <2>2, <2>5 DEF t
  <2> QED BY <2>3, <2>4, <2>5
<1> HIDE DEF top
<1>16. TilesOnce(U)
  <2>1. ASSUME NEW o \in Buddy!Orders, NEW c
        PROVE  c \in U[o] <=> (c \in T[o] /\ ~IsPiece(a, lo, hi, c, o)) \/ (o = hi /\ c = top)
    <3>1. c \in U[o] <=> c \in M(o) \/ (c \in used /\ c # a /\ OrderOf(g, c) = o)
      BY <1>4, <1>13
    <3>2. c \in T[o] <=> c \in L(o) \/ (c \in used /\ OrderOf(g, c) = o)
      BY <1>4
    <3>3. IsPiece(a, lo, hi, c, o) <=> (o = lo /\ c = a) \/ (o \in lo .. hi - 1 /\ c = Buddy!Buddy(a, o))
      BY <1>7
    <3>4. c \in L(o) => c \notin used
      BY <1>6
    <3>5. o \in lo .. hi - 1 => o # hi /\ Buddy!Buddy(a, o) \in L(o) /\ Buddy!Buddy(a, o) \notin used
      BY <1>0, <1>1, <1>6
    <3>6. /\ o \in lo .. hi - 1 => M(o) = L(o) \ {Buddy!Buddy(a, o)}
          /\ o = hi => M(o) = L(o) \cup {top}
          /\ o \notin lo .. hi - 1 /\ o # hi => M(o) = L(o)
      BY <1>15
    <3> HIDE DEF L, M
    <3> QED BY <1>0, <3>1, <3>2, <3>3, <3>4, <3>5, <3>6
  <2>2. \A o \in Buddy!Orders : \A c : IsPiece(a, lo, hi, c, o) => c \in T[o]
    BY <1>8
  <2> QED BY <1>0, <1>1, <1>2, <2>1, <2>2, MergeTiles DEF top
<1>17. ListsSound(r)
  <2>1. ASSUME NEW o \in Buddy!Orders, NEW c \in M(o)
        PROVE  /\ r.hdr[c].is_free /\ SizeFits(r, c, o)
               /\ o # MAX_ORDER => Buddy!Buddy(c, o) \notin M(o)
    <3>1. CASE o = hi /\ c = top
      <4>1. Buddy!Buddy(top, hi) = Buddy!Buddy(a, hi)
        BY <1>1, <1>2, <1>10, BuddySame DEF top
      <4>2. Buddy!Buddy(a, hi) # top
        BY <1>1, <1>2, BuddyFacts DEF top
      <4>3. hi # MAX_ORDER => Buddy!Buddy(top, hi) \notin M(hi)
        BY <1>0, <1>15, <4>1, <4>2
      <4> QED BY <1>11, <3>1, <4>3
    <3>2. CASE ~(o = hi /\ c = top)
      <4>1. c \in L(o) /\ ~IsPiece(a, lo, hi, c, o)
        <5>1. /\ o \in lo .. hi - 1 => M(o) = L(o) \ {Buddy!Buddy(a, o)}
              /\ o = hi => M(o) = L(o) \cup {top}
              /\ o \notin lo .. hi - 1 /\ o # hi => M(o) = L(o)
          BY <1>15
        <5>2. c \in L(o) => c # a
          BY <1>0, <1>6
        <5> HIDE DEF L, M
        <5> QED BY <1>7, <2>1, <3>2, <5>1, <5>2
      <4>2. c \in T[o] /\ g.hdr[c].is_free /\ SizeFits(g, c, o)
            /\ (o # MAX_ORDER => Buddy!Buddy(c, o) \notin L(o))
        BY <1>1, <1>6, <4>1 DEF ListsSound
      <4>3. r.hdr[c] = g.hdr[c]
        BY <1>12, <4>1, <4>2
      <4>4. ASSUME o # MAX_ORDER PROVE Buddy!Buddy(c, o) \notin M(o)
        <5>1. CASE o = hi
          <6>1. c \in Nat /\ Buddy!BlockAt(c, hi) = c
            BY <1>1, <4>2, <5>1 DEF TilesOnce, Cells
          <6>2. Buddy!Buddy(Buddy!Buddy(c, hi), hi) = c
            BY <1>1, <6>1, BuddyFacts
          <6>3. Buddy!Buddy(top, hi) = Buddy!Buddy(a, hi)
            BY <1>1, <1>2, <1>10, BuddySame DEF top
          <6>4. Buddy!Buddy(c, hi) # top
            BY <1>0, <4>1, <4>4, <5>1, <6>2, <6>3
          <6> QED BY <1>15, <4>2, <4>4, <5>1, <6>4
        <5>2. CASE o # hi
          <6>1. M(o) \subseteq L(o)
            <7> HIDE DEF L, M
            <7> QED BY <1>15, <5>2
          <6> QED BY <4>2, <4>4, <6>1
        <5> QED BY <5>1, <5>2
      <4> QED BY <4>2, <4>3, <4>4 DEF SizeFits
    <3> QED BY <3>1, <3>2
  <2> QED BY <1>15, <2>1 DEF ListsSound
<1>18. UsedSound(r, used \ {a})
  <2>1. ASSUME NEW c \in used \ {a}
        PROVE  c \in Cells /\ ~r.hdr[c].is_free /\ SizeFits(r, c, OrderOf(r, c))
    <3>1. c \in Cells /\ ~g.hdr[c].is_free /\ SizeFits(g, c, OrderOf(g, c))
      BY <1>1 DEF UsedSound
    <3> QED BY <1>13, <3>1 DEF SizeFits
  <2> QED BY <2>1 DEF UsedSound
<1>19. BuddyTyped(r)
  <2>1. ASSUME NEW c \in Buddy!Addrs PROVE r.hdr[c] \in Buddy!Header
    <3>1. r.hdr[c] \in [size : Int, user_size : Nat, is_free : BOOLEAN]
      BY DEF IsFreed
    <3>2. r.hdr[c].size \in 0..TOTAL
      <4> DEFINE G == Grown(a, lo, hi, c)
      <4>1. CASE G = {}
        <5>1. r.hdr[c].size = g.hdr[c].size /\ g.hdr[c].size \in 0..TOTAL
          BY <1>3, <4>1 DEF IsFreed, Buddy!Header
        <5> QED BY <5>1
      <4>2. CASE G # {}
        <5>1. G \subseteq 0..hi
          BY <1>1 DEF Grown
        <5>2. r.hdr[c].size = Buddy!Bytes(Buddy!Max(G)) - BUDDY_HEADER
          BY <4>2 DEF IsFreed
        <5> HIDE DEF G
        <5>3. Buddy!Max(G) \in G
          BY <1>1, <4>2, <5>1, BuddyMax
        <5>4. Buddy!Max(G) \in Buddy!Orders
          <6>1. Buddy!Max(G) \in 0..hi
            BY <5>1, <5>3
          <6>2. hi <= MAX_ORDER
            BY <1>0, OrdersNat
          <6> QED BY <1>1, <6>1, <6>2
        <5> QED BY <5>2, <5>4, BytesFit
      <4> QED BY <4>1, <4>2
    <3> QED BY <3>1, <3>2 DEF Buddy!Header
  <2>2. r.hdr \in [Buddy!Addrs -> Buddy!Header]
    BY <2>1 DEF IsFreed
  <2>3. g.hdr[a].user_size \in Nat
    BY <1>2, <1>3 DEF Buddy!Header
  <2>4. r.current_blocks \in Int /\ r.total_allocated \in Nat
    BY <1>3, <2>3 DEF IsFreed
  <2>5. r.free_blocks \in [Buddy!Orders -> Seq(Buddy!Addrs)]
    <3>1. r.free_blocks = [o \in Buddy!Orders |-> r.free_blocks[o]]
      BY DEF IsFreed
    <3> QED BY <1>15, <3>1
  <2>6. r = [hdr |-> r.hdr, free_blocks |-> r.free_blocks, current_blocks |-> r.current_blocks,
             total_allocated |-> r.total_allocated]
    BY DEF IsFreed
  <2> QED BY <2>2, <2>4, <2>5, <2>6 DEF BuddyTyped
<1>20. KeepsHeaders(g, r, used \ {a})
  BY <1>13 DEF KeepsHeaders
<1> QED BY <1>16, <1>17, <1>18, <1>19, <1>20 DEF BuddySound, U

\* A free takes its block out of use, with the others in use as they were.
LEMMA FreeReleases ==
  ASSUME NEW g, NEW used, BuddySound(g, used), NEW a \in used,
         NEW r, r = Buddy!buddy_free(g, a + BUDDY_HEADER)
  PROVE  /\ BuddySound(r, used \ {a}) /\ KeepsHeaders(g, r, used \ {a})
         /\ r.current_blocks = g.current_blocks - 1
         /\ g.total_allocated >= g.hdr[a].user_size =>
               r.total_allocated = g.total_allocated - g.hdr[a].user_size
<1> DEFINE lo == OrderOf(g, a)
           hi == Buddy!Top(Released(g, a), a, lo)
<1>1. CanMerge(g, used, a, lo, hi)
  BY MergeFacts
<1>2. lo = OrderOf(g, a) /\ hi = Buddy!Top(Released(g, a), a, lo)
  OBVIOUS
<1> HIDE DEF lo, hi
<1>3. BuddyTyped(g) /\ a \in Buddy!Addrs /\ lo \in Buddy!Orders /\ hi \in Buddy!Orders /\ lo <= hi
  BY <1>1, CellsAddrs DEF BuddySound, UsedSound, CanMerge
<1>4. IsFreed(g, r, a, lo, hi)
  BY <1>2, <1>3, FreeFields
<1>5. BuddySound(r, used \ {a}) /\ KeepsHeaders(g, r, used \ {a})
  BY <1>1, <1>4, FreedSound
<1>6. /\ r.current_blocks = g.current_blocks - 1
      /\ g.total_allocated >= g.hdr[a].user_size =>
            r.total_allocated = g.total_allocated - g.hdr[a].user_size
  BY <1>4 DEF IsFreed
<1> QED BY <1>5, <1>6

LEMMA BuddyInitSound ==
  /\ BuddySound(Buddy!buddy_init, {})
  /\ Buddy!buddy_init.current_blocks = 0 /\ Buddy!buddy_init.total_allocated = 0
<1> DEFINE z == [size |-> 0, user_size |-> 0, is_free |-> FALSE]
           w == [size |-> TOTAL - BUDDY_HEADER, user_size |-> 0, is_free |-> TRUE]
           g == Buddy!buddy_init
           h == [[c \in Buddy!Addrs |-> z] EXCEPT ![0] = w]
           x == [[o \in Buddy!Orders |-> <<>>] EXCEPT ![MAX_ORDER] = <<0>>]
<1>1. /\ BUDDY_HEADER \in Nat /\ TOTAL \in Nat /\ MAX_ORDER \in Buddy!Orders /\ MAX_ORDER \in Nat
      /\ 0 \in Cells /\ 0 \in Buddy!Addrs /\ Buddy!Orders \subseteq Nat /\ Cells \subseteq Nat
  BY BuddyConstants, CellsAddrs DEF Cells
<1>2. TOTAL - BUDDY_HEADER \in 0..TOTAL
  <2>1. TOTAL >= Buddy!Bytes(MAX_ORDER) /\ Buddy!Bytes(MAX_ORDER) \in Nat /\ Buddy!Bytes(MAX_ORDER) > BUDDY_HEADER
    BY <1>1, BytesFit, BuddyConstants
  <2> QED BY <1>1, <2>1
<1>3. Buddy!get_order(TOTAL) = MAX_ORDER
  BY <1>1, OrderOfSize
<1>4. g = [hdr |-> h, free_blocks |-> x, current_blocks |-> 0, total_allocated |-> 0]
  <2> DEFINE q == [hdr |-> [c \in Buddy!Addrs |-> z], free_blocks |-> [o \in Buddy!Orders |-> <<>>],
                   current_blocks |-> 0, total_allocated |-> 0]
  <2>1. g = [q EXCEPT !.hdr[0] = w, !.free_blocks[MAX_ORDER] = <<0>>]
    BY <1>3 DEF Buddy!buddy_init, Buddy!buddy_static
  <2>2. q.hdr = [c \in Buddy!Addrs |-> z] /\ q.free_blocks = [o \in Buddy!Orders |-> <<>>]
    OBVIOUS
  <2>3. g = [q EXCEPT !.hdr = h, !.free_blocks = x]
    <3> HIDE DEF q, z, w
    <3> QED BY <2>1, <2>2, Zenon
  <2> HIDE DEF h, x
  <2> QED BY <2>3
<1>5. z \in Buddy!Header /\ w \in Buddy!Header
  BY <1>1, <1>2 DEF Buddy!Header
<1> HIDE DEF z
<1>6. h \in [Buddy!Addrs -> Buddy!Header] /\ h[0] = w
  <2> HIDE DEF w
  <2> QED BY <1>1, <1>5
<1>7. /\ x \in [Buddy!Orders -> Seq(Buddy!Addrs)] /\ x[MAX_ORDER] = <<0>>
      /\ \A o \in Buddy!Orders : o # MAX_ORDER => x[o] = <<>>
  <2>1. \A e \in Buddy!Addrs : <<e>> \in Seq(Buddy!Addrs)
    OBVIOUS
  <2>2. <<>> \in Seq(Buddy!Addrs) /\ <<0>> \in Seq(Buddy!Addrs)
    BY <1>1, <2>1
  <2> QED BY <1>1, <2>2
<1> HIDE DEF h, x
<1>8. g.hdr = h /\ g.free_blocks = x /\ g.current_blocks = 0 /\ g.total_allocated = 0 /\ BuddyTyped(g)
  <2> HIDE DEF g
  <2> QED BY <1>4, <1>6, <1>7 DEF BuddyTyped
<1> HIDE DEF g
<1>9. \A o \in Buddy!Orders : /\ Buddy!Listed(g, o) = IF o = MAX_ORDER THEN {0} ELSE {}
                              /\ Distinct(g.free_blocks[o])
  <2>1. Elements(<<>>) = {} /\ Elements(<<0>>) = {0} /\ Distinct(<<>>) /\ Distinct(<<0>>)
    BY DEF Elements, Distinct
  <2> QED BY <1>7, <1>8, <2>1, ListedElements
<1> DEFINE T == TreeOf(g, {})
<1>10. \A o \in Buddy!Orders : T[o] = IF o = MAX_ORDER THEN {0} ELSE {}
  BY <1>9 DEF TreeOf
<1>11. \A y \in Cells : Buddy!BlockAt(y, MAX_ORDER) = 0
  BY <1>1, CellsWhole
<1> HIDE DEF T
<1>12. TilesOnce(T)
  BY <1>1, <1>10, <1>11 DEF TilesOnce
<1>13. g.hdr[0].is_free /\ SizeFits(g, 0, MAX_ORDER)
  BY <1>6, <1>8 DEF SizeFits
<1>14. ListsSound(g)
  BY <1>9, <1>13 DEF ListsSound
<1> QED BY <1>8, <1>12, <1>14 DEF BuddySound, UsedSound, T, g

-----------------------------------------------------------------------------
(* What the callers hold.                                                  *)

LEMMA UsedBlock ==
  ASSUME NEW g, NEW hd, BuddySafe(g, hd), NEW p \in DOMAIN hd
  PROVE  LET a == p - BUDDY_HEADER
         IN  /\ a \in UsedBy(hd) /\ a \in Cells /\ a \in Nat /\ p \in Nat /\ p = a + BUDDY_HEADER
             /\ hd[p] \in Nat /\ hd[p] \in BuddySizes /\ hd[p] > 0 /\ g.hdr[a].user_size = hd[p]
             /\ OrderOf(g, a) = MAX_ORDER \/ hd[p] + BUDDY_HEADER <= Buddy!Bytes(OrderOf(g, a))
<1> DEFINE a == p - BUDDY_HEADER
<1>1. /\ p \in Nat /\ hd[p] \in BuddySizes /\ hd[p] > 0 /\ g.hdr[a].user_size = hd[p]
      /\ OrderOf(g, a) = MAX_ORDER \/ hd[p] + BUDDY_HEADER <= Buddy!Bytes(OrderOf(g, a))
  BY DEF BuddySafe, HeldFits
<1>2. a \in UsedBy(hd)
  BY DEF UsedBy
<1>3. a \in Cells
  BY <1>2 DEF BuddySafe, BuddySound, UsedSound
<1>4. a \in Nat /\ p = a + BUDDY_HEADER
  BY <1>1, <1>3, BuddyConstants DEF Cells
<1>5. hd[p] \in Nat
  BY <1>1, BuddyConstants
<1> QED BY <1>1, <1>2, <1>3, <1>4, <1>5

LEMMA BuddyGivenSafe ==
  ASSUME BuddySafe(b, held), NEW size \in BuddySizes, Buddy!Malloc(size)
  PROVE  BuddySafe(b', held')
<1>1. CASE ~Buddy!CanMalloc(b, size)
  <2>1. b' = b
    BY <1>1 DEF Buddy!Malloc, Buddy!buddy_malloc
  <2>2. held' = held
    BY <1>1 DEF Buddy!Malloc
  <2> QED BY <2>1, <2>2
<1>2. CASE Buddy!CanMalloc(b, size)
  <2> DEFINE a == Buddy!Chosen(b, size)
             p == a + BUDDY_HEADER
             used == UsedBy(held)
  <2>1. size \in Nat /\ BUDDY_HEADER \in Nat
    BY BuddyConstants
  <2>2. b' = Buddy!buddy_malloc(b, size) /\ BuddySound(b, used)
    BY DEF Buddy!Malloc, BuddySafe
  <2>3. held' = [q \in DOMAIN held \cup {p} |-> IF q = p THEN size ELSE held[q]]
    BY <1>2 DEF Buddy!Malloc
  <2>4. /\ BuddySound(b', used \cup {a}) /\ a \notin used /\ a \in Cells /\ size > 0
        /\ KeepsHeaders(b, b', used)
        /\ b'.hdr[a].user_size = size
        /\ OrderOf(b', a) = MAX_ORDER \/ size + BUDDY_HEADER <= Buddy!Bytes(OrderOf(b', a))
        /\ b'.current_blocks = b.current_blocks + 1
    BY <1>2, <2>1, <2>2, MallocTakes
  <2> HIDE DEF a, used
  <2>5. a \in Nat /\ p \in Nat /\ p - BUDDY_HEADER = a
    BY <2>1, <2>4 DEF Cells
  <2>6. ASSUME NEW q \in DOMAIN held
        PROVE  /\ q - BUDDY_HEADER \in used /\ q \in Nat /\ held[q] \in BuddySizes /\ held[q] > 0
               /\ b.hdr[q - BUDDY_HEADER].user_size = held[q]
               /\ OrderOf(b, q - BUDDY_HEADER) = MAX_ORDER
                  \/ held[q] + BUDDY_HEADER <= Buddy!Bytes(OrderOf(b, q - BUDDY_HEADER))
    BY UsedBlock DEF used
  <2>7. p \notin DOMAIN held
    BY <2>4, <2>5, <2>6
  <2>8. DOMAIN held' = DOMAIN held \cup {p} /\ held'[p] = size /\ \A q \in DOMAIN held : held'[q] = held[q]
    BY <2>3, <2>7
  <2>9. UsedBy(held') = used \cup {a}
    BY <2>5, <2>8 DEF UsedBy, used
  <2>10. HeldFits(b', held')
    <3>1. ASSUME NEW q \in DOMAIN held'
          PROVE  /\ q \in Nat /\ held'[q] \in BuddySizes /\ held'[q] > 0
                 /\ b'.hdr[q - BUDDY_HEADER].user_size = held'[q]
                 /\ OrderOf(b', q - BUDDY_HEADER) = MAX_ORDER
                    \/ held'[q] + BUDDY_HEADER <= Buddy!Bytes(OrderOf(b', q - BUDDY_HEADER))
      <4>1. CASE q = p
        BY <2>4, <2>5, <2>8, <4>1
      <4>2. CASE q # p
        <5>1. q \in DOMAIN held /\ held'[q] = held[q]
          BY <2>8, <4>2
        <5>2. b'.hdr[q - BUDDY_HEADER] = b.hdr[q - BUDDY_HEADER]
          BY <2>4, <2>6, <5>1 DEF KeepsHeaders
        <5>3. OrderOf(b', q - BUDDY_HEADER) = OrderOf(b, q - BUDDY_HEADER)
          BY <5>2 DEF OrderOf
        <5> QED BY <2>6, <5>1, <5>2, <5>3
      <4> QED BY <4>1, <4>2
    <3> QED BY <3>1 DEF HeldFits
  <2>11. HeldCounted(b', held')
    <3>1. IsFiniteSet(DOMAIN held) /\ b.current_blocks = Cardinality(DOMAIN held)
      BY DEF BuddySafe, HeldCounted
    <3>2. IsFiniteSet(DOMAIN held') /\ Cardinality(DOMAIN held') = Cardinality(DOMAIN held) + 1
      BY <2>7, <2>8, <3>1, FS_AddElement
    <3> QED BY <2>4, <3>1, <3>2 DEF HeldCounted
  <2> QED BY <2>4, <2>9, <2>10, <2>11 DEF BuddySafe
<1> QED BY <1>1, <1>2

LEMMA BuddyFreedSafe ==
  ASSUME BuddySafe(b, held), NEW p \in DOMAIN held, Buddy!Free(p)
  PROVE  BuddySafe(b', held')
<1> DEFINE a == p - BUDDY_HEADER
           used == UsedBy(held)
<1>1. a \in used /\ a \in Nat /\ p = a + BUDDY_HEADER
  BY UsedBlock
<1>2. b' = Buddy!buddy_free(b, a + BUDDY_HEADER) /\ BuddySound(b, used)
  BY <1>1 DEF Buddy!Free, BuddySafe
<1>3. held' = [q \in DOMAIN held \ {p} |-> held[q]]
  BY DEF Buddy!Free
<1> HIDE DEF a, used
<1>4. /\ BuddySound(b', used \ {a}) /\ KeepsHeaders(b, b', used \ {a})
      /\ b'.current_blocks = b.current_blocks - 1
  BY <1>1, <1>2, FreeReleases
<1>5. ASSUME NEW q \in DOMAIN held
      PROVE  /\ q - BUDDY_HEADER \in used /\ q \in Nat /\ q = (q - BUDDY_HEADER) + BUDDY_HEADER
             /\ held[q] \in BuddySizes /\ held[q] > 0
             /\ b.hdr[q - BUDDY_HEADER].user_size = held[q]
             /\ OrderOf(b, q - BUDDY_HEADER) = MAX_ORDER
                \/ held[q] + BUDDY_HEADER <= Buddy!Bytes(OrderOf(b, q - BUDDY_HEADER))
  BY UsedBlock DEF used
<1>6. DOMAIN held' = DOMAIN held \ {p} /\ \A q \in DOMAIN held' : held'[q] = held[q]
  BY <1>3
<1>7. ASSUME NEW q \in DOMAIN held' PROVE q - BUDDY_HEADER # a
  BY <1>1, <1>5, <1>6
<1>8. UsedBy(held') = used \ {a}
  <2>1. used = {q - BUDDY_HEADER : q \in DOMAIN held} /\ a = p - BUDDY_HEADER
    BY DEF used, UsedBy, a
  <2> QED BY <1>6, <1>7, <2>1 DEF UsedBy
<1>9. HeldFits(b', held')
  <2>1. ASSUME NEW q \in DOMAIN held'
        PROVE  /\ q \in Nat /\ held'[q] \in BuddySizes /\ held'[q] > 0
               /\ b'.hdr[q - BUDDY_HEADER].user_size = held'[q]
               /\ OrderOf(b', q - BUDDY_HEADER) = MAX_ORDER
                  \/ held'[q] + BUDDY_HEADER <= Buddy!Bytes(OrderOf(b', q - BUDDY_HEADER))
    <3>1. q \in DOMAIN held /\ held'[q] = held[q]
      BY <1>6
    <3>2. b'.hdr[q - BUDDY_HEADER] = b.hdr[q - BUDDY_HEADER]
      BY <1>4, <1>5, <1>7, <3>1 DEF KeepsHeaders
    <3>3. OrderOf(b', q - BUDDY_HEADER) = OrderOf(b, q - BUDDY_HEADER)
      BY <3>2 DEF OrderOf
    <3> QED BY <1>5, <3>1, <3>2, <3>3
  <2> QED BY <2>1 DEF HeldFits
<1>10. HeldCounted(b', held')
  <2>1. IsFiniteSet(DOMAIN held) /\ b.current_blocks = Cardinality(DOMAIN held)
    BY DEF BuddySafe, HeldCounted
  <2>2. IsFiniteSet(DOMAIN held') /\ Cardinality(DOMAIN held') = Cardinality(DOMAIN held) - 1
    BY <1>6, <2>1, FS_RemoveElement
  <2> QED BY <1>4, <2>1, <2>2 DEF HeldCounted
<1> QED BY <1>4, <1>8, <1>9, <1>10 DEF BuddySafe

\* A block in use ends before the next one in use begins.
LEMMA UsedOrdered ==
  ASSUME NEW g, NEW used, BuddySound(g, used), NEW a \in used, NEW c \in used, a < c
  PROVE  OrderOf(g, a) # MAX_ORDER /\ a + Buddy!Bytes(OrderOf(g, a)) <= c
<1> DEFINE T == TreeOf(g, used)
           o == OrderOf(g, a)
           k == OrderOf(g, c)
<1>1. /\ TilesOnce(T) /\ BuddyTyped(g) /\ a \in Cells /\ c \in Cells /\ a \in Buddy!Addrs /\ c \in Buddy!Addrs
      /\ a \in Nat /\ c \in Nat
  BY CellsAddrs DEF BuddySound, UsedSound
<1>2. ASSUME NEW d \in {a, c} PROVE OrderOf(g, d) \in Buddy!Orders
  <2>1. g.hdr[d] \in Buddy!Header
    BY <1>1, BuddyFields
  <2>2. g.hdr[d].size + BUDDY_HEADER \in Nat
    BY <2>1, BuddyConstants DEF Buddy!Header
  <2> QED BY <2>2, GetOrder DEF OrderOf
<1>3. o \in Buddy!Orders /\ k \in Buddy!Orders
  BY <1>2
<1>4. a \in T[o] /\ c \in T[k]
  BY <1>3 DEF TreeOf
<1> HIDE DEF T, o, k
<1>5. Buddy!BlockAt(a, o) = a /\ Buddy!BlockAt(c, k) = c
  BY <1>1, <1>3, <1>4 DEF TilesOnce
<1>6. o \in Nat /\ Buddy!Bytes(o) \in Nat
  BY <1>3, OrdersNat, BytesFit
<1>7. Buddy!BlockAt(c, o) # a
  <2> SUFFICES ASSUME Buddy!BlockAt(c, o) = a PROVE FALSE
    OBVIOUS
  <2>1. o = k
    BY <1>1, <1>3, <1>4, <1>5 DEF TilesOnce
  <2> QED BY <1>1, <1>5, <2>1
<1>8. a + Buddy!Bytes(o) <= c
  <2>1. ~(c < a + Buddy!Bytes(o))
    <3> SUFFICES ASSUME c < a + Buddy!Bytes(o) PROVE FALSE
      OBVIOUS
    <3>1. Buddy!BlockAt(a, o) <= c /\ c < Buddy!BlockAt(a, o) + Buddy!Bytes(o)
      BY <1>1, <1>5
    <3>2. Buddy!BlockAt(c, o) = Buddy!BlockAt(a, o)
      BY <1>1, <1>6, <3>1, SameBlock
    <3> QED BY <1>5, <1>7, <3>2
  <2> QED BY <1>1, <1>6, <2>1
<1>9. o # MAX_ORDER
  <2>1. a = 0 => Buddy!BlockAt(a, MAX_ORDER) = 0
    BY <1>1, CellsWhole
  <2>2. Buddy!BlockAt(c, MAX_ORDER) = 0 /\ Buddy!BlockAt(a, MAX_ORDER) = 0
    BY <1>1, CellsWhole
  <2> QED BY <1>5, <1>7, <2>2
<1> QED BY <1>8, <1>9 DEF o

RequestsFit == \A s \in BuddySizes : s + BUDDY_HEADER <= TOTAL

\* What two callers hold is apart; and inside the heap when no request is larger.
LEMMA BuddyApart ==
  ASSUME NEW g, NEW hd, BuddySafe(g, hd)
  PROVE  /\ \A p, q \in DOMAIN hd : p # q => ~H!Overlap(p, hd[p], q, hd[q])
         /\ RequestsFit => \A p \in DOMAIN hd : p + hd[p] <= TOTAL
<1> DEFINE used == UsedBy(hd)
           Left(p) == p - BUDDY_HEADER
<1>1. BuddySound(g, used) /\ BUDDY_HEADER \in Nat /\ TOTAL \in Nat /\ MAX_ORDER \in Nat
  BY BuddyConstants DEF BuddySafe
<1>2. ASSUME NEW p \in DOMAIN hd
      PROVE  /\ Left(p) \in used /\ Left(p) \in Cells /\ Left(p) \in Nat /\ p \in Nat /\ p = Left(p) + BUDDY_HEADER
             /\ hd[p] \in Nat /\ hd[p] \in BuddySizes
             /\ OrderOf(g, Left(p)) = MAX_ORDER \/ hd[p] + BUDDY_HEADER <= Buddy!Bytes(OrderOf(g, Left(p)))
  BY UsedBlock
<1>3. ASSUME NEW p \in DOMAIN hd PROVE OrderOf(g, Left(p)) \in Buddy!Orders
  <2>1. g.hdr[Left(p)] \in Buddy!Header
    BY <1>1, <1>2, CellsAddrs, BuddyFields DEF BuddySound
  <2>2. g.hdr[Left(p)].size + BUDDY_HEADER \in Nat
    BY <2>1, BuddyConstants DEF Buddy!Header
  <2> QED BY <2>2, GetOrder DEF OrderOf
<1> HIDE DEF used, Left
<1>4. ASSUME NEW p \in DOMAIN hd, NEW q \in DOMAIN hd, Left(p) < Left(q)
      PROVE  p + hd[p] <= Left(q)
  <2> DEFINE n == Buddy!Bytes(OrderOf(g, Left(p)))
  <2>1. OrderOf(g, Left(p)) # MAX_ORDER /\ Left(p) + n <= Left(q)
    BY <1>1, <1>2, <1>4, UsedOrdered
  <2>2. n \in Nat
    BY <1>3, BytesFit
  <2>3. hd[p] + BUDDY_HEADER <= n
    BY <1>2, <2>1
  <2> HIDE DEF n
  <2> QED BY <1>1, <1>2, <2>1, <2>2, <2>3
<1>5. ASSUME NEW p \in DOMAIN hd, NEW q \in DOMAIN hd, p # q
      PROVE  ~H!Overlap(p, hd[p], q, hd[q])
  <2>1. /\ p = Left(p) + BUDDY_HEADER /\ q = Left(q) + BUDDY_HEADER /\ Left(p) \in Nat /\ Left(q) \in Nat
        /\ p \in Nat /\ q \in Nat /\ hd[p] \in Nat /\ hd[q] \in Nat
    BY <1>2
  <2>2. (Left(p) < Left(q) => p + hd[p] <= Left(q)) /\ (Left(q) < Left(p) => q + hd[q] <= Left(p))
    BY <1>4
  <2> QED BY <1>1, <1>5, <2>1, <2>2 DEF H!Overlap
<1>6. ASSUME RequestsFit, NEW p \in DOMAIN hd PROVE p + hd[p] <= TOTAL
  <2> DEFINE a == Left(p)
             o == OrderOf(g, a)
             n == Buddy!Bytes(o)
             z == Buddy!Bytes(MAX_ORDER)
  <2>1. /\ a \in used /\ a \in Cells /\ a \in Nat /\ p = a + BUDDY_HEADER /\ hd[p] \in Nat /\ hd[p] \in BuddySizes
        /\ o = MAX_ORDER \/ hd[p] + BUDDY_HEADER <= n
    BY <1>2
  <2>2. o \in Buddy!Orders
    BY <1>3
  <2>3. a \in TreeOf(g, used)[o]
    BY <2>1, <2>2 DEF TreeOf
  <2>4. Buddy!BlockAt(a, o) = a
    BY <1>1, <2>2, <2>3 DEF BuddySound, TilesOnce
  <2>5. Buddy!BlockAt(a, MAX_ORDER) = 0
    BY <2>1, CellsWhole
  <2>6. n \in Nat /\ z \in Nat /\ z <= TOTAL /\ o \in Nat /\ o <= MAX_ORDER
    BY <2>2, BytesFit, OrdersNat, BuddyConstants
  <2> HIDE DEF a, o
  <2>7. Buddy!BlockAt(a, o) + n <= Buddy!BlockAt(a, MAX_ORDER) + z
    BY <1>1, <2>1, <2>6, Nested
  <2>8. a + n <= z
    <3> HIDE DEF n, z
    <3> QED BY <2>4, <2>5, <2>6, <2>7
  <2>9. CASE o = MAX_ORDER
    <3>1. a = 0
      BY <2>4, <2>5, <2>9
    <3>2. hd[p] + BUDDY_HEADER <= TOTAL
      BY <1>6, <2>1 DEF RequestsFit
    <3> QED BY <1>1, <2>1, <3>1, <3>2
  <2>10. CASE o # MAX_ORDER
    <3> HIDE DEF n, z
    <3> QED BY <1>1, <2>1, <2>6, <2>8, <2>10
  <2> QED BY <2>9, <2>10
<1> QED BY <1>5, <1>6

-----------------------------------------------------------------------------
(* The properties of the buddy manager.                                    *)

\* A block in use or listed is one of the tiling, and its header says its order.
LEMMA BlockOrder ==
  ASSUME NEW g, NEW used, BuddySound(g, used), NEW a \in used \cup Buddy!AllListed(g)
  PROVE  \E o \in Buddy!Orders : /\ a \in TreeOf(g, used)[o] /\ SizeFits(g, a, o)
                                 /\ a \in Cells /\ Buddy!BlockAt(a, o) = a
<1>1. ASSUME NEW o \in Buddy!Orders, a \in TreeOf(g, used)[o]
      PROVE  a \in Cells /\ Buddy!BlockAt(a, o) = a
  BY <1>1 DEF BuddySound, TilesOnce
<1>2. CASE a \in used
  <2>1. a \in Buddy!Addrs /\ BuddyTyped(g)
    BY <1>2, CellsAddrs DEF BuddySound, UsedSound
  <2>2. g.hdr[a] \in Buddy!Header
    BY <2>1, BuddyFields
  <2>3. g.hdr[a].size + BUDDY_HEADER \in Nat
    BY <2>2, BuddyConstants DEF Buddy!Header
  <2>4. OrderOf(g, a) \in Buddy!Orders
    BY <2>3, GetOrder DEF OrderOf
  <2>5. SizeFits(g, a, OrderOf(g, a)) /\ a \in TreeOf(g, used)[OrderOf(g, a)]
    BY <1>2, <2>4 DEF BuddySound, UsedSound, TreeOf
  <2> QED BY <1>1, <2>4, <2>5
<1>3. CASE a \in Buddy!AllListed(g)
  <2>1. PICK o \in Buddy!Orders : a \in Buddy!Listed(g, o)
    BY <1>3 DEF Buddy!AllListed
  <2>2. SizeFits(g, a, o) /\ a \in TreeOf(g, used)[o]
    BY <2>1 DEF BuddySound, ListsSound, TreeOf
  <2> QED BY <1>1, <2>1, <2>2
<1> QED BY <1>2, <1>3

\* The bytes of a block below the largest order are those whose block it is.
LEMMA BlockBytes ==
  ASSUME NEW o \in Buddy!Orders, NEW a \in Nat, Buddy!BlockAt(a, o) = a,
         NEW s, s = Buddy!Bytes(o) - BUDDY_HEADER
  PROVE  a .. a + s + BUDDY_HEADER - 1 = {x \in Nat : Buddy!BlockAt(x, o) = a}
<1> DEFINE n == Buddy!Bytes(o)
<1>1. n \in Nat /\ n > 0 /\ o \in Nat /\ BUDDY_HEADER \in Nat
  BY BytesFit, OrdersNat, BytesNat, BuddyConstants
<1>2. ASSUME NEW x \in Nat, a <= x, x < a + n PROVE Buddy!BlockAt(x, o) = a
  <2>1. Buddy!BlockAt(a, o) <= x /\ x < Buddy!BlockAt(a, o) + Buddy!Bytes(o)
    BY <1>2
  <2>2. Buddy!BlockAt(x, o) = Buddy!BlockAt(a, o)
    BY <1>1, <2>1, SameBlock
  <2> QED BY <2>2
<1>3. ASSUME NEW x \in Nat, Buddy!BlockAt(x, o) = a PROVE a <= x /\ x < a + n
  BY <1>1, <1>3, Within
<1> HIDE DEF n
<1>4. a + s + BUDDY_HEADER - 1 = a + n - 1 /\ a + n \in Nat
  BY <1>1 DEF n
<1>5. ASSUME NEW x PROVE x \in a .. a + n - 1 <=> (x \in Nat /\ a <= x /\ x < a + n)
  BY <1>1, <1>4
<1> QED BY <1>2, <1>3, <1>4, <1>5

LEMMA BuddyPartition ==
  ASSUME BuddySafe(b, held)
  PROVE  Buddy!Partition
<1> DEFINE used == UsedBy(held)
           T == TreeOf(b, used)
           S == used \cup Buddy!AllListed(b)
           Ext(a) == Buddy!Extent(a)
           L(o) == Buddy!Listed(b, o)
<1>1. /\ BuddySound(b, used) /\ BuddyTyped(b) /\ TilesOnce(T) /\ ListsSound(b) /\ UsedSound(b, used)
      /\ MAX_ORDER \in Buddy!Orders /\ MAX_ORDER \in Nat /\ BUDDY_HEADER \in Nat /\ TOTAL \in Nat
  BY BuddyConstants DEF BuddySafe, BuddySound
<1>2. Buddy!Used = used
  BY DEF Buddy!Used, UsedBy
<1>3. ASSUME NEW a PROVE Ext(a) = a .. a + b.hdr[a].size + BUDDY_HEADER - 1
  BY DEF Buddy!Extent
<1>4. ASSUME NEW a \in S
      PROVE  \E o \in Buddy!Orders : /\ a \in T[o] /\ SizeFits(b, a, o)
                                     /\ a \in Cells /\ Buddy!BlockAt(a, o) = a
  BY <1>1, BlockOrder
<1>5. ASSUME NEW o \in Buddy!Orders, NEW a \in T[o]
      PROVE  a \in S /\ a \in Cells /\ a \in Nat /\ Buddy!BlockAt(a, o) = a
  <2>1. a \in S
    BY DEF TreeOf, Buddy!AllListed
  <2> HIDE DEF T
  <2> QED BY <1>1, <2>1 DEF TilesOnce, Cells
<1> HIDE DEF T, Ext, used, S
<1>6. /\ UNION {Ext(a) : a \in S} \in {0 .. Buddy!Bytes(MAX_ORDER) - 1, 0 .. TOTAL - 1}
      /\ \A a, c \in S : a # c => Ext(a) \cap Ext(c) = {}
  <2>1. CASE T[MAX_ORDER] # {}
    <3>1. PICK e \in T[MAX_ORDER] : TRUE
      BY <2>1
    <3>2. e \in S /\ e \in Cells /\ e \in Nat /\ Buddy!BlockAt(e, MAX_ORDER) = e
      BY <1>1, <1>5
    <3>3. e = 0
      BY <3>2, CellsWhole
    <3>4. ASSUME NEW a \in S PROVE a = 0 /\ SizeFits(b, a, MAX_ORDER)
      <4>1. PICK o \in Buddy!Orders : a \in T[o] /\ SizeFits(b, a, o) /\ a \in Cells /\ Buddy!BlockAt(a, o) = a
        BY <1>4
      <4>2. a \in Nat
        BY <4>1 DEF Cells
      <4>3. Buddy!BlockAt(a, MAX_ORDER) = 0
        BY <4>1, <4>2, CellsWhole
      <4>4. Buddy!BlockAt(a, MAX_ORDER) \in T[MAX_ORDER]
        BY <3>1, <3>3, <4>3
      <4>5. o = MAX_ORDER
        BY <1>1, <4>1, <4>4 DEF TilesOnce
      <4> QED BY <4>1, <4>3, <4>5
    <3>5. S = {0}
      BY <3>2, <3>3, <3>4
    <3>6. Ext(0) \in {0 .. Buddy!Bytes(MAX_ORDER) - 1, 0 .. TOTAL - 1}
      <4>1. Ext(0) = 0 .. 0 + b.hdr[0].size + BUDDY_HEADER - 1 /\ SizeFits(b, 0, MAX_ORDER)
        BY <1>3, <3>4, <3>5
      <4>2. Buddy!Bytes(MAX_ORDER) \in Nat
        BY <1>1, BytesFit
      <4>3. b.hdr[0].size = Buddy!Bytes(MAX_ORDER) - BUDDY_HEADER \/ b.hdr[0].size = TOTAL - BUDDY_HEADER
        BY <4>1 DEF SizeFits
      <4>4. 0 + b.hdr[0].size + BUDDY_HEADER - 1 \in {Buddy!Bytes(MAX_ORDER) - 1, TOTAL - 1}
        BY <1>1, <4>2, <4>3
      <4> QED BY <4>1, <4>4
    <3>7. UNION {Ext(a) : a \in S} = Ext(0)
      BY <3>5
    <3> QED BY <3>5, <3>6, <3>7
  <2>2. CASE T[MAX_ORDER] = {}
    <3>1. ASSUME NEW o \in Buddy!Orders, NEW a \in T[o]
          PROVE  a \in S /\ Ext(a) = {x \in Nat : Buddy!BlockAt(x, o) = a}
      <4>1. a \in S /\ a \in Nat /\ Buddy!BlockAt(a, o) = a
        BY <1>5
      <4>2. PICK k \in Buddy!Orders : a \in T[k] /\ SizeFits(b, a, k) /\ a \in Cells /\ Buddy!BlockAt(a, k) = a
        BY <1>4, <4>1
      <4>3. k = o
        BY <1>1, <4>1, <4>2 DEF TilesOnce
      <4>4. o # MAX_ORDER
        BY <2>2
      <4>5. b.hdr[a].size = Buddy!Bytes(o) - BUDDY_HEADER
        BY <4>2, <4>3, <4>4 DEF SizeFits
      <4>6. a .. a + b.hdr[a].size + BUDDY_HEADER - 1 = {x \in Nat : Buddy!BlockAt(x, o) = a}
        BY <4>1, <4>5, BlockBytes
      <4> QED BY <1>3, <4>1, <4>6
    <3>2. ASSUME NEW x \in Cells PROVE x \in UNION {Ext(a) : a \in S}
      <4>1. PICK o \in Buddy!Orders : Buddy!BlockAt(x, o) \in T[o]
        BY <1>1 DEF TilesOnce
      <4>2. x \in Nat
        BY DEF Cells
      <4>3. Buddy!BlockAt(x, o) \in S /\ x \in Ext(Buddy!BlockAt(x, o))
        BY <3>1, <4>1, <4>2
      <4> QED BY <4>3
    <3>3. ASSUME NEW a \in S, NEW x \in Ext(a)
          PROVE  x \in Cells /\ \E o \in Buddy!Orders : Buddy!BlockAt(x, o) = a /\ a \in T[o]
      <4>1. PICK o \in Buddy!Orders : a \in T[o] /\ SizeFits(b, a, o) /\ a \in Cells /\ Buddy!BlockAt(a, o) = a
        BY <1>4
      <4>2. x \in Nat /\ Buddy!BlockAt(x, o) = a
        BY <3>1, <3>3, <4>1
      <4>3. x \in Cells
        BY <4>1, <4>2, CellsSame
      <4> QED BY <4>1, <4>2, <4>3
    <3>4. UNION {Ext(a) : a \in S} = Cells
      BY <3>2, <3>3
    <3>5. ASSUME NEW a \in S, NEW c \in S, NEW x \in Ext(a), x \in Ext(c) PROVE a = c
      <4>1. PICK o \in Buddy!Orders : Buddy!BlockAt(x, o) = a /\ a \in T[o]
        BY <3>3
      <4>2. PICK k \in Buddy!Orders : Buddy!BlockAt(x, k) = c /\ c \in T[k]
        BY <3>3, <3>5
      <4>3. x \in Cells
        BY <3>3
      <4>4. o = k
        BY <1>1, <4>1, <4>2, <4>3 DEF TilesOnce
      <4> QED BY <4>1, <4>2, <4>4
    <3> QED BY <3>4, <3>5 DEF Cells
  <2> QED BY <2>1, <2>2
<1>7. \A o \in Buddy!Orders :
         /\ Buddy!Cardinality(L(o)) = Len(b.free_blocks[o])
         /\ \A p \in Buddy!Orders \ {o} : L(o) \cap L(p) = {}
  <2>1. ASSUME NEW o \in Buddy!Orders PROVE Buddy!Cardinality(L(o)) = Len(b.free_blocks[o])
    <3>1. b.free_blocks[o] \in Seq(Buddy!Addrs) /\ Distinct(b.free_blocks[o])
      BY <1>1, BuddyFields DEF ListsSound
    <3>2. L(o) = Elements(b.free_blocks[o])
      BY ListedElements
    <3>3. Cardinality(Elements(b.free_blocks[o])) = Len(b.free_blocks[o])
      BY <3>1, DistinctCount
    <3>4. Buddy!Cardinality(L(o)) = Cardinality(L(o))
      BY Zenon DEF Cardinality, Buddy!Cardinality
    <3> QED BY <3>2, <3>3, <3>4
  <2>2. ASSUME NEW o \in Buddy!Orders, NEW p \in Buddy!Orders, NEW a \in L(o), a \in L(p) PROVE o = p
    <3>1. SizeFits(b, a, o) /\ SizeFits(b, a, p)
      BY <1>1, <2>2 DEF ListsSound
    <3>2. OrderOf(b, a) = o
      BY <3>1, OrderExact
    <3>3. OrderOf(b, a) = p
      BY <3>1, OrderExact
    <3> QED BY <3>2, <3>3
  <2> QED BY <2>1, <2>2
<1>8. used \cap Buddy!AllListed(b) = {}
  BY <1>1 DEF UsedSound, ListsSound, Buddy!AllListed
<1> QED BY <1>2, <1>6, <1>7, <1>8, Zenon DEF Buddy!Partition, S, Ext, L

LEMMA BuddyImplies ==
  ASSUME BuddySafe(b, held)
  PROVE  Buddy!Partition /\ Buddy!ListsExact /\ Buddy!BuddiesMerged
<1>1. BuddySound(b, UsedBy(held)) /\ ListsSound(b) /\ TilesOnce(TreeOf(b, UsedBy(held)))
  BY DEF BuddySafe, BuddySound
<1>2. ASSUME NEW o \in Buddy!Orders, NEW a \in Buddy!Listed(b, o)
      PROVE  /\ a = Buddy!BlockAt(a, o) /\ b.hdr[a].is_free
             /\ b.hdr[a].size = Buddy!Bytes(o) - BUDDY_HEADER
                \/ (o = MAX_ORDER /\ b.hdr[a].size = TOTAL - BUDDY_HEADER)
  <2>1. a \in TreeOf(b, UsedBy(held))[o]
    BY DEF TreeOf
  <2>2. a = Buddy!BlockAt(a, o)
    BY <1>1, <2>1 DEF TilesOnce
  <2> QED BY <1>1, <2>2 DEF ListsSound, SizeFits
<1>3. Buddy!BuddiesMerged
  BY <1>1 DEF ListsSound, Buddy!BuddiesMerged
<1> QED BY <1>2, <1>3, BuddyPartition DEF Buddy!ListsExact

-----------------------------------------------------------------------------
(* Both managers.                                                          *)

\* The manager that the build left out is never touched.
OneManager ==
  /\ current_manager \in {"NULL", "group", "buddy"}
  /\ ~UsesGroup => m = Group!group_static
  /\ ~UsesBuddy => b = Buddy!buddy_static

MemoryInv == OneManager /\ Inv /\ (UsesBuddy => BuddySafe(b, held))

\* The steps that the buddy manager takes.
BuddyStep ==
  \/ \E size \in BuddySizes : Buddy!Malloc(size)
  \/ \E p \in DOMAIN held : Buddy!Free(p)

LEMMA BuddySteps ==
  ASSUME Next, UsesBuddy
  PROVE  BuddyStep /\ UNCHANGED current_manager
<1>1. CASE \E manager \in {"group", "buddy"} : init_memory_manager(manager)
  BY <1>1 DEF init_memory_manager, UsesBuddy
<1>2. CASE Boot
  BY <1>2 DEF Boot, Through, UsesBuddy
<1>3. CASE mm_malloc
  <2>1. \E size \in BuddySizes : Buddy!Malloc(size)
    BY <1>3 DEF mm_malloc, Through, UsesBuddy
  <2>2. UNCHANGED current_manager
    BY <1>3 DEF mm_malloc, Through
  <2> QED BY <2>1, <2>2 DEF BuddyStep
<1>4. CASE \E p \in DOMAIN held : mm_free(p)
  BY <1>4 DEF mm_free, Through, UsesBuddy, BuddyStep
<1> QED BY <1>1, <1>2, <1>3, <1>4 DEF Next

LEMMA BuddyInitSafe ==
  ASSUME NEW hd, hd = [p \in {} |-> 0]
  PROVE  BuddySafe(Buddy!buddy_init, hd)
<1>1. DOMAIN hd = {}
  OBVIOUS
<1>2. UsedBy(hd) = {} /\ HeldFits(Buddy!buddy_init, hd)
  BY <1>1 DEF UsedBy, HeldFits
<1>3. HeldCounted(Buddy!buddy_init, hd)
  BY <1>1, BuddyInitSound, FS_EmptySet DEF HeldCounted
<1> QED BY <1>2, <1>3, BuddyInitSound DEF BuddySafe

LEMMA OneManagerNext == ASSUME OneManager, [Next]_vars PROVE OneManager'
<1>1. CASE UNCHANGED vars
  BY <1>1 DEF OneManager, vars, UsesGroup, UsesBuddy
<1>2. CASE \E manager \in {"group", "buddy"} : init_memory_manager(manager)
  BY <1>2 DEF init_memory_manager, OneManager, UsesGroup, UsesBuddy
<1>3. CASE Boot
  BY <1>3 DEF Boot, Through, OneManager, UsesGroup, UsesBuddy
<1>4. CASE mm_malloc
  BY <1>4 DEF mm_malloc, Through, OneManager, UsesGroup, UsesBuddy
<1>5. CASE \E p \in DOMAIN held : mm_free(p)
  BY <1>5 DEF mm_free, Through, OneManager, UsesGroup, UsesBuddy
<1> QED BY <1>1, <1>2, <1>3, <1>4, <1>5 DEF Next

LEMMA MemoryInvInit == Init => MemoryInv
BY InvInit DEF Init, MemoryInv, OneManager, UsesGroup, UsesBuddy

LEMMA MemoryInvNext ==
  ASSUME MemoryInv, [Next]_vars
  PROVE  MemoryInv'
<1>1. Inv'
  BY InvNext DEF MemoryInv
<1>2. ASSUME UsesBuddy' PROVE BuddySafe(b', held')
  <2>1. CASE UNCHANGED vars
    BY <1>2, <2>1 DEF MemoryInv, vars, UsesBuddy
  <2>2. CASE Next /\ UsesBuddy
    <3>1. BuddyStep /\ BuddySafe(b, held)
      BY <2>2, BuddySteps DEF MemoryInv
    <3> QED BY <3>1, BuddyGivenSafe, BuddyFreedSafe DEF BuddyStep
  <2>3. CASE Next /\ ~UsesBuddy
    <3>1. PICK manager \in {"group", "buddy"} : init_memory_manager(manager)
      BY <1>2, <2>3 DEF Next, Boot, mm_malloc, mm_free, Through, UsesBuddy
    <3>2. b' = Buddy!buddy_init /\ held' = [p \in {} |-> 0]
      BY <1>2, <3>1 DEF init_memory_manager, UsesBuddy, MemoryInv, Inv
    <3> QED BY <3>2, BuddyInitSafe
  <2> QED BY <2>1, <2>2, <2>3
<1>3. OneManager'
  BY OneManagerNext DEF MemoryInv
<1> QED BY <1>1, <1>2, <1>3 DEF MemoryInv

\* An allocation of the buddy manager is one of Heap, or fails and changes nothing.
LEMMA BuddyGivenImplements ==
  ASSUME RequestsFit, BuddySafe(b, held), NEW size \in BuddySizes, Buddy!Malloc(size)
  PROVE  [H!Next]_held
<1>1. CASE ~Buddy!CanMalloc(b, size)
  BY <1>1 DEF Buddy!Malloc
<1>2. CASE Buddy!CanMalloc(b, size)
  <2> DEFINE a == Buddy!Chosen(b, size)
             p == a + BUDDY_HEADER
  <2>1. held' = [q \in DOMAIN held \cup {p} |-> IF q = p THEN size ELSE held[q]]
    BY <1>2 DEF Buddy!Malloc
  <2>2. BuddySafe(b', held')
    BY BuddyGivenSafe
  <2>3. a \notin UsedBy(held) /\ a \in Cells /\ size > 0
    <3>1. size \in Nat /\ BuddySound(b, UsedBy(held)) /\ b' = Buddy!buddy_malloc(b, size)
      BY BuddyConstants DEF BuddySafe, Buddy!Malloc
    <3> QED BY <1>2, <3>1, MallocTakes
  <2>4. a \in Nat /\ p - BUDDY_HEADER = a /\ p \in Nat /\ size \in Nat
    BY <2>3, BuddyConstants DEF Cells
  <2> HIDE DEF a, p
  <2>5. p \notin DOMAIN held
    BY <2>3, <2>4 DEF UsedBy
  <2>6. DOMAIN held' = DOMAIN held \cup {p} /\ held'[p] = size /\ \A q \in DOMAIN held : held'[q] = held[q]
    BY <2>1, <2>5
  <2>7. p + held'[p] <= TOTAL
    BY <2>2, <2>6, BuddyApart
  <2>8. p \in 0..TOTAL /\ size \in 1..TOTAL /\ p + size <= TOTAL
    BY <2>3, <2>4, <2>6, <2>7, BuddyConstants
  <2>9. \A q \in DOMAIN held' : p # q => ~H!Overlap(p, held'[p], q, held'[q])
    BY <2>2, <2>6, BuddyApart
  <2>10. ASSUME NEW q \in DOMAIN held PROVE ~H!Overlap(p, size, q, held[q])
    BY <2>5, <2>6, <2>9
  <2>11. H!Malloc(p, size)
    BY <2>1, <2>8, <2>10 DEF H!Malloc
  <2> QED BY <2>8, <2>11 DEF H!Next
<1> QED BY <1>1, <1>2

LEMMA MemoryStepImplements ==
  ASSUME RequestsFit, MemoryInv, [Next]_vars
  PROVE  [H!Next]_held
<1>1. CASE UNCHANGED vars
  BY <1>1 DEF vars
<1>2. CASE Next /\ UsesBuddy
  <2>1. BuddyStep /\ BuddySafe(b, held)
    BY <1>2, BuddySteps DEF MemoryInv
  <2>2. ASSUME NEW p \in DOMAIN held, Buddy!Free(p)
        PROVE  [H!Next]_held
    BY <2>2 DEF Buddy!Free, H!Free, H!Next
  <2> QED BY <2>1, <2>2, BuddyGivenImplements DEF BuddyStep
<1>3. CASE Next /\ ~UsesBuddy
  <2>1. CASE UsesBuddy'
    <3>1. \E manager \in {"group", "buddy"} : init_memory_manager(manager)
      BY <1>3, <2>1 DEF Next, Boot, mm_malloc, mm_free, Through, UsesBuddy
    <3> QED BY <3>1 DEF init_memory_manager
  <2>2. CASE ~UsesBuddy'
    BY <1>3, <2>2, StepImplements DEF MemoryInv
  <2> QED BY <2>1, <2>2
<1> QED BY <1>1, <1>2, <1>3

LEMMA HeldApart ==
  ASSUME MemoryInv
  PROVE  /\ \A p, q \in DOMAIN held : p # q => ~H!Overlap(p, held[p], q, held[q])
         /\ RequestsFit => LiveDisjoint
<1>1. CASE UsesGroup
  BY <1>1, InvImplies DEF MemoryInv, LiveDisjoint, H!Exclusive
<1>2. CASE UsesBuddy
  BY <1>2, BuddyApart DEF MemoryInv, LiveDisjoint, H!Exclusive
<1>3. CASE ~UsesGroup /\ ~UsesBuddy
  <2>1. current_manager = "NULL" => DOMAIN held = {}
    BY DEF MemoryInv, Inv
  <2>2. DOMAIN held = {}
    BY <1>3, <2>1 DEF MemoryInv, OneManager, UsesGroup, UsesBuddy
  <2> QED BY <2>2 DEF LiveDisjoint, H!Exclusive
<1> QED BY <1>1, <1>2, <1>3

-----------------------------------------------------------------------------
(* Sums over finite sets.                                                  *)

Pick(s) == CHOOSE x \in s : TRUE

IsSums(f, v, S) == f = [s \in SUBSET S |-> IF s = {} THEN 0 ELSE v[Pick(s)] + f[s \ {Pick(s)}]]

\* What MapThenSumSet computes, of a function.
Total(v, S) == (CHOOSE f : IsSums(f, v, S))[S]

LEMMA LayerInduction ==
  ASSUME NEW S, IsFiniteSet(S), NEW G,
         \A T \in SUBSET S : (\A x \in T : T \ {x} \in G) => T \in G
  PROVE  \A T \in SUBSET S : T \in G
<1> DEFINE N == {n \in Nat : \A T \in SUBSET S : Cardinality(T) = n => T \in G}
<1>1. ASSUME NEW T \in SUBSET S
      PROVE  /\ IsFiniteSet(T) /\ Cardinality(T) \in Nat /\ (Cardinality(T) = 0 <=> T = {})
             /\ \A x \in T : Cardinality(T \ {x}) = Cardinality(T) - 1
  <2>1. IsFiniteSet(T)
    BY FS_Subset
  <2>2. Cardinality(T) \in Nat
    BY <2>1, FS_CardinalityType
  <2>3. Cardinality(T) = 0 <=> T = {}
    BY <2>1, FS_EmptySet
  <2>4. \A x \in T : Cardinality(T \ {x}) = Cardinality(T) - 1
    BY <2>1, FS_RemoveElement
  <2> QED BY <2>1, <2>2, <2>3, <2>4
<1>2. 0 \in N
  BY <1>1
<1>3. ASSUME NEW n \in Nat, n \in N PROVE n + 1 \in N
  <2>1. ASSUME NEW T \in SUBSET S, Cardinality(T) = n + 1 PROVE T \in G
    <3>1. ASSUME NEW x \in T PROVE T \ {x} \in G
      <4>1. T \ {x} \in SUBSET S /\ Cardinality(T \ {x}) = n
        BY <1>1, <2>1
      <4> QED BY <1>3, <4>1
    <3> QED BY <3>1
  <2> QED BY <2>1
<1> HIDE DEF N
<1>4. \A n \in Nat : n \in N
  BY <1>2, <1>3, AllNaturals
<1> QED BY <1>1, <1>4 DEF N

LEMMA PickIn == ASSUME NEW s, s # {} PROVE Pick(s) \in s
BY DEF Pick

LEMMA SumsExist ==
  ASSUME NEW S, IsFiniteSet(S), NEW v
  PROVE  \E f : IsSums(f, v, S)
<1> DEFINE D(n) == {s \in SUBSET S : Cardinality(s) <= n}
           Sums(f, n) == f = [s \in D(n) |-> IF s = {} THEN 0 ELSE v[Pick(s)] + f[s \ {Pick(s)}]]
           N == {n \in Nat : \E f : Sums(f, n)}
<1>1. ASSUME NEW T \in SUBSET S
      PROVE  /\ IsFiniteSet(T) /\ Cardinality(T) \in Nat /\ (Cardinality(T) = 0 <=> T = {})
             /\ T # {} => Cardinality(T \ {Pick(T)}) = Cardinality(T) - 1
  <2>1. IsFiniteSet(T)
    BY FS_Subset
  <2>2. Cardinality(T) \in Nat
    BY <2>1, FS_CardinalityType
  <2>3. Cardinality(T) = 0 <=> T = {}
    BY <2>1, FS_EmptySet
  <2>4. T # {} => Cardinality(T \ {Pick(T)}) = Cardinality(T) - 1
    BY <2>1, PickIn, FS_RemoveElement
  <2> QED BY <2>1, <2>2, <2>3, <2>4
<1>2. 0 \in N
  <2> DEFINE f == [s \in D(0) |-> 0]
  <2>1. ASSUME NEW s \in D(0) PROVE s = {}
    <3>1. s \in SUBSET S /\ Cardinality(s) <= 0
      OBVIOUS
    <3>2. Cardinality(s) \in Nat /\ (Cardinality(s) = 0 <=> s = {})
      BY <1>1, <3>1
    <3> QED BY <3>1, <3>2
  <2> HIDE DEF D
  <2>2. Sums(f, 0)
    BY <2>1
  <2> QED BY <2>2
<1>3. ASSUME NEW n \in Nat, n \in N PROVE n + 1 \in N
  <2>1. PICK f : Sums(f, n)
    BY <1>3
  <2> DEFINE g == [s \in D(n + 1) |-> IF s = {} THEN 0 ELSE v[Pick(s)] + f[s \ {Pick(s)}]]
  <2>2. ASSUME NEW s \in D(n) PROVE s \in D(n + 1)
    <3>1. s \in SUBSET S /\ Cardinality(s) <= n
      OBVIOUS
    <3>2. Cardinality(s) \in Nat
      BY <1>1, <3>1
    <3>3. Cardinality(s) <= n + 1
      BY <3>1, <3>2
    <3> QED BY <3>1, <3>3
  <2>3. \A s \in D(n + 1) : s # {} => s \ {Pick(s)} \in D(n)
    BY <1>1
  <2> HIDE DEF D
  <2>4. \A s \in D(n) : f[s] = IF s = {} THEN 0 ELSE v[Pick(s)] + f[s \ {Pick(s)}]
    BY <2>1
  <2>5. \A s \in D(n) : g[s] = f[s]
    BY <2>2, <2>4
  <2>6. g = [s \in D(n + 1) |-> IF s = {} THEN 0 ELSE v[Pick(s)] + g[s \ {Pick(s)}]]
    <3>1. \A s \in D(n + 1) : s # {} => g[s \ {Pick(s)}] = f[s \ {Pick(s)}]
      BY <2>3, <2>5
    <3> DEFINE h == [s \in D(n + 1) |-> IF s = {} THEN 0 ELSE v[Pick(s)] + g[s \ {Pick(s)}]]
    <3>2. ASSUME NEW s \in D(n + 1) PROVE g[s] = h[s]
      <4>1. g[s] = IF s = {} THEN 0 ELSE v[Pick(s)] + f[s \ {Pick(s)}]
        OBVIOUS
      <4>2. h[s] = IF s = {} THEN 0 ELSE v[Pick(s)] + g[s \ {Pick(s)}]
        OBVIOUS
      <4> HIDE DEF g, h
      <4> QED BY <3>1, <4>1, <4>2
    <3> QED BY <3>2
  <2>7. Sums(g, n + 1)
    BY <2>6
  <2> HIDE DEF Sums, g
  <2>8. n + 1 \in Nat /\ \E h : Sums(h, n + 1)
    BY <2>7
  <2> QED BY <2>8
<1> HIDE DEF N
<1>4. \A n \in Nat : n \in N
  BY <1>2, <1>3, AllNaturals
<1>5. Cardinality(S) \in Nat /\ D(Cardinality(S)) = SUBSET S
  <2>1. Cardinality(S) \in Nat
    BY FS_CardinalityType
  <2>2. \A T \in SUBSET S : Cardinality(T) <= Cardinality(S)
    BY FS_Subset
  <2> QED BY <2>1, <2>2
<1>6. \E f : Sums(f, Cardinality(S))
  BY <1>4, <1>5 DEF N
<1> QED BY <1>5, <1>6 DEF IsSums

LEMMA SumValues ==
  ASSUME NEW S, NEW v, NEW f, IsSums(f, v, S), NEW s \in SUBSET S
  PROVE  /\ s = {} => f[s] = 0
         /\ s # {} => f[s] = v[Pick(s)] + f[s \ {Pick(s)}] /\ Pick(s) \in s
<1>1. f[s] = IF s = {} THEN 0 ELSE v[Pick(s)] + f[s \ {Pick(s)}]
  BY DEF IsSums
<1> QED BY <1>1, PickIn

LEMMA SumsInt ==
  ASSUME NEW S, IsFiniteSet(S), NEW v, NEW f, IsSums(f, v, S), \A x \in S : v[x] \in Int
  PROVE  \A s \in SUBSET S : f[s] \in Int
<1> DEFINE G == {s \in SUBSET S : f[s] \in Int}
<1>1. ASSUME NEW T \in SUBSET S, \A x \in T : T \ {x} \in G PROVE T \in G
  <2>1. /\ T = {} => f[T] = 0
        /\ T # {} => f[T] = v[Pick(T)] + f[T \ {Pick(T)}] /\ Pick(T) \in T
    BY SumValues
  <2>2. ASSUME T # {} PROVE f[T] \in Int
    <3>1. v[Pick(T)] \in Int /\ f[T \ {Pick(T)}] \in Int
      BY <1>1, <2>1, <2>2
    <3> QED BY <2>1, <2>2, <3>1
  <2> QED BY <2>1, <2>2
<1> HIDE DEF G
<1>2. \A T \in SUBSET S : T \in G
  BY <1>1, LayerInduction
<1> QED BY <1>2 DEF G

LEMMA SumsAny ==
  ASSUME NEW S, IsFiniteSet(S), NEW v, NEW f, IsSums(f, v, S), \A x \in S : v[x] \in Int
  PROVE  \A s \in SUBSET S : \A y \in s : f[s] = v[y] + f[s \ {y}]
<1> DEFINE G == {s \in SUBSET S : \A y \in s : f[s] = v[y] + f[s \ {y}]}
<1>1. ASSUME NEW T \in SUBSET S, \A x \in T : T \ {x} \in G PROVE T \in G
  <2> SUFFICES ASSUME NEW y \in T PROVE f[T] = v[y] + f[T \ {y}]
    OBVIOUS
  <2> DEFINE x == Pick(T)
  <2>1. f[T] = v[x] + f[T \ {x}] /\ x \in T
    BY SumValues
  <2> HIDE DEF x
  <2>2. CASE x = y
    BY <2>1, <2>2
  <2>3. CASE x # y
    <3>1. f[T \ {x}] = v[y] + f[(T \ {x}) \ {y}]
      BY <1>1, <2>1, <2>3
    <3>2. f[T \ {y}] = v[x] + f[(T \ {y}) \ {x}]
      BY <1>1, <2>1, <2>3
    <3>3. (T \ {x}) \ {y} = (T \ {y}) \ {x}
      OBVIOUS
    <3>4. f[(T \ {x}) \ {y}] \in Int /\ v[x] \in Int /\ v[y] \in Int
      <4>1. (T \ {x}) \ {y} \in SUBSET S
        OBVIOUS
      <4> QED BY <2>1, <4>1, SumsInt
    <3>5. f[T \ {y}] = v[x] + f[(T \ {x}) \ {y}]
      BY <3>2, <3>3
    <3> DEFINE z == f[(T \ {x}) \ {y}]
    <3>6. f[T] = v[x] + (v[y] + z) /\ f[T \ {y}] = v[x] + z
      BY <2>1, <3>1, <3>5
    <3>7. z \in Int /\ v[x] + (v[y] + z) = v[y] + (v[x] + z)
      BY <3>4
    <3> HIDE DEF z
    <3> QED BY <3>6, <3>7
  <2> QED BY <2>2, <2>3
<1> HIDE DEF G
<1>2. \A T \in SUBSET S : T \in G
  BY <1>1, LayerInduction
<1> QED BY <1>2 DEF G

LEMMA SumsSame ==
  ASSUME NEW S, NEW R, NEW v, NEW w, NEW f, NEW h, IsSums(f, v, S), IsSums(h, w, R),
         NEW T \in SUBSET (S \cap R), IsFiniteSet(T), \A x \in T : v[x] = w[x]
  PROVE  f[T] = h[T]
<1> DEFINE G == {s \in SUBSET T : f[s] = h[s]}
<1>1. ASSUME NEW s \in SUBSET T, \A x \in s : s \ {x} \in G PROVE s \in G
  <2>0. s \in SUBSET S /\ s \in SUBSET R
    OBVIOUS
  <2>1. /\ s = {} => f[s] = 0
        /\ s # {} => f[s] = v[Pick(s)] + f[s \ {Pick(s)}] /\ Pick(s) \in s
    BY <2>0, SumValues
  <2>2. /\ s = {} => h[s] = 0
        /\ s # {} => h[s] = w[Pick(s)] + h[s \ {Pick(s)}] /\ Pick(s) \in s
    BY <2>0, SumValues
  <2> QED BY <1>1, <2>1, <2>2
<1> HIDE DEF G
<1>2. \A s \in SUBSET T : s \in G
  BY <1>1, LayerInduction
<1> QED BY <1>2 DEF G

LEMMA TotalSums ==
  ASSUME NEW S, IsFiniteSet(S), NEW v
  PROVE  \E f : IsSums(f, v, S) /\ Total(v, S) = f[S]
<1> DEFINE f == CHOOSE f : IsSums(f, v, S)
<1>1. IsSums(f, v, S)
  BY SumsExist
<1>2. Total(v, S) = f[S]
  BY DEF Total
<1> QED BY <1>1, <1>2

LEMMA TotalSame ==
  ASSUME NEW S, IsFiniteSet(S), NEW v, NEW w, \A x \in S : v[x] = w[x]
  PROVE  Total(v, S) = Total(w, S)
<1>1. PICK f : IsSums(f, v, S) /\ Total(v, S) = f[S]
  BY TotalSums
<1>2. PICK h : IsSums(h, w, S) /\ Total(w, S) = h[S]
  BY TotalSums
<1>3. f[S] = h[S]
  BY <1>1, <1>2, SumsSame
<1> QED BY <1>1, <1>2, <1>3

LEMMA TotalEmpty == ASSUME NEW v PROVE Total(v, {}) = 0
<1>1. IsFiniteSet({})
  BY FS_EmptySet
<1>2. PICK f : IsSums(f, v, {}) /\ Total(v, {}) = f[{}]
  BY <1>1, TotalSums
<1>3. {} \in SUBSET {}
  OBVIOUS
<1> QED BY <1>2, <1>3, SumValues

LEMMA TotalRemove ==
  ASSUME NEW S, IsFiniteSet(S), NEW v, \A x \in S : v[x] \in Int, NEW y \in S
  PROVE  Total(v, S) = v[y] + Total(v, S \ {y}) /\ Total(v, S) \in Int /\ Total(v, S \ {y}) \in Int
<1>1. IsFiniteSet(S \ {y})
  BY FS_Subset
<1>2. PICK f : IsSums(f, v, S) /\ Total(v, S) = f[S]
  BY TotalSums
<1>3. PICK h : IsSums(h, v, S \ {y}) /\ Total(v, S \ {y}) = h[S \ {y}]
  BY <1>1, TotalSums
<1>4. f[S \ {y}] = h[S \ {y}]
  BY <1>1, <1>2, <1>3, SumsSame
<1>5. f[S] = v[y] + f[S \ {y}]
  BY <1>2, SumsAny
<1>6. f[S] \in Int /\ f[S \ {y}] \in Int
  BY <1>2, SumsInt
<1> QED BY <1>2, <1>3, <1>4, <1>5, <1>6

LEMMA TotalInt ==
  ASSUME NEW S, IsFiniteSet(S), NEW v, \A x \in S : v[x] \in Int
  PROVE  Total(v, S) \in Int
<1>1. PICK f : IsSums(f, v, S) /\ Total(v, S) = f[S]
  BY TotalSums
<1> QED BY <1>1, SumsInt

LEMMA TotalAdd ==
  ASSUME NEW S, IsFiniteSet(S), NEW v, NEW y, y \notin S, \A x \in S \cup {y} : v[x] \in Int
  PROVE  Total(v, S \cup {y}) = v[y] + Total(v, S) /\ Total(v, S) \in Int
<1>1. IsFiniteSet(S \cup {y})
  BY FS_AddElement
<1>2. Total(v, S \cup {y}) = v[y] + Total(v, (S \cup {y}) \ {y}) /\ Total(v, (S \cup {y}) \ {y}) \in Int
  BY <1>1, TotalRemove
<1>3. (S \cup {y}) \ {y} = S
  OBVIOUS
<1> QED BY <1>2, <1>3

LEMMA TotalNat ==
  ASSUME NEW S, IsFiniteSet(S), NEW v, \A x \in S : v[x] \in Nat
  PROVE  Total(v, S) \in Nat
<1> DEFINE G == {T \in SUBSET S : Total(v, T) \in Nat}
<1>1. ASSUME NEW T \in SUBSET S, \A x \in T : T \ {x} \in G PROVE T \in G
  <2>1. CASE T = {}
    BY <2>1, TotalEmpty
  <2>2. CASE T # {}
    <3>1. PICK x \in T : TRUE
      BY <2>2
    <3>2. IsFiniteSet(T)
      BY FS_Subset
    <3>3. Total(v, T) = v[x] + Total(v, T \ {x})
      BY <3>1, <3>2, TotalRemove
    <3>4. Total(v, T \ {x}) \in Nat /\ v[x] \in Nat
      BY <1>1, <3>1
    <3> QED BY <3>3, <3>4
  <2> QED BY <2>1, <2>2
<1> HIDE DEF G
<1>2. \A T \in SUBSET S : T \in G
  BY <1>1, LayerInduction
<1> QED BY <1>2 DEF G

\* Terms that are within k of each other have sums that are within k each.
LEMMA TotalBounds ==
  ASSUME NEW S, IsFiniteSet(S), NEW v, NEW w, NEW k \in Nat,
         \A x \in S : v[x] \in Int /\ w[x] \in Int /\ v[x] <= w[x] /\ w[x] <= v[x] + k
  PROVE  Total(v, S) <= Total(w, S) /\ Total(w, S) <= Total(v, S) + Cardinality(S) * k
<1> DEFINE P(T) == Total(v, T) <= Total(w, T) /\ Total(w, T) <= Total(v, T) + Cardinality(T) * k
           G == {T \in SUBSET S : P(T)}
<1>1. ASSUME NEW T \in SUBSET S, \A x \in T : T \ {x} \in G PROVE T \in G
  <2>0. IsFiniteSet(T)
    BY FS_Subset
  <2>1. CASE T = {}
    <3>1. Total(v, T) = 0 /\ Total(w, T) = 0
      BY <2>1, TotalEmpty
    <3>2. Cardinality(T) = 0
      BY <2>1, FS_EmptySet
    <3> QED BY <3>1, <3>2
  <2>2. CASE T # {}
    <3>1. PICK x \in T : TRUE
      BY <2>2
    <3> DEFINE s == Total(v, T \ {x})
               t == Total(w, T \ {x})
               c == Cardinality(T \ {x})
               n == c * k
    <3>2. Total(v, T) = v[x] + s /\ s \in Int
      BY <2>0, <3>1, TotalRemove
    <3>3. Total(w, T) = w[x] + t /\ t \in Int
      BY <2>0, <3>1, TotalRemove
    <3>4. IsFiniteSet(T \ {x}) /\ Cardinality(T) \in Nat /\ c = Cardinality(T) - 1 /\ c \in Nat
      <4>1. IsFiniteSet(T \ {x}) /\ c = Cardinality(T) - 1
        BY <2>0, <3>1, FS_RemoveElement
      <4>2. Cardinality(T) \in Nat
        BY <2>0, FS_CardinalityType
      <4>3. c \in Nat
        BY <4>1, FS_CardinalityType
      <4> QED BY <4>1, <4>2, <4>3
    <3>5. s <= t /\ t <= s + n
      BY <1>1, <3>1
    <3>6. v[x] \in Int /\ w[x] \in Int /\ v[x] <= w[x] /\ w[x] <= v[x] + k
      BY <3>1
    <3> HIDE DEF s, t, c
    <3>7. n \in Int /\ Cardinality(T) * k = n + k
      <4>1. \A i \in Nat : i * k \in Int /\ (i + 1) * k = i * k + k
        OBVIOUS
      <4>2. Cardinality(T) = c + 1
        BY <3>4
      <4> QED BY <3>4, <4>1, <4>2
    <3> HIDE DEF n
    <3>8. P(T)
      BY <3>2, <3>3, <3>5, <3>6, <3>7
    <3> QED BY <3>8
  <2> QED BY <2>1, <2>2
<1> HIDE DEF G
<1>2. \A T \in SUBSET S : T \in G
  BY <1>1, LayerInduction
<1>3. S \in G
  BY <1>2
<1> QED BY <1>3 DEF G

LEMMA TotalUnion ==
  ASSUME NEW S, IsFiniteSet(S), NEW R, IsFiniteSet(R), S \cap R = {}, NEW v,
         \A x \in S \cup R : v[x] \in Int
  PROVE  Total(v, S \cup R) = Total(v, S) + Total(v, R)
<1> DEFINE G == {T \in SUBSET S : Total(v, T \cup R) = Total(v, T) + Total(v, R)}
<1>0. Total(v, R) \in Int
  BY TotalInt
<1>1. ASSUME NEW T \in SUBSET S, \A x \in T : T \ {x} \in G PROVE T \in G
  <2>1. CASE T = {}
    <3>1. T \cup R = R /\ Total(v, T) = 0
      BY <2>1, TotalEmpty
    <3>2. Total(v, T \cup R) = Total(v, R)
      BY <3>1
    <3>3. Total(v, T) + Total(v, R) = Total(v, R)
      BY <1>0, <3>1
    <3> QED BY <3>2, <3>3
  <2>2. CASE T # {}
    <3>1. PICK x \in T : TRUE
      BY <2>2
    <3>2. IsFiniteSet(T)
      BY FS_Subset
    <3>3. Total(v, T) = v[x] + Total(v, T \ {x}) /\ Total(v, T \ {x}) \in Int
      BY <3>1, <3>2, TotalRemove
    <3>4. IsFiniteSet(T \cup R)
      BY <3>2, FS_Union
    <3>5. Total(v, T \cup R) = v[x] + Total(v, (T \cup R) \ {x})
      BY <3>1, <3>4, TotalRemove
    <3>6. (T \cup R) \ {x} = (T \ {x}) \cup R
      BY <3>1
    <3>7. Total(v, (T \ {x}) \cup R) = Total(v, T \ {x}) + Total(v, R)
      BY <1>1, <3>1
    <3> DEFINE s == Total(v, T \ {x})
               r == Total(v, R)
    <3>8. Total(v, T \cup R) = v[x] + (s + r) /\ Total(v, T) = v[x] + s
      BY <3>3, <3>5, <3>6, <3>7
    <3>9. v[x] \in Int /\ s \in Int /\ r \in Int
      BY <1>0, <3>1, <3>3
    <3> HIDE DEF s
    <3>10. v[x] + (s + r) = (v[x] + s) + r
      BY <3>9
    <3> QED BY <3>8, <3>10
  <2> QED BY <2>1, <2>2
<1> HIDE DEF G
<1>2. \A T \in SUBSET S : T \in G
  BY <1>1, LayerInduction
<1>3. S \in G
  BY <1>2
<1> QED BY <1>3 DEF G

Shifted(S, k) == {x + k : x \in S}

LEMMA ShiftCount ==
  ASSUME NEW S, IsFiniteSet(S), S \subseteq Int, NEW k \in Int
  PROVE  IsFiniteSet(Shifted(S, k)) /\ Cardinality(Shifted(S, k)) = Cardinality(S)
<1> DEFINE D == Shifted(S, k)
           f == [x \in S |-> x + k]
<1>1. f \in Bijection(S, D)
  <2>1. \A x, y \in S : x + k = y + k => x = y
    OBVIOUS
  <2> QED BY <2>1 DEF Shifted, Bijection, Injection, Surjection, IsInjective
<1> HIDE DEF D
<1>2. IsFiniteSet(D) /\ Cardinality(D) = Cardinality(S)
  BY <1>1, FS_Bijection DEF ExistsBijection
<1> QED BY <1>2 DEF D

\* The sum over shifted indices.
LEMMA TotalShift ==
  ASSUME NEW S, IsFiniteSet(S), S \subseteq Int, NEW k \in Int, NEW v, NEW w,
         \A x \in S : w[x] \in Int /\ v[x + k] = w[x]
  PROVE  Total(v, Shifted(S, k)) = Total(w, S)
<1> DEFINE Im(T) == Shifted(T, k)
<1>1. ASSUME NEW T \in SUBSET S
      PROVE  IsFiniteSet(T) /\ IsFiniteSet(Im(T))
  <2>1. IsFiniteSet(T) /\ T \subseteq Int
    BY FS_Subset
  <2> QED BY <2>1, ShiftCount
<1> DEFINE G == {T \in SUBSET S : Total(v, Im(T)) = Total(w, T)}
<1>2. ASSUME NEW T \in SUBSET S, \A x \in T : T \ {x} \in G PROVE T \in G
  <2>1. CASE T = {}
    <3>1. Im(T) = {}
      BY <2>1 DEF Shifted
    <3>2. Total(v, Im(T)) = 0 /\ Total(w, T) = 0
      BY <2>1, <3>1, TotalEmpty
    <3> QED BY <3>2
  <2>2. CASE T # {}
    <3>1. PICK x \in T : TRUE
      BY <2>2
    <3>2. Total(w, T) = w[x] + Total(w, T \ {x})
      BY <1>1, <3>1, TotalRemove
    <3>3. x + k \in Im(T) /\ \A y \in Im(T) : v[y] \in Int
      BY <3>1 DEF Shifted
    <3>4. Im(T) \ {x + k} = Im(T \ {x})
      <4>1. \A y \in T : y + k = x + k => y = x
        BY <3>1
      <4> QED BY <4>1 DEF Shifted
    <3> HIDE DEF Im
    <3>5. IsFiniteSet(Im(T))
      BY <1>1
    <3>6. Total(v, Im(T)) = v[x + k] + Total(v, Im(T) \ {x + k})
      BY <3>3, <3>5, TotalRemove
    <3>7. Total(v, Im(T \ {x})) = Total(w, T \ {x})
      BY <1>2, <3>1
    <3>8. v[x + k] = w[x]
      BY <3>1
    <3> QED BY <3>2, <3>4, <3>6, <3>7, <3>8
  <2> QED BY <2>1, <2>2
<1> HIDE DEF G
<1>3. \A T \in SUBSET S : T \in G
  BY <1>2, LayerInduction
<1>4. S \in G
  BY <1>3
<1> QED BY <1>4 DEF G

-----------------------------------------------------------------------------
(* What the mem command reports.                                           *)

\* The sums of MapThenSumSet that the two managers need are Totals.
LEMMA FreeMemory ==
  ASSUME NEW g, NEW S, S = Group!Listed(g), IsFiniteSet(S),
         NEW w, \A c \in S : w[c] = g.hdr[c].size + GROUP_HEADER
  PROVE  Group!group_get_info(g).free_memory = Total(w, S)
<1> DEFINE op(c) == g.hdr[c].size + GROUP_HEADER
           A(f) == [s \in SUBSET S |-> IF s = {} THEN 0 ELSE op(Pick(s)) + f[s \ {Pick(s)}]]
           z == CHOOSE f : f = A(f)
<1>1. Group!group_get_info(g).free_memory = z[S]
  BY DEF Group!group_get_info, Group!MapThenSumSet, Group!MapThenFoldSet, Pick
<1>2. \A f : IsSums(f, w, S) <=> f = A(f)
  <2>1. ASSUME NEW f
        PROVE  A(f) = [s \in SUBSET S |-> IF s = {} THEN 0 ELSE w[Pick(s)] + f[s \ {Pick(s)}]]
    <3>1. \A s \in SUBSET S : s # {} => w[Pick(s)] = op(Pick(s))
      BY PickIn
    <3> QED BY <3>1
  <2> QED BY <2>1 DEF IsSums
<1>3. PICK f : IsSums(f, w, S) /\ Total(w, S) = f[S]
  BY TotalSums
<1> HIDE DEF A
<1>4. z = A(z)
  BY <1>2, <1>3
<1> HIDE DEF z
<1>5. IsSums(z, w, S)
  BY <1>2, <1>4
<1>6. S \in SUBSET (S \cap S) /\ \A x \in S : w[x] = w[x]
  OBVIOUS
<1>7. z[S] = f[S]
  BY <1>3, <1>5, <1>6, SumsSame
<1> QED BY <1>1, <1>3, <1>7

\* The bytes that the callers need, with a header each.
Needs(hd) == [p \in DOMAIN hd |-> GROUP_HEADER + Group!ALIGN_UP(hd[p])]

LEMMA NeedSum ==
  ASSUME IsFiniteSet(DOMAIN held)
  PROVE  Group!MapThenSumSet(LAMBDA p : GROUP_HEADER + Group!ALIGN_UP(held[p]), DOMAIN held)
         = Total(Needs(held), DOMAIN held)
<1> DEFINE S == DOMAIN held
           w == Needs(held)
           op(p) == GROUP_HEADER + Group!ALIGN_UP(held[p])
           A(f) == [s \in SUBSET S |-> IF s = {} THEN 0 ELSE op(Pick(s)) + f[s \ {Pick(s)}]]
           z == CHOOSE f : f = A(f)
<1>1. Group!MapThenSumSet(LAMBDA p : GROUP_HEADER + Group!ALIGN_UP(held[p]), DOMAIN held) = z[S]
  BY DEF Group!MapThenSumSet, Group!MapThenFoldSet, Pick
<1>2. \A f : IsSums(f, w, S) <=> f = A(f)
  <2>1. ASSUME NEW f
        PROVE  A(f) = [s \in SUBSET S |-> IF s = {} THEN 0 ELSE w[Pick(s)] + f[s \ {Pick(s)}]]
    <3>1. \A s \in SUBSET S : s # {} => w[Pick(s)] = op(Pick(s))
      BY PickIn DEF Needs
    <3> QED BY <3>1
  <2> QED BY <2>1 DEF IsSums
<1> HIDE DEF S, w
<1>3. PICK f : IsSums(f, w, S) /\ Total(w, S) = f[S]
  BY TotalSums DEF S
<1> HIDE DEF A
<1>4. z = A(z)
  BY <1>2, <1>3
<1> HIDE DEF z
<1>5. IsSums(z, w, S)
  BY <1>2, <1>4
<1>6. S \in SUBSET (S \cap S) /\ \A x \in S : w[x] = w[x]
  OBVIOUS
<1>7. z[S] = f[S]
  BY <1>3, <1>5, <1>6, SumsSame DEF S
<1> QED BY <1>1, <1>3, <1>7 DEF S, w

LEMMA HeldSum ==
  /\ Group!MapThenSumSet(LAMBDA p : held[p], DOMAIN held) = Total(held, DOMAIN held)
  /\ Buddy!MapThenSumSet(LAMBDA p : held[p], DOMAIN held) = Total(held, DOMAIN held)
BY DEF Group!MapThenSumSet, Group!MapThenFoldSet, Buddy!MapThenSumSet, Buddy!MapThenFoldSet,
       Total, IsSums, Pick

\* The blocks below an address.
Below(g, x) == {c \in BlocksOf(g) : c < x}

LEMMA BlocksFinite ==
  ASSUME NEW g
  PROVE  IsFiniteSet(BlocksOf(g)) /\ IsFiniteSet(FreeBlocks(g)) /\ IsFiniteSet(UsedBlocks(g))
<1>1. IsFiniteSet(Group!Addrs)
  BY Constants, FS_Interval DEF Group!Addrs
<1>2. BlocksOf(g) \in SUBSET Group!Addrs /\ FreeBlocks(g) \in SUBSET Group!Addrs
      /\ UsedBlocks(g) \in SUBSET Group!Addrs
  BY DEF UsedBlocks, FreeBlocks, BlocksOf
<1>3. IsFiniteSet(BlocksOf(g))
  BY <1>1, <1>2, FS_Subset
<1>4. IsFiniteSet(FreeBlocks(g))
  BY <1>1, <1>2, FS_Subset
<1>5. IsFiniteSet(UsedBlocks(g))
  BY <1>1, <1>2, FS_Subset
<1> QED BY <1>3, <1>4, <1>5

LEMMA BlockFields ==
  ASSUME NEW g, Sound(g), NEW c \in BlocksOf(g)
  PROVE  /\ c \in Nat /\ c < TOTAL /\ g.hdr[c].size \in Nat /\ g.hdr[c].size > 0
         /\ EndOf(g, c) \in Nat /\ EndOf(g, c) = c + (g.hdr[c].size + GROUP_HEADER)
         /\ c < EndOf(g, c) /\ EndOf(g, c) <= TOTAL
<1>1. c \in Group!Addrs /\ c \in Nat /\ c < TOTAL /\ g.hdr[c].size > 0
  BY AddrsAreNat DEF BlocksOf
<1>2. g.hdr[c].size \in 0..TOTAL
  BY <1>1, TypedFields DEF Sound
<1>3. EndOf(g, c) <= TOTAL
  BY DEF Sound, Tiles
<1> QED BY <1>1, <1>2, <1>3, Constants DEF EndOf

\* Up to the end of a block there are as many bytes as its address says.
LEMMA SumBelow ==
  ASSUME NEW g, Sound(g), NEW v, \A c \in BlocksOf(g) : v[c] = g.hdr[c].size + GROUP_HEADER
  PROVE  \A c \in BlocksOf(g) : Total(v, Below(g, EndOf(g, c))) = EndOf(g, c)
<1> DEFINE P(c) == Total(v, Below(g, c)) = c
<1>1. ASSUME NEW c \in BlocksOf(g), P(c)
      PROVE  Total(v, Below(g, EndOf(g, c))) = EndOf(g, c)
  <2>1. /\ c \in Nat /\ EndOf(g, c) \in Nat /\ c < EndOf(g, c)
        /\ EndOf(g, c) = c + (g.hdr[c].size + GROUP_HEADER)
    BY BlockFields
  <2>2. \A d \in BlocksOf(g) : d \in Nat /\ ~(c < d /\ d < EndOf(g, c))
    BY BlockFields DEF Sound, Tiles
  <2>3. Below(g, EndOf(g, c)) = Below(g, c) \cup {c} /\ c \notin Below(g, c)
    <3> DEFINE e == EndOf(g, c)
    <3> HIDE DEF e
    <3>1. c \in Nat /\ e \in Nat /\ c < e /\ \A d \in BlocksOf(g) : d \in Nat /\ ~(c < d /\ d < e)
      BY <2>1, <2>2 DEF e
    <3>2. ASSUME NEW d \in BlocksOf(g) PROVE d < e <=> (d < c \/ d = c)
      BY <3>1
    <3>3. ~(c < c)
      BY <3>1
    <3>4. {d \in BlocksOf(g) : d < e} = {d \in BlocksOf(g) : d < c} \cup {c}
      BY <3>2
    <3> QED BY <3>3, <3>4 DEF Below, e
  <2>4. Below(g, c) \in SUBSET BlocksOf(g)
    BY DEF Below
  <2>5. IsFiniteSet(Below(g, c))
    BY <2>4, BlocksFinite, FS_Subset
  <2>6. \A d \in Below(g, c) \cup {c} : v[d] \in Int
    <3>1. ASSUME NEW d \in BlocksOf(g) PROVE v[d] \in Int
      BY BlockFields, Constants
    <3> QED BY <2>4, <3>1
  <2>7. Total(v, Below(g, c) \cup {c}) = v[c] + Total(v, Below(g, c))
    BY <2>3, <2>5, <2>6, TotalAdd
  <2>8. v[c] = g.hdr[c].size + GROUP_HEADER /\ Total(v, Below(g, c)) = c /\ g.hdr[c].size \in Nat
    BY <1>1, BlockFields
  <2>9. Total(v, Below(g, EndOf(g, c))) = (g.hdr[c].size + GROUP_HEADER) + c
    BY <2>3, <2>7, <2>8
  <2>10. (g.hdr[c].size + GROUP_HEADER) + c = c + (g.hdr[c].size + GROUP_HEADER)
    BY <2>1, <2>8, Constants
  <2> QED BY <2>1, <2>9, <2>10
<1>2. \A n \in Nat : n \in {k \in Nat : \A c \in BlocksOf(g) : c <= k => P(c)}
  <2> DEFINE N == {k \in Nat : \A c \in BlocksOf(g) : c <= k => P(c)}
  <2>1. 0 \in N
    <3> SUFFICES ASSUME NEW c \in BlocksOf(g), c <= 0 PROVE P(c)
      OBVIOUS
    <3>1. c = 0 /\ \A d \in BlocksOf(g) : ~(d < 0)
      BY BlockFields
    <3>2. Below(g, c) = {}
      BY <3>1 DEF Below
    <3> QED BY <3>1, <3>2, TotalEmpty
  <2>2. ASSUME NEW n \in Nat, n \in N PROVE n + 1 \in N
    <3> SUFFICES ASSUME NEW c \in BlocksOf(g), c <= n + 1 PROVE P(c)
      OBVIOUS
    <3>1. CASE c <= n
      BY <2>2, <3>1
    <3>2. CASE ~(c <= n)
      <4> DEFINE d == g.hdr[c].prev
      <4>1. c \in Nat /\ c # 0 /\ c = n + 1
        BY <3>2, BlockFields
      <4>2. d \in BlocksOf(g) /\ g.hdr[d].next = c
        BY DEF Sound, RingBack
      <4>3. EndOf(g, d) = c
        BY <4>1, <4>2 DEF Sound, Tiles
      <4> HIDE DEF d
      <4>4. d \in Nat /\ d < c
        BY <4>2, <4>3, BlockFields
      <4>5. P(d)
        BY <2>2, <4>1, <4>2, <4>4
      <4> HIDE DEF P
      <4>6. Total(v, Below(g, EndOf(g, d))) = EndOf(g, d)
        BY <1>1, <4>2, <4>5
      <4> QED BY <4>3, <4>6 DEF P
    <3> QED BY <3>1, <3>2
  <2> HIDE DEF N
  <2>3. \A n \in Nat : n \in N => n + 1 \in N
    BY <2>2
  <2>4. \A n \in Nat : n \in N
    BY <2>1, <2>3, AllNaturals
  <2> QED BY <2>4 DEF N
<1>3. ASSUME NEW c \in BlocksOf(g) PROVE P(c)
  <2>1. c \in Nat /\ c <= c
    BY BlockFields
  <2> QED BY <1>2, <2>1
<1> QED BY <1>1, <1>3

\* The blocks are the whole heap.
LEMMA SumOfBlocks ==
  ASSUME NEW g, Sound(g), NEW v, \A c \in BlocksOf(g) : v[c] = g.hdr[c].size + GROUP_HEADER
  PROVE  Total(v, BlocksOf(g)) = TOTAL
<1> DEFINE d == g.hdr[0].prev
<1>1. 0 \in BlocksOf(g)
  BY DEF Sound, Tiles
<1>2. d \in BlocksOf(g) /\ g.hdr[d].next = 0
  BY <1>1 DEF Sound, RingBack
<1> HIDE DEF d
<1>3. EndOf(g, d) = TOTAL
  <2>1. d \in Nat /\ EndOf(g, d) \in Nat /\ d < EndOf(g, d)
    BY <1>2, BlockFields
  <2>2. EndOf(g, d) # 0
    BY <2>1
  <2> QED BY <1>2, <2>2 DEF Sound, Tiles
<1>4. Below(g, TOTAL) = BlocksOf(g)
  BY BlockFields DEF Below
<1>5. Total(v, Below(g, EndOf(g, d))) = EndOf(g, d)
  BY <1>2, SumBelow
<1> QED BY <1>3, <1>4, <1>5

LEMMA AlignBelow ==
  ASSUME NEW x \in Nat, NEW y \in Nat, Multiple(y), x <= y
  PROVE  Group!ALIGN_UP(x) <= y
<1>1. PICK q \in Nat : y = q * ALIGNMENT
  BY DEF Multiple
<1> DEFINE n == x + ALIGNMENT - 1
           d == n \div ALIGNMENT
<1>2. ALIGNMENT \in Nat /\ ALIGNMENT > 0 /\ n \in Nat
  BY Constants
<1>3. d \in Nat /\ d * ALIGNMENT <= n
  <2> HIDE DEF n
  <2> QED BY <1>2, DivFacts
<1> HIDE DEF d
<1>4. d * ALIGNMENT < (q + 1) * ALIGNMENT
  <2>1. (q + 1) * ALIGNMENT = y + ALIGNMENT /\ d * ALIGNMENT \in Nat
    BY <1>1, <1>2, <1>3
  <2> QED BY <1>2, <1>3, <2>1
<1>5. d <= q
  <2>1. ASSUME d >= q + 1 PROVE FALSE
    <3>1. d - (q + 1) \in Nat
      BY <1>3, <2>1
    <3>2. d * ALIGNMENT = (d - (q + 1)) * ALIGNMENT + (q + 1) * ALIGNMENT
      BY <1>2, <1>3
    <3>3. (d - (q + 1)) * ALIGNMENT \in Nat /\ (q + 1) * ALIGNMENT \in Nat
      BY <1>2, <3>1
    <3> QED BY <1>4, <3>2, <3>3
  <2> QED BY <1>3, <2>1
<1>6. q * ALIGNMENT = d * ALIGNMENT + (q - d) * ALIGNMENT /\ (q - d) * ALIGNMENT \in Nat
      /\ d * ALIGNMENT \in Nat
  <2>1. q - d \in Nat
    BY <1>3, <1>5
  <2> QED BY <1>2, <1>3, <2>1
<1>7. Group!ALIGN_UP(x) = d * ALIGNMENT
  BY DEF Group!ALIGN_UP, d, n
<1> QED BY <1>1, <1>6, <1>7

\* The counters of the group manager, and the waste in each block in use.
GroupCounted(g, hd) ==
  /\ g.outstanding = Total(hd, DOMAIN hd)
  /\ \A c \in UsedBlocks(g) :
        g.hdr[c].size <= Group!ALIGN_UP(hd[c + GROUP_HEADER]) + GROUP_HEADER + GROUP_MIN_BLOCK

\* What a block in use is worth.
LEMMA UsedFields ==
  ASSUME NEW g, NEW hd, GroupSafe(g, hd), NEW c \in UsedBlocks(g)
  PROVE  /\ c \in Nat /\ g.hdr[c].size \in Nat /\ Multiple(g.hdr[c].size)
         /\ hd[c + GROUP_HEADER] \in Nat /\ hd[c + GROUP_HEADER] > 0
         /\ hd[c + GROUP_HEADER] <= g.hdr[c].size
         /\ g.hdr[c].user_size = hd[c + GROUP_HEADER]
         /\ c + GROUP_HEADER \in DOMAIN hd /\ c + GROUP_HEADER < TOTAL
<1>1. c \in BlocksOf(g) /\ Sound(g) /\ HeldExact(g, hd)
  BY UsedIsNat DEF GroupSafe
<1>2. c \in Nat /\ g.hdr[c].size \in Nat /\ c + GROUP_HEADER < TOTAL
  <2>1. /\ c \in Nat /\ g.hdr[c].size \in Nat /\ g.hdr[c].size > 0
        /\ EndOf(g, c) \in Nat /\ EndOf(g, c) = c + (g.hdr[c].size + GROUP_HEADER)
        /\ EndOf(g, c) <= TOTAL
    BY <1>1, BlockFields
  <2> QED BY <2>1, Constants
<1>3. Multiple(g.hdr[c].size)
  BY <1>1 DEF Sound, Aligned
<1>4. hd[c + GROUP_HEADER] \in Nat
  BY <1>1, UsedApart
<1> QED BY <1>1, <1>2, <1>3, <1>4 DEF HeldExact

\* The space that the blocks in use take, between what the callers need and that
\* and the waste.
LEMMA UsedSpace ==
  ASSUME NEW g, NEW hd, GroupSafe(g, hd), GroupCounted(g, hd),
         NEW w, \A c \in BlocksOf(g) : w[c] = g.hdr[c].size + GROUP_HEADER
  PROVE  LET need == Total(Needs(hd), DOMAIN hd)
             used == Total(w, UsedBlocks(g))
         IN  /\ need \in Int /\ used \in Int /\ need <= used
             /\ used <= need + Cardinality(DOMAIN hd) * (GROUP_HEADER + GROUP_MIN_BLOCK)
             /\ Cardinality(DOMAIN hd) = Cardinality(UsedBlocks(g))
<1> DEFINE U == UsedBlocks(g)
           k == GROUP_HEADER + GROUP_MIN_BLOCK
           v == Needs(hd)
           u == [c \in U |-> GROUP_HEADER + Group!ALIGN_UP(hd[c + GROUP_HEADER])]
           D == Shifted(U, GROUP_HEADER)
<1>1. IsFiniteSet(U) /\ U \subseteq Int /\ GROUP_HEADER \in Int /\ k \in Nat
  BY BlocksFinite, UsedFields, Constants
<1>2. DOMAIN hd = D
  BY DEF GroupSafe, HeldExact, Shifted
<1>3. ASSUME NEW c \in U
      PROVE  /\ u[c] \in Int /\ v[c + GROUP_HEADER] = u[c]
             /\ w[c] \in Int /\ u[c] <= w[c] /\ w[c] <= u[c] + k
  <2> DEFINE h == hd[c + GROUP_HEADER]
             n == Group!ALIGN_UP(h)
             s == g.hdr[c].size
  <2>1. /\ s \in Nat /\ Multiple(s) /\ h \in Nat /\ h <= s /\ c + GROUP_HEADER \in DOMAIN hd
    BY UsedFields
  <2>2. u[c] = GROUP_HEADER + n /\ v[c + GROUP_HEADER] = GROUP_HEADER + n
    BY <2>1 DEF Needs
  <2>3. w[c] = s + GROUP_HEADER
    BY UsedIsNat
  <2>4. s <= n + GROUP_HEADER + GROUP_MIN_BLOCK
    BY DEF GroupCounted
  <2> HIDE DEF u, v, s, h
  <2>5. n \in Nat
    BY <2>1, AlignUp
  <2>6. n <= s
    BY <2>1, AlignBelow
  <2> HIDE DEF n
  <2> QED BY <2>1, <2>2, <2>3, <2>4, <2>5, <2>6, Constants
<1> HIDE DEF U, k, v, u
<1>4. Total(u, U) <= Total(w, U) /\ Total(w, U) <= Total(u, U) + Cardinality(U) * k
  BY <1>1, <1>3, TotalBounds
<1>5. Cardinality(D) = Cardinality(U) /\ Total(v, D) = Total(u, U)
  <2>1. \A c \in U : u[c] \in Int /\ v[c + GROUP_HEADER] = u[c]
    BY <1>3
  <2>2. Cardinality(Shifted(U, GROUP_HEADER)) = Cardinality(U)
    BY <1>1, ShiftCount
  <2>3. Total(v, Shifted(U, GROUP_HEADER)) = Total(u, U)
    BY <1>1, <2>1, TotalShift
  <2> QED BY <2>2, <2>3
<1>6. Total(u, U) \in Int /\ Total(w, U) \in Int
  <2>1. Total(u, U) \in Int
    BY <1>1, <1>3, TotalInt
  <2>2. Total(w, U) \in Int
    BY <1>1, <1>3, TotalInt
  <2> QED BY <2>1, <2>2
<1> HIDE DEF D
<1>7. Total(v, DOMAIN hd) = Total(u, U) /\ Cardinality(DOMAIN hd) = Cardinality(U)
  BY <1>2, <1>5
<1> QED BY <1>4, <1>6, <1>7 DEF U, k, v

LEMMA GroupInfo ==
  ASSUME GroupSafe(m, held), GroupCounted(m, held)
  PROVE  Group!InfoExact /\ Group!group_get_info(m).current_blocks = Cardinality(DOMAIN held)
<1> DEFINE info == Group!group_get_info(m)
           F == FreeBlocks(m)
           U == UsedBlocks(m)
           B == BlocksOf(m)
           w == [c \in B |-> m.hdr[c].size + GROUP_HEADER]
           need == Total(Needs(held), DOMAIN held)
           n == Cardinality(DOMAIN held)
           waste == GROUP_HEADER + GROUP_MIN_BLOCK
<1>1. /\ Sound(m) /\ m.current_blocks = n /\ IsFiniteSet(DOMAIN held)
      /\ m.outstanding = Total(held, DOMAIN held)
  BY DEF GroupSafe, CountExact, GroupCounted
<1>2. Group!Listed(m) = F /\ Len(m.free_list) = Cardinality(F)
  <2>1. Group!Listed(m) = Elements(m.free_list)
    BY DEF Group!Listed, Elements
  <2>2. Cardinality(Elements(m.free_list)) = Len(m.free_list)
    BY <1>1, TypedFields, DistinctCount DEF Sound, ListExact
  <2> QED BY <1>1, <2>1, <2>2 DEF Sound, ListExact
<1>3. IsFiniteSet(F) /\ IsFiniteSet(U) /\ IsFiniteSet(B) /\ F \cap U = {} /\ F \cup U = B
  BY BlocksFinite DEF UsedBlocks, FreeBlocks
<1>4. /\ info.current_blocks = n /\ info.block_count = Cardinality(F) + n
      /\ info.used_memory = TOTAL - info.free_memory
  BY <1>1, <1>2 DEF Group!group_get_info
<1>5. \A c \in B : w[c] = m.hdr[c].size + GROUP_HEADER /\ w[c] \in Int
  BY <1>1, BlockFields, Constants
<1> HIDE DEF w, F, U, B, info
<1>6. info.free_memory = Total(w, F)
  <2>1. \A c \in F : w[c] = m.hdr[c].size + GROUP_HEADER
    BY <1>3, <1>5
  <2> QED BY <1>2, <1>3, <2>1, FreeMemory DEF info
<1>7. Total(w, B) = Total(w, F) + Total(w, U) /\ Total(w, F) \in Int /\ Total(w, U) \in Int
  <2>1. \A c \in F \cup U : w[c] \in Int
    BY <1>3, <1>5
  <2>2. Total(w, F \cup U) = Total(w, F) + Total(w, U)
    BY <1>3, <2>1, TotalUnion
  <2>3. Total(w, F) \in Int
    BY <1>3, <2>1, TotalInt
  <2>4. Total(w, U) \in Int
    BY <1>3, <2>1, TotalInt
  <2> QED BY <1>3, <2>2, <2>3, <2>4
<1>8. Total(w, B) = TOTAL
  BY <1>1, <1>5, SumOfBlocks DEF B
<1>9. info.used_memory = Total(w, U)
  BY <1>4, <1>6, <1>7, <1>8, Constants
<1>10. /\ need \in Int /\ Total(w, U) \in Int /\ need <= Total(w, U)
       /\ Total(w, U) <= need + n * waste
       /\ n = Cardinality(U)
  BY <1>5, UsedSpace DEF U, B
<1>11. n \in Nat /\ waste \in Nat /\ n * waste \in Nat
  <2>1. n \in Nat /\ waste \in Nat
    BY <1>1, FS_CardinalityType, Constants
  <2> HIDE DEF n, waste
  <2> QED BY <2>1
<1>12. info.block_count = Cardinality(B)
  <2>1. Cardinality(F \cup U) = Cardinality(F) + Cardinality(U) - Cardinality(F \cap U)
    BY <1>3, FS_Union
  <2>2. Cardinality(F \cap U) = 0
    BY <1>3, FS_EmptySet
  <2>3. Cardinality(F) \in Nat /\ Cardinality(U) \in Nat
    BY <1>3, FS_CardinalityType
  <2>4. info.block_count = Cardinality(F) + Cardinality(U)
    BY <1>4, <1>10
  <2>5. Cardinality(B) = Cardinality(F) + Cardinality(U)
    <3>1. F \cup U = B
      BY <1>3
    <3>2. Cardinality(F \cup U) = Cardinality(F) + Cardinality(U)
      BY <2>1, <2>2, <2>3
    <3> QED BY <3>1, <3>2, Zenon
  <2> QED BY <2>4, <2>5
<1> HIDE DEF need, n, waste
<1>13. info.used_memory \in need .. need + n * waste
  BY <1>9, <1>10, <1>11
<1>14. Group!Blocks = B /\ Group!Cardinality(DOMAIN held) = n /\ Group!Cardinality(B) = Cardinality(B)
  <2>1. Group!Blocks = B
    BY DEF Group!Blocks, BlocksOf, B
  <2>2. \A S : Group!Cardinality(S) = Cardinality(S)
    BY Zenon DEF Cardinality, Group!Cardinality
  <2> QED BY <2>1, <2>2 DEF n
<1>15. Group!MapThenSumSet(LAMBDA p : GROUP_HEADER + Group!ALIGN_UP(held[p]), DOMAIN held) = need
  BY <1>1, NeedSum DEF need
<1>16. m.outstanding = Group!MapThenSumSet(LAMBDA p : held[p], DOMAIN held)
  BY <1>1, HeldSum
<1>17. Group!InfoExact
  BY <1>4, <1>12, <1>13, <1>14, <1>15, <1>16 DEF Group!InfoExact, info, waste
<1> QED BY <1>4, <1>17 DEF info, n

-----------------------------------------------------------------------------
(* The counters of both managers follow what the callers hold.             *)

\* The sizes that the callers hold are naturals.
HeldSizes(hd) == IsFiniteSet(DOMAIN hd) /\ \A p \in DOMAIN hd : hd[p] \in Nat

LEMMA HeldTotal ==
  ASSUME NEW hd, HeldSizes(hd)
  PROVE  Total(hd, DOMAIN hd) \in Nat
BY TotalNat DEF HeldSizes

LEMMA TotalGiven ==
  ASSUME NEW hd, HeldSizes(hd), NEW p, p \notin DOMAIN hd, NEW n \in Nat,
         NEW he, he = [q \in DOMAIN hd \cup {p} |-> IF q = p THEN n ELSE hd[q]]
  PROVE  Total(he, DOMAIN he) = Total(hd, DOMAIN hd) + n
<1> DEFINE S == DOMAIN hd
<1>1. IsFiniteSet(S) /\ p \notin S /\ DOMAIN he = S \cup {p}
  BY DEF HeldSizes
<1>2. \A q \in S : he[q] = hd[q] /\ hd[q] \in Nat
  BY DEF HeldSizes
<1>3. he[p] = n
  OBVIOUS
<1>4. \A q \in S \cup {p} : he[q] \in Int
  BY <1>2, <1>3
<1>5. Total(hd, S) \in Nat
  BY HeldTotal
<1> HIDE DEF S
<1>6. Total(he, S \cup {p}) = he[p] + Total(he, S)
  BY <1>1, <1>4, TotalAdd
<1>7. Total(he, S) = Total(hd, S)
  BY <1>1, <1>2, TotalSame
<1>8. Total(he, DOMAIN he) = Total(hd, S) + n
  <2>1. Total(he, S \cup {p}) = Total(hd, S) + n
    BY <1>3, <1>5, <1>6, <1>7
  <2> QED BY <1>1, <2>1, Zenon
<1> QED BY <1>8 DEF S

LEMMA TotalFreed ==
  ASSUME NEW hd, HeldSizes(hd), NEW p \in DOMAIN hd,
         NEW he, he = [q \in DOMAIN hd \ {p} |-> hd[q]]
  PROVE  /\ Total(he, DOMAIN he) = Total(hd, DOMAIN hd) - hd[p]
         /\ Total(hd, DOMAIN hd) >= hd[p]
<1> DEFINE S == DOMAIN hd
           R == S \ {p}
<1>1. IsFiniteSet(S) /\ p \in S /\ DOMAIN he = R
  BY DEF HeldSizes
<1>2. \A q \in S : hd[q] \in Nat
  BY DEF HeldSizes
<1>3. \A q \in R : he[q] = hd[q]
  OBVIOUS
<1>4. IsFiniteSet(R)
  BY <1>1, FS_Subset
<1> HIDE DEF S
<1>5. \A q \in R : hd[q] \in Nat
  BY <1>2
<1>6. \A q \in S : hd[q] \in Int
  BY <1>2
<1>7. Total(hd, S) = hd[p] + Total(hd, R)
  BY <1>1, <1>6, TotalRemove
<1> HIDE DEF R
<1>8. Total(hd, R) \in Nat
  BY <1>4, <1>5, TotalNat
<1>9. Total(he, R) = Total(hd, R)
  BY <1>3, <1>4, TotalSame
<1>10. hd[p] \in Nat
  BY <1>1, <1>2
<1>11. Total(he, DOMAIN he) = Total(hd, S) - hd[p] /\ Total(hd, S) >= hd[p]
  <2>1. Total(he, R) = Total(hd, S) - hd[p] /\ Total(hd, S) >= hd[p]
    BY <1>7, <1>8, <1>9, <1>10
  <2> QED BY <1>1, <2>1, Zenon
<1> QED BY <1>11 DEF S

LEMMA GroupHeldSizes == ASSUME NEW g, NEW hd, GroupSafe(g, hd) PROVE HeldSizes(hd)
<1>1. DOMAIN hd = {c + GROUP_HEADER : c \in UsedBlocks(g)}
  BY DEF GroupSafe, HeldExact
<1>2. \A c \in UsedBlocks(g) : hd[c + GROUP_HEADER] \in Nat
  BY UsedFields
<1>3. IsFiniteSet(DOMAIN hd)
  BY DEF GroupSafe, CountExact
<1> QED BY <1>1, <1>2, <1>3 DEF HeldSizes

LEMMA BuddyHeldSizes == ASSUME NEW g, NEW hd, BuddySafe(g, hd) PROVE HeldSizes(hd)
<1>1. \A p \in DOMAIN hd : hd[p] \in Nat
  BY UsedBlock
<1>2. IsFiniteSet(DOMAIN hd)
  BY DEF BuddySafe, HeldCounted
<1> QED BY <1>1, <1>2 DEF HeldSizes

LEMMA GivenCounted ==
  ASSUME GroupSafe(m, held), GroupCounted(m, held), NEW size \in Nat,
         m' = Group!group_malloc(m, size), held' = Group!Given(size)
  PROVE  GroupCounted(m', held')
<1>1. CASE ~Group!CanMalloc(m, size)
  <2>1. m' = m
    BY <1>1 DEF Group!group_malloc
  <2>2. held' = held
    BY <1>1 DEF Group!Given
  <2> QED BY <2>1, <2>2
<1>2. CASE Group!CanMalloc(m, size)
  <2> DEFINE cur == Group!Chosen(m, size)
             p == cur + GROUP_HEADER
             slack == GROUP_HEADER + GROUP_MIN_BLOCK
  <2>1. IsGiven(m, m', cur, size)
    BY <1>2, MallocGives DEF GroupSafe
  <2>2. held' = [q \in DOMAIN held \cup {p} |-> IF q = p THEN size ELSE held[q]]
    BY <1>2 DEF Group!Given
  <2> HIDE DEF cur
  <2>3. /\ UsedBlocks(m') = UsedBlocks(m) \cup {cur} /\ cur \in FreeBlocks(m)
        /\ SameUse(m, m', UsedBlocks(m))
        /\ m'.hdr[cur].size <= Group!ALIGN_UP(size) + GROUP_HEADER + GROUP_MIN_BLOCK
        /\ m'.outstanding = m.outstanding + size
    BY <2>1 DEF IsGiven
  <2>4. cur \in Nat /\ cur \notin UsedBlocks(m) /\ \A c \in UsedBlocks(m) : c \in Nat
    BY <2>3, UsedIsNat, AddrsAreNat DEF UsedBlocks, FreeBlocks, BlocksOf
  <2>5. \A c \in UsedBlocks(m) : c + GROUP_HEADER # p
    BY <2>4, Constants
  <2>6. p \notin DOMAIN held
    BY <2>5 DEF GroupSafe, HeldExact
  <2>7. m'.outstanding = Total(held', DOMAIN held')
    <3>1. HeldSizes(held)
      BY GroupHeldSizes
    <3> HIDE DEF p
    <3>2. Total(held', DOMAIN held') = Total(held, DOMAIN held) + size
      BY <2>2, <2>6, <3>1, TotalGiven
    <3> QED BY <2>3, <3>2 DEF GroupCounted
  <2>8. ASSUME NEW c \in UsedBlocks(m')
        PROVE  m'.hdr[c].size <= Group!ALIGN_UP(held'[c + GROUP_HEADER]) + GROUP_HEADER + GROUP_MIN_BLOCK
    <3>1. CASE c = cur
      BY <2>2, <2>3, <3>1
    <3>2. CASE c # cur
      <4>1. c \in UsedBlocks(m)
        BY <2>3, <3>2
      <4>2. c + GROUP_HEADER \in DOMAIN held /\ c + GROUP_HEADER # p
        BY <2>5, <4>1, UsedFields
      <4>3. held'[c + GROUP_HEADER] = held[c + GROUP_HEADER]
        BY <2>2, <4>2
      <4>4. m'.hdr[c].size = m.hdr[c].size
        BY <2>3, <4>1 DEF SameUse
      <4> QED BY <4>1, <4>3, <4>4 DEF GroupCounted
    <3> QED BY <3>1, <3>2
  <2> QED BY <2>7, <2>8 DEF GroupCounted
<1> QED BY <1>1, <1>2

LEMMA FreedCounted ==
  ASSUME GroupSafe(m, held), GroupCounted(m, held), NEW p \in DOMAIN held, Group!Free(p)
  PROVE  GroupCounted(m', held')
<1>1. PICK c \in UsedBlocks(m) : p = c + GROUP_HEADER
  BY DEF GroupSafe, HeldExact
<1>2. c \in Nat /\ c \in BlocksOf(m) /\ \A d \in UsedBlocks(m) : d \in Nat
  BY UsedIsNat
<1>3. c # 0 /\ m' = Group!group_free(m, p) /\ held' = [q \in DOMAIN held \ {p} |-> held[q]]
  BY <1>1, Constants DEF Group!Free, Group!Freed
<1>4. 0 \notin FreeBlocks(m)
  BY <1>2, <1>3 DEF GroupSafe, FirstUsed
<1>5. m.hdr[c].user_size > 0 /\ m.hdr[c].user_size = held[p]
  BY <1>1 DEF GroupSafe, HeldExact
<1>6. IsGivenBack(m, m', c)
  BY <1>1, <1>3, <1>4, <1>5, FreeGivesBack DEF GroupSafe
<1>7. /\ UsedBlocks(m') = UsedBlocks(m) \ {c}
      /\ SameUse(m, m', UsedBlocks(m) \ {c})
      /\ m'.outstanding = m.outstanding - held[p]
  BY <1>5, <1>6 DEF IsGivenBack
<1>8. m'.outstanding = Total(held', DOMAIN held')
  <2>1. HeldSizes(held)
    BY GroupHeldSizes
  <2>2. Total(held', DOMAIN held') = Total(held, DOMAIN held) - held[p]
    BY <1>3, <2>1, TotalFreed
  <2> QED BY <1>7, <2>2 DEF GroupCounted
<1>9. ASSUME NEW d \in UsedBlocks(m')
      PROVE  m'.hdr[d].size <= Group!ALIGN_UP(held'[d + GROUP_HEADER]) + GROUP_HEADER + GROUP_MIN_BLOCK
  <2>1. d \in UsedBlocks(m) /\ d # c
    BY <1>7
  <2>2. d + GROUP_HEADER \in DOMAIN held /\ d + GROUP_HEADER # p
    <3>1. d + GROUP_HEADER \in DOMAIN held
      BY <2>1, UsedFields
    <3> QED BY <1>1, <1>2, <2>1, <3>1, Constants
  <2>3. held'[d + GROUP_HEADER] = held[d + GROUP_HEADER]
    BY <1>3, <2>2
  <2>4. m'.hdr[d].size = m.hdr[d].size
    BY <1>7, <2>1 DEF SameUse
  <2> QED BY <2>1, <2>3, <2>4 DEF GroupCounted
<1> QED BY <1>8, <1>9 DEF GroupCounted

BuddyCounted(g, hd) == g.total_allocated = Total(hd, DOMAIN hd)

LEMMA BuddyGivenCounted ==
  ASSUME BuddySafe(b, held), BuddyCounted(b, held), NEW size \in BuddySizes, Buddy!Malloc(size)
  PROVE  BuddyCounted(b', held')
<1>1. CASE ~Buddy!CanMalloc(b, size)
  <2>1. b' = b
    BY <1>1 DEF Buddy!Malloc, Buddy!buddy_malloc
  <2>2. held' = held
    BY <1>1 DEF Buddy!Malloc
  <2> QED BY <2>1, <2>2
<1>2. CASE Buddy!CanMalloc(b, size)
  <2> DEFINE a == Buddy!Chosen(b, size)
             p == a + BUDDY_HEADER
  <2>1. size \in Nat /\ b' = Buddy!buddy_malloc(b, size) /\ BuddySound(b, UsedBy(held))
    BY BuddyConstants DEF Buddy!Malloc, BuddySafe
  <2>2. held' = [q \in DOMAIN held \cup {p} |-> IF q = p THEN size ELSE held[q]]
    BY <1>2 DEF Buddy!Malloc
  <2>3. /\ BuddySound(b', UsedBy(held) \cup {a}) /\ a \notin UsedBy(held) /\ a \in Cells
        /\ b'.total_allocated = b.total_allocated + size
    BY <1>2, <2>1, MallocTakes
  <2> HIDE DEF a
  <2>4. p - BUDDY_HEADER = a
    BY <2>3, BuddyConstants DEF Cells
  <2> HIDE DEF p
  <2>5. p \notin DOMAIN held
    BY <2>3, <2>4 DEF UsedBy
  <2>6. HeldSizes(held)
    BY BuddyHeldSizes
  <2>7. Total(held', DOMAIN held') = Total(held, DOMAIN held) + size
    BY <2>1, <2>2, <2>5, <2>6, TotalGiven
  <2> QED BY <2>3, <2>7 DEF BuddyCounted
<1> QED BY <1>1, <1>2

\* The test before the subtraction in buddy_free always holds.
LEMMA BuddyFreedCounted ==
  ASSUME BuddySafe(b, held), BuddyCounted(b, held), NEW p \in DOMAIN held, Buddy!Free(p)
  PROVE  BuddyCounted(b', held')
<1> DEFINE a == p - BUDDY_HEADER
<1>1. a \in UsedBy(held) /\ p = a + BUDDY_HEADER /\ b.hdr[a].user_size = held[p]
  BY UsedBlock
<1>2. b' = Buddy!buddy_free(b, a + BUDDY_HEADER) /\ BuddySound(b, UsedBy(held))
  BY <1>1 DEF Buddy!Free, BuddySafe
<1>3. held' = [q \in DOMAIN held \ {p} |-> held[q]]
  BY DEF Buddy!Free
<1> HIDE DEF a
<1>4. b.total_allocated >= b.hdr[a].user_size =>
        b'.total_allocated = b.total_allocated - b.hdr[a].user_size
  BY <1>1, <1>2, FreeReleases
<1>5. HeldSizes(held)
  BY BuddyHeldSizes
<1>6. /\ Total(held', DOMAIN held') = Total(held, DOMAIN held) - held[p]
      /\ Total(held, DOMAIN held) >= held[p]
  BY <1>3, <1>5, TotalFreed
<1> QED BY <1>1, <1>4, <1>6 DEF BuddyCounted

Counted ==
  /\ UsesGroup => GroupCounted(m, held)
  /\ UsesBuddy => BuddyCounted(b, held)

LEMMA CountedInit == Init => Counted
BY DEF Init, Counted, UsesGroup, UsesBuddy

LEMMA CountedNext ==
  ASSUME MemoryInv, Counted, [Next]_vars
  PROVE  Counted'
<1>1. CASE UNCHANGED vars
  BY <1>1 DEF Counted, vars, UsesGroup, UsesBuddy
<1>2. CASE Next /\ UsesGroup
  <2>1. GroupStep /\ UsesGroup' /\ ~UsesBuddy'
    BY <1>2, GroupSteps DEF UsesGroup, UsesBuddy
  <2>2. GroupSafe(m, held) /\ GroupCounted(m, held)
    BY <1>2 DEF MemoryInv, Inv, Counted
  <2>3. GroupCounted(m', held')
    BY <2>1, <2>2, GivenCounted, FreedCounted DEF GroupStep
  <2> QED BY <2>1, <2>3 DEF Counted
<1>3. CASE Next /\ UsesBuddy
  <2>1. BuddyStep /\ UsesBuddy' /\ ~UsesGroup'
    BY <1>3, BuddySteps DEF UsesGroup, UsesBuddy
  <2>2. BuddySafe(b, held) /\ BuddyCounted(b, held)
    BY <1>3 DEF MemoryInv, Counted
  <2>3. BuddyCounted(b', held')
    BY <2>1, <2>2, BuddyGivenCounted, BuddyFreedCounted DEF BuddyStep
  <2> QED BY <2>1, <2>3 DEF Counted
<1>4. CASE Next /\ ~UsesGroup /\ ~UsesBuddy
  <2>1. PICK manager \in {"group", "buddy"} : init_memory_manager(manager)
    BY <1>4 DEF Next, Boot, mm_malloc, mm_free, Through, UsesGroup, UsesBuddy
  <2>2. /\ held' = [p \in {} |-> 0] /\ current_manager' = manager
        /\ manager = "group" => m' = Group!group_init
        /\ manager = "buddy" => b' = Buddy!buddy_init
    BY <2>1 DEF init_memory_manager, MemoryInv, Inv
  <2>3. DOMAIN held' = {} /\ Total(held', {}) = 0
    BY <2>2, TotalEmpty
  <2>4. ASSUME UsesGroup' PROVE GroupCounted(m', held')
    <3>1. m' = Group!group_init
      BY <2>2, <2>4 DEF UsesGroup
    <3>2. m'.outstanding = 0 /\ UsedBlocks(m') = {}
      BY <3>1, InitSound
    <3> QED BY <2>3, <3>2 DEF GroupCounted
  <2>5. ASSUME UsesBuddy' PROVE BuddyCounted(b', held')
    <3>1. b' = Buddy!buddy_init
      BY <2>2, <2>5 DEF UsesBuddy
    <3>2. b'.total_allocated = 0
      BY <3>1, BuddyInitSound
    <3> QED BY <2>3, <3>2 DEF BuddyCounted
  <2> QED BY <2>4, <2>5 DEF Counted
<1> QED BY <1>1, <1>2, <1>3, <1>4

LEMMA CountedImplies == ASSUME MemoryInv, Counted PROVE InfoExact
<1>1. ASSUME UsesGroup
      PROVE  Group!InfoExact /\ mm_get_info.current_blocks = Cardinality(DOMAIN held)
  <2>1. GroupSafe(m, held) /\ GroupCounted(m, held)
    BY <1>1 DEF MemoryInv, Inv, Counted
  <2>2. mm_get_info = Group!group_get_info(m)
    BY <1>1 DEF mm_get_info, UsesGroup
  <2> QED BY <2>1, <2>2, GroupInfo
<1>2. ASSUME UsesBuddy
      PROVE  Buddy!InfoExact /\ mm_get_info.current_blocks = Cardinality(DOMAIN held)
  <2>1. /\ b.current_blocks = Cardinality(DOMAIN held)
        /\ b.total_allocated = Total(held, DOMAIN held)
    BY <1>2 DEF MemoryInv, Counted, BuddySafe, HeldCounted, BuddyCounted
  <2>2. mm_get_info = Buddy!buddy_get_info(b)
    BY <1>2 DEF mm_get_info, UsesBuddy
  <2>3. Buddy!buddy_get_info(b).current_blocks = b.current_blocks
    BY DEF Buddy!buddy_get_info
  <2>4. Buddy!Cardinality(DOMAIN held) = Cardinality(DOMAIN held)
    BY Zenon DEF Cardinality, Buddy!Cardinality
  <2> QED BY <2>1, <2>2, <2>3, <2>4, HeldSum DEF Buddy!InfoExact
<1>3. current_manager # "NULL" => UsesGroup \/ UsesBuddy
  BY DEF MemoryInv, OneManager, UsesGroup, UsesBuddy
<1> QED BY <1>1, <1>2, <1>3 DEF InfoExact

LEMMA GroupTypes == ASSUME GroupSafe(m, held), GroupCounted(m, held) PROVE Group!TypeOK
<1>1. Typed(m) /\ HeldSizes(held)
  BY GroupHeldSizes DEF GroupSafe, Sound
<1>2. m.outstanding \in Nat
  BY <1>1, HeldTotal DEF GroupCounted
<1>3. m.current_blocks \in 0..MAX_BLOCKS
  <2>1. m.current_blocks = Cardinality(DOMAIN held) /\ m.current_blocks <= MAX_BLOCKS
    BY DEF GroupSafe, CountExact
  <2>2. Cardinality(DOMAIN held) \in Nat
    BY <1>1, FS_CardinalityType DEF HeldSizes
  <2> QED BY <2>1, <2>2, Constants
<1>4. ASSUME NEW p \in DOMAIN held PROVE p \in Group!Addrs /\ held[p] \in 1..TOTAL
  <2>1. PICK c \in UsedBlocks(m) : p = c + GROUP_HEADER
    BY DEF GroupSafe, HeldExact
  <2>2. c \in Nat /\ p < TOTAL /\ held[p] \in Nat /\ held[p] > 0
    BY <2>1, UsedFields
  <2>3. p \in Group!Addrs
    BY <2>1, <2>2, Constants, AddrsAreNat
  <2>4. m.hdr[c].user_size = held[p] /\ m.hdr[c].user_size \in 0..TOTAL
    <3>1. c \in Group!Addrs
      BY UsedIsNat
    <3> QED BY <1>1, <2>1, <3>1, TypedFields, UsedFields
  <2> QED BY <2>2, <2>3, <2>4, Constants
<1>5. m \in [hdr : [Group!Addrs -> Group!Header], free_list : Seq(Group!Addrs),
             current_blocks : 0..MAX_BLOCKS, outstanding : Nat]
  BY <1>1, <1>2, <1>3 DEF Typed
<1> QED BY <1>4, <1>5 DEF Group!TypeOK

LEMMA BuddyTypes == ASSUME BuddySafe(b, held) PROVE Buddy!TypeOK
<1>1. BuddyTyped(b) /\ BuddySound(b, UsedBy(held)) /\ HeldSizes(held)
  BY BuddyHeldSizes DEF BuddySafe, BuddySound
<1>2. b.current_blocks \in Nat
  BY <1>1, FS_CardinalityType DEF BuddySafe, HeldCounted, HeldSizes
<1>3. ASSUME NEW p \in DOMAIN held PROVE p \in Buddy!Addrs
  <2> DEFINE a == p - BUDDY_HEADER
  <2>1. a \in UsedBy(held) /\ p = a + BUDDY_HEADER /\ a \in Nat /\ p \in Nat /\ a \in Cells
    BY UsedBlock
  <2> HIDE DEF a
  <2>2. PICK o \in Buddy!Orders : Buddy!BlockAt(a, o) = a
    BY <1>1, <2>1, BlockOrder
  <2>3. o \in Nat /\ Buddy!Bytes(o) \in Nat /\ BUDDY_HEADER < Buddy!Bytes(o) /\ BUDDY_HEADER \in Nat
    BY OrdersNat, BytesFit, BuddyConstants
  <2>4. Buddy!BlockAt(a, o) <= p /\ p < Buddy!BlockAt(a, o) + Buddy!Bytes(o)
    BY <2>1, <2>2, <2>3
  <2>5. Buddy!BlockAt(p, o) = Buddy!BlockAt(a, o)
    BY <2>1, <2>3, <2>4, SameBlock
  <2>6. p \in Cells
    BY <2>1, <2>5, CellsSame
  <2> QED BY <2>6, CellsAddrs
<1>4. b \in [hdr : [Buddy!Addrs -> Buddy!Header], free_blocks : [Buddy!Orders -> Seq(Buddy!Addrs)],
             current_blocks : Nat, total_allocated : Nat]
  BY <1>1, <1>2 DEF BuddyTyped
<1> QED BY <1>3, <1>4 DEF Buddy!TypeOK

LEMMA TypesHold == ASSUME MemoryInv, Counted PROVE TypeOK
<1>1. UsesGroup => Group!TypeOK
  BY GroupTypes DEF MemoryInv, Inv, Counted
<1>2. UsesBuddy => Buddy!TypeOK
  BY BuddyTypes DEF MemoryInv
<1> QED BY <1>1, <1>2 DEF MemoryInv, OneManager, TypeOK

-----------------------------------------------------------------------------
(* The theorems.                                                           *)

\* Every step of either build keeps the invariant: for the buddy manager it is
\* BuddySafe, that the blocks in use and in the lists cut the heap along the tree
\* of halves, that no two halves are both in a list, and that the headers of the
\* blocks in use are as the callers hold them.
THEOREM BothInductive == Spec => []MemoryInv
<1>1. Init => MemoryInv
  BY MemoryInvInit
<1>2. MemoryInv /\ [Next]_vars => MemoryInv'
  BY MemoryInvNext
<1> QED BY <1>1, <1>2, PTL DEF Spec

\* After any sequence of mm_malloc and mm_free every byte of the heap is in one
\* block, whichever manager the build has: what the loops of buddy_malloc cut and
\* those of buddy_free put together is the same tree.
THEOREM BlocksTile == Spec => []BlocksExact
<1>1. MemoryInv => BlocksExact
  BY InvImplies, BuddyImplies DEF MemoryInv, BlocksExact
<1> QED BY <1>1, BothInductive, PTL

\* No free block is lost to mm_malloc and none in use is offered by it: each list
\* of the buddy manager has blocks of its order only, where the exclusive or that
\* finds a buddy expects them.
THEOREM FreeListIsExact == Spec => []FreeListsExact
<1>1. MemoryInv => FreeListsExact
  BY InvImplies, BuddyImplies DEF MemoryInv, FreeListsExact
<1> QED BY <1>1, BothInductive, PTL

\* Memory does not fall to pieces: two buddies are never both free, although
\* buddy_free stops at the first order at which it cannot merge.
THEOREM NeighboursAreMerged == Spec => []NeighboursMerged
<1>1. MemoryInv => NeighboursMerged
  BY InvImplies, BuddyImplies DEF MemoryInv, NeighboursMerged
<1> QED BY <1>1, BothInductive, PTL

\* No two callers of mm_malloc hold the same byte, whatever they ask for and
\* whichever manager the build has.
THEOREM HeldIsApart ==
  Spec => [](\A p, q \in DOMAIN held : p # q => ~H!Overlap(p, held[p], q, held[q]))
<1>1. MemoryInv => \A p, q \in DOMAIN held : p # q => ~H!Overlap(p, held[p], q, held[q])
  BY HeldApart
<1> QED BY <1>1, BothInductive, PTL

\* What the callers hold is also inside the heap, when no request is larger than it.
\* The hypothesis is needed: buddy_malloc gives its largest block for any size.
THEOREM HeldIsInside == ASSUME RequestsFit PROVE Spec => []LiveDisjoint
<1>1. MemoryInv => LiveDisjoint
  BY HeldApart
<1> QED BY <1>1, BothInductive, PTL

\* Both builds implement Heap: each step allocates memory inside the heap that
\* nobody holds, frees memory that is held, or leaves what is held as it is.
THEOREM BothImplementHeap == ASSUME RequestsFit PROVE Spec => ImplementsHeap
<1>1. Init => H!Init
  BY DEF Init, H!Init
<1>2. MemoryInv /\ [Next]_vars => [H!Next]_held
  BY MemoryStepImplements
<1> QED BY <1>1, <1>2, BothInductive, PTL DEF Spec, ImplementsHeap, H!Spec

\* The counters follow what the callers hold: no sequence of calls leaves the bytes
\* that are accounted for more or less than those that are held, and group_malloc
\* wastes no more than a header and a minimal block in each.
THEOREM CountersFollow == Spec => []Counted
<1>1. Init => Counted
  BY CountedInit
<1>2. MemoryInv /\ Counted /\ [Next]_vars => Counted'
  BY CountedNext
<1> QED BY <1>1, <1>2, BothInductive, PTL DEF Spec

\* What the mem command reports is what the callers hold: the blocks, the bytes, and
\* for the group manager the blocks that tile the heap and the memory in use.
THEOREM ReportIsExact == Spec => []InfoExact
<1>1. MemoryInv /\ Counted => InfoExact
  BY CountedImplies
<1> QED BY <1>1, BothInductive, CountersFollow, PTL

\* What the managers read as pointers, sizes and counters is one, no counter goes
\* below 0, and the manager that the build left out is never touched.
THEOREM MemoryTyped == Spec => []TypeOK
<1>1. MemoryInv /\ Counted => TypeOK
  BY TypesHold
<1> QED BY <1>1, BothInductive, CountersFollow, PTL

=============================================================================
