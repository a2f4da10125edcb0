---------------------------- MODULE ShellProofs ----------------------------
(***************************************************************************)
(* The terminal, for every size of the keyboard's buffer, of the screen,   *)
(* of the line and its words, and any number of children and keys.         *)
(***************************************************************************)
EXTENDS Shell, TLAPS, FiniteSetTheorems, SequenceTheorems, WellFoundedInduction

-----------------------------------------------------------------------------
(* Least and greatest elements, and induction.                             *)

LEMMA MinIn ==
  ASSUME NEW S, S \subseteq Nat, S # {}
  PROVE  Min(S) \in S /\ \A y \in S : Min(S) =< y
<1> DEFINE Less == OpToRel(<, Nat)
<1>1. \E x \in S : \A y \in S : ~(<<y, x>> \in Less)
  BY NatLessThanWellFounded, WFMin, Zenon
<1>2. \A x, y \in Nat : y < x => <<y, x>> \in Less
  <2> SUFFICES ASSUME NEW x \in Nat, NEW y \in Nat, y < x
               PROVE  <<y, x>> \in {ss \in Nat \X Nat : ss[1] < ss[2]}
    BY DEF OpToRel
  <2> QED OBVIOUS
<1> HIDE DEF Less
<1>3. PICK x \in S : \A y \in S : ~(<<y, x>> \in Less)
  BY <1>1
<1>4. ASSUME NEW y \in S PROVE x =< y
  <2>1. x \in Nat /\ y \in Nat
    OBVIOUS
  <2>2. ~(y < x)
    BY <1>3, <1>2, <2>1, Zenon
  <2> QED BY <2>1, <2>2
<1> QED BY <1>4, Zenon DEF Min

LEMMA MaxIn ==
  ASSUME NEW k \in Nat, NEW S, S \subseteq 0..k, S # {}
  PROVE  Max(S) \in S /\ \A y \in S : Max(S) >= y
<1> DEFINE R == {j \in 0..k : k - j \in S}
           x == k - Min(R)
<1>1. R # {} /\ R \subseteq Nat
  <2>1. PICK s \in S : TRUE
    OBVIOUS
  <2>2. k - s \in 0..k /\ k - (k - s) = s
    BY <2>1
  <2>3. k - s \in R
    BY <2>1, <2>2
  <2> QED BY <2>3
<1>2. Min(R) \in R /\ \A y \in R : Min(R) =< y
  BY <1>1, MinIn
<1>3. x \in S
  BY <1>2
<1>4. ASSUME NEW y \in S PROVE x >= y
  <2>1. y \in 0..k /\ k - y \in 0..k /\ k - (k - y) = y
    OBVIOUS
  <2>2. k - y \in R
    BY <2>1
  <2>3. Min(R) =< k - y /\ Min(R) \in 0..k
    BY <1>2, <2>2
  <2> QED BY <2>1, <2>3
<1> HIDE DEF x
<1> QED BY <1>3, <1>4, Zenon DEF Max

LEMMA MaxIs ==
  ASSUME NEW S, NEW x \in S, S \subseteq Int, \A y \in S : x >= y
  PROVE  Max(S) = x
<1>1. Max(S) \in S /\ \A y \in S : Max(S) >= y
  BY Zenon DEF Max
<1>2. Max(S) >= x /\ x >= Max(S) /\ Max(S) \in Int /\ x \in Int
  BY <1>1
<1> QED BY <1>2

LEMMA MinIs ==
  ASSUME NEW S, NEW x \in S, S \subseteq Int, \A y \in S : x =< y
  PROVE  Min(S) = x
<1>1. Min(S) \in S /\ \A y \in S : Min(S) =< y
  BY Zenon DEF Min
<1>2. Min(S) =< x /\ x =< Min(S) /\ Min(S) \in Int /\ x \in Int
  BY <1>1
<1> QED BY <1>2

LEMMA AllNaturals ==
  ASSUME NEW S, 0 \in S, \A n \in Nat : n \in S => n + 1 \in S
  PROVE  \A n \in Nat : n \in S
<1> DEFINE C == Nat \ S
           x == Min(C)
<1> SUFFICES ASSUME C # {} PROVE FALSE
  OBVIOUS
<1>1. C # {} /\ C \subseteq Nat
  OBVIOUS
<1>2. x \in C /\ \A y \in C : x =< y
  BY <1>1, MinIn
<1> HIDE DEF x
<1>3. x \in Nat /\ x # 0 /\ x - 1 \in Nat /\ ~(x =< x - 1) /\ (x - 1) + 1 = x
  BY <1>2
<1>4. x - 1 \in S
  BY <1>2, <1>3
<1>5. x \in S
  BY <1>3, <1>4
<1> QED BY <1>2, <1>5

-----------------------------------------------------------------------------
(* Folds over the indices of a sequence.                                   *)

\* A fold as MapThenFoldSet makes it, of a step that is a function on a set V.
IsFold(f, F, base, S) ==
  f = [s \in SUBSET S |-> IF s = {} THEN base ELSE F[<<f[s \ {Max(s)}], Max(s)>>]]

\* There is one, and its values are in V.
Folds(F, base, S, V) == \E f : IsFold(f, F, base, S) /\ \A s \in SUBSET S : f[s] \in V

LEMMA FoldExists ==
  ASSUME NEW n \in Nat, NEW S, S = 1..n, NEW V, NEW base \in V, NEW F \in [V \X S -> V]
  PROVE  Folds(F, base, S, V)
<1> DEFINE D(i) == {s \in SUBSET S : Cardinality(s) <= i}
           Upto(f, i) == f = [s \in D(i) |-> IF s = {} THEN base ELSE F[<<f[s \ {Max(s)}], Max(s)>>]]
           N == {i \in Nat : \E f : Upto(f, i) /\ \A s \in D(i) : f[s] \in V}
<1>0. IsFiniteSet(S) /\ Cardinality(S) = n
  <2>1. IsFiniteSet(1..n) /\ Cardinality(1..n) = n
    BY FS_Interval
  <2> QED BY <2>1
<1>1. ASSUME NEW T \in SUBSET S
      PROVE  /\ IsFiniteSet(T) /\ Cardinality(T) \in Nat /\ (Cardinality(T) = 0 <=> T = {})
             /\ T # {} => Max(T) \in T /\ Cardinality(T \ {Max(T)}) = Cardinality(T) - 1
  <2>1. IsFiniteSet(T)
    BY <1>0, FS_Subset
  <2>2. Cardinality(T) \in Nat
    BY <2>1, FS_CardinalityType
  <2>3. Cardinality(T) = 0 <=> T = {}
    BY <2>1, FS_EmptySet
  <2>4. T # {} => Max(T) \in T
    <3>1. T \subseteq 0..n
      OBVIOUS
    <3> QED BY <3>1, MaxIn
  <2>5. T # {} => Cardinality(T \ {Max(T)}) = Cardinality(T) - 1
    BY <2>1, <2>4, FS_RemoveElement
  <2> QED BY <2>1, <2>2, <2>3, <2>4, <2>5
<1>2. 0 \in N
  <2> DEFINE f == [s \in D(0) |-> base]
  <2>1. ASSUME NEW s \in D(0) PROVE s = {}
    <3>1. s \in SUBSET S /\ Cardinality(s) <= 0
      OBVIOUS
    <3>2. Cardinality(s) \in Nat /\ (Cardinality(s) = 0 <=> s = {})
      BY <1>1, <3>1
    <3> QED BY <3>1, <3>2
  <2> HIDE DEF D
  <2>2. Upto(f, 0) /\ \A s \in D(0) : f[s] \in V
    BY <2>1
  <2> QED BY <2>2
<1>3. ASSUME NEW i \in Nat, i \in N PROVE i + 1 \in N
  <2>1. PICK f : Upto(f, i) /\ \A s \in D(i) : f[s] \in V
    BY <1>3
  <2> DEFINE g == [s \in D(i + 1) |-> IF s = {} THEN base ELSE F[<<f[s \ {Max(s)}], Max(s)>>]]
  <2>2. ASSUME NEW s \in D(i) PROVE s \in D(i + 1)
    <3>1. s \in SUBSET S /\ Cardinality(s) <= i
      OBVIOUS
    <3>2. Cardinality(s) \in Nat
      BY <1>1, <3>1
    <3>3. Cardinality(s) <= i + 1
      BY <3>1, <3>2
    <3> QED BY <3>1, <3>3
  <2>3. ASSUME NEW s \in D(i + 1), s # {} PROVE s \ {Max(s)} \in D(i) /\ Max(s) \in S
    <3>1. s \in SUBSET S /\ Cardinality(s) <= i + 1
      OBVIOUS
    <3>2. Cardinality(s) \in Nat /\ Max(s) \in s /\ Cardinality(s \ {Max(s)}) = Cardinality(s) - 1
      BY <1>1, <2>3, <3>1
    <3>3. Cardinality(s \ {Max(s)}) <= i
      BY <3>1, <3>2
    <3> QED BY <3>1, <3>2, <3>3
  <2> HIDE DEF D
  <2>4. \A s \in D(i) : f[s] = IF s = {} THEN base ELSE F[<<f[s \ {Max(s)}], Max(s)>>]
    BY <2>1
  <2>5. \A s \in D(i) : g[s] = f[s]
    BY <2>2, <2>4
  <2>6. g = [s \in D(i + 1) |-> IF s = {} THEN base ELSE F[<<g[s \ {Max(s)}], Max(s)>>]]
    <3>1. \A s \in D(i + 1) : s # {} => g[s \ {Max(s)}] = f[s \ {Max(s)}]
      BY <2>3, <2>5
    <3> DEFINE h == [s \in D(i + 1) |-> IF s = {} THEN base ELSE F[<<g[s \ {Max(s)}], Max(s)>>]]
    <3>2. ASSUME NEW s \in D(i + 1) PROVE g[s] = h[s]
      <4>1. g[s] = IF s = {} THEN base ELSE F[<<f[s \ {Max(s)}], Max(s)>>]
        OBVIOUS
      <4>2. h[s] = IF s = {} THEN base ELSE F[<<g[s \ {Max(s)}], Max(s)>>]
        OBVIOUS
      <4> HIDE DEF g, h
      <4> QED BY <3>1, <4>1, <4>2
    <3> QED BY <3>2
  <2>7. \A s \in D(i + 1) : g[s] \in V
    <3> SUFFICES ASSUME NEW s \in D(i + 1), s # {} PROVE F[<<f[s \ {Max(s)}], Max(s)>>] \in V
      OBVIOUS
    <3>1. f[s \ {Max(s)}] \in V /\ Max(s) \in S
      BY <2>1, <2>3
    <3> HIDE DEF g
    <3> QED BY <3>1
  <2>8. Upto(g, i + 1)
    BY <2>6
  <2> HIDE DEF Upto, g
  <2>9. i + 1 \in Nat /\ \E h : Upto(h, i + 1) /\ \A s \in D(i + 1) : h[s] \in V
    BY <2>7, <2>8
  <2> QED BY <2>9
<1> HIDE DEF N
<1>4. \A i \in Nat : i \in N
  BY <1>2, <1>3, AllNaturals
<1>5. D(n) = SUBSET S
  <2>1. ASSUME NEW T \in SUBSET S PROVE Cardinality(T) <= n
    <3>1. Cardinality(T) <= Cardinality(S)
      BY <1>0, FS_Subset
    <3> QED BY <1>0, <3>1
  <2> QED BY <2>1
<1>6. \E f : Upto(f, n) /\ \A s \in D(n) : f[s] \in V
  BY <1>4 DEF N
<1> QED BY <1>5, <1>6 DEF IsFold, Folds

\* The sets that the fold meets are the beginnings of the sequence.
LEMMA Beginnings ==
  ASSUME NEW i \in Nat, i # 0
  PROVE  Max(1..i) = i /\ (1..i) \ {i} = 1..(i - 1) /\ 1..i # {}
<1>1. i \in 1..i /\ 1..i \subseteq Int /\ \A y \in 1..i : i >= y
  OBVIOUS
<1>2. Max(1..i) = i
  BY <1>1, MaxIs
<1> QED BY <1>1, <1>2

\* Along the beginnings of a sequence.
LEMMA Along ==
  ASSUME NEW n \in Nat, NEW V, NEW r, r[0] \in V,
         \A i \in 0..n - 1 : r[i] \in V => r[i + 1] \in V
  PROVE  \A i \in 0..n : r[i] \in V
<1> DEFINE N == {i \in Nat : i <= n => r[i] \in V}
<1>1. 0 \in N
  OBVIOUS
<1>2. ASSUME NEW i \in Nat, i \in N PROVE i + 1 \in N
  <2> SUFFICES ASSUME i + 1 <= n PROVE r[i + 1] \in V
    OBVIOUS
  <2>1. i \in 0..n - 1 /\ i <= n
    OBVIOUS
  <2> QED BY <1>2, <2>1
<1> HIDE DEF N
<1>3. \A i \in Nat : i \in N
  BY <1>1, <1>2, AllNaturals
<1> QED BY <1>3 DEF N

-----------------------------------------------------------------------------
(* The characters, the readers, and the types.                             *)

Chars == Keys \cup {"C", "D", "&", "*", "junk", "o"} \cup {NUL, NL, DEL, PROMPT, BLANK}

Readers == Kids \cup {SHELL}
States == {"run", "kbd", "woken", "none", "command", "wait", "right", "info", "undefined"}

Places == 0..BUFFER_SIZE - 1
Keyboards ==
  [buffer : [Places -> Chars], write : Places, read : Places, is_key : Nat,
   waiting : Seq(Readers), shift : BOOLEAN, ctrl : BOOLEAN, caps : BOOLEAN,
   unread : Seq(Chars), lost : Nat]

LEMMA ReadersFinite ==
  /\ IsFiniteSet(Readers) /\ SHELL \in Readers /\ SHELL \notin Kids /\ Kids \subseteq Readers
  /\ NOBODY \notin Readers /\ FIRST \notin Readers /\ \A p \in Readers : p \in Int /\ p >= SHELL
<1>1. IsFiniteSet(Readers)
  BY ShellAssumption, FS_Singleton, FS_Union DEF Readers
<1> QED BY <1>1, ShellAssumption DEF Readers, SHELL, NOBODY, FIRST

LEMMA CharactersTyped ==
  ASSUME NEW g \in Keyboards, NEW key \in Keys
  PROVE  /\ DOMAIN Characters(g, key) = 1..Len(Characters(g, key)) /\ Len(Characters(g, key)) \in Nat
         /\ \A i \in DOMAIN Characters(g, key) : Characters(g, key)[i] \in Chars
<1>1. toLetter(g, key) \in Chars
  <2>1. key \in Chars
    BY DEF Chars
  <2>2. key \in DOMAIN Upper => Upper[key] \in {"C", "D"}
    BY DEF Upper
  <2>3. key \in DOMAIN shiftNum => shiftNum[key] \in {"&", "*"}
    BY DEF shiftNum
  <2> QED BY <2>1, <2>2, <2>3 DEF toLetter, Chars
<1>2. \/ Characters(g, key) = <<NUL>> \/ Characters(g, key) = <<DEL>> \/ Characters(g, key) = <<NL>>
      \/ Characters(g, key) = [i \in 1..5 |-> "junk"]
      \/ Characters(g, key) = <<>>
      \/ Characters(g, key) = <<toLetter(g, key)>>
  BY DEF Characters
<1>3. {NUL, DEL, NL, "junk", toLetter(g, key)} \subseteq Chars
  BY <1>1 DEF Chars
<1>4. \A c \in Chars : <<c>> \in Seq(Chars)
  OBVIOUS
<1>5. [i \in 1..5 |-> "junk"] \in Seq(Chars)
  BY <1>3, SeqDef
<1>6. <<>> \in Seq(Chars)
  BY EmptySeq
<1>7. Characters(g, key) \in Seq(Chars)
  <2>1. /\ <<NUL>> \in Seq(Chars) /\ <<DEL>> \in Seq(Chars) /\ <<NL>> \in Seq(Chars)
        /\ <<toLetter(g, key)>> \in Seq(Chars)
    BY <1>3, <1>4
  <2> QED BY <1>2, <1>5, <1>6, <2>1
<1> QED BY <1>7, LenProperties

-----------------------------------------------------------------------------
(* Remainders.                                                             *)

LEMMA SameRemainder ==
  \A B \in Nat \ {0}, a, b, q \in Int : a = b + q * B => a % B = b % B
<1> SUFFICES ASSUME NEW B \in Nat \ {0}, NEW a \in Int, NEW b \in Int, NEW q \in Int, a = b + q * B
             PROVE  a % B = b % B
  OBVIOUS
<1> DEFINE x == a % B
           y == b % B
           k == (a \div B) - (b \div B) - q
<1>1. x \in 0..B - 1 /\ a \div B \in Int /\ a = (B * (a \div B)) + x
  OBVIOUS
<1>2. y \in 0..B - 1 /\ b \div B \in Int /\ b = (B * (b \div B)) + y
  OBVIOUS
<1>3. k \in Int
  BY <1>1, <1>2
<1>4. y - x = k * B
  <2> DEFINE u == a \div B
             v == b \div B
  <2>1. u \in Int /\ v \in Int /\ a = (B * u) + x /\ b = (B * v) + y
    BY <1>1, <1>2
  <2> HIDE DEF x, y, u, v
  <2>2. (u - v - q) * B = (B * u) - (B * v) - (q * B)
    BY <2>1
  <2>3. B * u \in Int /\ B * v \in Int /\ q * B \in Int /\ x \in Int /\ y \in Int
    BY <1>1, <1>2, <2>1
  <2>4. y - x = (B * u) - (B * v) - (q * B)
    BY <2>1, <2>3
  <2> QED BY <2>2, <2>4 DEF u, v
<1> HIDE DEF k, x, y
<1>5. -B < k * B /\ k * B < B
  BY <1>1, <1>2, <1>4
<1>6. k = 0
  BY <1>3, <1>5
<1>7. y - x = 0
  BY <1>4, <1>6
<1> QED BY <1>1, <1>2, <1>7 DEF x, y

LEMMA PlaceOf == ASSUME NEW a \in Int PROVE a % BUFFER_SIZE \in Places
<1> DEFINE B == BUFFER_SIZE
<1>1. B \in Nat \ {0}
  BY KeyboardAssumption
<1> HIDE DEF B
<1>2. a % B \in 0..B - 1
  BY <1>1
<1> QED BY <1>2 DEF B, Places

\* A place, and what is so many places behind it.
LEMMA Further ==
  ASSUME NEW a \in Int, NEW b \in Int
  PROVE  ((a % BUFFER_SIZE) + b) % BUFFER_SIZE = (a + b) % BUFFER_SIZE
<1> DEFINE B == BUFFER_SIZE
           x == a % B
           u == a \div B
           c == a + b
           d == x + b
<1>1. B \in Nat \ {0}
  BY KeyboardAssumption
<1> HIDE DEF B
<1>2. x \in 0..B - 1 /\ u \in Int /\ a = (B * u) + x
  BY <1>1
<1> HIDE DEF x, u
<1>3. a + b = (x + b) + u * B
  <2>1. B * u = u * B /\ u * B \in Int
    BY <1>1, <1>2
  <2> QED BY <1>1, <1>2, <2>1
<1>4. c \in Int /\ d \in Int /\ u \in Int /\ c = d + u * B
  BY <1>1, <1>2, <1>3
<1> HIDE DEF c, d
<1>5. c % B = d % B
  BY <1>1, <1>4, SameRemainder, Zenon
<1>6. (x + b) % B = (a + b) % B
  BY <1>5, Zenon DEF c, d
<1> QED BY <1>6, Zenon DEF x, B

\* Fewer than BUFFER_SIZE places apart, there is another place.
LEMMA OtherPlace ==
  ASSUME NEW a \in Int, NEW b \in Int, a < b, b - a < BUFFER_SIZE
  PROVE  a % BUFFER_SIZE # b % BUFFER_SIZE
<1> DEFINE B == BUFFER_SIZE
           u == a \div B
           v == b \div B
           x == a % B
           y == b % B
<1>1. B \in Nat \ {0} /\ b - a < B
  BY KeyboardAssumption
<1> HIDE DEF B
<1>2. x \in 0..B - 1 /\ u \in Int /\ a = (B * u) + x
  BY <1>1
<1>3. y \in 0..B - 1 /\ v \in Int /\ b = (B * v) + y
  BY <1>1
<1> HIDE DEF x, y, u, v
<1>4. SUFFICES ASSUME x = y PROVE FALSE
  BY DEF x, y, B
<1>5. v - u \in Int /\ (v - u) * B = b - a
  <2>1. (v - u) * B = (B * v) - (B * u) /\ B * v \in Int /\ B * u \in Int
    BY <1>1, <1>2, <1>3
  <2> QED BY <1>1, <1>2, <1>3, <1>4, <2>1
<1>6. 0 < (v - u) * B /\ (v - u) * B < B
  BY <1>1, <1>5
<1> QED BY <1>1, <1>5, <1>6

-----------------------------------------------------------------------------
(* The keyboard and who waits for it.                                      *)

Consoles == [kb : Keyboards, proc : [Readers -> States]]

\* The readers that were let through and have not read.
Woken(pr) == Cardinality({p \in DOMAIN pr : pr[p] = "woken"})

Tokens(g, pr) == g.is_key + Woken(pr) + g.lost

\* The next place is as far behind the next character as there are unread ones, and the
\* last BUFFER_SIZE of them are in the buffer.
InBuffer(g) ==
  /\ g.write = (g.read + Len(g.unread)) % BUFFER_SIZE
  /\ \A i \in 1..Len(g.unread) :
        i > Len(g.unread) - BUFFER_SIZE => g.buffer[(g.read + i - 1) % BUFFER_SIZE] = g.unread[i]

Kept(g, pr) == Len(g.unread) = Tokens(g, pr) /\ InBuffer(g)

SameContents(g, h) ==
  h.read = g.read /\ h.write = g.write /\ h.buffer = g.buffer /\ h.unread = g.unread

\* The readers of qr are those of pr, of whom some may have been let through.
LetsThrough(pr, qr) == \A p \in Readers : qr[p] = pr[p] \/ (pr[p] = "kbd" /\ qr[p] = "woken")

LEMMA WokenNat == ASSUME NEW pr \in [Readers -> States] PROVE Woken(pr) \in Nat
<1>1. IsFiniteSet({p \in DOMAIN pr : pr[p] = "woken"})
  BY ReadersFinite, FS_Subset
<1> QED BY <1>1, FS_CardinalityType DEF Woken

LEMMA WokenSame ==
  ASSUME NEW pr \in [Readers -> States], NEW qr \in [Readers -> States],
         \A r \in Readers : pr[r] = "woken" <=> qr[r] = "woken"
  PROVE  Woken(qr) = Woken(pr)
<1>1. {p \in DOMAIN pr : pr[p] = "woken"} = {p \in DOMAIN qr : qr[p] = "woken"}
  OBVIOUS
<1> QED BY <1>1 DEF Woken

LEMMA WokenMore ==
  ASSUME NEW pr \in [Readers -> States], NEW qr \in [Readers -> States],
         NEW p \in Readers, pr[p] # "woken", qr[p] = "woken",
         \A r \in Readers \ {p} : qr[r] = "woken" <=> pr[r] = "woken"
  PROVE  Woken(qr) = Woken(pr) + 1
<1> DEFINE A == {r \in DOMAIN pr : pr[r] = "woken"}
           B == {r \in DOMAIN qr : qr[r] = "woken"}
<1>1. B = A \cup {p} /\ p \notin A
  OBVIOUS
<1>2. IsFiniteSet(A)
  BY ReadersFinite, FS_Subset
<1> HIDE DEF A, B
<1>3. Cardinality(A \cup {p}) = Cardinality(A) + 1
  BY <1>1, <1>2, FS_AddElement
<1> QED BY <1>1, <1>3 DEF A, B, Woken

LEMMA TokensNat ==
  ASSUME NEW g \in Keyboards, NEW pr \in [Readers -> States]
  PROVE  /\ g.write \in Int /\ g.read \in Int /\ Tokens(g, pr) \in Nat
         /\ g.unread \in Seq(Chars) /\ Len(g.unread) \in Nat
<1>1. /\ g.write \in Places /\ g.read \in Places /\ g.is_key \in Nat /\ g.lost \in Nat
      /\ g.unread \in Seq(Chars)
  BY DEF Keyboards
<1>2. g.write \in Int /\ g.read \in Int
  BY <1>1, KeyboardAssumption DEF Places
<1>3. Woken(pr) \in Nat
  BY WokenNat
<1>4. g.is_key + Woken(pr) + g.lost \in Nat
  BY <1>1, <1>3
<1> QED BY <1>1, <1>2, <1>4, LenProperties DEF Tokens

LEMMA KeptIsKept ==
  ASSUME NEW g \in Keyboards, NEW pr \in [Readers -> States], Kept(g, pr)
  PROVE  /\ Len(g.unread) = g.is_key + Woken(pr) + g.lost
         /\ Len(g.unread) <= BUFFER_SIZE =>
               \A i \in 1..Len(g.unread) : g.buffer[(g.read + i - 1) % BUFFER_SIZE] = g.unread[i]
<1>1. Len(g.unread) \in Nat /\ BUFFER_SIZE \in Nat
  BY TokensNat, KeyboardAssumption
<1>2. ASSUME Len(g.unread) <= BUFFER_SIZE, NEW i \in 1..Len(g.unread)
      PROVE  i > Len(g.unread) - BUFFER_SIZE
  BY <1>1, <1>2
<1> QED BY <1>2 DEF Kept, InBuffer, Tokens

\* A character that is stored with a token, and one that is taken with a token.
LEMMA KeptStored ==
  ASSUME NEW g \in Keyboards, NEW pr \in [Readers -> States], Kept(g, pr),
         NEW h \in Keyboards, NEW qr \in [Readers -> States], NEW c \in Chars,
         Tokens(h, qr) = Tokens(g, pr) + 1,
         h.read = g.read, h.write = (g.write + 1) % BUFFER_SIZE,
         h.buffer = [g.buffer EXCEPT ![g.write] = c], h.unread = Append(g.unread, c)
  PROVE  Kept(h, qr)
<1> DEFINE n == Len(g.unread)
<1>1. /\ n \in Nat /\ g.read \in Int /\ g.unread \in Seq(Chars) /\ BUFFER_SIZE \in Nat
      /\ g.buffer \in [Places -> Chars]
  BY TokensNat, KeyboardAssumption DEF Keyboards
<1>2. /\ Len(h.unread) = n + 1 /\ h.unread[n + 1] = c
      /\ \A i \in 1..n : h.unread[i] = g.unread[i]
  BY <1>1, AppendProperties
<1> HIDE DEF n
<1>3. g.write = (g.read + n) % BUFFER_SIZE /\ g.write \in Places
  BY DEF Kept, InBuffer, Keyboards, n
<1>4. h.write = (h.read + (n + 1)) % BUFFER_SIZE
  <2>1. (((g.read + n) % BUFFER_SIZE) + 1) % BUFFER_SIZE = (g.read + n + 1) % BUFFER_SIZE
    <3> DEFINE a == g.read + n
    <3>1. a \in Int /\ 1 \in Int
      BY <1>1
    <3> HIDE DEF a
    <3>2. ((a % BUFFER_SIZE) + 1) % BUFFER_SIZE = (a + 1) % BUFFER_SIZE
      BY <3>1, Further
    <3> QED BY <3>2 DEF a
  <2>2. g.read + n + 1 = g.read + (n + 1)
    <3> DEFINE a == g.read
    <3>1. n \in Int /\ a \in Int
      BY <1>1
    <3>2. \A x, y \in Int : x + y + 1 = x + (y + 1)
      OBVIOUS
    <3> HIDE DEF a
    <3>3. a + n + 1 = a + (n + 1)
      BY <3>1, <3>2
    <3> QED BY <3>3 DEF a
  <2>3. h.write = (((g.read + n) % BUFFER_SIZE) + 1) % BUFFER_SIZE
    BY <1>3
  <2>4. h.write = (g.read + n + 1) % BUFFER_SIZE
    BY <2>1, <2>3, Zenon
  <2> QED BY <2>2, <2>4
<1>5. ASSUME NEW i \in 1..n + 1, i > n + 1 - BUFFER_SIZE
      PROVE  h.buffer[(h.read + i - 1) % BUFFER_SIZE] = h.unread[i]
  <2>1. CASE i = n + 1
    <3>1. g.read + i - 1 = g.read + n
      BY <1>1, <2>1
    <3>2. h.buffer[g.write] = c
      BY <1>1, <1>3
    <3> QED BY <1>2, <1>3, <2>1, <3>1, <3>2
  <2>2. CASE i # n + 1
    <3> DEFINE a == g.read + i - 1
    <3>1. i \in 1..n /\ i > n - BUFFER_SIZE /\ a \in Int
      BY <1>1, <1>5, <2>2
    <3>2. a < g.read + n /\ (g.read + n) - a < BUFFER_SIZE /\ g.read + n \in Int
      BY <1>1, <1>5, <2>2
    <3>3. a % BUFFER_SIZE # g.write /\ a % BUFFER_SIZE \in Places
      BY <1>3, <3>1, <3>2, OtherPlace, PlaceOf
    <3>4. g.buffer[a % BUFFER_SIZE] = g.unread[i]
      BY <3>1 DEF Kept, InBuffer, n
    <3> HIDE DEF a
    <3>5. h.buffer[a % BUFFER_SIZE] = g.buffer[a % BUFFER_SIZE]
      BY <1>1, <3>3
    <3> QED BY <1>2, <3>1, <3>4, <3>5 DEF a
  <2> QED BY <2>1, <2>2
<1>6. Len(h.unread) = Tokens(h, qr)
  BY <1>2 DEF Kept, n
<1> DEFINE m == Len(h.unread)
<1>7. m = n + 1
  BY <1>2
<1> HIDE DEF m
<1>8. h.write = (h.read + m) % BUFFER_SIZE
  BY <1>4, <1>7
<1>9. \A i \in 1..m : i > m - BUFFER_SIZE => h.buffer[(h.read + i - 1) % BUFFER_SIZE] = h.unread[i]
  <2> SUFFICES ASSUME NEW i \in 1..m, i > m - BUFFER_SIZE
               PROVE  h.buffer[(h.read + i - 1) % BUFFER_SIZE] = h.unread[i]
    OBVIOUS
  <2>1. i \in 1..n + 1
    BY <1>7
  <2>2. i > n + 1 - BUFFER_SIZE
    BY <1>1, <1>7
  <2> QED BY <1>5, <2>1, <2>2
<1> QED BY <1>6, <1>8, <1>9 DEF Kept, InBuffer, m

LEMMA KeptTaken ==
  ASSUME NEW g \in Keyboards, NEW pr \in [Readers -> States], Kept(g, pr),
         NEW h \in Keyboards, NEW qr \in [Readers -> States],
         Tokens(g, pr) = Tokens(h, qr) + 1,
         h.write = g.write, h.read = (g.read + 1) % BUFFER_SIZE,
         h.buffer = g.buffer, h.unread = SubSeq(g.unread, 2, Len(g.unread))
  PROVE  Kept(h, qr)
<1> DEFINE n == Len(g.unread)
<1>1. /\ n \in Nat /\ g.read \in Int /\ g.unread \in Seq(Chars) /\ BUFFER_SIZE \in Nat
      /\ Tokens(h, qr) \in Nat
  BY TokensNat, KeyboardAssumption
<1>2. n = Tokens(h, qr) + 1 /\ n >= 1
  BY <1>1 DEF Kept
<1>3. Len(h.unread) = n - 1 /\ \A i \in 1..n - 1 : h.unread[i] = g.unread[i + 1]
  <2> DEFINE u == g.unread
             v == SubSeq(u, 2, n)
  <2>1. u \in Seq(Chars) /\ n = Len(u) /\ h.unread = v
    BY <1>1
  <2> HIDE DEF n, u
  <2>2. \A i \in 2..n : u[i] \in Chars
    BY <1>1, <2>1, ElementOfSeq
  <2>3. 2 \in Int /\ n \in Int
    BY <1>1
  <2>4. Len(v) = (IF 2 =< n THEN n - 2 + 1 ELSE 0) /\ \A i \in 1..n - 2 + 1 : v[i] = u[2 + i - 1]
    BY <2>2, <2>3, SubSeqProperties
  <2> HIDE DEF v
  <2>5. Len(v) = n - 1
    BY <1>1, <1>2, <2>4
  <2>6. ASSUME NEW i \in 1..n - 1 PROVE v[i] = u[i + 1]
    <3>1. i \in 1..n - 2 + 1 /\ 2 + i - 1 = i + 1
      BY <1>1
    <3> QED BY <2>4, <3>1
  <2> QED BY <2>1, <2>5, <2>6 DEF u
<1> HIDE DEF n
<1>4. h.write = (h.read + (n - 1)) % BUFFER_SIZE
  <2>1. (((g.read + 1) % BUFFER_SIZE) + (n - 1)) % BUFFER_SIZE = ((g.read + 1) + (n - 1)) % BUFFER_SIZE
    <3> DEFINE a == g.read + 1
               b == n - 1
    <3>1. a \in Int /\ b \in Int
      BY <1>1
    <3> HIDE DEF a, b
    <3>2. ((a % BUFFER_SIZE) + b) % BUFFER_SIZE = (a + b) % BUFFER_SIZE
      BY <3>1, Further
    <3> QED BY <3>2 DEF a, b
  <2>2. (g.read + 1) + (n - 1) = g.read + n
    BY <1>1
  <2>3. g.write = (g.read + n) % BUFFER_SIZE
    BY DEF Kept, InBuffer, n
  <2> QED BY <2>1, <2>2, <2>3
<1>5. ASSUME NEW i \in 1..n - 1, i > (n - 1) - BUFFER_SIZE
      PROVE  h.buffer[(h.read + i - 1) % BUFFER_SIZE] = h.unread[i]
  <2>1. i + 1 \in 1..n /\ i + 1 > n - BUFFER_SIZE
    BY <1>1, <1>5
  <2>2. g.buffer[(g.read + (i + 1) - 1) % BUFFER_SIZE] = g.unread[i + 1]
    BY <2>1 DEF Kept, InBuffer, n
  <2>3. (((g.read + 1) % BUFFER_SIZE) + (i - 1)) % BUFFER_SIZE = ((g.read + 1) + (i - 1)) % BUFFER_SIZE
    <3> DEFINE a == g.read + 1
               b == i - 1
    <3>1. a \in Int /\ b \in Int
      BY <1>1
    <3> HIDE DEF a, b
    <3>2. ((a % BUFFER_SIZE) + b) % BUFFER_SIZE = (a + b) % BUFFER_SIZE
      BY <3>1, Further
    <3> QED BY <3>2 DEF a, b
  <2>4. (g.read + 1) + (i - 1) = g.read + (i + 1) - 1
    BY <1>1
  <2>5. h.read + i - 1 = ((g.read + 1) % BUFFER_SIZE) + (i - 1)
    <3>1. h.read \in Int
      BY TokensNat
    <3> QED BY <3>1
  <2> QED BY <1>3, <2>2, <2>3, <2>4, <2>5
<1>6. Len(h.unread) = Tokens(h, qr)
  BY <1>1, <1>2, <1>3
<1> QED BY <1>3, <1>4, <1>5, <1>6 DEF Kept, InBuffer

LEMMA KeptSame ==
  ASSUME NEW g, NEW pr, Kept(g, pr), NEW h, NEW qr,
         Tokens(h, qr) = Tokens(g, pr), SameContents(g, h)
  PROVE  Kept(h, qr)
BY DEF Kept, InBuffer, SameContents

LEMMA CountUp ==
  ASSUME NEW g \in Keyboards
  PROVE  LET h == [g EXCEPT !.is_key = @ + 1, !.waiting = <<>>]
         IN  /\ h \in Keyboards /\ h.is_key = g.is_key + 1 /\ h.lost = g.lost
             /\ SameContents(g, h)
<1>1. <<>> \in Seq(Readers)
  BY EmptySeq
<1>2. g.is_key + 1 \in Nat
  BY DEF Keyboards
<1> QED BY <1>1, <1>2 DEF Keyboards, SameContents

LEMMA QueueCut ==
  ASSUME NEW g \in Keyboards, NEW rest \in Seq(Readers), NEW x
  PROVE  LET h == [g EXCEPT !.waiting = rest, !.lost = IF x = "kbd" THEN @ ELSE @ + 1]
         IN  /\ h \in Keyboards /\ h.is_key = g.is_key /\ SameContents(g, h)
             /\ h.lost = IF x = "kbd" THEN g.lost ELSE g.lost + 1
<1>1. (IF x = "kbd" THEN g.lost ELSE g.lost + 1) \in Nat
  BY DEF Keyboards
<1> QED BY <1>1 DEF Keyboards, SameContents

\* A post makes one token, in the count, with a reader, or lost on a pid that
\* somebody else has now.
LEMMA sem_postMakesOne ==
  ASSUME NEW k \in Consoles
  PROVE  /\ sem_post(k) \in Consoles /\ LetsThrough(k.proc, sem_post(k).proc)
         /\ Tokens(sem_post(k).kb, sem_post(k).proc) = Tokens(k.kb, k.proc) + 1
         /\ SameContents(k.kb, sem_post(k).kb)
<1> DEFINE queue  == k.kb.waiting
           living == {i \in DOMAIN queue : k.proc[queue[i]] # "none"}
           first  == Min(living)
           r      == sem_post(k)
           idle   == [k EXCEPT !.kb = [k.kb EXCEPT !.is_key = @ + 1, !.waiting = <<>>]]
           rest   == SubSeq(queue, first + 1, Len(queue))
           goes   == [kb   |-> [k.kb EXCEPT !.waiting = rest,
                                            !.lost = IF k.proc[queue[first]] = "kbd" THEN @ ELSE @ + 1],
                      proc |-> [k.proc EXCEPT ![queue[first]] = IF @ = "kbd" THEN "woken" ELSE @]]
<1>1. r = IF living = {} THEN idle ELSE goes
  BY DEF sem_post
<1>2. /\ k.kb \in Keyboards /\ k.proc \in [Readers -> States] /\ queue \in Seq(Readers)
      /\ k.kb.is_key \in Nat /\ k.kb.lost \in Nat /\ Woken(k.proc) \in Nat
  BY WokenNat DEF Consoles, Keyboards
<1>3. DOMAIN queue = 1..Len(queue) /\ Len(queue) \in Nat
  BY <1>2, LenProperties
<1> HIDE DEF r
<1>4. CASE living = {}
  <2>1. r = idle
    BY <1>1, <1>4
  <2>2. <<>> \in Seq(Readers)
    BY EmptySeq
  <2>3. /\ r \in Consoles /\ r.proc = k.proc /\ r.kb.is_key = k.kb.is_key + 1 /\ r.kb.lost = k.kb.lost
        /\ SameContents(k.kb, r.kb)
    <3> DEFINE g == [k.kb EXCEPT !.is_key = @ + 1, !.waiting = <<>>]
    <3>1. /\ g \in Keyboards /\ g.is_key = k.kb.is_key + 1 /\ g.lost = k.kb.lost
          /\ SameContents(k.kb, g)
      BY <1>2, CountUp
    <3>2. r = [k EXCEPT !.kb = g]
      BY <2>1
    <3> HIDE DEF g
    <3> QED BY <1>2, <3>1, <3>2 DEF Consoles
  <2>4. Tokens(r.kb, r.proc) = Tokens(k.kb, k.proc) + 1
    BY <1>2, <2>3 DEF Tokens
  <2> QED BY <2>3, <2>4 DEF LetsThrough, r
<1>5. CASE living # {}
  <2>1. r = goes
    BY <1>1, <1>5
  <2>2. first \in DOMAIN queue
    <3>1. living \subseteq Nat
      BY <1>3
    <3>2. first \in living
      BY <1>5, <3>1, MinIn
    <3> QED BY <3>2
  <2> DEFINE p == queue[first]
  <2>3. p \in Readers
    BY <1>2, <1>3, <2>2, ElementOfSeq
  <2>4. rest \in Seq(Readers)
    <3>1. \A i \in first + 1 .. Len(queue) : queue[i] \in Readers
      BY <1>2, <1>3, <2>2, ElementOfSeq
    <3>2. first + 1 \in Int /\ Len(queue) \in Int
      BY <1>3, <2>2
    <3> QED BY <3>1, <3>2, SubSeqProperties
  <2> HIDE DEF first, rest
  <2>5. /\ r \in Consoles
        /\ r.kb.is_key = k.kb.is_key /\ SameContents(k.kb, r.kb)
        /\ r.kb.lost = IF k.proc[p] = "kbd" THEN k.kb.lost ELSE k.kb.lost + 1
        /\ r.proc = [k.proc EXCEPT ![p] = IF k.proc[p] = "kbd" THEN "woken" ELSE k.proc[p]]
    <3> DEFINE g == [k.kb EXCEPT !.waiting = rest, !.lost = IF k.proc[p] = "kbd" THEN @ ELSE @ + 1]
               pr == [k.proc EXCEPT ![p] = IF @ = "kbd" THEN "woken" ELSE @]
    <3>1. r = [kb |-> g, proc |-> pr]
      BY <2>1
    <3>2. /\ g \in Keyboards /\ g.is_key = k.kb.is_key /\ SameContents(k.kb, g)
          /\ g.lost = IF k.proc[p] = "kbd" THEN k.kb.lost ELSE k.kb.lost + 1
      <4>1. k.kb \in Keyboards
        BY <1>2
      <4>2. \A x : LET h == [k.kb EXCEPT !.waiting = rest, !.lost = IF x = "kbd" THEN @ ELSE @ + 1]
                   IN  /\ h \in Keyboards /\ h.is_key = k.kb.is_key /\ SameContents(k.kb, h)
                       /\ h.lost = IF x = "kbd" THEN k.kb.lost ELSE k.kb.lost + 1
        BY <2>4, <4>1, QueueCut
      <4> QED BY <4>2
    <3>3. pr \in [Readers -> States]
      BY <1>2, <2>3 DEF States
    <3>4. pr = [k.proc EXCEPT ![p] = IF k.proc[p] = "kbd" THEN "woken" ELSE k.proc[p]]
      BY <1>2, <2>3
    <3> HIDE DEF g, pr
    <3> QED BY <3>1, <3>2, <3>3, <3>4 DEF Consoles
  <2>6. r.proc \in [Readers -> States]
    BY <2>5 DEF Consoles
  <2>7. CASE k.proc[p] = "kbd"
    <3>1. r.proc[p] = "woken" /\ \A q \in Readers \ {p} : r.proc[q] = k.proc[q]
      BY <1>2, <2>3, <2>5, <2>7
    <3>2. Woken(r.proc) = Woken(k.proc) + 1
      BY <1>2, <2>3, <2>6, <2>7, <3>1, WokenMore
    <3>3. Tokens(r.kb, r.proc) = Tokens(k.kb, k.proc) + 1
      <4>1. r.kb.is_key = k.kb.is_key /\ r.kb.lost = k.kb.lost
        BY <2>5, <2>7
      <4>2. k.kb.is_key \in Nat /\ k.kb.lost \in Nat /\ Woken(k.proc) \in Nat
        BY <1>2
      <4> QED BY <3>2, <4>1, <4>2 DEF Tokens
    <3> QED BY <2>3, <2>5, <2>7, <3>1, <3>3 DEF LetsThrough, r
  <2>8. CASE k.proc[p] # "kbd"
    <3>1. r.proc = k.proc
      BY <1>2, <2>3, <2>5, <2>8
    <3>3. Tokens(r.kb, r.proc) = Tokens(k.kb, k.proc) + 1
      <4>1. r.kb.is_key = k.kb.is_key /\ r.kb.lost = k.kb.lost + 1
        BY <2>5, <2>8
      <4>2. k.kb.is_key \in Nat /\ k.kb.lost \in Nat /\ Woken(k.proc) \in Nat
        BY <1>2
      <4> QED BY <3>1, <4>1, <4>2 DEF Tokens
    <3> QED BY <2>5, <3>1, <3>3 DEF LetsThrough, r
  <2> QED BY <2>7, <2>8
<1> QED BY <1>4, <1>5

\* A character that is stored brings its token.
LEMMA StoreKeeps ==
  ASSUME NEW k \in Consoles, NEW c \in Chars, Kept(k.kb, k.proc)
  PROVE  /\ Store(k, c) \in Consoles /\ Kept(Store(k, c).kb, Store(k, c).proc)
         /\ LetsThrough(k.proc, Store(k, c).proc)
<1> DEFINE put    == [k EXCEPT !.kb = [k.kb EXCEPT !.buffer[k.kb.write] = c]]
           posted == sem_post(put)
           r      == [posted EXCEPT !.kb = [posted.kb EXCEPT !.write = (@ + 1) % BUFFER_SIZE,
                                                             !.unread = Append(@, c)]]
<1>1. Store(k, c) = r
  BY DEF Store
<1>2. k.kb \in Keyboards /\ k.proc \in [Readers -> States]
  BY DEF Consoles
<1>3. /\ put \in Consoles /\ put.proc = k.proc /\ put.kb.read = k.kb.read /\ put.kb.write = k.kb.write
      /\ put.kb.is_key = k.kb.is_key /\ put.kb.lost = k.kb.lost /\ put.kb.unread = k.kb.unread
      /\ put.kb.buffer = [k.kb.buffer EXCEPT ![k.kb.write] = c]
  <2> DEFINE g == [k.kb EXCEPT !.buffer[k.kb.write] = c]
  <2>1. /\ g \in Keyboards /\ g.read = k.kb.read /\ g.write = k.kb.write /\ g.is_key = k.kb.is_key
        /\ g.lost = k.kb.lost /\ g.unread = k.kb.unread /\ g.buffer = [k.kb.buffer EXCEPT ![k.kb.write] = c]
    BY <1>2 DEF Keyboards
  <2> HIDE DEF g
  <2>2. put = [k EXCEPT !.kb = g]
    BY DEF g
  <2> HIDE DEF put
  <2> QED BY <1>2, <2>1, <2>2 DEF Consoles
<1> HIDE DEF put
<1>4. /\ posted \in Consoles /\ LetsThrough(k.proc, posted.proc)
      /\ Tokens(posted.kb, posted.proc) = Tokens(put.kb, put.proc) + 1
      /\ posted.kb.read = k.kb.read /\ posted.kb.write = k.kb.write /\ posted.kb.unread = k.kb.unread
      /\ posted.kb.buffer = [k.kb.buffer EXCEPT ![k.kb.write] = c]
  BY <1>3, sem_postMakesOne DEF SameContents
<1>5. Tokens(put.kb, put.proc) = Tokens(k.kb, k.proc)
  BY <1>3 DEF Tokens
<1> HIDE DEF posted
<1>6. posted.kb \in Keyboards /\ posted.proc \in [Readers -> States]
  BY <1>4 DEF Consoles
<1>7. (k.kb.write + 1) % BUFFER_SIZE \in Places /\ Append(k.kb.unread, c) \in Seq(Chars)
  <2>1. k.kb.write \in Int /\ k.kb.unread \in Seq(Chars)
    BY <1>2, TokensNat
  <2>2. k.kb.write + 1 \in Int
    BY <2>1
  <2> QED BY <2>1, <2>2, PlaceOf, AppendProperties
<1>8. /\ r \in Consoles /\ r.proc = posted.proc /\ r.kb.read = k.kb.read
      /\ r.kb.write = (k.kb.write + 1) % BUFFER_SIZE
      /\ r.kb.is_key = posted.kb.is_key /\ r.kb.lost = posted.kb.lost
      /\ r.kb.buffer = [k.kb.buffer EXCEPT ![k.kb.write] = c] /\ r.kb.unread = Append(k.kb.unread, c)
  <2> DEFINE w == (k.kb.write + 1) % BUFFER_SIZE
             u == Append(k.kb.unread, c)
             g == [posted.kb EXCEPT !.write = (@ + 1) % BUFFER_SIZE, !.unread = Append(@, c)]
  <2>1. r = [posted EXCEPT !.kb = g]
    OBVIOUS
  <2> HIDE DEF r, w, u
  <2>2. /\ g \in Keyboards /\ g.read = k.kb.read /\ g.write = w /\ g.is_key = posted.kb.is_key
        /\ g.lost = posted.kb.lost /\ g.buffer = posted.kb.buffer /\ g.unread = u
    <3>1. g = [posted.kb EXCEPT !.write = w, !.unread = u]
      BY <1>4 DEF w, u
    <3>2. w \in Places /\ u \in Seq(Chars)
      BY <1>7 DEF w, u
    <3> HIDE DEF g
    <3> QED BY <1>4, <1>6, <3>1, <3>2 DEF Keyboards
  <2> HIDE DEF g
  <2> QED BY <1>4, <1>6, <2>1, <2>2 DEF Consoles, w, u
<1> HIDE DEF r
<1>9. Tokens(r.kb, r.proc) = Tokens(k.kb, k.proc) + 1
  BY <1>4, <1>5, <1>8 DEF Tokens
<1>10. r.kb \in Keyboards /\ r.proc \in [Readers -> States]
  BY <1>8 DEF Consoles
<1>11. Kept(r.kb, r.proc)
  BY <1>2, <1>8, <1>9, <1>10, KeptStored
<1> QED BY <1>1, <1>4, <1>8, <1>11

\* The steps of a fold of Store.
StoreRun(k, cs, n, V) ==
  \E r : /\ r[0] = k /\ r[n] = FoldLeft(Store, k, cs) /\ \A i \in 0..n : r[i] \in V
         /\ \A i \in 0..n - 1 : r[i + 1] = Store(r[i], cs[i + 1])

LEMMA StoreSteps ==
  ASSUME NEW n \in Nat, NEW cs, DOMAIN cs = 1..n, NEW V, NEW k \in V,
         \A v \in V : \A i \in 1..n : Store(v, cs[i]) \in V
  PROVE  StoreRun(k, cs, n, V)
<1> DEFINE S == 1..n
           A(f) == [s \in SUBSET S |-> IF s = {} THEN k ELSE Store(f[s \ {Max(s)}], cs[Max(s)])]
           z == CHOOSE f : f = A(f)
           F == [x \in V \X S |-> Store(x[1], cs[x[2]])]
           r == [i \in 0..n |-> z[1..i]]
<1>1. FoldLeft(Store, k, cs) = z[S]
  BY DEF FoldLeft, MapThenFoldSet
<1>2. F \in [V \X S -> V]
  OBVIOUS
<1>3. PICK f : IsFold(f, F, k, S) /\ \A s \in SUBSET S : f[s] \in V
  <2>1. S = 1..n /\ k \in V /\ n \in Nat /\ F \in [V \X S -> V]
    BY <1>2
  <2> HIDE DEF A, z, F, S
  <2>2. Folds(F, k, S, V)
    BY <2>1, FoldExists
  <2> QED BY <2>2 DEF Folds
<1>4. f = A(f)
  <2>1. ASSUME NEW s \in SUBSET S, s # {}
        PROVE  F[<<f[s \ {Max(s)}], Max(s)>>] = Store(f[s \ {Max(s)}], cs[Max(s)])
    <3>1. s \subseteq 0..n
      OBVIOUS
    <3>2. Max(s) \in S
      BY <2>1, <3>1, MaxIn
    <3>3. f[s \ {Max(s)}] \in V
      BY <1>3
    <3> QED BY <3>2, <3>3
  <2> HIDE DEF F, S
  <2> QED BY <1>3, <2>1 DEF IsFold
<1>5. z = A(z)
  BY <1>4
<1> HIDE DEF z
<1>6. r[0] = k /\ r[n] = FoldLeft(Store, k, cs)
  <2>1. 1..0 = {} /\ {} \in SUBSET S
    OBVIOUS
  <2>2. z[{}] = k
    BY <1>5, <2>1
  <2> QED BY <1>1, <2>1, <2>2
<1>7. ASSUME NEW i \in 0..n - 1 PROVE r[i + 1] = Store(r[i], cs[i + 1])
  <2>1. /\ Max(1..(i + 1)) = i + 1 /\ (1..(i + 1)) \ {i + 1} = 1..((i + 1) - 1) /\ 1..(i + 1) # {}
    BY Beginnings
  <2>2. (i + 1) - 1 = i /\ 1..(i + 1) \in SUBSET S /\ i \in 0..n /\ i + 1 \in 0..n
    OBVIOUS
  <2>3. z[1..(i + 1)] = Store(z[1..i], cs[i + 1])
    BY <1>5, <2>1, <2>2
  <2> QED BY <2>2, <2>3
<1> HIDE DEF r, A, F
<1>8. \A i \in 0..n : r[i] \in V
  <2>1. ASSUME NEW i \in 0..n - 1, r[i] \in V PROVE r[i + 1] \in V
    <3>1. i + 1 \in 1..n
      OBVIOUS
    <3> QED BY <1>7, <2>1, <3>1
  <2>2. r[0] \in V
    BY <1>6
  <2> QED BY <2>1, <2>2, Along
<1> QED BY <1>6, <1>7, <1>8 DEF StoreRun

\* A key of any kind keeps the balance of characters and tokens.
LEMMA loadBufferKeeps ==
  ASSUME NEW g \in Keyboards, NEW pr \in [Readers -> States], NEW key \in Keys, Kept(g, pr)
  PROVE  LET r == loadBuffer([kb |-> g, proc |-> pr], key)
         IN  r \in Consoles /\ Kept(r.kb, r.proc) /\ LetsThrough(pr, r.proc)
<1> DEFINE k == [kb |-> g, proc |-> pr]
           cs == Characters(g, key)
           V == {v \in Consoles : Kept(v.kb, v.proc) /\ LetsThrough(pr, v.proc)}
<1>1. k \in V
  BY DEF Consoles, LetsThrough
<1>2. ASSUME NEW v \in V, NEW c \in Chars PROVE Store(v, c) \in V
  <2>1. Store(v, c) \in Consoles /\ Kept(Store(v, c).kb, Store(v, c).proc) /\ LetsThrough(v.proc, Store(v, c).proc)
    BY StoreKeeps
  <2>2. LetsThrough(pr, Store(v, c).proc)
    BY <2>1 DEF LetsThrough
  <2> QED BY <2>1, <2>2
<1>3. DOMAIN cs = 1..Len(cs) /\ Len(cs) \in Nat /\ \A i \in DOMAIN cs : cs[i] \in Chars
  BY CharactersTyped
<1>4. loadBuffer(k, key) = FoldLeft(Store, k, cs)
  BY DEF loadBuffer
<1> HIDE DEF V, cs
<1>5. \A v \in V : \A i \in 1..Len(cs) : Store(v, cs[i]) \in V
  BY <1>2, <1>3
<1>6. FoldLeft(Store, k, cs) \in V
  <2>1. StoreRun(k, cs, Len(cs), V)
    BY <1>1, <1>3, <1>5, StoreSteps
  <2>2. Len(cs) \in 0..Len(cs)
    BY <1>3
  <2> QED BY <2>1, <2>2 DEF StoreRun
<1> QED BY <1>4, <1>6 DEF V


-----------------------------------------------------------------------------
(* The tokens of the keyboard, action by action.                           *)

\* Who may be in the foreground.
Fronts == Readers \cup {NOBODY, FIRST}

TypedIn(g, pr, f) == g \in Keyboards /\ pr \in [Readers -> States] /\ f \in Fronts

\* The inductive invariant of KeysKept.
KeysSound(g, pr, f) == TypedIn(g, pr, f) /\ Kept(g, pr)

LEMMA InitKeys == ASSUME Init PROVE KeysSound(kb, proc, fg)
<1>1. kb = init_keyboard /\ proc = [p \in Readers |-> IF p = SHELL THEN "run" ELSE "none"] /\ fg = SHELL
  BY DEF Init, Readers
<1>2. init_keyboard \in Keyboards
  <2>1. 0 \in Places
    BY KeyboardAssumption DEF Places
  <2>2. <<>> \in Seq(Readers)
    BY EmptySeq
  <2>3. NUL \in Chars
    BY DEF Chars
  <2>4. <<>> \in Seq(Chars)
    BY EmptySeq
  <2> QED BY <2>1, <2>2, <2>3, <2>4 DEF init_keyboard, Keyboards, Places
<1>3. proc \in [Readers -> States]
  BY <1>1 DEF States
<1>4. fg \in Fronts
  BY <1>1, ReadersFinite DEF Fronts
<1>5. Woken(proc) = 0
  <2>1. {p \in DOMAIN proc : proc[p] = "woken"} = {}
    BY <1>1
  <2> QED BY <2>1, FS_EmptySet DEF Woken
<1>6. /\ kb.write = 0 /\ kb.read = 0 /\ kb.is_key = 0 /\ kb.lost = 0 /\ kb.unread = <<>>
  BY <1>1 DEF init_keyboard
<1>7. Kept(kb, proc)
  <2>1. Tokens(kb, proc) = 0
    BY <1>5, <1>6 DEF Tokens
  <2>2. Len(kb.unread) = 0 /\ 1..0 = {}
    BY <1>6
  <2>3. (0 + 0) % BUFFER_SIZE = 0
    BY KeyboardAssumption
  <2> QED BY <1>6, <2>1, <2>2, <2>3 DEF Kept, InBuffer
<1> QED BY <1>1, <1>2, <1>3, <1>4, <1>7 DEF KeysSound, TypedIn

\* A step that neither stores nor takes a character, and lets nobody through.
LEMMA NoKey ==
  ASSUME KeysSound(kb, proc, fg), kb' \in Keyboards, proc' \in [Readers -> States], fg' \in Fronts,
         SameContents(kb, kb'), kb'.is_key = kb.is_key, kb'.lost = kb.lost,
         \A r \in Readers : proc[r] = "woken" <=> proc'[r] = "woken"
  PROVE  KeysSound(kb', proc', fg')
<1>1. Woken(proc') = Woken(proc)
  BY WokenSame DEF KeysSound, TypedIn
<1>2. Tokens(kb', proc') = Tokens(kb, proc)
  BY <1>1 DEF Tokens
<1>3. Kept(kb', proc')
  BY <1>2, KeptSame DEF KeysSound
<1> QED BY <1>3 DEF KeysSound, TypedIn

LEMMA NothingStored ==
  ASSUME KeysSound(kb, proc, fg), UNCHANGED kb, proc' \in [Readers -> States], fg' \in Fronts,
         \A r \in Readers : proc[r] = "woken" <=> proc'[r] = "woken"
  PROVE  KeysSound(kb', proc', fg')
<1>1. kb' \in Keyboards /\ SameContents(kb, kb') /\ kb'.is_key = kb.is_key /\ kb'.lost = kb.lost
  BY DEF KeysSound, TypedIn, SameContents
<1> QED BY <1>1, NoKey

\* The character that is taken, and its token.
LEMMA read_keyboardTakes ==
  ASSUME KeysSound(kb, proc, fg), NEW p \in Readers, read_keyboard(p),
         NEW s \in States, s # "woken", proc' = [proc EXCEPT ![p] = s], fg' = fg
  PROVE  KeysSound(kb', proc', fg')
<1>1. kb \in Keyboards /\ proc \in [Readers -> States] /\ fg \in Fronts /\ Kept(kb, proc)
  BY DEF KeysSound, TypedIn
<1>2. proc' \in [Readers -> States] /\ proc'[p] = s /\ \A r \in Readers \ {p} : proc'[r] = proc[r]
  BY <1>1
<1>3. (kb.read + 1) % BUFFER_SIZE \in Places /\ SubSeq(kb.unread, 2, Len(kb.unread)) \in Seq(Chars)
  <2>1. kb.read \in Int /\ kb.unread \in Seq(Chars) /\ Len(kb.unread) \in Nat
    BY <1>1, TokensNat
  <2>2. \A i \in 2..Len(kb.unread) : kb.unread[i] \in Chars
    BY <2>1, ElementOfSeq
  <2>3. SubSeq(kb.unread, 2, Len(kb.unread)) \in Seq(Chars)
    BY <2>1, <2>2, SubSeqProperties
  <2>4. kb.read + 1 \in Int
    BY <2>1
  <2> QED BY <2>3, <2>4, PlaceOf
<1> DEFINE rest == SubSeq(kb.unread, 2, Len(kb.unread))
           next == (kb.read + 1) % BUFFER_SIZE
           Takes1(h) == /\ h \in Keyboards /\ h.lost = kb.lost /\ h.write = kb.write
                        /\ h.buffer = kb.buffer /\ h.read = next /\ h.unread = rest
<1>4. Woken(proc) \in Nat /\ Woken(proc') \in Nat
  BY <1>1, <1>2, WokenNat
<1>5. kb.is_key \in Nat /\ kb.lost \in Nat
  BY <1>1 DEF Keyboards
<1>6. CASE proc[p] = "run" /\ kb.is_key > 0 /\ kb' = Taken([kb EXCEPT !.is_key = @ - 1])
  <2>1. Takes1(kb') /\ kb'.is_key = kb.is_key - 1
    <3> DEFINE g == [kb EXCEPT !.is_key = @ - 1]
    <3>1. kb.is_key - 1 \in Nat
      BY <1>5, <1>6
    <3>2. /\ g \in Keyboards /\ g.is_key = kb.is_key - 1 /\ g.lost = kb.lost /\ g.write = kb.write
          /\ g.read = kb.read /\ g.buffer = kb.buffer /\ g.unread = kb.unread
      BY <1>1, <3>1 DEF Keyboards
    <3> HIDE DEF g
    <3>3. kb' = [g EXCEPT !.read = next, !.unread = rest]
      BY <1>6, <3>2 DEF Taken, g
    <3> HIDE DEF next, rest
    <3>4. next \in Places /\ rest \in Seq(Chars)
      BY <1>3 DEF next, rest
    <3> QED BY <3>2, <3>3, <3>4 DEF Keyboards
  <2>2. Woken(proc') = Woken(proc)
    <3>1. \A r \in Readers : proc[r] = "woken" <=> proc'[r] = "woken"
      BY <1>2, <1>6
    <3> QED BY <1>1, <1>2, <3>1, WokenSame
  <2>3. Tokens(kb, proc) = Tokens(kb', proc') + 1
    BY <1>4, <1>5, <2>1, <2>2 DEF Tokens
  <2>4. Kept(kb', proc')
    BY <1>1, <1>2, <2>1, <2>3, KeptTaken
  <2> QED BY <1>1, <1>2, <2>1, <2>4 DEF KeysSound, TypedIn
<1>7. CASE proc[p] = "woken" /\ kb' = Taken(kb)
  <2>1. Takes1(kb') /\ kb'.is_key = kb.is_key
    <3>1. kb' = [kb EXCEPT !.read = next, !.unread = rest]
      BY <1>7 DEF Taken
    <3> HIDE DEF next, rest
    <3>2. next \in Places /\ rest \in Seq(Chars)
      BY <1>3 DEF next, rest
    <3> QED BY <1>1, <3>1, <3>2 DEF Keyboards
  <2>2. Woken(proc) = Woken(proc') + 1
    <3>1. proc'[p] # "woken" /\ \A r \in Readers \ {p} : proc[r] = proc'[r]
      BY <1>2
    <3> QED BY <1>1, <1>2, <1>7, <3>1, WokenMore
  <2>3. Tokens(kb, proc) = Tokens(kb', proc') + 1
    BY <1>4, <1>5, <2>1, <2>2 DEF Tokens
  <2>4. Kept(kb', proc')
    BY <1>1, <1>2, <2>1, <2>3, KeptTaken
  <2> QED BY <1>1, <1>2, <2>1, <2>4 DEF KeysSound, TypedIn
<1> QED BY <1>6, <1>7 DEF read_keyboard

LEMMA updateTyped ==
  ASSUME NEW g \in Keyboards, NEW key \in Keys, NEW isPressed \in BOOLEAN
  PROVE  LET h == updateKeyboardStatus(g, key, isPressed)
         IN  h \in Keyboards /\ h.is_key = g.is_key /\ h.lost = g.lost /\ SameContents(g, h)
<1> DEFINE h == updateKeyboardStatus(g, key, isPressed)
<1>1. \/ h = [g EXCEPT !.shift = isPressed] \/ h = [g EXCEPT !.ctrl = isPressed]
      \/ h = [g EXCEPT !.caps = ~@] \/ h = g
  BY DEF updateKeyboardStatus
<1>2. [g EXCEPT !.caps = ~@] \in Keyboards
  BY DEF Keyboards
<1> HIDE DEF h
<1>3. h \in Keyboards /\ h.is_key = g.is_key /\ h.lost = g.lost /\ SameContents(g, h)
  BY <1>1, <1>2 DEF Keyboards, SameContents
<1> QED BY <1>3 DEF h

\* A reader that ends with its token loses it.
LEMMA EndsKeys ==
  ASSUME KeysSound(kb, proc, fg), NEW p \in Readers, remove_from_processes_list(p),
         proc' \in [Readers -> States], proc'[p] # "woken",
         \A r \in Readers \ {p} : proc'[r] = "woken" <=> proc[r] = "woken"
  PROVE  KeysSound(kb', proc', fg')
<1>1. kb \in Keyboards /\ proc \in [Readers -> States] /\ fg \in Fronts /\ Kept(kb, proc)
  BY DEF KeysSound, TypedIn
<1>2. fg' \in Fronts
  BY <1>1, ReadersFinite DEF remove_from_processes_list, Parent, Fronts
<1>3. kb.is_key \in Nat /\ kb.lost \in Nat /\ Woken(proc) \in Nat
  BY <1>1, WokenNat DEF Keyboards
<1>4. CASE proc[p] = "woken"
  <2>1. kb' = [kb EXCEPT !.lost = @ + 1]
    BY <1>4 DEF remove_from_processes_list
  <2>2. kb' \in Keyboards /\ kb'.is_key = kb.is_key /\ kb'.lost = kb.lost + 1 /\ SameContents(kb, kb')
    BY <1>1, <1>3, <2>1 DEF Keyboards, SameContents
  <2>3. Woken(proc) = Woken(proc') + 1 /\ Woken(proc') \in Nat
    BY <1>1, <1>4, WokenMore, WokenNat
  <2>4. Tokens(kb', proc') = Tokens(kb, proc)
    BY <1>3, <2>2, <2>3 DEF Tokens
  <2>5. Kept(kb', proc')
    BY <1>1, <2>2, <2>4, KeptSame
  <2> QED BY <1>2, <2>2, <2>5 DEF KeysSound, TypedIn
<1>5. CASE proc[p] # "woken"
  <2>1. kb' = kb /\ \A r \in Readers : proc[r] = "woken" <=> proc'[r] = "woken"
    BY <1>5 DEF remove_from_processes_list
  <2> QED BY <1>2, <2>1, NothingStored
<1> QED BY <1>4, <1>5

LEMMA CtrlCKeys ==
  ASSUME KeysSound(kb, proc, fg), CtrlC
  PROVE  KeysSound(kb', proc', fg')
<1>1. kb \in Keyboards /\ proc \in [Readers -> States] /\ fg \in Fronts /\ fg # NOBODY
  BY DEF KeysSound, TypedIn, CtrlC
<1>2. CASE fg < SHELL
  <2>1. fg \in Int /\ ~(fg >= SHELL)
    BY <1>1, <1>2, ReadersFinite DEF Fronts, FIRST, SHELL
  <2>2. kb' = kb /\ proc' = proc /\ fg' = fg
    BY <2>1 DEF CtrlC
  <2>3. \A r \in Readers : proc[r] = "woken" <=> proc'[r] = "woken"
    BY <2>2
  <2> QED BY <1>1, <2>2, <2>3, NothingStored
<1>3. CASE fg >= SHELL
  <2>1. fg \in Readers
    BY <1>1, <1>3 DEF Fronts, FIRST, SHELL
  <2>2. remove_from_processes_list(fg) /\ proc' = [proc EXCEPT ![fg] = "none"]
    BY <1>3, <2>1, ReadersFinite DEF CtrlC, SHELL
  <2>3. proc' \in [Readers -> States] /\ proc'[fg] # "woken" /\ \A r \in Readers \ {fg} : proc'[r] = proc[r]
    BY <1>1, <2>1, <2>2 DEF States
  <2> QED BY <2>1, <2>2, <2>3, EndsKeys
<1>4. fg \in Int
  BY <1>1, ReadersFinite DEF Fronts, FIRST
<1> QED BY <1>2, <1>3, <1>4 DEF SHELL

LEMMA int_21Keys ==
  ASSUME KeysSound(kb, proc, fg), NEW key \in Keys, NEW isPressed \in BOOLEAN, int_21(key, isPressed)
  PROVE  KeysSound(kb', proc', fg')
<1> DEFINE status == updateKeyboardStatus(kb, key, isPressed)
           k == loadBuffer([kb |-> status, proc |-> proc], key)
<1>1. kb \in Keyboards /\ proc \in [Readers -> States] /\ fg \in Fronts /\ Kept(kb, proc)
  BY DEF KeysSound, TypedIn
<1>2. /\ status \in Keyboards /\ status.is_key = kb.is_key /\ status.lost = kb.lost
      /\ SameContents(kb, status)
  BY <1>1, updateTyped
<1>3. \/ CtrlC
      \/ kb' = k.kb /\ proc' = k.proc /\ fg' = fg
      \/ kb' = status /\ proc' = proc /\ fg' = fg
  BY DEF int_21
<1> HIDE DEF status
<1>4. Kept(status, proc)
  <2>1. Tokens(status, proc) = Tokens(kb, proc)
    BY <1>2 DEF Tokens
  <2> QED BY <1>1, <1>2, <2>1, KeptSame
<1>5. k \in Consoles /\ Kept(k.kb, k.proc)
  BY <1>1, <1>2, <1>4, loadBufferKeeps
<1> HIDE DEF k
<1>6. CASE CtrlC
  BY <1>6, CtrlCKeys
<1>7. CASE kb' = k.kb /\ proc' = k.proc /\ fg' = fg
  BY <1>1, <1>5, <1>7 DEF Consoles, KeysSound, TypedIn
<1>8. CASE kb' = status /\ proc' = proc /\ fg' = fg
  BY <1>1, <1>2, <1>4, <1>8 DEF KeysSound, TypedIn
<1> QED BY <1>3, <1>6, <1>7, <1>8


LEMMA BlocksKeys ==
  ASSUME KeysSound(kb, proc, fg), NEW p \in Readers, Blocks(p)
  PROVE  KeysSound(kb', proc', fg')
<1>1. kb \in Keyboards /\ proc \in [Readers -> States] /\ fg \in Fronts
  BY DEF KeysSound, TypedIn
<1>2. proc[p] = "run" /\ proc' = [proc EXCEPT ![p] = "kbd"] /\ kb' = [kb EXCEPT !.waiting = Append(@, p)] /\ fg' = fg
  BY DEF Blocks
<1>3. Append(kb.waiting, p) \in Seq(Readers)
  BY <1>1, AppendProperties DEF Keyboards
<1>4. kb' \in Keyboards /\ kb'.is_key = kb.is_key /\ kb'.lost = kb.lost /\ SameContents(kb, kb')
  BY <1>1, <1>2, <1>3 DEF Keyboards, SameContents
<1>5. proc' \in [Readers -> States] /\ \A r \in Readers : proc[r] = "woken" <=> proc'[r] = "woken"
  BY <1>1, <1>2 DEF States
<1> QED BY <1>1, <1>2, <1>4, <1>5, NoKey

LEMMA ShellKeyKeys ==
  ASSUME KeysSound(kb, proc, fg), ShellKey
  PROVE  KeysSound(kb', proc', fg')
<1>1. read_keyboard(SHELL) /\ fg' = fg
  BY DEF ShellKey
<1>2. PICK s \in {"run", "command"} : proc' = [proc EXCEPT ![SHELL] = s]
  BY DEF ShellKey, Edit
<1>3. s \in States /\ s # "woken" /\ SHELL \in Readers
  BY <1>2, ReadersFinite DEF States
<1> QED BY <1>1, <1>2, <1>3, read_keyboardTakes

\* What a command does to the readers: the shell goes on, there may be one more, or
\* one less.
Started(next) ==
  \E p \in Kids : /\ proc[p] = "none" /\ proc' = [proc EXCEPT ![p] = "run", ![SHELL] = next]
                  /\ fg' \in {p, NOBODY} /\ UNCHANGED kb

Ended(next) ==
  \E p \in DOMAIN proc : /\ proc[p] # "none" /\ remove_from_processes_list(p)
                         /\ proc' = [proc EXCEPT ![SHELL] = next, ![p] = "none"]

GoesOn(next) == proc' = [proc EXCEPT ![SHELL] = next] /\ UNCHANGED <<fg, kb>>

LEMMA newComandSteps ==
  ASSUME NEW argv, NEW next, newComand(argv, next)
  PROVE  GoesOn(next) \/ Started(next) \/ Ended(next)
<1>1. ASSUME usr_kill(next) PROVE Ended(next)
  BY <1>1 DEF usr_kill, Ended
<1>2. ASSUME NEW f, usr_create_process(f, next) PROVE Started(next)
  BY <1>2 DEF usr_create_process, Started
<1> QED BY <1>1, <1>2 DEF newComand, GoesOn

LEMMA chekCommandSteps ==
  ASSUME chekCommand
  PROVE  \/ proc[SHELL] = "command" /\ \E next \in {"undefined", "info"} : GoesOn(next)
         \/ /\ proc[SHELL] \in {"command", "right"}
            /\ \E next \in {"wait", "right"} : GoesOn(next) \/ Started(next) \/ Ended(next)
<1> DEFINE args == parseCommand(Text(line))
           bar  == PipePos(args)
<1>1. \/ /\ proc[SHELL] = "command"
         /\ \/ GoesOn("undefined")
            \/ newComand(IF bar = 0 THEN args ELSE SubSeq(args, 1, bar - 1), IF bar = 0 THEN "wait" ELSE "right")
            \/ GoesOn("info")
      \/ proc[SHELL] = "right" /\ newComand(SubSeq(args, bar + 1, Len(args)), "wait")
  BY DEF chekCommand, GoesOn
<1> HIDE DEF args, bar
<1>2. (IF bar = 0 THEN "wait" ELSE "right") \in {"wait", "right"}
  OBVIOUS
<1>3. \/ proc[SHELL] = "command" /\ \E next \in {"undefined", "info"} : GoesOn(next)
      \/ /\ proc[SHELL] \in {"command", "right"}
         /\ \E argv : \E next \in {"wait", "right"} : newComand(argv, next)
  BY <1>1, <1>2
<1> QED BY <1>3, newComandSteps

LEMMA chekCommandKeys ==
  ASSUME KeysSound(kb, proc, fg), chekCommand
  PROVE  KeysSound(kb', proc', fg')
<1>1. kb \in Keyboards /\ proc \in [Readers -> States] /\ fg \in Fronts
  BY DEF KeysSound, TypedIn
<1>2. PICK next \in {"undefined", "wait", "right", "info"} : GoesOn(next) \/ Started(next) \/ Ended(next)
  BY chekCommandSteps
<1>3. next \in States /\ next # "woken"
  BY DEF States
<1>4. proc[SHELL] # "woken" /\ SHELL \in Readers /\ Kids \subseteq Readers /\ SHELL \notin Kids
  BY chekCommandSteps, ReadersFinite
<1>5. CASE GoesOn(next)
  <2>1. proc' \in [Readers -> States] /\ \A r \in Readers : proc[r] = "woken" <=> proc'[r] = "woken"
    BY <1>1, <1>3, <1>4, <1>5 DEF GoesOn
  <2> QED BY <1>1, <1>5, <2>1, NothingStored DEF GoesOn
<1>6. CASE Started(next)
  <2>1. PICK p \in Kids : /\ proc[p] = "none" /\ proc' = [proc EXCEPT ![p] = "run", ![SHELL] = next]
                          /\ fg' \in {p, NOBODY} /\ UNCHANGED kb
    BY <1>6 DEF Started
  <2>2. proc' \in [Readers -> States] /\ \A r \in Readers : proc[r] = "woken" <=> proc'[r] = "woken"
    BY <1>1, <1>3, <1>4, <2>1 DEF States
  <2>3. fg' \in Fronts
    BY <1>4, <2>1 DEF Fronts
  <2> QED BY <2>1, <2>2, <2>3, NothingStored
<1>7. CASE Ended(next)
  <2>1. PICK p \in DOMAIN proc : /\ proc[p] # "none" /\ remove_from_processes_list(p)
                                 /\ proc' = [proc EXCEPT ![SHELL] = next, ![p] = "none"]
    BY <1>7 DEF Ended
  <2>2. p \in Readers
    BY <1>1, <2>1
  <2>3. /\ proc' \in [Readers -> States] /\ proc'[p] # "woken"
        /\ \A r \in Readers \ {p} : proc'[r] = "woken" <=> proc[r] = "woken"
    BY <1>1, <1>3, <1>4, <2>1, <2>2 DEF States
  <2> QED BY <2>1, <2>2, <2>3, EndsKeys
<1> QED BY <1>2, <1>5, <1>6, <1>7

LEMMA NewLineKeys ==
  ASSUME KeysSound(kb, proc, fg), NewLine
  PROVE  KeysSound(kb', proc', fg')
<1>1. kb \in Keyboards /\ proc \in [Readers -> States] /\ fg \in Fronts
  BY DEF KeysSound, TypedIn
<1>2. /\ proc[SHELL] \in {"info", "wait"} /\ proc' = [proc EXCEPT ![SHELL] = "run"]
      /\ UNCHANGED <<fg, kb>>
  BY DEF NewLine
<1>3. proc' \in [Readers -> States] /\ \A r \in Readers : proc[r] = "woken" <=> proc'[r] = "woken"
  BY <1>1, <1>2, ReadersFinite DEF States
<1> QED BY <1>1, <1>2, <1>3, NothingStored

LEMMA KidKeys ==
  ASSUME KeysSound(kb, proc, fg), NEW p \in Kids, Kid(p)
  PROVE  KeysSound(kb', proc', fg')
<1>1. kb \in Keyboards /\ proc \in [Readers -> States] /\ fg \in Fronts
  BY DEF KeysSound, TypedIn
<1>2. p \in Readers /\ SHELL \in Readers
  BY ReadersFinite
<1>3. CASE kb' = kb /\ proc' = proc /\ fg' = fg
  BY <1>3
<1>4. CASE read_keyboard(p) /\ proc' = [proc EXCEPT ![p] = "run"] /\ fg' = fg
  <2>1. "run" \in States
    BY DEF States
  <2> QED BY <1>2, <1>4, <2>1, read_keyboardTakes
<1>5. CASE proc' = [proc EXCEPT ![p] = "none"] /\ remove_from_processes_list(p)
  <2>1. /\ proc' \in [Readers -> States] /\ proc'[p] # "woken"
        /\ \A r \in Readers \ {p} : proc'[r] = "woken" <=> proc[r] = "woken"
    BY <1>1, <1>2, <1>5 DEF States
  <2> QED BY <1>2, <1>5, <2>1, EndsKeys
<1> QED BY <1>3, <1>4, <1>5 DEF Kid

LEMMA NextKeys ==
  ASSUME KeysSound(kb, proc, fg), [Next]_vars
  PROVE  KeysSound(kb', proc', fg')
<1>1. ASSUME NEW key \in Keys, Press(key) PROVE KeysSound(kb', proc', fg')
  BY <1>1, int_21Keys DEF Press
<1>2. ASSUME NEW key \in Keys, Release(key) PROVE KeysSound(kb', proc', fg')
  BY <1>2, int_21Keys DEF Release
<1>3. ASSUME NEW p \in {SHELL} \cup Kids, Blocks(p) PROVE KeysSound(kb', proc', fg')
  <2>1. p \in Readers
    BY DEF Readers
  <2> QED BY <1>3, <2>1, BlocksKeys
<1>4. CASE ShellKey
  BY <1>4, ShellKeyKeys
<1>5. CASE chekCommand
  BY <1>5, chekCommandKeys
<1>6. CASE NewLine
  BY <1>6, NewLineKeys
<1>7. ASSUME NEW p \in Kids, Kid(p) PROVE KeysSound(kb', proc', fg')
  BY <1>7, KidKeys
<1>8. ASSUME NEW q \in late, LatePrompt(q) PROVE KeysSound(kb', proc', fg')
  BY <1>8 DEF LatePrompt
<1>9. CASE UNCHANGED vars
  BY <1>9 DEF vars
<1> QED BY <1>1, <1>2, <1>3, <1>4, <1>5, <1>6, <1>7, <1>8, <1>9 DEF Next

\* Every unread character of the keyboard has one token: in the count of the
\* semaphore is_key, with a reader that was let through, or lost with a reader that
\* ended or on a pid that was used again; and as long as the unread ones fit they are in
\* the buffer, in the order in which they were typed.  So whoever reads, and in whatever
\* order keys, reads and deaths come, the shell's own among them, no reader gets a
\* character twice or before it is stored, and none gets one that is not its turn.
THEOREM TokensFollowKeys == Spec => []KeysKept
<1>1. Init => KeysSound(kb, proc, fg)
  BY InitKeys
<1>2. KeysSound(kb, proc, fg) /\ [Next]_vars => KeysSound(kb, proc, fg)'
  BY NextKeys
<1>3. KeysSound(kb, proc, fg) => KeysKept
  BY KeptIsKept DEF KeysSound, TypedIn, KeysKept, Woken
<1> QED BY <1>1, <1>2, <1>3, PTL DEF Spec


-----------------------------------------------------------------------------
(* Places of the screen.                                                   *)

LEMMA Divided ==
  ASSUME NEW C \in Nat \ {0}, NEW q \in Int, NEW x \in 0..C - 1
  PROVE  (q * C + x) \div C = q /\ (q * C + x) % C = x
<1> DEFINE n == q * C + x
           d == n \div C
           y == n % C
<1>0. q * C \in Int
  OBVIOUS
<1>1. n \in Int
  BY <1>0
<1> HIDE DEF n
<1>2. y \in 0..C - 1 /\ d \in Int /\ n = (C * d) + y
  BY <1>1
<1> HIDE DEF d, y
<1>3. x - y = (d - q) * C
  <2>1. (d - q) * C = (C * d) - (q * C) /\ C * d \in Int
    BY <1>2
  <2>2. x \in Int /\ y \in Int
    BY <1>2
  <2> DEFINE u == C * d
             w == q * C
  <2>3. u \in Int /\ w \in Int /\ n = u + y /\ n = w + x /\ (d - q) * C = u - w
    BY <1>0, <1>2, <2>1 DEF n
  <2> HIDE DEF u, w
  <2> QED BY <2>2, <2>3
<1>4. -C < (d - q) * C /\ (d - q) * C < C
  BY <1>2, <1>3
<1>5. d - q = 0
  <2> DEFINE e == d - q
  <2>1. e \in Int /\ -C < e * C /\ e * C < C
    BY <1>2, <1>4
  <2> HIDE DEF e
  <2>2. e = 0
    BY <2>1
  <2> QED BY <2>2 DEF e
<1>6. x = y
  BY <1>2, <1>3, <1>5
<1>7. d = q
  BY <1>2, <1>5
<1> QED BY <1>6, <1>7 DEF n, d, y

LEMMA Quotient ==
  ASSUME NEW C \in Nat \ {0}, NEW n \in Nat, NEW k \in Nat, n < k * C
  PROVE  n \div C \in 0..k - 1 /\ n % C \in 0..C - 1 /\ n = (C * (n \div C)) + (n % C)
<1> DEFINE d == n \div C
           y == n % C
<1>1. y \in 0..C - 1 /\ d \in Int /\ n = (C * d) + y
  OBVIOUS
<1> HIDE DEF d, y
<1>2. C * d < C * k /\ C * d > C * (-1)
  <2>1. k * C = C * k /\ C * (-1) = -C /\ C * d \in Int /\ C * k \in Int
    BY <1>1
  <2> QED BY <1>1, <2>1
<1>3. d < k /\ d > -1
  BY <1>1, <1>2
<1> QED BY <1>1, <1>3 DEF d, y

\* The place that is written n characters after the first one.
Place(n) == <<1 + n \div COLS, n % COLS>>

\* The places before the last one are on the screen, and are different.
LEMMA PlaceOnScreen ==
  ASSUME NEW n \in Nat, n < (ROWS - 1) * COLS
  PROVE  Place(n) \in Screen /\ \A m \in Nat : Place(m) = Place(n) => m = n
<1>0. COLS \in Nat \ {0} /\ ROWS - 1 \in Nat
  BY VideoAssumption
<1>1. n \div COLS \in 0..(ROWS - 1) - 1 /\ n % COLS \in 0..COLS - 1 /\ n = (COLS * (n \div COLS)) + (n % COLS)
  BY <1>0, Quotient
<1>2. 1 + n \div COLS \in 1..ROWS - 1
  BY <1>0, <1>1
<1>3. Place(n) \in Screen
  BY <1>1, <1>2 DEF Place, Screen
<1>4. ASSUME NEW m \in Nat, Place(m) = Place(n) PROVE m = n
  <2>1. m \div COLS \in Int /\ m = (COLS * (m \div COLS)) + (m % COLS)
    BY <1>0
  <2>2. 1 + m \div COLS = 1 + n \div COLS /\ m % COLS = n % COLS
    BY <1>4 DEF Place
  <2>3. m \div COLS = n \div COLS
    BY <1>1, <2>1, <2>2
  <2> QED BY <1>1, <2>1, <2>2, <2>3
<1> QED BY <1>3, <1>4


-----------------------------------------------------------------------------
(* The screen.                                                             *)

Videos == [x : Int, y : Int, zoom : {1, 2}, cells : [Screen -> Chars], matrix : [Matrix -> Chars]]

\* The cursor goes to another place.
At(v, a, b) == [v EXCEPT !.x = a, !.y = b]

LEMMA Moved ==
  ASSUME NEW v \in Videos, NEW a \in Int, NEW b \in Int
  PROVE  LET w == At(v, a, b)
         IN  w \in Videos /\ w.x = a /\ w.y = b /\ w.zoom = v.zoom /\ w.cells = v.cells /\ w.matrix = v.matrix
<1> DEFINE C == [Screen -> Chars]
           M == [Matrix -> Chars]
           R == [x : Int, y : Int, zoom : {1, 2}, cells : C, matrix : M]
           w == [v EXCEPT !.x = a, !.y = b]
<1>1. v \in R /\ R = Videos
  BY DEF Videos
<1> HIDE DEF C, M
<1>2. w \in R
  BY <1>1
<1>3. w.x = a /\ w.y = b /\ w.zoom = v.zoom /\ w.cells = v.cells /\ w.matrix = v.matrix
  BY <1>1
<1> QED BY <1>1, <1>2, <1>3 DEF At

LEMMA MovedAcross ==
  ASSUME NEW v \in Videos, NEW a
  PROVE  [v EXCEPT !.x = a] = At(v, a, v.y) /\ v.y \in Int /\ v.x \in Int /\ v.zoom \in {1, 2}
BY DEF Videos, At

LEMMA CellsSet ==
  ASSUME NEW v \in Videos, NEW s \in [Screen -> Chars]
  PROVE  LET w == [v EXCEPT !.cells = s]
         IN  w \in Videos /\ w.x = v.x /\ w.y = v.y /\ w.zoom = v.zoom /\ w.cells = s /\ w.matrix = v.matrix
BY DEF Videos

LEMMA MatrixSet ==
  ASSUME NEW v \in Videos, NEW s \in [Matrix -> Chars]
  PROVE  LET w == [v EXCEPT !.matrix = s]
         IN  w \in Videos /\ w.x = v.x /\ w.y = v.y /\ w.zoom = v.zoom /\ w.cells = v.cells /\ w.matrix = s
BY DEF Videos

\* At zoom 1 the cursor is on the screen, and never on its last place.
CursorOn(v) ==
  /\ v.x \in 0..COLS - 1 /\ v.y \in 1..ROWS - 1
  /\ ~(v.x = COLS - 1 /\ v.y = ROWS - 1)

Screens == {v \in Videos : v.zoom = 1 => CursorOn(v)}

\* How many places come before the cursor.
Cursor(v) == (v.y - 1) * COLS + v.x

AtTop(v) == v.x = 0 /\ v.y = 1

LEMMA TopOn == ASSUME NEW v, AtTop(v) PROVE CursorOn(v) /\ Cursor(v) = 0
<1>1. COLS \in Nat /\ COLS >= 2 /\ ROWS \in Nat /\ ROWS >= 3
  BY VideoAssumption
<1>2. (1 - 1) * COLS + 0 = 0
  BY <1>1
<1> QED BY <1>1, <1>2 DEF AtTop, CursorOn, Cursor

LEMMA videoClearTop ==
  ASSUME NEW v \in Videos
  PROVE  LET w == videoClear(v) IN w \in Screens /\ w.zoom = v.zoom /\ AtTop(w)
<1> DEFINE u == clearScreen(v)
           w == videoClear(v)
           m == [m \in Matrix |-> IF m[1] = 0 THEN v.matrix[m] ELSE BLANK]
<1>1. BLANK \in Chars
  BY DEF Chars
<1>2. [c \in Screen |-> BLANK] \in [Screen -> Chars] /\ v.matrix \in [Matrix -> Chars]
  BY <1>1 DEF Videos
<1>3. u \in Videos /\ u.x = 0 /\ u.y = 1 /\ u.zoom = v.zoom
  <2> DEFINE s == [c \in Screen |-> BLANK]
             t == [v EXCEPT !.cells = s]
  <2>1. t \in Videos /\ t.zoom = v.zoom
    BY <1>2, CellsSet
  <2>2. u = At(t, 0, 1)
    BY DEF clearScreen, At
  <2> HIDE DEF t, u
  <2> QED BY <2>1, <2>2, Moved
<1> HIDE DEF u
<1>4. m \in [Matrix -> Chars]
  BY <1>1, <1>2
<1>5. w = [u EXCEPT !.matrix = m]
  BY DEF videoClear, u
<1> HIDE DEF m, w
<1>6. w \in Videos /\ w.x = 0 /\ w.y = 1 /\ w.zoom = v.zoom
  BY <1>3, <1>4, <1>5 DEF Videos
<1> QED BY <1>6, TopOn DEF Screens, AtTop, w

\* What charVideo does at the cursor, before it asks whether the screen is full.
Drawn(v, char) ==
  [v EXCEPT !.cells = [c \in Screen |->
      IF c[1] = v.y /\ c[2] \in v.x..v.x + v.zoom - 1 THEN char ELSE v.cells[c]]]

LEMMA DrawnTyped ==
  ASSUME NEW v \in Videos, NEW char \in Chars
  PROVE  LET d == Drawn(v, char)
         IN  d \in Videos /\ d.x = v.x /\ d.y = v.y /\ d.zoom = v.zoom /\ d.matrix = v.matrix
<1> DEFINE s == [c \in Screen |-> IF c[1] = v.y /\ c[2] \in v.x..v.x + v.zoom - 1 THEN char ELSE v.cells[c]]
           d == Drawn(v, char)
<1>1. s \in [Screen -> Chars]
  BY DEF Videos
<1>2. d = [v EXCEPT !.cells = s]
  BY DEF Drawn
<1> HIDE DEF s, d
<1>3. d \in Videos /\ d.x = v.x /\ d.y = v.y /\ d.zoom = v.zoom /\ d.matrix = v.matrix
  BY <1>1, <1>2 DEF Videos
<1> QED BY <1>3 DEF d

LEMMA DrawnCell ==
  ASSUME NEW v \in Videos, NEW char \in Chars, v.zoom = 1
  PROVE  Drawn(v, char).cells = [v.cells EXCEPT ![<<v.y, v.x>>] = char]
<1> DEFINE s == [c \in Screen |-> IF c[1] = v.y /\ c[2] \in v.x..v.x + v.zoom - 1 THEN char ELSE v.cells[c]]
           d == Drawn(v, char)
           t == [v.cells EXCEPT ![<<v.y, v.x>>] = char]
<1>1. d = [v EXCEPT !.cells = s]
  BY DEF Drawn
<1>2. v.cells \in [Screen -> Chars] /\ v.x \in Int /\ v.y \in Int
  BY DEF Videos
<1>3. ASSUME NEW c \in Screen PROVE s[c] = t[c]
  <2>1. c = <<c[1], c[2]>> /\ c[1] \in Int /\ c[2] \in Int
    BY VideoAssumption DEF Screen
  <2>2. c[2] \in v.x..v.x + v.zoom - 1 <=> c[2] = v.x
    BY <1>2, <2>1
  <2>3. c = <<v.y, v.x>> <=> c[1] = v.y /\ c[2] = v.x
    BY <2>1
  <2>4. s[c] = IF c = <<v.y, v.x>> THEN char ELSE v.cells[c]
    BY <2>2, <2>3
  <2>5. t[c] = IF c = <<v.y, v.x>> THEN char ELSE v.cells[c]
    BY <1>2
  <2> QED BY <2>4, <2>5
<1> HIDE DEF d
<1>4. s \in [Screen -> Chars] /\ t \in [Screen -> Chars]
  BY <1>2
<1>5. d.cells = s
  BY <1>1 DEF Videos
<1>6. s = t
  <2> HIDE DEF s, t
  <2> QED BY <1>3, <1>4
<1> QED BY <1>5, <1>6 DEF d

\* charVideo goes one place on, and clears the screen when that is the last one.
Advanced(v, char, e) ==
  LET d == Drawn(v, char)
  IN  IF v.x > COLS \/ v.y >= ROWS THEN v
      ELSE IF v.x + v.zoom >= COLS /\ e THEN At(d, 0, v.y + v.zoom)
      ELSE At(d, v.x + v.zoom, v.y)

LEMMA charVideoAdvances ==
  ASSUME NEW v \in Videos, NEW char \in Chars, NEW e \in BOOLEAN
  PROVE  LET n == Advanced(v, char, e)
         IN  /\ n \in Videos /\ n.zoom = v.zoom /\ n.matrix = v.matrix
             /\ charVideo(v, char, e) = IF n.x >= COLS - 1 /\ n.y >= ROWS - 1 THEN videoClear(n) ELSE n
<1> DEFINE d == Drawn(v, char)
           n == Advanced(v, char, e)
           a == At(d, 0, v.y + v.zoom)
           b == At(d, v.x + v.zoom, v.y)
<1>1. d \in Videos /\ d.x = v.x /\ d.y = v.y /\ d.zoom = v.zoom /\ d.matrix = v.matrix
  BY DrawnTyped
<1>2. n = IF v.x > COLS \/ v.y >= ROWS THEN v ELSE IF v.x + v.zoom >= COLS /\ e THEN a ELSE b
  BY DEF Advanced
<1>3. charVideo(v, char, e) = IF n.x >= COLS - 1 /\ n.y >= ROWS - 1 THEN videoClear(n) ELSE n
  <2> DEFINE p == [d EXCEPT !.x = 0, !.y = @ + v.zoom]
             q == [d EXCEPT !.x = @ + v.zoom]
             m == IF v.x > COLS \/ v.y >= ROWS THEN v ELSE IF v.x + v.zoom >= COLS /\ e THEN p ELSE q
  <2>1. charVideo(v, char, e) = IF m.x >= COLS - 1 /\ m.y >= ROWS - 1 THEN videoClear(m) ELSE m
    BY DEF charVideo, Drawn
  <2> HIDE DEF d
  <2>2. p = a
    BY <1>1 DEF At
  <2>3. q = b
    BY <1>1, MovedAcross
  <2> HIDE DEF a, b, p, q, n
  <2>4. m = n
    BY <1>2, <2>2, <2>3
  <2> HIDE DEF m
  <2> QED BY <2>1, <2>4
<1>4. v.x \in Int /\ v.y \in Int /\ v.zoom \in Int
  BY DEF Videos
<1> HIDE DEF d
<1>5. a \in Videos /\ a.zoom = v.zoom /\ a.matrix = v.matrix
  BY <1>1, <1>4, Moved
<1>6. b \in Videos /\ b.zoom = v.zoom /\ b.matrix = v.matrix
  BY <1>1, <1>4, Moved
<1> HIDE DEF a, b, n
<1>7. n \in Videos /\ n.zoom = v.zoom /\ n.matrix = v.matrix
  BY <1>2, <1>5, <1>6
<1> QED BY <1>3, <1>7 DEF n

LEMMA charVideoTyped ==
  ASSUME NEW v \in Videos, NEW char \in Chars, NEW e \in BOOLEAN
  PROVE  charVideo(v, char, e) \in Videos /\ charVideo(v, char, e).zoom = v.zoom
<1> DEFINE n == Advanced(v, char, e)
<1>1. /\ n \in Videos /\ n.zoom = v.zoom
      /\ charVideo(v, char, e) = IF n.x >= COLS - 1 /\ n.y >= ROWS - 1 THEN videoClear(n) ELSE n
  BY charVideoAdvances
<1> HIDE DEF n
<1>2. videoClear(n) \in Screens /\ videoClear(n).zoom = n.zoom
  BY <1>1, videoClearTop
<1> QED BY <1>1, <1>2 DEF Screens

\* A character goes to the place of the cursor, and the cursor to the next one,
\* unless that is the last one, which clears the screen.
LEMMA charVideoWrites ==
  ASSUME NEW v \in Videos, NEW char \in Chars, v.zoom = 1, CursorOn(v)
  PROVE  LET w == charVideo(v, char, TRUE)
         IN  /\ w \in Videos /\ w.zoom = 1 /\ CursorOn(w)
             /\ \/ AtTop(w)
                \/ /\ Cursor(w) = Cursor(v) + 1
                   /\ w.cells = [v.cells EXCEPT ![<<v.y, v.x>>] = char]
<1> DEFINE d == Drawn(v, char)
           n == Advanced(v, char, TRUE)
           w == charVideo(v, char, TRUE)
<1>1. /\ n \in Videos /\ n.zoom = 1
      /\ w = IF n.x >= COLS - 1 /\ n.y >= ROWS - 1 THEN videoClear(n) ELSE n
  BY charVideoAdvances
<1>2. w \in Videos /\ w.zoom = 1
  BY charVideoTyped
<1>3. /\ v.x \in 0..COLS - 1 /\ v.y \in 1..ROWS - 1 /\ ~(v.x = COLS - 1 /\ v.y = ROWS - 1)
      /\ COLS \in Nat /\ COLS >= 2 /\ ROWS \in Nat /\ ROWS >= 3
  BY VideoAssumption DEF CursorOn
<1>4. /\ d \in Videos /\ d.cells = [v.cells EXCEPT ![<<v.y, v.x>>] = char]
  BY DrawnTyped, DrawnCell
<1> HIDE DEF d, w, n
<1>5. CASE v.x = COLS - 1
  <2>1. n = At(d, 0, v.y + 1)
    BY <1>3, <1>5 DEF Advanced, d, n
  <2>2. n.x = 0 /\ n.y = v.y + 1 /\ n.cells = d.cells
    <3>1. v.y + 1 \in Int /\ v.y \in Int /\ v.x + 1 \in Int /\ 0 \in Int
      BY <1>3
    <3> QED BY <1>4, <2>1, <3>1, Moved
  <2>3. w = n
    BY <1>1, <1>3, <2>2
  <2>4. CursorOn(w)
    BY <1>3, <1>5, <2>2, <2>3 DEF CursorOn
  <2>5. Cursor(w) = Cursor(v) + 1
    <3> DEFINE r == (v.y - 1) * COLS
    <3>1. (v.y + 1 - 1) * COLS = r + COLS /\ r \in Int
      BY <1>3
    <3>2. Cursor(v) = r + COLS - 1
      BY <1>3, <1>5, <3>1 DEF Cursor
    <3>3. Cursor(w) = r + COLS
      BY <1>3, <2>2, <2>3, <3>1 DEF Cursor
    <3> HIDE DEF r
    <3> QED BY <1>3, <3>1, <3>2, <3>3
  <2> QED BY <1>2, <1>4, <2>2, <2>3, <2>4, <2>5 DEF w
<1>6. CASE v.x # COLS - 1
  <2>1. n = At(d, v.x + 1, v.y)
    BY <1>3, <1>6 DEF Advanced, d, n
  <2>2. n.x = v.x + 1 /\ n.y = v.y /\ n.cells = d.cells
    <3>1. v.y + 1 \in Int /\ v.y \in Int /\ v.x + 1 \in Int /\ 0 \in Int
      BY <1>3
    <3> QED BY <1>4, <2>1, <3>1, Moved
  <2>3. CASE v.x + 1 >= COLS - 1 /\ v.y >= ROWS - 1
    <3>1. w = videoClear(n)
      BY <1>1, <2>2, <2>3
    <3>2. AtTop(w)
      BY <1>1, <3>1, videoClearTop
    <3> QED BY <1>2, <3>2, TopOn DEF w
  <2>4. CASE ~(v.x + 1 >= COLS - 1 /\ v.y >= ROWS - 1)
    <3>1. w = n
      BY <1>1, <2>2, <2>4
    <3>2. CursorOn(w)
      BY <1>3, <1>6, <2>2, <2>4, <3>1 DEF CursorOn
    <3>3. Cursor(w) = Cursor(v) + 1
      <4>1. (v.y - 1) * COLS \in Int
        BY <1>3
      <4> QED BY <1>3, <2>2, <3>1, <4>1 DEF Cursor
    <3> QED BY <1>2, <1>4, <2>2, <3>1, <3>2, <3>3 DEF w
  <2> QED BY <2>3, <2>4
<1> QED BY <1>5, <1>6

LEMMA charVideoOn ==
  ASSUME NEW v \in Screens, NEW char \in Chars
  PROVE  charVideo(v, char, TRUE) \in Screens /\ charVideo(v, char, TRUE).zoom = v.zoom
<1>1. v \in Videos
  BY DEF Screens
<1>2. charVideo(v, char, TRUE) \in Videos /\ charVideo(v, char, TRUE).zoom = v.zoom
  BY <1>1, charVideoTyped
<1>3. v.zoom = 1 => CursorOn(charVideo(v, char, TRUE))
  BY <1>1, charVideoWrites DEF Screens
<1> QED BY <1>2, <1>3 DEF Screens

\* The screen with another character in the matrix.
Noted(v, m, char) == [v EXCEPT !.matrix[m] = char]

LEMMA NotedTyped ==
  ASSUME NEW v \in Videos, NEW m, NEW char \in Chars
  PROVE  LET w == Noted(v, m, char)
         IN  w \in Videos /\ w.x = v.x /\ w.y = v.y /\ w.zoom = v.zoom /\ w.cells = v.cells
<1> DEFINE s == [v.matrix EXCEPT ![m] = char]
<1>1. s \in [Matrix -> Chars]
  BY DEF Videos
<1>2. Noted(v, m, char) = [v EXCEPT !.matrix = s]
  BY DEF Noted
<1> HIDE DEF s
<1> QED BY <1>1, <1>2, MatrixSet

LEMMA NotedOn ==
  ASSUME NEW v \in Screens, NEW m, NEW char \in Chars
  PROVE  Noted(v, m, char) \in Screens /\ Noted(v, m, char).zoom = v.zoom
BY NotedTyped DEF Screens, CursorOn

LEMMA EraseTyped ==
  ASSUME NEW v \in Videos, NEW e \in BOOLEAN
  PROVE  Erase(v, e) \in Videos /\ Erase(v, e).zoom = v.zoom
<1> DEFINE u == Noted(v, Saved(v), BLANK)
           w == charVideo(u, BLANK, e)
<1>1. BLANK \in Chars
  BY DEF Chars
<1>2. u \in Videos /\ u.zoom = v.zoom
  BY <1>1, NotedTyped
<1> HIDE DEF u
<1>3. w \in Videos /\ w.zoom = v.zoom
  BY <1>1, <1>2, charVideoTyped
<1>4. Erase(v, e) = [w EXCEPT !.x = w.x - v.zoom]
  BY DEF Erase, Noted, u
<1> HIDE DEF w
<1>5. Erase(v, e) = At(w, w.x - v.zoom, w.y) /\ w.x \in Int /\ w.y \in Int /\ v.zoom \in Int
  BY <1>3, <1>4, MovedAcross
<1> QED BY <1>3, <1>5, Moved

\* Erase leaves the cursor where it is, unless the character is one that moves it on
\* to another line or clears the screen.
LEMMA EraseCell ==
  ASSUME NEW v \in Videos, NEW e \in BOOLEAN, v.zoom = 1,
         v.x \in 0..COLS - 1, v.y \in 1..ROWS - 1,
         v.x + 1 < COLS \/ ~e, ~(v.x + 1 >= COLS - 1 /\ v.y >= ROWS - 1)
  PROVE  LET w == Erase(v, e)
         IN  w.x = v.x /\ w.y = v.y /\ w.cells = [v.cells EXCEPT ![<<v.y, v.x>>] = BLANK]
<1> DEFINE u == Noted(v, Saved(v), BLANK)
           d == Drawn(u, BLANK)
           n == Advanced(u, BLANK, e)
           w == charVideo(u, BLANK, e)
<1>0. COLS \in Nat /\ COLS >= 2 /\ ROWS \in Nat /\ ROWS >= 3
  BY VideoAssumption
<1>1. BLANK \in Chars
  BY DEF Chars
<1>2. u \in Videos /\ u.x = v.x /\ u.y = v.y /\ u.zoom = 1 /\ u.cells = v.cells
  BY <1>1, NotedTyped
<1>3. Erase(v, e) = [w EXCEPT !.x = w.x - 1]
  BY DEF Erase, Noted
<1> HIDE DEF u
<1>4. d \in Videos /\ d.cells = [v.cells EXCEPT ![<<v.y, v.x>>] = BLANK]
  BY <1>1, <1>2, DrawnTyped, DrawnCell
<1>5. /\ n \in Videos
      /\ w = IF n.x >= COLS - 1 /\ n.y >= ROWS - 1 THEN videoClear(n) ELSE n
  BY <1>1, <1>2, charVideoAdvances
<1>6. n = At(d, v.x + 1, v.y)
  BY <1>0, <1>2 DEF Advanced
<1> HIDE DEF d, n, w
<1>7. v.x + 1 \in Int /\ v.y \in Int /\ (v.x + 1) - 1 = v.x
  BY <1>0
<1>8. n.x = v.x + 1 /\ n.y = v.y /\ n.cells = d.cells
  <2>1. d \in Videos
    BY <1>4
  <2> QED BY <1>6, <1>7, <2>1, Moved
<1>9. w = n
  BY <1>5, <1>8
<1>10. Erase(v, e) = At(n, v.x, v.y) /\ v.x \in Int
  BY <1>3, <1>5, <1>7, <1>8, <1>9, MovedAcross
<1>11. Erase(v, e).x = v.x /\ Erase(v, e).y = v.y /\ Erase(v, e).cells = n.cells
  BY <1>5, <1>7, <1>10, Moved
<1> QED BY <1>4, <1>8, <1>11

LEMMA deleteVideoMoves ==
  ASSUME NEW v \in Videos
  PROVE  deleteVideo(v) =
           IF v.y <= 1 /\ v.x <= 0 THEN v
           ELSE IF v.x >= v.zoom THEN Erase(At(v, v.x - v.zoom, v.y), TRUE)
           ELSE IF v.y - v.zoom < 1 THEN At(v, 0, 1)
           ELSE Erase(At(v, COLS - v.zoom, v.y - v.zoom), FALSE)
<1> DEFINE a == At(v, v.x - v.zoom, v.y)
           b == At(v, 0, 1)
           c == At(v, COLS - v.zoom, v.y - v.zoom)
<1>1. [v EXCEPT !.x = @ - v.zoom] = a
  BY MovedAcross
<1>2. [v EXCEPT !.x = 0, !.y = 1] = b /\ [v EXCEPT !.x = COLS - v.zoom, !.y = @ - v.zoom] = c
  BY DEF At
<1> HIDE DEF a, b, c
<1>3. deleteVideo(v) = IF v.y <= 1 /\ v.x <= 0 THEN v
           ELSE IF v.x >= v.zoom THEN Erase(a, TRUE)
           ELSE IF v.y - v.zoom < 1 THEN b
           ELSE Erase(c, FALSE)
  BY <1>1, <1>2 DEF deleteVideo
<1> QED BY <1>3 DEF a, b, c

LEMMA deleteVideoTyped ==
  ASSUME NEW v \in Videos
  PROVE  deleteVideo(v) \in Videos /\ deleteVideo(v).zoom = v.zoom
<1> DEFINE a == At(v, v.x - v.zoom, v.y)
           b == At(v, 0, 1)
           c == At(v, COLS - v.zoom, v.y - v.zoom)
<1>1. v.x \in Int /\ v.y \in Int /\ v.zoom \in Int /\ COLS \in Int
  BY VideoAssumption DEF Videos
<1>2. a \in Videos /\ a.zoom = v.zoom /\ b \in Videos /\ b.zoom = v.zoom /\ c \in Videos /\ c.zoom = v.zoom
  BY <1>1, Moved
<1>3. deleteVideo(v) \in {v, Erase(a, TRUE), b, Erase(c, FALSE)}
  BY deleteVideoMoves
<1> HIDE DEF a, b, c
<1>4. /\ Erase(a, TRUE) \in Videos /\ Erase(a, TRUE).zoom = v.zoom
      /\ Erase(c, FALSE) \in Videos /\ Erase(c, FALSE).zoom = v.zoom
  BY <1>2, EraseTyped
<1> QED BY <1>2, <1>3, <1>4

\* A deletion undoes what charVideo does: the cursor goes one place back, over the
\* end of a line too, and blanks that place.
LEMMA deleteVideoErases ==
  ASSUME NEW v \in Videos, v.zoom = 1, CursorOn(v)
  PROVE  LET w == deleteVideo(v)
         IN  /\ w \in Videos /\ w.zoom = 1 /\ CursorOn(w)
             /\ \/ AtTop(v) /\ w = v
                \/ /\ Cursor(w) = Cursor(v) - 1
                   /\ w.cells = [v.cells EXCEPT ![<<w.y, w.x>>] = BLANK]
<1> DEFINE w == deleteVideo(v)
<1>1. w \in Videos /\ w.zoom = 1
  BY deleteVideoTyped
<1>2. /\ v.x \in 0..COLS - 1 /\ v.y \in 1..ROWS - 1 /\ ~(v.x = COLS - 1 /\ v.y = ROWS - 1)
      /\ COLS \in Nat /\ COLS >= 2 /\ ROWS \in Nat /\ ROWS >= 3
  BY VideoAssumption DEF CursorOn
<1>3. CASE AtTop(v)
  <2>1. w = v
    BY <1>2, <1>3 DEF AtTop, deleteVideo
  <2> HIDE DEF w
  <2> QED BY <1>1, <1>3, <2>1 DEF w
<1>4. CASE v.x >= 1
  <2> DEFINE a == At(v, v.x - 1, v.y)
  <2>1. w = Erase(At(v, v.x - v.zoom, v.y), TRUE)
    <3>1. ~(v.y <= 1 /\ v.x <= 0) /\ v.x >= v.zoom
      BY <1>2, <1>4
    <3> QED BY <3>1, deleteVideoMoves, Zenon
  <2>2. a \in Videos /\ a.x = v.x - 1 /\ a.y = v.y /\ a.zoom = 1 /\ a.cells = v.cells
    <3>1. v.x - 1 \in Int /\ v.y \in Int
      BY <1>2
    <3> QED BY <3>1, Moved
  <2>3. w = Erase(a, TRUE)
    BY <2>1
  <2> HIDE DEF a, w
  <2>4. w.x = a.x /\ w.y = a.y /\ w.cells = [a.cells EXCEPT ![<<a.y, a.x>>] = BLANK]
    <3>1. a.x \in 0..COLS - 1 /\ a.y \in 1..ROWS - 1 /\ a.x + 1 < COLS /\ ~(a.x + 1 >= COLS - 1 /\ a.y >= ROWS - 1)
      BY <1>2, <1>4, <2>2
    <3> QED BY <2>2, <2>3, <3>1, EraseCell
  <2>5. CursorOn(w)
    BY <1>2, <1>4, <2>2, <2>4 DEF CursorOn
  <2>6. Cursor(w) = Cursor(v) - 1
    <3>1. (v.y - 1) * COLS \in Int
      BY <1>2
    <3> QED BY <1>2, <2>2, <2>4, <3>1 DEF Cursor
  <2> QED BY <1>1, <2>2, <2>4, <2>5, <2>6 DEF w
<1>5. CASE v.x = 0 /\ v.y >= 2
  <2> DEFINE c == At(v, COLS - 1, v.y - 1)
  <2>1. w = Erase(At(v, COLS - v.zoom, v.y - v.zoom), FALSE)
    <3>1. ~(v.y <= 1 /\ v.x <= 0) /\ ~(v.x >= v.zoom) /\ ~(v.y - v.zoom < 1)
      BY <1>2, <1>5
    <3> QED BY <3>1, deleteVideoMoves, Zenon
  <2>2. c \in Videos /\ c.x = COLS - 1 /\ c.y = v.y - 1 /\ c.zoom = 1 /\ c.cells = v.cells
    <3>1. COLS - 1 \in Int /\ v.y - 1 \in Int
      BY <1>2
    <3> QED BY <3>1, Moved
  <2>3. w = Erase(c, FALSE)
    BY <2>1
  <2> HIDE DEF c, w
  <2>4. w.x = c.x /\ w.y = c.y /\ w.cells = [c.cells EXCEPT ![<<c.y, c.x>>] = BLANK]
    <3>1. c.x \in 0..COLS - 1 /\ c.y \in 1..ROWS - 1 /\ ~(c.x + 1 >= COLS - 1 /\ c.y >= ROWS - 1)
      BY <1>2, <1>5, <2>2
    <3> QED BY <2>2, <2>3, <3>1, EraseCell
  <2>5. CursorOn(w)
    BY <1>2, <1>5, <2>2, <2>4 DEF CursorOn
  <2>6. Cursor(w) = Cursor(v) - 1
    <3> DEFINE r == (v.y - 1 - 1) * COLS
    <3>1. (v.y - 1) * COLS = r + COLS /\ r \in Int
      BY <1>2
    <3>2. Cursor(v) = r + COLS
      BY <1>2, <1>5, <3>1 DEF Cursor
    <3>3. Cursor(w) = r + COLS - 1
      BY <1>2, <2>2, <2>4, <3>1 DEF Cursor
    <3> HIDE DEF r
    <3> QED BY <1>2, <3>1, <3>2, <3>3
  <2> QED BY <1>1, <2>2, <2>4, <2>5, <2>6 DEF w
<1> QED BY <1>2, <1>3, <1>4, <1>5 DEF AtTop

LEMMA nlVideoOn ==
  ASSUME NEW v \in Screens
  PROVE  nlVideo(v) \in Screens /\ nlVideo(v).zoom = v.zoom
<1> DEFINE a == At(v, 0, v.y + v.zoom)
<1>1. v \in Videos /\ v.x \in Int /\ v.y \in Int /\ v.zoom \in Int
  BY DEF Screens, Videos
<1>2. a \in Videos /\ a.x = 0 /\ a.y = v.y + v.zoom /\ a.zoom = v.zoom
  BY <1>1, Moved
<1>3. nlVideo(v) = IF v.y < ROWS - v.zoom THEN a ELSE videoClear(v)
  BY DEF nlVideo, At
<1> HIDE DEF a
<1>4. CASE v.y < ROWS - v.zoom
  <2>1. v.zoom = 1 => CursorOn(a)
    BY <1>1, <1>2, <1>4, VideoAssumption DEF Screens, CursorOn
  <2> QED BY <1>2, <1>3, <1>4, <2>1 DEF Screens
<1>5. CASE ~(v.y < ROWS - v.zoom)
  BY <1>1, <1>3, <1>5, videoClearTop
<1> QED BY <1>4, <1>5

LEMMA ImprimeOn ==
  ASSUME NEW v \in Screens, NEW char \in Chars
  PROVE  Imprime(v, char) \in Screens /\ Imprime(v, char).zoom = v.zoom
<1>1. CASE char = "nl"
  BY <1>1, nlVideoOn DEF Imprime
<1>2. CASE char = "del"
  <2>1. deleteVideo(v) \in Screens /\ deleteVideo(v).zoom = v.zoom
    BY deleteVideoTyped, deleteVideoErases DEF Screens
  <2> QED BY <1>2, <2>1 DEF Imprime
<1>3. CASE char # "nl" /\ char # "del"
  <2> DEFINE u == Noted(v, Saved(v), char)
  <2>1. u \in Screens /\ u.zoom = v.zoom
    BY NotedOn
  <2>2. Imprime(v, char) = charVideo(u, char, TRUE)
    BY <1>3 DEF Imprime, Noted
  <2> HIDE DEF u
  <2> QED BY <2>1, <2>2, charVideoOn
<1> QED BY <1>1, <1>2, <1>3

\* The steps of imprimirVideo, and of rePrint.
ImprimeRun(k, cs, n, V) ==
  \E r : /\ r[0] = k /\ r[n] = imprimirVideo(k, cs) /\ \A i \in 0..n : r[i] \in V
         /\ \A i \in 0..n - 1 : r[i + 1] = Imprime(r[i], cs[i + 1])

LEMMA ImprimeSteps ==
  ASSUME NEW n \in Nat, NEW cs, DOMAIN cs = 1..n, NEW V, NEW k \in V,
         \A v \in V : \A i \in 1..n : Imprime(v, cs[i]) \in V
  PROVE  ImprimeRun(k, cs, n, V)
<1> DEFINE S == 1..n
           A(f) == [s \in SUBSET S |-> IF s = {} THEN k ELSE Imprime(f[s \ {Max(s)}], cs[Max(s)])]
           z == CHOOSE f : f = A(f)
           F == [x \in V \X S |-> Imprime(x[1], cs[x[2]])]
           r == [i \in 0..n |-> z[1..i]]
<1>1. imprimirVideo(k, cs) = z[S]
  BY DEF imprimirVideo, FoldLeft, MapThenFoldSet
<1>2. F \in [V \X S -> V]
  OBVIOUS
<1>3. PICK f : IsFold(f, F, k, S) /\ \A s \in SUBSET S : f[s] \in V
  <2>1. S = 1..n /\ k \in V /\ n \in Nat /\ F \in [V \X S -> V]
    BY <1>2
  <2> HIDE DEF A, z, F, S
  <2>2. Folds(F, k, S, V)
    BY <2>1, FoldExists
  <2> QED BY <2>2 DEF Folds
<1>4. f = A(f)
  <2>1. ASSUME NEW s \in SUBSET S, s # {}
        PROVE  F[<<f[s \ {Max(s)}], Max(s)>>] = Imprime(f[s \ {Max(s)}], cs[Max(s)])
    <3>1. s \subseteq 0..n
      OBVIOUS
    <3>2. Max(s) \in S
      BY <2>1, <3>1, MaxIn
    <3>3. f[s \ {Max(s)}] \in V
      BY <1>3
    <3> QED BY <3>2, <3>3
  <2> HIDE DEF F, S
  <2> QED BY <1>3, <2>1 DEF IsFold
<1>5. z = A(z)
  BY <1>4
<1> HIDE DEF z
<1>6. r[0] = k /\ r[n] = imprimirVideo(k, cs)
  <2>1. 1..0 = {} /\ {} \in SUBSET S
    OBVIOUS
  <2>2. z[{}] = k
    BY <1>5, <2>1
  <2> QED BY <1>1, <2>1, <2>2
<1>7. ASSUME NEW i \in 0..n - 1 PROVE r[i + 1] = Imprime(r[i], cs[i + 1])
  <2>1. /\ Max(1..(i + 1)) = i + 1 /\ (1..(i + 1)) \ {i + 1} = 1..((i + 1) - 1) /\ 1..(i + 1) # {}
    BY Beginnings
  <2>2. (i + 1) - 1 = i /\ 1..(i + 1) \in SUBSET S /\ i \in 0..n /\ i + 1 \in 0..n
    OBVIOUS
  <2>3. z[1..(i + 1)] = Imprime(z[1..i], cs[i + 1])
    BY <1>5, <2>1, <2>2
  <2> QED BY <2>2, <2>3
<1> HIDE DEF r, A, F
<1>8. \A i \in 0..n : r[i] \in V
  <2>1. ASSUME NEW i \in 0..n - 1, r[i] \in V PROVE r[i + 1] \in V
    <3>1. i + 1 \in 1..n
      OBVIOUS
    <3> QED BY <1>7, <2>1, <3>1
  <2>2. r[0] \in V
    BY <1>6
  <2> QED BY <2>1, <2>2, Along
<1> QED BY <1>6, <1>7, <1>8 DEF ImprimeRun

RedrawRun(k, cs, n, V) ==
  \E r : /\ r[0] = k /\ r[n] = FoldLeft(Redraw, k, cs) /\ \A i \in 0..n : r[i] \in V
         /\ \A i \in 0..n - 1 : r[i + 1] = Redraw(r[i], cs[i + 1])

LEMMA RedrawSteps ==
  ASSUME NEW n \in Nat, NEW cs, DOMAIN cs = 1..n, NEW V, NEW k \in V,
         \A v \in V : \A i \in 1..n : Redraw(v, cs[i]) \in V
  PROVE  RedrawRun(k, cs, n, V)
<1> DEFINE S == 1..n
           A(f) == [s \in SUBSET S |-> IF s = {} THEN k ELSE Redraw(f[s \ {Max(s)}], cs[Max(s)])]
           z == CHOOSE f : f = A(f)
           F == [x \in V \X S |-> Redraw(x[1], cs[x[2]])]
           r == [i \in 0..n |-> z[1..i]]
<1>1. FoldLeft(Redraw, k, cs) = z[S]
  BY DEF FoldLeft, MapThenFoldSet
<1>2. F \in [V \X S -> V]
  OBVIOUS
<1>3. PICK f : IsFold(f, F, k, S) /\ \A s \in SUBSET S : f[s] \in V
  <2>1. S = 1..n /\ k \in V /\ n \in Nat /\ F \in [V \X S -> V]
    BY <1>2
  <2> HIDE DEF A, z, F, S
  <2>2. Folds(F, k, S, V)
    BY <2>1, FoldExists
  <2> QED BY <2>2 DEF Folds
<1>4. f = A(f)
  <2>1. ASSUME NEW s \in SUBSET S, s # {}
        PROVE  F[<<f[s \ {Max(s)}], Max(s)>>] = Redraw(f[s \ {Max(s)}], cs[Max(s)])
    <3>1. s \subseteq 0..n
      OBVIOUS
    <3>2. Max(s) \in S
      BY <2>1, <3>1, MaxIn
    <3>3. f[s \ {Max(s)}] \in V
      BY <1>3
    <3> QED BY <3>2, <3>3
  <2> HIDE DEF F, S
  <2> QED BY <1>3, <2>1 DEF IsFold
<1>5. z = A(z)
  BY <1>4
<1> HIDE DEF z
<1>6. r[0] = k /\ r[n] = FoldLeft(Redraw, k, cs)
  <2>1. 1..0 = {} /\ {} \in SUBSET S
    OBVIOUS
  <2>2. z[{}] = k
    BY <1>5, <2>1
  <2> QED BY <1>1, <2>1, <2>2
<1>7. ASSUME NEW i \in 0..n - 1 PROVE r[i + 1] = Redraw(r[i], cs[i + 1])
  <2>1. /\ Max(1..(i + 1)) = i + 1 /\ (1..(i + 1)) \ {i + 1} = 1..((i + 1) - 1) /\ 1..(i + 1) # {}
    BY Beginnings
  <2>2. (i + 1) - 1 = i /\ 1..(i + 1) \in SUBSET S /\ i \in 0..n /\ i + 1 \in 0..n
    OBVIOUS
  <2>3. z[1..(i + 1)] = Redraw(z[1..i], cs[i + 1])
    BY <1>5, <2>1, <2>2
  <2> QED BY <2>2, <2>3
<1> HIDE DEF r, A, F
<1>8. \A i \in 0..n : r[i] \in V
  <2>1. ASSUME NEW i \in 0..n - 1, r[i] \in V PROVE r[i + 1] \in V
    <3>1. i + 1 \in 1..n
      OBVIOUS
    <3> QED BY <1>7, <2>1, <3>1
  <2>2. r[0] \in V
    BY <1>6
  <2> QED BY <2>1, <2>2, Along
<1> QED BY <1>6, <1>7, <1>8 DEF RedrawRun


LEMMA imprimirVideoOn ==
  ASSUME NEW v \in Screens, NEW text \in Seq(Chars)
  PROVE  imprimirVideo(v, text) \in Screens /\ imprimirVideo(v, text).zoom = v.zoom
<1> DEFINE V == {u \in Screens : u.zoom = v.zoom}
           n == Len(text)
<1>1. DOMAIN text = 1..n /\ n \in Nat /\ \A i \in 1..n : text[i] \in Chars
  BY LenProperties, ElementOfSeq
<1>2. v \in V /\ \A u \in V : \A i \in 1..n : Imprime(u, text[i]) \in V
  BY <1>1, ImprimeOn
<1> HIDE DEF V, n
<1>3. ImprimeRun(v, text, n, V)
  BY <1>1, <1>2, ImprimeSteps
<1>4. n \in 0..n
  BY <1>1
<1>5. imprimirVideo(v, text) \in V
  BY <1>3, <1>4 DEF ImprimeRun
<1> QED BY <1>5 DEF V

LEMMA imprimirVideoShort ==
  ASSUME NEW v \in Screens, NEW a \in Chars, NEW b \in Chars
  PROVE  /\ imprimirVideo(v, <<a>>) = Imprime(v, a)
         /\ imprimirVideo(v, <<a, b>>) = Imprime(Imprime(v, a), b)
<1>1. imprimirVideo(v, <<a>>) = Imprime(v, a)
  <2> DEFINE t == <<a>>
  <2>1. DOMAIN t = 1..1 /\ t[1] = a /\ 1 \in Nat
    OBVIOUS
  <2> HIDE DEF t
  <2>2. \A u \in Screens : \A i \in 1..1 : Imprime(u, t[i]) \in Screens
    BY <2>1, ImprimeOn
  <2>3. ImprimeRun(v, t, 1, Screens)
    BY <2>1, <2>2, ImprimeSteps
  <2>4. imprimirVideo(v, t) = Imprime(v, t[1])
    <3>1. PICK r : /\ r[0] = v /\ r[1] = imprimirVideo(v, t)
                   /\ \A i \in 0..1 - 1 : r[i + 1] = Imprime(r[i], t[i + 1])
      BY <2>3 DEF ImprimeRun
    <3>2. 0 \in 0..1 - 1 /\ 0 + 1 = 1
      OBVIOUS
    <3>3. r[0 + 1] = Imprime(r[0], t[0 + 1])
      BY <3>1, <3>2
    <3> QED BY <3>1, <3>2, <3>3
  <2> QED BY <2>1, <2>4 DEF t
<1>2. imprimirVideo(v, <<a, b>>) = Imprime(Imprime(v, a), b)
  <2> DEFINE t == <<a, b>>
  <2>1. DOMAIN t = 1..2 /\ t[1] = a /\ t[2] = b /\ 2 \in Nat
    OBVIOUS
  <2> HIDE DEF t
  <2>2. \A u \in Screens : \A i \in 1..2 : Imprime(u, t[i]) \in Screens
    BY <2>1, ImprimeOn
  <2>3. ImprimeRun(v, t, 2, Screens)
    BY <2>1, <2>2, ImprimeSteps
  <2>4. imprimirVideo(v, t) = Imprime(Imprime(v, t[1]), t[2])
    <3>1. PICK r : /\ r[0] = v /\ r[2] = imprimirVideo(v, t)
                   /\ \A i \in 0..2 - 1 : r[i + 1] = Imprime(r[i], t[i + 1])
      BY <2>3 DEF ImprimeRun
    <3>2. 0 \in 0..2 - 1 /\ 1 \in 0..2 - 1
      OBVIOUS
    <3>3. 0 + 1 = 1 /\ 1 + 1 = 2
      OBVIOUS
    <3>4. r[0 + 1] = Imprime(r[0], t[0 + 1]) /\ r[1 + 1] = Imprime(r[1], t[1 + 1])
      BY <3>1, <3>2, Zenon
    <3> QED BY <3>1, <3>3, <3>4
  <2> QED BY <2>1, <2>4 DEF t
<1> QED BY <1>1, <1>2

\* Whatever was on the screen, what is drawn again leaves the cursor on it.
LEMMA rePrintOn ==
  ASSUME NEW v \in Videos
  PROVE  rePrint(v) \in Screens /\ rePrint(v).zoom = v.zoom
<1> DEFINE last  == ROWS \div v.zoom - 1
           wide  == COLS \div v.zoom
           lines == Min({last} \cup {i \in 1..last - 1 : v.matrix[<<i + 1, 0>>] = BLANK})
           n     == lines * wide
           order == [i \in 1..n |-> <<1 + (i - 1) \div wide, (i - 1) % wide>>]
           top   == clearScreen(v)
           V     == {u \in Screens : u.zoom = v.zoom}
<1>1. rePrint(v) = FoldLeft(Redraw, top, order)
  BY DEF rePrint
<1>2. COLS \in Nat /\ COLS >= 2 /\ ROWS \in Nat /\ ROWS >= 3 /\ v.zoom \in {1, 2}
  BY VideoAssumption DEF Videos
<1>3. last \in Nat /\ last <= ROWS - 1 /\ wide \in Nat \ {0} /\ wide <= COLS
  BY <1>2
<1> HIDE DEF last, wide
<1>4. lines \in Nat /\ lines <= last
  <2> DEFINE Z == {last} \cup {i \in 1..last - 1 : v.matrix[<<i + 1, 0>>] = BLANK}
  <2>1. Z \subseteq Nat /\ Z # {} /\ \A i \in Z : i <= last
    BY <1>3
  <2> HIDE DEF Z
  <2>2. Min(Z) \in Z
    BY <2>1, MinIn
  <2>3. Min(Z) \in Nat /\ Min(Z) <= last
    BY <2>1, <2>2
  <2> QED BY <2>3 DEF Z
<1> HIDE DEF lines
<1>5. n \in Nat
  BY <1>3, <1>4
<1>6. ASSUME NEW i \in 1..n PROVE order[i] \in Matrix
  <2>1. i - 1 \in Nat /\ i - 1 < lines * wide
    BY <1>5
  <2>2. (i - 1) \div wide \in 0..lines - 1 /\ (i - 1) % wide \in 0..wide - 1
    BY <1>3, <1>4, <2>1, Quotient
  <2>3. 1 + (i - 1) \div wide \in 0..ROWS - 1 /\ (i - 1) % wide \in 0..COLS - 1
    BY <1>2, <1>3, <1>4, <2>2
  <2> QED BY <2>3 DEF Matrix
<1>7. DOMAIN order = 1..n
  OBVIOUS
<1> HIDE DEF n, order
<1>8. top \in V
  <2> DEFINE s == [c \in Screen |-> BLANK]
             t == [v EXCEPT !.cells = s]
  <2>1. s \in [Screen -> Chars]
    BY DEF Chars
  <2> HIDE DEF s
  <2>2. t \in Videos /\ t.zoom = v.zoom
    BY <2>1, CellsSet
  <2>3. top = At(t, 0, 1)
    BY DEF clearScreen, At, s
  <2> HIDE DEF t, top
  <2>4. top \in Videos /\ top.x = 0 /\ top.y = 1 /\ top.zoom = v.zoom
    BY <2>2, <2>3, Moved
  <2> QED BY <2>4, TopOn DEF AtTop, Screens
<1> HIDE DEF top
<1>9. ASSUME NEW u \in V, NEW i \in 1..n PROVE Redraw(u, order[i]) \in V
  <2>1. u \in Screens /\ u.zoom = v.zoom /\ u.matrix \in [Matrix -> Chars]
    BY DEF Screens, Videos
  <2>2. u.matrix[order[i]] \in Chars
    BY <1>6, <2>1
  <2>3. charVideo(u, u.matrix[order[i]], TRUE) \in Screens /\ charVideo(u, u.matrix[order[i]], TRUE).zoom = u.zoom
    BY <2>1, <2>2, charVideoOn
  <2> QED BY <2>1, <2>3 DEF Redraw
<1> HIDE DEF V
<1>10. RedrawRun(top, order, n, V)
  BY <1>5, <1>7, <1>8, <1>9, RedrawSteps
<1>11. n \in 0..n
  BY <1>5
<1>12. FoldLeft(Redraw, top, order) \in V
  BY <1>10, <1>11 DEF RedrawRun
<1> QED BY <1>1, <1>12 DEF V

LEMMA ZoomsOn ==
  ASSUME NEW v \in Videos
  PROVE  zoomIN(v) \in Screens /\ zoomOUT(v) \in Screens
<1> DEFINE i == IF v.zoom < 2 THEN v.zoom + 1 ELSE v.zoom
           o == IF v.zoom > 1 THEN v.zoom - 1 ELSE v.zoom
<1>1. i \in {1, 2} /\ o \in {1, 2}
  BY DEF Videos
<1>2. zoomIN(v) = rePrint([v EXCEPT !.zoom = i]) /\ zoomOUT(v) = rePrint([v EXCEPT !.zoom = o])
  BY DEF zoomIN, zoomOUT
<1> HIDE DEF i, o
<1>3. [v EXCEPT !.zoom = i] \in Videos /\ [v EXCEPT !.zoom = o] \in Videos
  BY <1>1 DEF Videos
<1> QED BY <1>2, <1>3, rePrintOn


-----------------------------------------------------------------------------
(* The line on the screen.                                                 *)

LEMMA CursorPlace ==
  ASSUME NEW v, CursorOn(v)
  PROVE  Cursor(v) \in Nat /\ Cursor(v) < (ROWS - 1) * COLS /\ Place(Cursor(v)) = <<v.y, v.x>>
<1>1. /\ v.x \in 0..COLS - 1 /\ v.y \in 1..ROWS - 1
      /\ COLS \in Nat /\ COLS >= 2 /\ ROWS \in Nat /\ ROWS >= 3
  BY VideoAssumption DEF CursorOn
<1> DEFINE q == v.y - 1
           b == ROWS - 1 - q
<1>2. q \in Nat /\ b \in Nat /\ b >= 1
  BY <1>1
<1>3. q * COLS \in Nat /\ b * COLS >= COLS /\ (ROWS - 1) * COLS = (q * COLS) + (b * COLS)
  <2> HIDE DEF q
  <2>1. (ROWS - 1) * COLS = (q * COLS) + ((ROWS - 1 - q) * COLS)
    BY <1>1, <1>2
  <2> HIDE DEF b
  <2>2. q * COLS \in Nat
    BY <1>1, <1>2
  <2>3. b * COLS >= COLS
    BY <1>1, <1>2
  <2> QED BY <2>1, <2>2, <2>3 DEF b
<1>4. Cursor(v) = q * COLS + v.x
  BY DEF Cursor
<1>5. Cursor(v) \div COLS = q /\ Cursor(v) % COLS = v.x
  <2> HIDE DEF q
  <2>1. COLS \in Nat \ {0} /\ q \in Int /\ v.x \in 0..COLS - 1
    BY <1>1, <1>2
  <2>2. (q * COLS + v.x) \div COLS = q /\ (q * COLS + v.x) % COLS = v.x
    BY <2>1, Divided
  <2> QED BY <1>4, <2>2
<1>6. Place(Cursor(v)) = <<v.y, v.x>>
  BY <1>1, <1>5 DEF Place
<1>7. Cursor(v) \in Nat /\ Cursor(v) < (ROWS - 1) * COLS
  <2> DEFINE m == q * COLS
             t == b * COLS
             u == (ROWS - 1) * COLS
  <2>1. m \in Nat /\ t >= COLS /\ u = m + t /\ Cursor(v) = m + v.x /\ t \in Int
    BY <1>1, <1>2, <1>3, <1>4
  <2> HIDE DEF m, t, u
  <2>2. Cursor(v) \in Nat /\ Cursor(v) < u
    BY <1>1, <2>1
  <2> QED BY <2>2 DEF u
<1> QED BY <1>6, <1>7

\* Before the cursor of v there is l, and before l the prompt, as far as that is on
\* the screen.
Displayed(v, l) ==
  \A i \in 1..Len(l) + 1 :
     Cursor(v) >= i =>
       v.cells[Place(Cursor(v) - i)] = IF i > Len(l) THEN PROMPT ELSE l[Len(l) + 1 - i]

LEMMA DisplayedAtTop == ASSUME NEW v, AtTop(v), NEW l \in Seq(Chars) PROVE Displayed(v, l)
<1>1. Cursor(v) = 0 /\ Len(l) \in Nat
  BY TopOn, LenProperties
<1> QED BY <1>1 DEF Displayed

\* A character that is printed and is not the end of a line or a deletion.
LEMMA ImprimeWrites ==
  ASSUME NEW v \in Videos, v.zoom = 1, CursorOn(v), NEW char \in Chars, char # NL, char # DEL
  PROVE  LET w == Imprime(v, char)
         IN  \/ AtTop(w)
             \/ Cursor(w) = Cursor(v) + 1 /\ w.cells = [v.cells EXCEPT ![Place(Cursor(v))] = char]
<1> DEFINE u == Noted(v, Saved(v), char)
           w == Imprime(v, char)
<1>1. u \in Videos /\ u.x = v.x /\ u.y = v.y /\ u.zoom = 1 /\ u.cells = v.cells
  BY NotedTyped
<1>2. w = charVideo(u, char, TRUE)
  BY DEF Imprime, Noted, NL, DEL
<1> HIDE DEF u, w
<1>3. CursorOn(u) /\ Cursor(u) = Cursor(v)
  BY <1>1 DEF CursorOn, Cursor
<1>4. \/ AtTop(w)
      \/ Cursor(w) = Cursor(u) + 1 /\ w.cells = [u.cells EXCEPT ![<<u.y, u.x>>] = char]
  BY <1>1, <1>2, <1>3, charVideoWrites
<1>5. Place(Cursor(v)) = <<v.y, v.x>>
  BY CursorPlace
<1> QED BY <1>1, <1>3, <1>4, <1>5 DEF w

LEMMA DisplayedAppend ==
  ASSUME NEW v \in Videos, v.zoom = 1, CursorOn(v), NEW c \in Chars, c # NL, c # DEL,
         NEW l \in Seq(Chars), Displayed(v, l)
  PROVE  Displayed(Imprime(v, c), Append(l, c))
<1> DEFINE w == Imprime(v, c)
           m == Append(l, c)
           p == Cursor(v)
<1>1. m \in Seq(Chars) /\ Len(m) = Len(l) + 1 /\ m[Len(l) + 1] = c /\ Len(l) \in Nat
      /\ \A i \in 1..Len(l) : m[i] = l[i]
  BY AppendProperties, LenProperties
<1>2. \/ AtTop(w)
      \/ Cursor(w) = p + 1 /\ w.cells = [v.cells EXCEPT ![Place(p)] = c]
  BY ImprimeWrites
<1>3. p \in Nat /\ p < (ROWS - 1) * COLS
  BY CursorPlace
<1>4. v.cells \in [Screen -> Chars]
  BY DEF Videos
<1>5. Place(p) \in Screen /\ \A n \in Nat : Place(n) = Place(p) => n = p
  BY <1>3, PlaceOnScreen
<1> HIDE DEF w, m, p
<1>6. CASE AtTop(w)
  BY <1>1, <1>6, DisplayedAtTop DEF w, m
<1>7. CASE Cursor(w) = p + 1 /\ w.cells = [v.cells EXCEPT ![Place(p)] = c]
  <2>1. ASSUME NEW i \in 1..Len(m) + 1, Cursor(w) >= i
        PROVE  w.cells[Place(Cursor(w) - i)] = IF i > Len(m) THEN PROMPT ELSE m[Len(m) + 1 - i]
    <3>1. CASE i = 1
      <4>1. Cursor(w) - i = p /\ Len(m) + 1 - i = Len(l) + 1 /\ ~(i > Len(m))
        BY <1>1, <1>3, <1>7, <3>1
      <4>2. w.cells[Place(p)] = c
        BY <1>4, <1>5, <1>7
      <4> QED BY <1>1, <4>1, <4>2
    <3>2. CASE i # 1
      <4> DEFINE j == i - 1
      <4>1. j \in 1..Len(l) + 1 /\ Cursor(w) - i = p - j /\ p >= j /\ p - j \in Nat /\ p - j # p
            /\ (i > Len(m) <=> j > Len(l)) /\ Len(m) + 1 - i = Len(l) + 1 - j
        BY <1>1, <1>3, <1>7, <2>1, <3>2
      <4> HIDE DEF j
      <4>2. v.cells[Place(p - j)] = IF j > Len(l) THEN PROMPT ELSE l[Len(l) + 1 - j]
        BY <4>1 DEF Displayed, p
      <4>3. p - j < (ROWS - 1) * COLS
        <5> DEFINE t == (ROWS - 1) * COLS
        <5>1. t \in Int /\ p < t
          BY <1>3, VideoAssumption
        <5> HIDE DEF t
        <5>2. p - j < t
          BY <1>3, <4>1, <5>1
        <5> QED BY <5>2 DEF t
      <4>4. Place(p - j) \in Screen /\ Place(p - j) # Place(p)
        BY <1>5, <4>1, <4>3, PlaceOnScreen
      <4>5. w.cells[Place(p - j)] = v.cells[Place(p - j)]
        BY <1>4, <1>7, <4>4
      <4>6. ~(j > Len(l)) => m[Len(l) + 1 - j] = l[Len(l) + 1 - j]
        <5>1. ~(j > Len(l)) => Len(l) + 1 - j \in 1..Len(l)
          BY <1>1, <4>1
        <5> QED BY <1>1, <5>1
      <4> QED BY <4>1, <4>2, <4>5, <4>6
    <3> QED BY <3>1, <3>2
  <2> QED BY <2>1 DEF Displayed, w, m
<1> QED BY <1>2, <1>6, <1>7

LEMMA DisplayedPrompt ==
  ASSUME NEW v \in Videos, v.zoom = 1, CursorOn(v)
  PROVE  Displayed(Imprime(v, PROMPT), <<>>)
<1> DEFINE w == Imprime(v, PROMPT)
           p == Cursor(v)
<1>1. PROMPT \in Chars /\ PROMPT # NL /\ PROMPT # DEL
  BY DEF Chars, PROMPT, NL, DEL
<1>2. \/ AtTop(w)
      \/ Cursor(w) = p + 1 /\ w.cells = [v.cells EXCEPT ![Place(p)] = PROMPT]
  BY <1>1, ImprimeWrites
<1>3. p \in Nat /\ p < (ROWS - 1) * COLS
  BY CursorPlace
<1>4. v.cells \in [Screen -> Chars] /\ Place(p) \in Screen
  BY <1>3, PlaceOnScreen DEF Videos
<1>5. <<>> \in Seq(Chars) /\ Len(<<>>) = 0
  BY EmptySeq
<1> HIDE DEF w, p
<1>6. CASE AtTop(w)
  BY <1>5, <1>6, DisplayedAtTop DEF w
<1>7. CASE Cursor(w) = p + 1 /\ w.cells = [v.cells EXCEPT ![Place(p)] = PROMPT]
  <2>1. ASSUME NEW i \in 1..0 + 1 PROVE i = 1 /\ i > 0 /\ Cursor(w) - i = p
    BY <1>3, <1>7
  <2>2. w.cells[Place(p)] = PROMPT
    BY <1>4, <1>7
  <2> QED BY <1>5, <2>1, <2>2 DEF Displayed, w
<1> QED BY <1>2, <1>6, <1>7

LEMMA DisplayedDelete ==
  ASSUME NEW v \in Videos, v.zoom = 1, CursorOn(v), NEW l \in Seq(Chars), l # <<>>, Displayed(v, l)
  PROVE  Displayed(Imprime(v, DEL), Front(l))
<1> DEFINE w == deleteVideo(v)
           m == Front(l)
           p == Cursor(v)
<1>0. Imprime(v, DEL) = w
  BY DEF Imprime, DEL
<1>1. m \in Seq(Chars) /\ Len(m) = Len(l) - 1 /\ Len(l) \in Nat /\ Len(l) >= 1
      /\ \A i \in 1..Len(l) - 1 : m[i] = l[i]
  <2>1. Len(l) \in Nat /\ Len(l) # 0 /\ DOMAIN l = 1..Len(l)
    BY LenProperties, EmptySeq
  <2>2. m = SubSeq(l, 1, Len(l) - 1)
    BY DEF Front
  <2>3. \A i \in 1..Len(l) - 1 : l[i] \in Chars
    BY <2>1, ElementOfSeq
  <2> HIDE DEF m
  <2>4. m \in Seq(Chars) /\ Len(m) = Len(l) - 1 /\ \A i \in 1..Len(l) - 1 : m[i] = l[1 + i - 1]
    <3>1. 1 \in Int /\ Len(l) - 1 \in Int /\ ~(1 > Len(l)) /\ Len(l) - 1 - 1 + 1 = Len(l) - 1
      BY <2>1
    <3> QED BY <2>1, <2>2, <2>3, <3>1, SubSeqProperties
  <2>5. \A i \in 1..Len(l) - 1 : 1 + i - 1 = i
    OBVIOUS
  <2> QED BY <2>1, <2>4, <2>5
<1>2. /\ CursorOn(w)
      /\ \/ AtTop(v) /\ w = v
         \/ Cursor(w) = p - 1 /\ w.cells = [v.cells EXCEPT ![<<w.y, w.x>>] = BLANK]
  BY deleteVideoErases
<1>3. p \in Nat /\ p < (ROWS - 1) * COLS
  BY CursorPlace
<1>4. v.cells \in [Screen -> Chars]
  BY DEF Videos
<1> HIDE DEF w, m, p
<1>5. Cursor(w) \in Nat /\ Cursor(w) < (ROWS - 1) * COLS /\ Place(Cursor(w)) = <<w.y, w.x>>
  BY <1>2, CursorPlace
<1>6. CASE AtTop(v) /\ w = v
  <2>1. AtTop(w)
    BY <1>6
  <2> QED BY <1>0, <1>1, <2>1, DisplayedAtTop DEF m
<1>7. CASE Cursor(w) = p - 1 /\ w.cells = [v.cells EXCEPT ![<<w.y, w.x>>] = BLANK]
  <2>1. ASSUME NEW i \in 1..Len(m) + 1, Cursor(w) >= i
        PROVE  w.cells[Place(Cursor(w) - i)] = IF i > Len(m) THEN PROMPT ELSE m[Len(m) + 1 - i]
    <3> DEFINE j == i + 1
    <3>1. j \in 1..Len(l) + 1 /\ Cursor(w) - i = p - j /\ p >= j /\ p - j \in Nat /\ p - j # Cursor(w)
          /\ (i > Len(m) <=> j > Len(l)) /\ Len(m) + 1 - i = Len(l) + 1 - j
      BY <1>1, <1>3, <1>7, <2>1
    <3> HIDE DEF j
    <3>2. v.cells[Place(p - j)] = IF j > Len(l) THEN PROMPT ELSE l[Len(l) + 1 - j]
      BY <3>1 DEF Displayed, p
    <3>3. p - j < (ROWS - 1) * COLS
      <4> DEFINE t == (ROWS - 1) * COLS
      <4>1. t \in Int /\ p < t
        BY <1>3, VideoAssumption
      <4> HIDE DEF t
      <4>2. p - j < t
        BY <1>3, <3>1, <4>1
      <4> QED BY <4>2 DEF t
    <3>4. Place(p - j) \in Screen /\ Place(p - j) # Place(Cursor(w))
      BY <1>5, <3>1, <3>3, PlaceOnScreen
    <3>5. w.cells[Place(p - j)] = v.cells[Place(p - j)]
      BY <1>4, <1>5, <1>7, <3>4
    <3>6. ~(j > Len(l)) => m[Len(l) + 1 - j] = l[Len(l) + 1 - j]
      <4>1. ~(j > Len(l)) => Len(l) + 1 - j \in 1..Len(l) - 1
        BY <1>1, <2>1, <3>1 DEF j
      <4> QED BY <1>1, <4>1
    <3> QED BY <3>1, <3>2, <3>5, <3>6
  <2> QED BY <1>0, <2>1 DEF Displayed, m
<1> QED BY <1>2, <1>6, <1>7


-----------------------------------------------------------------------------
(* The line, action by action.                                             *)

Typing(pr) == pr[SHELL] \in {"run", "kbd", "woken"}

\* While the shell types, starts the first command or prints, it has no children.
Alone(pr) == pr[SHELL] \in {"run", "kbd", "woken", "command", "info"} => \A p \in Kids : pr[p] = "none"

\* And a child in the foreground is alive: nobody gives the foreground to a shell that types.
Family(pr, f) == Alone(pr) /\ (f \in Kids => pr[f] # "none")

\* The inductive invariant of LineShown.
LineSound(v, pr, l, f, sp) ==
  /\ v \in Screens /\ l \in Seq(Chars) /\ sp \in BOOLEAN
  /\ Family(pr, f)
  /\ Typing(pr) /\ f = SHELL /\ v.zoom = 1 /\ ~sp => Displayed(v, l)

LEMMA ShownDisplayed ==
  ASSUME LineSound(video, proc, line, fg, spoilt)
  PROVE  LineShown
<1> SUFFICES ASSUME Typing(proc), fg = SHELL, video.zoom = 1, ~spoilt, NEW i \in 1..Len(line) + 1, Cursor(video) >= i
             PROVE  Shown(i) = IF i > Len(line) THEN PROMPT ELSE line[Len(line) + 1 - i]
  BY DEF LineShown, Typing, Cursor
<1>1. Displayed(video, line)
  BY DEF LineSound
<1>2. video.cells[Place(Cursor(video) - i)] = IF i > Len(line) THEN PROMPT ELSE line[Len(line) + 1 - i]
  BY <1>1 DEF Displayed
<1>3. Shown(i) = video.cells[Place(Cursor(video) - i)]
  <2> DEFINE n == (video.y - 1) * COLS + video.x - i
  <2>1. Shown(i) = video.cells[<<1 + n \div COLS, n % COLS>>]
    BY Zenon DEF Shown
  <2>2. Cursor(video) - i = n
    <3>1. (video.y - 1) * COLS \in Int /\ video.x \in Int /\ i \in Int
      BY VideoAssumption DEF LineSound, Screens, Videos
    <3> QED BY <3>1 DEF Cursor
  <2> HIDE DEF n
  <2> QED BY <2>1, <2>2, Zenon DEF Place
<1> QED BY <1>2, <1>3

LEMMA PrintedOn ==
  ASSUME NEW v \in Screens, NEW p, NEW text \in Seq(Chars)
  PROVE  Printed(v, p, text) \in Screens /\ Printed(v, p, text).zoom = v.zoom
BY imprimirVideoOn DEF Printed

LEMMA Texts ==
  /\ <<NL>> \in Seq(Chars) /\ <<NL, PROMPT>> \in Seq(Chars) /\ <<PROMPT>> \in Seq(Chars)
  /\ OUTPUT \in Seq(Chars) /\ <<"o">> \in Seq(Chars) /\ <<NL, PROMPT, BLANK, "junk">> \in Seq(Chars)
  /\ \A c \in Chars : <<c>> \in Seq(Chars)
<1>1. NL \in Chars /\ PROMPT \in Chars /\ BLANK \in Chars /\ "junk" \in Chars /\ "o" \in Chars
  BY DEF Chars
<1> QED BY <1>1 DEF OUTPUT

LEMMA EchoedOn ==
  ASSUME NEW v \in Screens, NEW p, NEW c \in Chars
  PROVE  Echoed(v, p, c) \in Screens /\ Echoed(v, p, c).zoom = v.zoom
<1>1. <<c>> \in Seq(Chars)
  BY Texts
<1> QED BY <1>1, PrintedOn DEF Echoed

LEMMA InitLine == ASSUME Init PROVE LineSound(video, proc, line, fg, spoilt)
<1>1. PROMPT \in Chars /\ BLANK \in Chars
  BY DEF Chars
<1>2. COLS \in Nat /\ COLS >= 2 /\ ROWS \in Nat /\ ROWS >= 3
  BY VideoAssumption
<1> DEFINE s == [c \in Screen |-> BLANK]
           t == [m \in Matrix |-> BLANK]
           a == [s EXCEPT ![<<1, 0>>] = PROMPT]
           b == [t EXCEPT ![<<1, 0>>] = PROMPT]
<1>3. s \in [Screen -> Chars] /\ t \in [Matrix -> Chars]
  BY <1>1
<1>4. a \in [Screen -> Chars] /\ b \in [Matrix -> Chars]
  BY <1>1, <1>3
<1>5. video = [x |-> 1, y |-> 1, zoom |-> 1, cells |-> a, matrix |-> b]
  BY DEF Init, InitVideo
<1>6. <<1, 0>> \in Screen
  BY <1>2 DEF Screen
<1>7. a[<<1, 0>>] = PROMPT
  BY <1>3, <1>6
<1> HIDE DEF a, b
<1>8. video \in Videos /\ video.x = 1 /\ video.y = 1 /\ video.zoom = 1 /\ video.cells = a
  BY <1>4, <1>5 DEF Videos
<1>9. CursorOn(video)
  BY <1>2, <1>8 DEF CursorOn
<1>10. Cursor(video) = 1
  <2>1. (1 - 1) * COLS = 0
    BY <1>2
  <2> QED BY <1>8, <2>1 DEF Cursor
<1>11. Place(0) = <<1, 0>>
  <2>1. 0 * COLS = 0 /\ COLS \in Nat \ {0} /\ 0 \in 0..COLS - 1
    BY <1>2
  <2>2. (0 * COLS + 0) \div COLS = 0 /\ (0 * COLS + 0) % COLS = 0
    BY <2>1, Divided
  <2>3. 0 \div COLS = 0 /\ 0 % COLS = 0
    BY <2>1, <2>2
  <2> QED BY <2>3 DEF Place
<1>12. line = <<>> /\ <<>> \in Seq(Chars) /\ Len(<<>>) = 0 /\ spoilt = FALSE
  BY EmptySeq DEF Init
<1>13. Displayed(video, <<>>)
  <2>1. ASSUME NEW i \in 1..0 + 1 PROVE i = 1 /\ Cursor(video) - i = 0 /\ i > 0
    BY <1>10
  <2> QED BY <1>7, <1>8, <1>11, <1>12, <2>1 DEF Displayed
<1>14. Family(proc, fg)
  BY ReadersFinite DEF Init, Alone, Family
<1> QED BY <1>8, <1>9, <1>12, <1>13, <1>14 DEF LineSound, Screens

\* Steps that print nothing and type nothing.
LEMMA LineStays ==
  ASSUME LineSound(video, proc, line, fg, spoilt),
         UNCHANGED <<video, line, spoilt>>, fg' = fg, Family(proc', fg'),
         Typing(proc') => Typing(proc)
  PROVE  LineSound(video', proc', line', fg', spoilt')
BY DEF LineSound

\* Steps that print while nobody types.
LEMMA LinePrints ==
  ASSUME LineSound(video, proc, line, fg, spoilt),
         video' \in Screens, line' = line, spoilt' \in BOOLEAN, Family(proc', fg'),
         ~Typing(proc') \/ fg' # SHELL \/ spoilt'
  PROVE  LineSound(video', proc', line', fg', spoilt')
BY DEF LineSound

\* Whoever leaves the table, no shell that types gets the foreground.
LEMMA EndsFamily ==
  ASSUME proc \in [Readers -> States], Family(proc, fg), NEW p \in Readers,
         p \in Kids => proc[p] # "none", remove_from_processes_list(p),
         proc' = [proc EXCEPT ![p] = "none"]
  PROVE  Family(proc', fg') /\ ~Typing(proc')
<1>1. SHELL \in Readers /\ SHELL \notin Kids /\ Kids \subseteq Readers /\ p \in Kids \cup {SHELL}
  BY ReadersFinite DEF Readers
<1>2. fg' \in Kids => fg' = fg /\ fg # p
  BY ReadersFinite DEF remove_from_processes_list, Parent
<1>3. fg' \in Kids => proc'[fg'] # "none"
  BY <1>1, <1>2 DEF Family
<1>4. CASE p = SHELL
  <2>1. proc'[SHELL] = "none"
    BY <1>1, <1>4
  <2> QED BY <1>3, <2>1 DEF Family, Alone, Typing
<1>5. CASE p \in Kids
  <2>1. proc'[SHELL] = proc[SHELL] /\ proc[p] # "none"
    BY <1>1, <1>5
  <2>2. proc[SHELL] \notin {"run", "kbd", "woken", "command", "info"}
    BY <1>5, <2>1 DEF Family, Alone
  <2> QED BY <1>3, <2>1, <2>2 DEF Family, Alone, Typing
<1> QED BY <1>1, <1>4, <1>5

LEMMA int_21Steps ==
  ASSUME KeysSound(kb, proc, fg), NEW key \in Keys, NEW isPressed \in BOOLEAN, int_21(key, isPressed)
  PROVE  \/ CtrlC /\ line' = line
         \/ UNCHANGED <<video, line, fg, spoilt>> /\ LetsThrough(proc, proc')
<1> DEFINE status == updateKeyboardStatus(kb, key, isPressed)
           k == loadBuffer([kb |-> status, proc |-> proc], key)
<1>1. kb \in Keyboards /\ proc \in [Readers -> States] /\ Kept(kb, proc)
  BY DEF KeysSound, TypedIn
<1>2. /\ status \in Keyboards /\ status.is_key = kb.is_key /\ status.lost = kb.lost
      /\ SameContents(kb, status)
  BY <1>1, updateTyped
<1>3. \/ CtrlC /\ line' = line
      \/ proc' = k.proc /\ UNCHANGED <<video, line, fg, spoilt>>
      \/ proc' = proc /\ UNCHANGED <<video, line, fg, spoilt>>
  BY DEF int_21
<1> HIDE DEF status
<1>4. Kept(status, proc)
  <2>1. Tokens(status, proc) = Tokens(kb, proc)
    BY <1>2 DEF Tokens
  <2> QED BY <1>1, <1>2, <2>1, KeptSame
<1>5. LetsThrough(proc, k.proc) /\ LetsThrough(proc, proc)
  BY <1>1, <1>2, <1>4, loadBufferKeeps DEF LetsThrough
<1> HIDE DEF k
<1> QED BY <1>3, <1>5

LEMMA CtrlCLine ==
  ASSUME KeysSound(kb, proc, fg), LineSound(video, proc, line, fg, spoilt), CtrlC, line' = line
  PROVE  LineSound(video', proc', line', fg', spoilt')
<1>1. video \in Screens /\ Prompted \in Screens
  BY Texts, imprimirVideoOn DEF Prompted, LineSound
<1>2. /\ proc \in [Readers -> States] /\ fg \in Fronts /\ fg # NOBODY /\ Family(proc, fg)
      /\ spoilt' = spoilt /\ spoilt \in BOOLEAN
  BY DEF KeysSound, TypedIn, CtrlC, LineSound
<1>3. fg \in Int
  BY <1>2, ReadersFinite DEF Fronts, FIRST
<1>4. CASE fg < SHELL
  <2>1. video' = Prompted /\ proc' = proc /\ fg' = fg /\ fg' # SHELL
    BY <1>3, <1>4 DEF CtrlC, SHELL
  <2>2. video' \in Screens /\ spoilt' \in BOOLEAN
    BY <1>1, <1>2, <2>1
  <2>3. Family(proc', fg')
    BY <1>2, <2>1 DEF Family, Alone
  <2> QED BY <2>1, <2>2, <2>3, LinePrints
<1>5. CASE fg >= SHELL
  <2>1. fg \in Readers
    BY <1>2, <1>5 DEF Fronts, FIRST, SHELL
  <2>2. remove_from_processes_list(fg) /\ proc' = [proc EXCEPT ![fg] = "none"] /\ video' \in {video, Prompted}
    BY <1>5, <2>1, ReadersFinite DEF CtrlC, SHELL
  <2>3. Family(proc', fg') /\ ~Typing(proc')
    BY <1>2, <2>1, <2>2, EndsFamily DEF Family
  <2> QED BY <1>1, <1>2, <2>2, <2>3, LinePrints
<1> QED BY <1>3, <1>4, <1>5 DEF SHELL

LEMMA LatePromptLine ==
  ASSUME LineSound(video, proc, line, fg, spoilt), NEW q, LatePrompt(q)
  PROVE  LineSound(video', proc', line', fg', spoilt')
<1>1. Prompted \in Screens
  BY Texts, imprimirVideoOn DEF Prompted, LineSound
<1>2. video' = Prompted /\ spoilt' = TRUE /\ UNCHANGED <<proc, line, fg>>
  BY DEF LatePrompt
<1> QED BY <1>1, <1>2, LinePrints DEF LineSound

LEMMA int_21Line ==
  ASSUME KeysSound(kb, proc, fg), LineSound(video, proc, line, fg, spoilt),
         NEW key \in Keys, NEW isPressed \in BOOLEAN, int_21(key, isPressed)
  PROVE  LineSound(video', proc', line', fg', spoilt')
<1>1. CASE CtrlC /\ line' = line
  BY <1>1, CtrlCLine
<1>2. CASE UNCHANGED <<video, line, fg, spoilt>> /\ LetsThrough(proc, proc')
  <2>1. SHELL \in Readers /\ Kids \subseteq Readers
    BY ReadersFinite
  <2>2. Family(proc', fg')
    BY <1>2, <2>1 DEF Family, Alone, LineSound, LetsThrough
  <2>3. Typing(proc') => Typing(proc)
    BY <1>2, <2>1 DEF Typing, LetsThrough
  <2> QED BY <1>2, <2>2, <2>3, LineStays
<1> QED BY <1>1, <1>2, int_21Steps

LEMMA BlocksLine ==
  ASSUME KeysSound(kb, proc, fg), LineSound(video, proc, line, fg, spoilt), NEW p \in Readers, Blocks(p)
  PROVE  LineSound(video', proc', line', fg', spoilt')
<1>1. /\ proc \in [Readers -> States] /\ proc[p] = "run" /\ proc' = [proc EXCEPT ![p] = "kbd"]
      /\ UNCHANGED <<video, line, spoilt>> /\ fg' = fg
  BY DEF KeysSound, TypedIn, Blocks
<1>2. SHELL \in Readers /\ SHELL \notin Kids /\ Kids \subseteq Readers
  BY ReadersFinite
<1>3. Family(proc', fg')
  BY <1>1, <1>2 DEF Family, Alone, LineSound
<1>4. Typing(proc') => Typing(proc)
  BY <1>1, <1>2 DEF Typing
<1> QED BY <1>1, <1>3, <1>4, LineStays

LEMMA KidLine ==
  ASSUME KeysSound(kb, proc, fg), LineSound(video, proc, line, fg, spoilt), NEW p \in Kids, Kid(p),
         UNCHANGED <<line, spoilt>>
  PROVE  LineSound(video', proc', line', fg', spoilt')
<1>1. proc \in [Readers -> States] /\ kb \in Keyboards /\ video \in Screens /\ spoilt \in BOOLEAN
  BY DEF KeysSound, TypedIn, LineSound
<1>2. SHELL \in Readers /\ SHELL \notin Kids /\ Kids \subseteq Readers
  BY ReadersFinite
<1>3. proc[p] # "none"
  BY DEF Kid, read_keyboard
<1>4. \/ UNCHANGED <<proc, fg>>
      \/ proc' = [proc EXCEPT ![p] = "run"] /\ fg' = fg
      \/ proc' = [proc EXCEPT ![p] = "none"] /\ remove_from_processes_list(p)
  BY DEF Kid
<1>5. Family(proc', fg') /\ ~Typing(proc')
  <2>1. Family(proc, fg)
    BY DEF LineSound
  <2>2. proc[SHELL] \notin {"run", "kbd", "woken", "command", "info"}
    BY <1>3, <2>1 DEF Family, Alone
  <2>3. CASE UNCHANGED <<proc, fg>>
    BY <2>1, <2>2, <2>3 DEF Typing
  <2>4. CASE proc' = [proc EXCEPT ![p] = "run"] /\ fg' = fg
    BY <1>1, <1>2, <2>1, <2>2, <2>4 DEF Family, Alone, Typing
  <2>5. CASE proc' = [proc EXCEPT ![p] = "none"] /\ remove_from_processes_list(p)
    BY <1>1, <1>2, <1>3, <2>1, <2>5, EndsFamily
  <2> QED BY <1>4, <2>3, <2>4, <2>5
<1>6. video' \in Screens
  <2>1. NextKey(kb) \in Chars
    BY <1>1 DEF Keyboards, NextKey
  <2>2. Printed(video, p, OUTPUT) \in Screens /\ Echoed(video, p, NextKey(kb)) \in Screens
    BY <1>1, <2>1, Texts, PrintedOn, EchoedOn
  <2> QED BY <1>1, <2>2 DEF Kid
<1> QED BY <1>1, <1>5, <1>6, LinePrints

LEMMA newComandScreen ==
  ASSUME video \in Screens, NEW argv, NEW next, newComand(argv, next)
  PROVE  video' \in Screens
<1>1. argsError \in Screens
  BY Texts, PrintedOn DEF argsError
<1>2. ASSUME NEW name PROVE Builtin(name) \subseteq Screens
  <2>1. video \in Videos
    BY DEF Screens
  <2>2. {zoomIN(video), zoomOUT(video), video} \subseteq Screens /\ videoClear(video) \in Screens
    BY <2>1, ZoomsOn, videoClearTop
  <2>3. \A v \in {zoomIN(video), zoomOUT(video), video} : Printed(v, SHELL, <<NL>>) \in Screens
    BY <2>2, Texts, PrintedOn
  <2>4. Printed(video, SHELL, OUTPUT) \in Screens
    BY Texts, PrintedOn
  <2>5. {Printed(v, SHELL, <<NL>>) : v \in {zoomIN(video), zoomOUT(video), video}} \subseteq Screens
    BY <2>3
  <2>6. Builtin(name) \in {{Printed(v, SHELL, <<NL>>) : v \in {zoomIN(video), zoomOUT(video), video}},
                          {videoClear(video)}, {video, Printed(video, SHELL, OUTPUT)}}
    BY DEF Builtin
  <2> QED BY <2>2, <2>4, <2>5, <2>6
<1>3. \/ video' = video
      \/ video' = argsError
      \/ \E name : video' \in Builtin(name)
      \/ video' \in {Printed(video, SHELL, <<"o">>), imprimirVideo(video, OUTPUT)}
  BY DEF newComand, usr_create_process, usr_kill
<1>4. Printed(video, SHELL, <<"o">>) \in Screens /\ imprimirVideo(video, OUTPUT) \in Screens
  BY Texts, PrintedOn, imprimirVideoOn
<1> QED BY <1>1, <1>2, <1>3, <1>4

LEMMA chekCommandLine ==
  ASSUME KeysSound(kb, proc, fg), LineSound(video, proc, line, fg, spoilt), chekCommand,
         UNCHANGED <<line, spoilt>>
  PROVE  LineSound(video', proc', line', fg', spoilt')
<1>1. proc \in [Readers -> States] /\ video \in Screens /\ spoilt \in BOOLEAN
  BY DEF KeysSound, TypedIn, LineSound
<1>2. SHELL \in Readers /\ SHELL \notin Kids /\ Kids \subseteq Readers
  BY ReadersFinite
<1>3. video' \in Screens
  <2>1. \/ video' = video
        \/ video' = Printed(video, SHELL, OUTPUT)
        \/ \E argv, next : newComand(argv, next)
    BY DEF chekCommand
  <2> QED BY <1>1, <2>1, Texts, PrintedOn, newComandScreen
<1>4. Family(proc, fg)
  BY DEF LineSound
<1>5. Family(proc', fg')
  <2>1. ASSUME proc[SHELL] = "command", NEW next \in {"undefined", "info"}, GoesOn(next)
        PROVE  Family(proc', fg')
    BY <1>1, <1>2, <1>4, <2>1 DEF Family, Alone, GoesOn
  <2>2. ASSUME NEW next \in {"wait", "right"}, GoesOn(next) PROVE Family(proc', fg')
    BY <1>1, <1>2, <1>4, <2>2 DEF Family, Alone, GoesOn
  <2>3. ASSUME NEW next \in {"wait", "right"}, Started(next) PROVE Family(proc', fg')
    BY <1>1, <1>2, <1>4, <2>3, ReadersFinite DEF Family, Alone, Started
  <2>4. ASSUME NEW next \in {"wait", "right"}, Ended(next) PROVE Family(proc', fg')
    <3>1. PICK p \in DOMAIN proc : /\ proc[p] # "none" /\ remove_from_processes_list(p)
                                   /\ proc' = [proc EXCEPT ![SHELL] = next, ![p] = "none"]
      BY <2>4 DEF Ended
    <3>2. fg' \in Kids => fg' = fg /\ fg # p /\ proc'[fg] = proc[fg]
      BY <1>1, <1>2, <3>1, ReadersFinite DEF remove_from_processes_list, Parent
    <3>3. proc'[SHELL] \in {"wait", "right", "none"}
      BY <1>1, <1>2, <3>1
    <3> QED BY <1>4, <3>2, <3>3 DEF Family, Alone
  <2> QED BY <2>1, <2>2, <2>3, <2>4, chekCommandSteps
<1>6. ~Typing(proc')
  <2>1. PICK next \in {"undefined", "info", "wait", "right"} : GoesOn(next) \/ Started(next) \/ Ended(next)
    BY chekCommandSteps
  <2>2. proc'[SHELL] \in {next, "none"}
    BY <1>1, <1>2, <2>1 DEF GoesOn, Started, Ended
  <2> QED BY <2>2 DEF Typing
<1> QED BY <1>1, <1>3, <1>5, <1>6, LinePrints


\* A character that the shell takes out of the buffer goes to the line and to the
\* screen.
LEMMA EditLine ==
  ASSUME proc \in [Readers -> States], LineSound(video, proc, line, fg, spoilt), Typing(proc),
         NEW c \in Chars, Edit(c), fg' = fg
  PROVE  LineSound(video', proc', line', fg', spoilt')
<1>0. /\ video \in Screens /\ video \in Videos /\ line \in Seq(Chars) /\ spoilt \in BOOLEAN
      /\ video.zoom = 1 => CursorOn(video)
      /\ SHELL \in Readers /\ SHELL \notin Kids /\ Kids \subseteq Readers
  BY ReadersFinite DEF LineSound, Screens
<1>1. \A s : proc' = [proc EXCEPT ![SHELL] = s] => Family(proc', fg') /\ proc'[SHELL] = s
  BY <1>0 DEF Family, Alone, LineSound, Typing
<1>2. CASE /\ c = NL /\ line # <<>> /\ video' = Printed(video, SHELL, <<NL>>)
           /\ proc' = [proc EXCEPT ![SHELL] = "command"] /\ line' = line /\ spoilt' = spoilt
  <2>1. video' \in Screens
    BY <1>0, <1>2, Texts, PrintedOn
  <2> QED BY <1>0, <1>1, <1>2, <2>1, LinePrints DEF Typing
<1>3. CASE /\ c = NL /\ line = <<>> /\ video' = Printed(video, SHELL, <<NL, PROMPT>>)
           /\ proc' = [proc EXCEPT ![SHELL] = "run"] /\ line' = line /\ spoilt' = FALSE
  <2>1. video' \in Screens /\ video'.zoom = video.zoom
    BY <1>0, <1>3, Texts, PrintedOn
  <2>2. ASSUME fg = SHELL, video.zoom = 1 PROVE Displayed(video', line')
    <3>1. NL \in Chars /\ PROMPT \in Chars
      BY DEF Chars
    <3>2. video' = Imprime(Imprime(video, NL), PROMPT)
      BY <1>0, <1>3, <2>2, <3>1, imprimirVideoShort DEF Printed
    <3>3. Imprime(video, NL) \in Screens /\ Imprime(video, NL).zoom = 1
      BY <1>0, <2>2, <3>1, ImprimeOn
    <3> QED BY <1>3, <3>2, <3>3, DisplayedPrompt DEF Screens
  <2> QED BY <1>0, <1>1, <1>3, <2>1, <2>2 DEF LineSound
<1>4. CASE /\ proc' = [proc EXCEPT ![SHELL] = "run"] /\ UNCHANGED <<video, line, spoilt>>
  BY <1>1, <1>4, LineStays
<1>5. CASE /\ c # NL /\ c = DEL /\ line # <<>> /\ video' = Echoed(video, SHELL, c) /\ line' = Front(line)
           /\ \E s : proc' = [proc EXCEPT ![SHELL] = s]
           /\ spoilt' = spoilt
  <2>1. video' \in Screens /\ video'.zoom = video.zoom
    BY <1>0, <1>5, EchoedOn
  <2>2. Front(line) \in Seq(Chars)
    <3>1. Len(line) \in Nat /\ Len(line) # 0
      BY <1>0, <1>5, LenProperties, EmptySeq
    <3> QED BY <1>0, <3>1 DEF Front
  <2>3. ASSUME fg = SHELL, video.zoom = 1, Displayed(video, line) PROVE Displayed(video', line')
    <3>1. video' = Imprime(video, DEL)
      <4>1. DEL # NUL /\ DEL \in Chars
        BY DEF DEL, NUL, Chars
      <4> QED BY <1>0, <1>5, <2>3, <4>1, imprimirVideoShort DEF Echoed, Printed
    <3> QED BY <1>0, <1>5, <2>3, <3>1, DisplayedDelete
  <2> QED BY <1>0, <1>1, <1>5, <2>1, <2>2, <2>3 DEF LineSound
<1>6. CASE /\ c # NL /\ c # DEL /\ video' = Echoed(video, SHELL, c) /\ line' = Append(line, c)
           /\ \E s : proc' = [proc EXCEPT ![SHELL] = s]
           /\ spoilt' = (spoilt \/ c = NUL)
  <2>1. video' \in Screens /\ video'.zoom = video.zoom
    BY <1>0, <1>6, EchoedOn
  <2>2. Append(line, c) \in Seq(Chars)
    BY <1>0, AppendProperties
  <2>3. ASSUME fg = SHELL, video.zoom = 1, Displayed(video, line), c # NUL PROVE Displayed(video', line')
    <3>1. video' = Imprime(video, c)
      BY <1>0, <1>6, <2>3, imprimirVideoShort DEF Echoed, Printed
    <3> QED BY <1>0, <1>6, <2>3, <3>1, DisplayedAppend
  <2>4. spoilt' \in BOOLEAN /\ (~spoilt' => ~spoilt /\ c # NUL)
    BY <1>0, <1>6
  <2> QED BY <1>0, <1>1, <1>6, <2>1, <2>2, <2>3, <2>4 DEF LineSound
<1>7. \/ c = NL /\ line # <<>> /\ video' = Printed(video, SHELL, <<NL>>)
         /\ proc' = [proc EXCEPT ![SHELL] = "command"] /\ line' = line /\ spoilt' = spoilt
      \/ c = NL /\ line = <<>> /\ video' = Printed(video, SHELL, <<NL, PROMPT>>)
         /\ proc' = [proc EXCEPT ![SHELL] = "run"] /\ line' = line /\ spoilt' = FALSE
      \/ c # NL
  <2>1. CASE line = <<>>
    <3>1. (spoilt /\ line # <<>>) = FALSE
      BY <1>0, <2>1
    <3>2. c = NL => /\ video' = Printed(video, SHELL, <<NL, PROMPT>>) /\ proc' = [proc EXCEPT ![SHELL] = "run"]
                    /\ line' = line /\ spoilt' = (spoilt /\ line # <<>>)
      BY <2>1, Zenon DEF Edit, NL, DEL
    <3> QED BY <2>1, <3>1, <3>2, Zenon
  <2>2. CASE line # <<>>
    <3>1. (spoilt /\ line # <<>>) = spoilt
      BY <1>0, <2>2
    <3> QED BY <2>2, <3>1 DEF Edit
  <2> QED BY <2>1, <2>2
<1>8. c # NL => \/ proc' = [proc EXCEPT ![SHELL] = "run"] /\ UNCHANGED <<video, line, spoilt>>
                \/ /\ c # NL /\ c = DEL /\ line # <<>> /\ video' = Echoed(video, SHELL, c) /\ line' = Front(line)
                   /\ \E s : proc' = [proc EXCEPT ![SHELL] = s]
                   /\ spoilt' = spoilt
                \/ /\ c # NL /\ c # DEL /\ video' = Echoed(video, SHELL, c) /\ line' = Append(line, c)
                   /\ \E s : proc' = [proc EXCEPT ![SHELL] = s]
                   /\ spoilt' = (spoilt \/ c = NUL)
  <2>1. DEL # NUL
    BY DEF DEL, NUL
  <2> QED BY <1>0, <2>1 DEF Edit
<1> QED BY <1>2, <1>3, <1>4, <1>5, <1>6, <1>7, <1>8

LEMMA ShellKeyLine ==
  ASSUME KeysSound(kb, proc, fg), LineSound(video, proc, line, fg, spoilt), ShellKey
  PROVE  LineSound(video', proc', line', fg', spoilt')
<1>1. NextKey(kb) \in Chars /\ proc \in [Readers -> States]
  BY DEF KeysSound, TypedIn, Keyboards, NextKey
<1>2. Typing(proc) /\ Edit(NextKey(kb)) /\ fg' = fg
  BY DEF ShellKey, read_keyboard, Typing
<1> QED BY <1>1, <1>2, EditLine

LEMMA NewLineLine ==
  ASSUME KeysSound(kb, proc, fg), LineSound(video, proc, line, fg, spoilt), NewLine
  PROVE  LineSound(video', proc', line', fg', spoilt')
<1>1. /\ video \in Screens /\ proc \in [Readers -> States]
      /\ SHELL \in Readers /\ SHELL \notin Kids /\ Kids \subseteq Readers
  BY ReadersFinite DEF KeysSound, TypedIn, LineSound
<1>2. /\ video' = Printed(video, SHELL, <<PROMPT>>) /\ line' = <<>> /\ spoilt' = FALSE
      /\ proc' = [proc EXCEPT ![SHELL] = "run"] /\ fg' = fg
      /\ proc[SHELL] = "info" \/ \A p \in Kids : proc[p] = "none"
  BY DEF NewLine
<1>3. video' \in Screens /\ video'.zoom = video.zoom
  BY <1>1, <1>2, Texts, PrintedOn
<1>4. Family(proc', fg')
  BY <1>1, <1>2 DEF Family, Alone, LineSound
<1>5. ASSUME fg = SHELL, video.zoom = 1 PROVE Displayed(video', <<>>)
  <2>1. PROMPT \in Chars
    BY DEF Chars
  <2>2. video' = Imprime(video, PROMPT)
    BY <1>1, <1>2, <1>5, <2>1, imprimirVideoShort DEF Printed
  <2> QED BY <1>1, <1>5, <2>2, DisplayedPrompt DEF Screens
<1>6. line' \in Seq(Chars)
  BY <1>2, EmptySeq
<1> QED BY <1>2, <1>3, <1>4, <1>5, <1>6 DEF LineSound

LEMMA NextLine ==
  ASSUME KeysSound(kb, proc, fg), LineSound(video, proc, line, fg, spoilt), [Next]_vars
  PROVE  LineSound(video', proc', line', fg', spoilt')
<1>1. ASSUME NEW key \in Keys, Press(key) PROVE LineSound(video', proc', line', fg', spoilt')
  BY <1>1, int_21Line DEF Press
<1>2. ASSUME NEW key \in Keys, Release(key) PROVE LineSound(video', proc', line', fg', spoilt')
  BY <1>2, int_21Line DEF Release
<1>3. ASSUME NEW p \in {SHELL} \cup Kids, Blocks(p) PROVE LineSound(video', proc', line', fg', spoilt')
  <2>1. p \in Readers
    BY DEF Readers
  <2> QED BY <1>3, <2>1, BlocksLine
<1>4. CASE ShellKey
  BY <1>4, ShellKeyLine
<1>5. CASE chekCommand /\ UNCHANGED <<line, spoilt, presses>>
  BY <1>5, chekCommandLine
<1>6. CASE NewLine
  BY <1>6, NewLineLine
<1>7. ASSUME NEW p \in Kids, Kid(p), UNCHANGED <<line, late, spoilt, presses>>
      PROVE  LineSound(video', proc', line', fg', spoilt')
  BY <1>7, KidLine
<1>8. ASSUME NEW q \in late, LatePrompt(q) PROVE LineSound(video', proc', line', fg', spoilt')
  BY <1>8, LatePromptLine
<1>9. CASE UNCHANGED vars
  BY <1>9 DEF vars
<1> QED BY <1>1, <1>2, <1>3, <1>4, <1>5, <1>6, <1>7, <1>8, <1>9 DEF Next

\* At zoom 1 the user sees what will be run: before the cursor there is the line, and
\* before the line the prompt, through line ends, deletions over them and full
\* screens, whatever commands and children did to the screen before, and whoever was
\* killed by a command or by Ctrl-C.  Lines with a Ctrl-D, and lines into which the
\* prompt of a Ctrl-C comes late, are left out.
THEOREM LineIsShown == Spec => []LineShown
<1>1. Init => KeysSound(kb, proc, fg) /\ LineSound(video, proc, line, fg, spoilt)
  BY InitKeys, InitLine
<1>2. KeysSound(kb, proc, fg) /\ LineSound(video, proc, line, fg, spoilt) /\ [Next]_vars
      => (KeysSound(kb, proc, fg) /\ LineSound(video, proc, line, fg, spoilt))'
  BY NextKeys, NextLine
<1>3. LineSound(video, proc, line, fg, spoilt) => LineShown
  BY ShownDisplayed
<1> QED BY <1>1, <1>2, <1>3, PTL DEF Spec


-----------------------------------------------------------------------------
(* The words of a line.                                                    *)

Parsed == {p \in [args : Seq(Seq(Chars)), open : BOOLEAN] : p.open => p.args # <<>>}
Unread == [args |-> <<>>, open |-> FALSE]

\* The steps of a fold of Reads.
ReadsRun(k, cs, n, V) ==
  \E r : /\ r[0] = k /\ r[n] = FoldLeft(Reads, k, cs) /\ \A i \in 0..n : r[i] \in V
         /\ \A i \in 0..n - 1 : r[i + 1] = Reads(r[i], cs[i + 1])

LEMMA ReadsSteps ==
  ASSUME NEW n \in Nat, NEW cs, DOMAIN cs = 1..n, NEW V, NEW k \in V,
         \A v \in V : \A i \in 1..n : Reads(v, cs[i]) \in V
  PROVE  ReadsRun(k, cs, n, V)
<1> DEFINE S == 1..n
           A(f) == [s \in SUBSET S |-> IF s = {} THEN k ELSE Reads(f[s \ {Max(s)}], cs[Max(s)])]
           z == CHOOSE f : f = A(f)
           F == [x \in V \X S |-> Reads(x[1], cs[x[2]])]
           r == [i \in 0..n |-> z[1..i]]
<1>1. FoldLeft(Reads, k, cs) = z[S]
  BY DEF FoldLeft, MapThenFoldSet
<1>2. F \in [V \X S -> V]
  OBVIOUS
<1>3. PICK f : IsFold(f, F, k, S) /\ \A s \in SUBSET S : f[s] \in V
  <2>1. S = 1..n /\ k \in V /\ n \in Nat /\ F \in [V \X S -> V]
    BY <1>2
  <2> HIDE DEF A, z, F, S
  <2>2. Folds(F, k, S, V)
    BY <2>1, FoldExists
  <2> QED BY <2>2 DEF Folds
<1>4. f = A(f)
  <2>1. ASSUME NEW s \in SUBSET S, s # {}
        PROVE  F[<<f[s \ {Max(s)}], Max(s)>>] = Reads(f[s \ {Max(s)}], cs[Max(s)])
    <3>1. s \subseteq 0..n
      OBVIOUS
    <3>2. Max(s) \in S
      BY <2>1, <3>1, MaxIn
    <3>3. f[s \ {Max(s)}] \in V
      BY <1>3
    <3> QED BY <3>2, <3>3
  <2> HIDE DEF F, S
  <2> QED BY <1>3, <2>1 DEF IsFold
<1>5. z = A(z)
  BY <1>4
<1> HIDE DEF z
<1>6. r[0] = k /\ r[n] = FoldLeft(Reads, k, cs)
  <2>1. 1..0 = {} /\ {} \in SUBSET S
    OBVIOUS
  <2>2. z[{}] = k
    BY <1>5, <2>1
  <2> QED BY <1>1, <2>1, <2>2
<1>7. ASSUME NEW i \in 0..n - 1 PROVE r[i + 1] = Reads(r[i], cs[i + 1])
  <2>1. /\ Max(1..(i + 1)) = i + 1 /\ (1..(i + 1)) \ {i + 1} = 1..((i + 1) - 1) /\ 1..(i + 1) # {}
    BY Beginnings
  <2>2. (i + 1) - 1 = i /\ 1..(i + 1) \in SUBSET S /\ i \in 0..n /\ i + 1 \in 0..n
    OBVIOUS
  <2>3. z[1..(i + 1)] = Reads(z[1..i], cs[i + 1])
    BY <1>5, <2>1, <2>2
  <2> QED BY <2>2, <2>3
<1> HIDE DEF r, A, F
<1>8. \A i \in 0..n : r[i] \in V
  <2>1. ASSUME NEW i \in 0..n - 1, r[i] \in V PROVE r[i + 1] \in V
    <3>1. i + 1 \in 1..n
      OBVIOUS
    <3> QED BY <1>7, <2>1, <3>1
  <2>2. r[0] \in V
    BY <1>6
  <2> QED BY <2>1, <2>2, Along
<1> QED BY <1>6, <1>7, <1>8 DEF ReadsRun

\* The last word is open, and has place.
InWord(p) == p.open /\ Len(p.args[Len(p.args)]) < MAX_ARG_LEN - 1

\* What a character does to the words: nothing, or it is added to the last one, or it
\* begins one.
Leaves(p, q) == ~q.open /\ q.args = p.args
Extends(p, q, c) ==
  LET n == Len(p.args)
  IN  /\ q.open /\ Len(q.args) = n /\ q.args[n] = Append(p.args[n], c)
      /\ \A m \in 1..n - 1 : q.args[m] = p.args[m]
Begins(p, q, c) ==
  LET n == Len(p.args)
  IN  /\ q.open /\ Len(q.args) = n + 1 /\ q.args[n + 1] = <<c>>
      /\ \A m \in 1..n : q.args[m] = p.args[m]

LEMMA ReadsDoes ==
  ASSUME NEW p \in Parsed, NEW c \in Chars
  PROVE  /\ Reads(p, c) \in Parsed
         /\ c = SPACE => Leaves(p, Reads(p, c))
         /\ c # SPACE /\ InWord(p) => Extends(p, Reads(p, c), c)
         /\ c # SPACE /\ ~InWord(p) /\ Len(p.args) < MAX_ARGS => Begins(p, Reads(p, c), c)
         /\ c # SPACE /\ ~InWord(p) /\ ~(Len(p.args) < MAX_ARGS) => Leaves(p, Reads(p, c))
<1> DEFINE a == p.args
           n == Len(a)
           grown == [a EXCEPT ![n] = Append(@, c)]
           word == <<c>>
           more == Append(a, word)
<1>1. a \in Seq(Seq(Chars)) /\ p.open \in BOOLEAN /\ (p.open => a # <<>>) /\ p = [args |-> a, open |-> p.open]
  BY DEF Parsed
<1>2. n \in Nat /\ DOMAIN a = 1..n /\ \A i \in 1..n : a[i] \in Seq(Chars)
  BY <1>1, LenProperties, ElementOfSeq
<1>3. p.open => n \in 1..n /\ n # 0
  BY <1>1, <1>2, EmptySeq
<1>4. word \in Seq(Chars)
  OBVIOUS
<1>5. more \in Seq(Seq(Chars)) /\ more # <<>> /\ Len(more) = n + 1 /\ more[n + 1] = word /\ \A i \in 1..n : more[i] = a[i]
  <2> DEFINE W == Seq(Chars)
  <2>1. a \in Seq(W) /\ word \in W
    BY <1>1, <1>4
  <2> HIDE DEF a, word, W
  <2>2. /\ Append(a, word) \in Seq(W) /\ Append(a, word) # <<>> /\ Len(Append(a, word)) = Len(a) + 1
        /\ \A i \in 1..Len(a) : Append(a, word)[i] = a[i]
        /\ Append(a, word)[Len(a) + 1] = word
    BY <2>1, AppendProperties
  <2> QED BY <2>2 DEF W
<1>6. p.open => /\ grown \in Seq(Seq(Chars)) /\ Len(grown) = n /\ grown[n] = Append(a[n], c)
                /\ \A i \in 1..n - 1 : grown[i] = a[i]
  <2> SUFFICES ASSUME p.open
               PROVE  /\ grown \in Seq(Seq(Chars)) /\ Len(grown) = n /\ grown[n] = Append(a[n], c)
                      /\ \A i \in 1..n - 1 : grown[i] = a[i]
    OBVIOUS
  <2>1. n \in 1..n /\ a[n] \in Seq(Chars)
    BY <1>2, <1>3
  <2>2. Append(a[n], c) \in Seq(Chars)
    BY <2>1, AppendProperties
  <2> DEFINE e == Append(a[n], c)
  <2>3. grown = [a EXCEPT ![n] = e]
    BY <1>2, <2>1
  <2>4. e \in Seq(Chars)
    BY <2>2
  <2> HIDE DEF e, grown
  <2>5. grown \in Seq(Seq(Chars)) /\ Len(grown) = n
    BY <1>1, <2>1, <2>3, <2>4, ExceptSeq
  <2>6. grown[n] = e /\ \A i \in 1..n - 1 : grown[i] = a[i]
    BY <1>2, <2>1, <2>3
  <2> QED BY <2>5, <2>6 DEF e
<1>7. p.open => grown # <<>>
  BY <1>3, <1>6, <1>2
<1>8. Last(a) = a[n]
  BY DEF Last
<1>9. ASSUME Reads(p, c) = [args |-> a, open |-> FALSE]
      PROVE  Reads(p, c) \in Parsed /\ Leaves(p, Reads(p, c))
  <2> HIDE DEF a
  <2> QED BY <1>1, <1>9 DEF Parsed, Leaves, a
<1>10. CASE c = SPACE
  <2>1. Reads(p, c) = [args |-> a, open |-> FALSE]
    BY <1>1, <1>10 DEF Reads
  <2> QED BY <1>9, <1>10, <2>1
<1>11. CASE c # SPACE /\ InWord(p)
  <2>1. Reads(p, c) = [args |-> grown, open |-> TRUE] /\ p.open
    <3>1. Reads(p, c) = [p EXCEPT !.args[n] = Append(@, c)]
      BY <1>8, <1>11 DEF Reads, InWord
    <3> QED BY <1>1, <1>11, <3>1 DEF InWord
  <2> DEFINE q == Reads(p, c)
  <2>2. q.args = grown /\ q.open = TRUE /\ q = [args |-> grown, open |-> TRUE]
    BY <2>1
  <2> HIDE DEF q, grown
  <2>3. q \in Parsed
    BY <1>6, <1>7, <2>1, <2>2 DEF Parsed
  <2>4. Extends(p, q, c)
    BY <1>6, <2>1, <2>2 DEF Extends
  <2> QED BY <1>11, <2>3, <2>4 DEF q
<1>12. CASE c # SPACE /\ ~InWord(p) /\ n < MAX_ARGS
  <2>1. Reads(p, c) = [args |-> more, open |-> TRUE]
    BY <1>8, <1>12 DEF Reads, InWord
  <2> DEFINE q == Reads(p, c)
  <2>2. q.args = more /\ q.open = TRUE /\ q = [args |-> more, open |-> TRUE]
    BY <2>1
  <2> HIDE DEF q, more
  <2>3. q \in Parsed
    BY <1>5, <2>2 DEF Parsed
  <2>4. Begins(p, q, c)
    BY <1>5, <2>2 DEF Begins
  <2> QED BY <1>12, <2>3, <2>4 DEF q
<1>13. CASE c # SPACE /\ ~InWord(p) /\ ~(n < MAX_ARGS)
  <2>1. Reads(p, c) = [args |-> a, open |-> FALSE]
    BY <1>1, <1>8, <1>13 DEF Reads, InWord
  <2> QED BY <1>9, <1>13, <2>1
<1> QED BY <1>10, <1>11, <1>12, <1>13


\* The places of a word.
PIECE == MAX_ARG_LEN - 1
\* How far i is from the beginning of its piece.
Off(s, i) == (i - RunStart(s, i)) % PIECE
\* How many pieces begin at n or before.
Upto(s, n) == {j \in WordStarts(s) : j <= n}
Count(s, n) == Cardinality(Upto(s, n))

LEMMA PieceNat == PIECE \in Nat \ {0} /\ MAX_ARGS \in Nat
BY ShellAssumption DEF PIECE

LEMMA NextRemainder ==
  ASSUME NEW L \in Nat \ {0}, NEW x \in Nat
  PROVE  (x + 1) % L = IF x % L = L - 1 THEN 0 ELSE (x % L) + 1
<1> DEFINE d == x \div L
           y == x % L
<1>1. y \in 0..L - 1 /\ d \in Int /\ x = (L * d) + y
  OBVIOUS
<1> HIDE DEF d, y
<1>2. L * d \in Int /\ L * d = d * L /\ (d + 1) * L = (d * L) + L /\ d + 1 \in Int
  BY <1>1
<1>3. CASE y = L - 1
  <2>1. x + 1 = ((d + 1) * L) + 0
    <3> DEFINE u == d * L
    <3>1. u \in Int /\ x = u + y /\ (d + 1) * L = u + L
      BY <1>1, <1>2
    <3> HIDE DEF u
    <3> QED BY <1>1, <1>3, <3>1
  <2>2. 0 \in 0..L - 1
    OBVIOUS
  <2>3. (x + 1) % L = 0
    BY <1>2, <2>1, <2>2, Divided
  <2> QED BY <1>3, <2>3 DEF y
<1>4. CASE y # L - 1
  <2>1. x + 1 = (d * L) + (y + 1)
    <3> DEFINE u == d * L
    <3>1. u \in Int /\ x = u + y
      BY <1>1, <1>2
    <3> HIDE DEF u
    <3> QED BY <1>1, <3>1
  <2>2. y + 1 \in 0..L - 1
    BY <1>1, <1>4
  <2>3. (x + 1) % L = y + 1
    BY <1>1, <2>1, <2>2, Divided
  <2> QED BY <1>4, <2>3 DEF y
<1> QED BY <1>3, <1>4

LEMMA RunStartSteps ==
  ASSUME NEW s, NEW n \in Nat \ {0}
  PROVE  /\ RunStart(s, n) \in 1..n /\ RunStart(s, 1) = 1
         /\ s[n] = SPACE => RunStart(s, n + 1) = n + 1
         /\ s[n] # SPACE => RunStart(s, n + 1) = RunStart(s, n)
<1> DEFINE R(i) == {j \in 1..i : j = 1 \/ s[j - 1] = SPACE}
<1>1. \A i \in Nat \ {0} : RunStart(s, i) = Max(R(i)) /\ R(i) \subseteq 0..i /\ 1 \in R(i)
  <2> TAKE i \in Nat \ {0}
  <2>1. RunStart(s, i) = Max(R(i))
    BY DEF RunStart
  <2>2. 1 \in 1..i /\ 1..i \subseteq 0..i
    OBVIOUS
  <2>3. R(i) \subseteq 1..i /\ 1 \in R(i)
    BY <2>2, Zenon
  <2> HIDE DEF R
  <2> QED BY <2>1, <2>2, <2>3
<1>2. \A i \in Nat \ {0} : RunStart(s, i) \in R(i) /\ \A j \in R(i) : RunStart(s, i) >= j
  <2> TAKE i \in Nat \ {0}
  <2>1. R(i) \subseteq 0..i /\ R(i) # {} /\ i \in Nat
    BY <1>1
  <2> HIDE DEF R
  <2> QED BY <1>1, <2>1, MaxIn
<1>3. RunStart(s, n) \in 1..n
  BY <1>2
<1>4. RunStart(s, 1) = 1
  <2>1. 1 \in Nat \ {0} /\ 1..1 = {1}
    OBVIOUS
  <2>2. R(1) \subseteq 1..1
    BY Zenon
  <2> HIDE DEF R
  <2> QED BY <1>2, <2>1, <2>2
<1>5. ASSUME s[n] = SPACE PROVE RunStart(s, n + 1) = n + 1
  <2>1. n + 1 \in Nat \ {0} /\ (n + 1) - 1 = n /\ n + 1 \in 1..(n + 1)
    OBVIOUS
  <2>2. n + 1 \in R(n + 1)
    BY <1>5, <2>1
  <2>3. RunStart(s, n + 1) \in 1..(n + 1) /\ RunStart(s, n + 1) >= n + 1
    BY <1>2, <2>1, <2>2
  <2> QED BY <2>3
<1>6. ASSUME s[n] # SPACE PROVE RunStart(s, n + 1) = RunStart(s, n)
  <2>1. n + 1 \in Nat \ {0} /\ (n + 1) - 1 = n /\ n + 1 # 1
    OBVIOUS
  <2>2. R(n + 1) = R(n)
    <3>1. n + 1 \notin R(n + 1)
      BY <1>6, <2>1
    <3>2. \A j \in 1..(n + 1) : j # n + 1 => j \in 1..n
      OBVIOUS
    <3>3. \A j \in 1..n : j \in 1..(n + 1)
      OBVIOUS
    <3> QED BY <3>1, <3>2, <3>3
  <2> QED BY <1>1, <2>1, <2>2
<1> QED BY <1>3, <1>4, <1>5, <1>6

LEMMA OffSteps ==
  ASSUME NEW s, NEW n \in Nat \ {0}
  PROVE  /\ Off(s, n) \in 0..PIECE - 1 /\ Off(s, 1) = 0
         /\ s[n] = SPACE => Off(s, n + 1) = 0
         /\ s[n] # SPACE => Off(s, n + 1) = IF Off(s, n) = PIECE - 1 THEN 0 ELSE Off(s, n) + 1
<1> DEFINE f == RunStart(s, n)
<1>1. f \in 1..n /\ PIECE \in Nat \ {0} /\ RunStart(s, 1) = 1
  BY RunStartSteps, PieceNat
<1>2. 0 % PIECE = 0
  BY <1>1
<1>3. Off(s, n) \in 0..PIECE - 1
  BY <1>1 DEF Off
<1>4. Off(s, 1) = 0
  BY <1>1, <1>2 DEF Off
<1>5. ASSUME s[n] = SPACE PROVE Off(s, n + 1) = 0
  <2>1. RunStart(s, n + 1) = n + 1
    BY <1>5, RunStartSteps
  <2>2. (n + 1) - (n + 1) = 0
    OBVIOUS
  <2>3. Off(s, n + 1) = 0 % PIECE
    BY <2>1, <2>2 DEF Off
  <2> QED BY <1>2, <2>3
<1>6. ASSUME s[n] # SPACE PROVE Off(s, n + 1) = IF Off(s, n) = PIECE - 1 THEN 0 ELSE Off(s, n) + 1
  <2>1. RunStart(s, n + 1) = f
    BY <1>6, RunStartSteps
  <2>2. (n + 1) - f = (n - f) + 1 /\ n - f \in Nat
    BY <1>1
  <2>3. Off(s, n + 1) = ((n - f) + 1) % PIECE /\ Off(s, n) = (n - f) % PIECE
    BY <2>1, <2>2 DEF Off
  <2> HIDE DEF f
  <2> QED BY <1>1, <2>2, <2>3, NextRemainder
<1> QED BY <1>3, <1>4, <1>5, <1>6

LEMMA StartsAre ==
  ASSUME NEW s \in Seq(Chars)
  PROVE  /\ \A i : i \in WordStarts(s) <=> i \in 1..Len(s) /\ s[i] # SPACE /\ Off(s, i) = 0
         /\ Len(s) \in Nat /\ \A i \in 1..Len(s) : s[i] \in Chars
<1>1. DOMAIN s = 1..Len(s) /\ Len(s) \in Nat /\ \A i \in 1..Len(s) : s[i] \in Chars
  BY LenProperties, ElementOfSeq
<1> QED BY <1>1 DEF WordStarts, Off, PIECE

LEMMA CountSteps ==
  ASSUME NEW s \in Seq(Chars)
  PROVE  /\ Count(s, 0) = 0 /\ \A n \in Nat : Count(s, n) \in Nat
         /\ \A n \in Nat : Count(s, n + 1) = IF n + 1 \in WordStarts(s) THEN Count(s, n) + 1 ELSE Count(s, n)
         /\ Count(s, Len(s)) = Cardinality(WordStarts(s))
<1>1. WordStarts(s) \subseteq 1..Len(s) /\ Len(s) \in Nat
  BY StartsAre
<1>2. \A n \in Nat : IsFiniteSet(Upto(s, n))
  <2>1. IsFiniteSet(1..Len(s))
    BY <1>1, FS_Interval
  <2>2. IsFiniteSet(WordStarts(s))
    BY <1>1, <2>1, FS_Subset
  <2>3. \A n \in Nat : Upto(s, n) \subseteq WordStarts(s)
    BY DEF Upto
  <2> QED BY <2>2, <2>3, FS_Subset
<1>3. \A n \in Nat : Count(s, n) \in Nat
  BY <1>2, FS_CardinalityType DEF Count
<1>4. Count(s, 0) = 0
  <2>1. Upto(s, 0) = {}
    BY <1>1 DEF Upto
  <2> QED BY <2>1, FS_EmptySet DEF Count
<1>5. ASSUME NEW n \in Nat
      PROVE  Count(s, n + 1) = IF n + 1 \in WordStarts(s) THEN Count(s, n) + 1 ELSE Count(s, n)
  <2>1. \A j \in WordStarts(s) : j <= n + 1 <=> j <= n \/ j = n + 1
    BY <1>1
  <2>2. n + 1 \in WordStarts(s) => Upto(s, n + 1) = Upto(s, n) \cup {n + 1} /\ n + 1 \notin Upto(s, n)
    <3>1. ~(n + 1 <= n)
      OBVIOUS
    <3> QED BY <2>1, <3>1 DEF Upto
  <2>3. n + 1 \notin WordStarts(s) => Upto(s, n + 1) = Upto(s, n)
    BY <2>1 DEF Upto
  <2>4. n + 1 \in WordStarts(s) => Cardinality(Upto(s, n) \cup {n + 1}) = Cardinality(Upto(s, n)) + 1
    BY <1>2, <2>2, FS_AddElement
  <2> QED BY <2>2, <2>3, <2>4 DEF Count
<1>6. Upto(s, Len(s)) = WordStarts(s)
  BY <1>1 DEF Upto
<1> QED BY <1>3, <1>4, <1>5, <1>6 DEF Count

\* The counts of pieces follow their order.
LEMMA CountGrows ==
  ASSUME NEW s \in Seq(Chars)
  PROVE  /\ \A i, j \in Nat : i <= j => Count(s, i) <= Count(s, j)
         /\ \A i \in Nat : \A j \in WordStarts(s) : i < j => Count(s, i) < Count(s, j)
<1> DEFINE N == {j \in Nat : \A i \in Nat : i <= j => Count(s, i) <= Count(s, j)}
<1>1. \A n \in Nat : Count(s, n) \in Nat /\ (Count(s, n + 1) = Count(s, n) \/ Count(s, n + 1) = Count(s, n) + 1)
  BY CountSteps
<1>2. 0 \in N
  <2>1. \A i \in Nat : i <= 0 => i = 0
    OBVIOUS
  <2> QED BY <1>1, <2>1
<1>3. ASSUME NEW n \in Nat, n \in N PROVE n + 1 \in N
  <2> SUFFICES ASSUME NEW i \in Nat, i <= n + 1 PROVE Count(s, i) <= Count(s, n + 1)
    OBVIOUS
  <2>1. Count(s, n) <= Count(s, n + 1) /\ Count(s, n) \in Nat /\ Count(s, n + 1) \in Nat /\ Count(s, i) \in Nat
    <3>1. n + 1 \in Nat
      OBVIOUS
    <3> HIDE DEF N
    <3>2. Count(s, n) \in Nat /\ Count(s, n + 1) \in Nat /\ Count(s, i) \in Nat
      BY <1>1, <3>1
    <3>3. Count(s, n + 1) = Count(s, n) \/ Count(s, n + 1) = Count(s, n) + 1
      BY <1>1
    <3> DEFINE x == Count(s, n)
               y == Count(s, n + 1)
    <3>4. x \in Nat /\ (y = x \/ y = x + 1)
      BY <3>2, <3>3
    <3> HIDE DEF x, y
    <3>5. x <= y
      BY <3>4
    <3> QED BY <3>2, <3>5 DEF x, y
  <2>2. CASE i <= n
    <3>1. Count(s, i) <= Count(s, n)
      BY <1>3, <2>2
    <3> QED BY <2>1, <3>1
  <2>3. CASE i = n + 1
    BY <2>1, <2>3
  <2> QED BY <2>2, <2>3
<1> HIDE DEF N
<1>4. \A n \in Nat : n \in N
  BY <1>2, <1>3, AllNaturals
<1>5. \A i, j \in Nat : i <= j => Count(s, i) <= Count(s, j)
  BY <1>4 DEF N
<1>6. ASSUME NEW i \in Nat, NEW j \in WordStarts(s), i < j PROVE Count(s, i) < Count(s, j)
  <2>1. j \in 1..Len(s) /\ Len(s) \in Nat
    BY StartsAre
  <2>2. j - 1 \in Nat /\ (j - 1) + 1 = j /\ i <= j - 1
    BY <1>6, <2>1
  <2>3. Count(s, j) = Count(s, j - 1) + 1
    BY <2>2, CountSteps
  <2>4. Count(s, i) <= Count(s, j - 1) /\ Count(s, i) \in Nat /\ Count(s, j - 1) \in Nat
    BY <1>1, <1>5, <2>2
  <2> QED BY <2>3, <2>4
<1> QED BY <1>5, <1>6


\* The piece that n is in begins at a, and nothing has ended it.
LastAt(s, n, a) ==
  /\ a \in WordStarts(s) /\ a <= n /\ \A j \in a..n : s[j] # SPACE
  /\ Off(s, n) = n - a /\ Count(s, a) = Count(s, n)

LEMMA LastHere ==
  ASSUME NEW s \in Seq(Chars), NEW n \in 1..Len(s), s[n] # SPACE, Off(s, n) = 0
  PROVE  LastAt(s, n, n)
<1>1. n \in WordStarts(s) /\ n \in Nat
  BY StartsAre
<1>2. n - n = 0 /\ n <= n /\ \A j \in n..n : j = n
  BY <1>1
<1> QED BY <1>1, <1>2 DEF LastAt

LEMMA LastGoesOn ==
  ASSUME NEW s \in Seq(Chars), NEW n \in 1..Len(s), n + 1 \in 1..Len(s), s[n] # SPACE, s[n + 1] # SPACE,
         Off(s, n) # PIECE - 1, NEW a, LastAt(s, n, a)
  PROVE  LastAt(s, n + 1, a) /\ n + 1 \notin WordStarts(s)
<1>1. Off(s, n) \in 0..PIECE - 1 /\ Off(s, n + 1) = Off(s, n) + 1 /\ n \in Nat /\ PIECE \in Nat \ {0}
  BY StartsAre, OffSteps, PieceNat
<1>2. n + 1 \notin WordStarts(s)
  <2>1. Off(s, n + 1) # 0
    BY <1>1
  <2> QED BY <2>1, StartsAre
<1>3. Count(s, n + 1) = Count(s, n)
  BY <1>1, <1>2, CountSteps
<1>4. a \in 1..Len(s) /\ a \in WordStarts(s) /\ a <= n /\ Off(s, n) = n - a /\ Count(s, a) = Count(s, n) /\ Len(s) \in Nat
  BY StartsAre DEF LastAt
<1>5. a <= n + 1 /\ (n + 1) - a = (n - a) + 1 /\ \A j \in a..(n + 1) : j \in a..n \/ j = n + 1
  BY <1>1, <1>4
<1>6. \A j \in a..(n + 1) : s[j] # SPACE
  BY <1>5 DEF LastAt
<1> QED BY <1>1, <1>2, <1>3, <1>4, <1>5, <1>6 DEF LastAt

LEMMA LastPiece ==
  ASSUME NEW s \in Seq(Chars)
  PROVE  \A n \in 1..Len(s) : s[n] # SPACE => \E a : LastAt(s, n, a)
<1> DEFINE N == {n \in Nat : n \in 1..Len(s) /\ s[n] # SPACE => \E a : LastAt(s, n, a)}
<1>0. Len(s) \in Nat
  BY StartsAre
<1>1. 0 \in N
  OBVIOUS
<1>2. ASSUME NEW n \in Nat, n \in N PROVE n + 1 \in N
  <2> SUFFICES ASSUME n + 1 \in 1..Len(s), s[n + 1] # SPACE PROVE \E a : LastAt(s, n + 1, a)
    OBVIOUS
  <2>1. CASE Off(s, n + 1) = 0
    BY <2>1, LastHere
  <2>2. CASE Off(s, n + 1) # 0
    <3>1. n # 0
      <4>1. Off(s, 1) = 0
        <5>1. 1 \in Nat \ {0}
          OBVIOUS
        <5> QED BY <5>1, OffSteps
      <4>2. 0 + 1 = 1
        OBVIOUS
      <4> QED BY <2>2, <4>1, <4>2
    <3>2. n \in 1..Len(s) /\ n \in Nat \ {0}
      BY <1>0, <3>1
    <3>3. s[n] # SPACE /\ Off(s, n) # PIECE - 1
      BY <2>2, <3>2, OffSteps
    <3>4. PICK a : LastAt(s, n, a)
      BY <1>2, <3>2, <3>3
    <3> QED BY <3>2, <3>3, <3>4, LastGoesOn
  <2> QED BY <2>1, <2>2
<1> HIDE DEF N
<1>3. \A n \in Nat : n \in N
  BY <1>1, <1>2, AllNaturals
<1> QED BY <1>0, <1>3 DEF N

LEMMA EndIs ==
  ASSUME NEW s \in Seq(Chars), NEW b \in WordStarts(s)
  PROVE  /\ WordEnd(s, b) \in Nat /\ WordEnd(s, b) <= Len(s) /\ WordEnd(s, b) <= b + (PIECE - 1)
         /\ \A j \in b..Len(s) : s[j] = SPACE => WordEnd(s, b) <= j - 1
         /\ \A n \in b..Len(s) : (\A j \in b..n : s[j] # SPACE) /\ n <= b + (PIECE - 1) => n <= WordEnd(s, b)
<1> DEFINE E == {j - 1 : j \in {j \in b..Len(s) : s[j] = SPACE}} \cup {Len(s), b + (PIECE - 1)}
<1>1. b \in 1..Len(s) /\ Len(s) \in Nat /\ PIECE \in Nat \ {0} /\ MAX_ARG_LEN \in Nat
  BY StartsAre, PieceNat, ShellAssumption
<1>2. WordEnd(s, b) = Min(E)
  <2>1. MAX_ARG_LEN - 2 = PIECE - 1
    BY <1>1 DEF PIECE
  <2>2. b + MAX_ARG_LEN - 2 = b + (PIECE - 1)
    BY <1>1, <2>1
  <2> QED BY <2>2 DEF WordEnd
<1>3. E \subseteq Nat /\ E # {}
  <2>1. b + (PIECE - 1) \in Nat
    BY <1>1
  <2>2. \A j \in b..Len(s) : j - 1 \in Nat
    BY <1>1
  <2> QED BY <1>1, <2>1, <2>2
<1>4. Len(s) \in E /\ b + (PIECE - 1) \in E /\ \A j \in b..Len(s) : s[j] = SPACE => j - 1 \in E
  OBVIOUS
<1>5. \A x \in E : x = Len(s) \/ x = b + (PIECE - 1) \/ \E j \in b..Len(s) : s[j] = SPACE /\ x = j - 1
  OBVIOUS
<1> HIDE DEF E
<1>6. Min(E) \in E /\ \A x \in E : Min(E) <= x
  BY <1>3, MinIn
<1>7. ASSUME NEW n \in b..Len(s), \A j \in b..n : s[j] # SPACE, n <= b + (PIECE - 1)
      PROVE  n <= Min(E)
  <2>1. n \in Nat
    BY <1>1
  <2>2. CASE \E j \in b..Len(s) : s[j] = SPACE /\ Min(E) = j - 1
    <3>1. PICK j \in b..Len(s) : s[j] = SPACE /\ Min(E) = j - 1
      BY <2>2
    <3>2. j \notin b..n
      BY <1>7, <3>1
    <3>3. j \in Nat /\ b <= j /\ b \in Nat
      BY <1>1
    <3>4. ~(j <= n)
      BY <2>1, <3>2, <3>3
    <3> QED BY <2>1, <3>1, <3>3, <3>4
  <2>3. CASE Min(E) = Len(s)
    BY <1>1, <2>3
  <2>4. CASE Min(E) = b + (PIECE - 1)
    BY <1>7, <2>4
  <2> QED BY <1>5, <1>6, <2>2, <2>3, <2>4
<1>8. Min(E) \in Nat /\ Min(E) <= Len(s) /\ Min(E) <= b + (PIECE - 1) /\ \A j \in b..Len(s) : s[j] = SPACE => Min(E) <= j - 1
  BY <1>3, <1>4, <1>6
<1> QED BY <1>2, <1>7, <1>8

\* A piece ends before the next one begins.
LEMMA EndsBefore ==
  ASSUME NEW s \in Seq(Chars)
  PROVE  \A b, c \in WordStarts(s) : b < c => WordEnd(s, b) < c
<1> DEFINE N == {n \in Nat : \A b, c \in WordStarts(s) : b < c /\ c <= n => WordEnd(s, b) < c}
<1>0. Len(s) \in Nat /\ WordStarts(s) \subseteq 1..Len(s) /\ PIECE \in Nat \ {0}
  BY StartsAre, PieceNat
<1>1. 0 \in N
  <2>1. \A c \in WordStarts(s) : ~(c <= 0)
    BY <1>0
  <2> QED BY <2>1
<1>2. ASSUME NEW n \in Nat, n \in N PROVE n + 1 \in N
  <2> SUFFICES ASSUME NEW b \in WordStarts(s), NEW c \in WordStarts(s), b < c, c <= n + 1
               PROVE  WordEnd(s, b) < c
    OBVIOUS
  <2>1. CASE c <= n
    BY <1>2, <2>1
  <2>2. CASE c = n + 1
    <3>1. b \in Nat /\ c \in Nat /\ b <= n /\ n \in 1..Len(s) /\ n \in Nat \ {0} /\ n \in b..Len(s)
      BY <1>0, <2>2
    <3>2. CASE s[n] = SPACE
      <4>1. WordEnd(s, b) <= n - 1 /\ WordEnd(s, b) \in Nat
        BY <3>1, <3>2, EndIs
      <4> QED BY <2>2, <3>1, <4>1
    <3>3. CASE s[n] # SPACE
      <4>1. Off(s, n + 1) = 0
        BY <2>2, StartsAre
      <4>2. Off(s, n) \in 0..PIECE - 1 /\ Off(s, n) = PIECE - 1
        BY <1>0, <3>1, <3>3, <4>1, OffSteps
      <4>3. PICK a : LastAt(s, n, a)
        BY <3>1, <3>3, LastPiece
      <4>4. a \in WordStarts(s) /\ a \in Nat /\ a <= n /\ n - a = PIECE - 1 /\ Count(s, a) = Count(s, n)
        BY <1>0, <4>2, <4>3 DEF LastAt
      <4>5. ~(a < b)
        <5> SUFFICES ASSUME a < b PROVE FALSE
          OBVIOUS
        <5>1. Count(s, a) < Count(s, b) /\ Count(s, b) <= Count(s, n)
          BY <3>1, <4>4, CountGrows
        <5>2. Count(s, a) \in Nat /\ Count(s, b) \in Nat /\ Count(s, n) \in Nat
          BY <3>1, <4>4, CountSteps
        <5> QED BY <4>4, <5>1, <5>2
      <4>6. CASE a = b
        <5>1. WordEnd(s, b) <= b + (PIECE - 1) /\ WordEnd(s, b) \in Nat
          BY EndIs
        <5> QED BY <1>0, <2>2, <3>1, <4>4, <4>6, <5>1
      <4>7. CASE b < a
        <5>1. WordEnd(s, b) < a /\ WordEnd(s, b) \in Nat
          BY <1>2, <4>4, <4>7, EndIs
        <5> QED BY <2>2, <3>1, <4>4, <5>1
      <4> QED BY <3>1, <4>4, <4>5, <4>6, <4>7
    <3> QED BY <3>2, <3>3
  <2>3. c \in Nat
    BY <1>0
  <2> QED BY <2>1, <2>2, <2>3
<1> HIDE DEF N
<1>3. \A n \in Nat : n \in N
  BY <1>1, <1>2, AllNaturals
<1>4. ASSUME NEW b \in WordStarts(s), NEW c \in WordStarts(s), b < c PROVE WordEnd(s, b) < c
  <2>1. c \in Nat /\ c <= c
    BY <1>0
  <2>2. c \in N
    BY <1>3, <2>1
  <2> QED BY <1>4, <2>1, <2>2 DEF N
<1> QED BY <1>4


LEMMA CountOrder ==
  ASSUME NEW s \in Seq(Chars)
  PROVE  /\ \A a \in WordStarts(s) : Count(s, a) \in Nat \ {0}
         /\ \A a, b \in WordStarts(s) : Count(s, a) < Count(s, b) => a < b
         /\ \A a \in WordStarts(s) : \A n \in Nat : Count(s, a) > Count(s, n) => ~(a <= n)
         /\ \A a \in WordStarts(s) : \A n \in Nat : a <= n => Count(s, a) <= Count(s, n)
<1>0. WordStarts(s) \subseteq Nat \ {0} /\ \A n \in Nat : Count(s, n) \in Nat
  <2>1. WordStarts(s) \subseteq 1..Len(s) /\ Len(s) \in Nat
    BY StartsAre
  <2>2. \A i \in 1..Len(s) : i \in Nat \ {0}
    BY <2>1
  <2>3. \A n \in Nat : Count(s, n) \in Nat
    BY CountSteps
  <2> QED BY <2>1, <2>2, <2>3
<1>1. ASSUME NEW a \in WordStarts(s) PROVE Count(s, a) \in Nat \ {0}
  <2>1. 0 < a /\ 0 \in Nat /\ a \in Nat
    BY <1>0
  <2>2. Count(s, 0) < Count(s, a) /\ Count(s, 0) = 0 /\ Count(s, a) \in Nat
    BY <2>1, CountGrows, CountSteps
  <2> QED BY <2>2
<1>2. ASSUME NEW a \in WordStarts(s), NEW n \in Nat, a <= n PROVE Count(s, a) <= Count(s, n)
  BY <1>0, <1>2, CountGrows
<1>3. ASSUME NEW a \in WordStarts(s), NEW n \in Nat, Count(s, a) > Count(s, n) PROVE ~(a <= n)
  <2>1. Count(s, a) \in Nat /\ Count(s, n) \in Nat
    BY <1>0
  <2> QED BY <1>2, <1>3, <2>1
<1>4. ASSUME NEW a \in WordStarts(s), NEW b \in WordStarts(s), Count(s, a) < Count(s, b) PROVE a < b
  <2>1. a \in Nat /\ b \in Nat /\ Count(s, a) \in Nat /\ Count(s, b) \in Nat
    BY <1>0
  <2>2. ~(b <= a)
    BY <1>3, <1>4, <2>1
  <2> QED BY <2>1, <2>2
<1> QED BY <1>1, <1>2, <1>3, <1>4

\* What of the piece at a there is after n characters.
PieceTo(s, a, n) == SubSeq(s, a, IF WordEnd(s, a) < n THEN WordEnd(s, a) ELSE n)

LEMMA PieceKept ==
  ASSUME NEW s \in Seq(Chars), NEW a \in WordStarts(s), NEW n \in Nat, WordEnd(s, a) <= n
  PROVE  PieceTo(s, a, n + 1) = PieceTo(s, a, n)
<1>1. WordEnd(s, a) \in Nat
  BY EndIs
<1>2. WordEnd(s, a) < n + 1 /\ (WordEnd(s, a) < n \/ WordEnd(s, a) = n)
  BY <1>1
<1> QED BY <1>2 DEF PieceTo

LEMMA PieceSo ==
  ASSUME NEW s \in Seq(Chars), NEW n \in 1..Len(s), NEW a, LastAt(s, n, a)
  PROVE  /\ PieceTo(s, a, n) = SubSeq(s, a, n) /\ a \in 1..n /\ n <= WordEnd(s, a)
         /\ PieceTo(s, a, n) \in Seq(Chars) /\ Len(PieceTo(s, a, n)) = Off(s, n) + 1
         /\ \A i \in 1..(n - a) + 1 : PieceTo(s, a, n)[i] = s[a + i - 1]
<1>1. a \in WordStarts(s) /\ a <= n /\ Off(s, n) = n - a /\ n \in Nat \ {0} /\ Len(s) \in Nat /\ n <= Len(s) /\ a \in 1..Len(s)
  BY StartsAre DEF LastAt
<1>2. Off(s, n) \in 0..PIECE - 1 /\ PIECE \in Nat \ {0}
  BY <1>1, OffSteps, PieceNat
<1>3. n \in a..Len(s) /\ n <= a + (PIECE - 1) /\ a \in Int /\ n \in Int
  BY <1>1, <1>2
<1>4. \A j \in a..n : s[j] # SPACE
  BY DEF LastAt
<1>5. n <= WordEnd(s, a) /\ WordEnd(s, a) \in Nat
  BY <1>1, <1>3, <1>4, EndIs
<1>6. PieceTo(s, a, n) = SubSeq(s, a, n)
  <2>1. ~(WordEnd(s, a) < n)
    BY <1>3, <1>5
  <2> QED BY <2>1 DEF PieceTo
<1>7. \A i \in a..n : s[i] \in Chars
  <2>1. \A i \in a..n : i \in 1..Len(s)
    BY <1>1
  <2> QED BY <2>1, StartsAre
<1>8. /\ SubSeq(s, a, n) \in Seq(Chars)
      /\ Len(SubSeq(s, a, n)) = IF a <= n THEN n - a + 1 ELSE 0
      /\ \A i \in 1..n - a + 1 : SubSeq(s, a, n)[i] = s[a + i - 1]
  BY <1>3, <1>7, SubSeqProperties
<1> QED BY <1>1, <1>3, <1>5, <1>6, <1>8

\* The piece that goes on has one more character.
LEMMA PieceGrows ==
  ASSUME NEW s \in Seq(Chars), NEW n \in 1..Len(s), n + 1 \in 1..Len(s), NEW a, LastAt(s, n, a), LastAt(s, n + 1, a)
  PROVE  PieceTo(s, a, n + 1) = Append(PieceTo(s, a, n), s[n + 1])
<1> DEFINE t == PieceTo(s, a, n)
           u == PieceTo(s, a, n + 1)
           c == s[n + 1]
<1>1. /\ a \in 1..n /\ t \in Seq(Chars) /\ Len(t) = Off(s, n) + 1 /\ \A i \in 1..(n - a) + 1 : t[i] = s[a + i - 1]
  BY PieceSo
<1>2. u \in Seq(Chars) /\ Len(u) = Off(s, n + 1) + 1 /\ \A i \in 1..((n + 1) - a) + 1 : u[i] = s[a + i - 1]
  BY PieceSo
<1>3. Off(s, n) = n - a /\ Off(s, n + 1) = (n + 1) - a /\ n \in Nat /\ a \in Nat /\ a <= n /\ c \in Chars
  BY <1>1, StartsAre DEF LastAt
<1> DEFINE L == (n - a) + 1
<1> HIDE DEF t, u, c
<1>4. L \in Nat /\ Len(t) = L /\ Len(u) = L + 1 /\ ((n + 1) - a) + 1 = L + 1 /\ a + (L + 1) - 1 = n + 1
  BY <1>1, <1>2, <1>3
<1> HIDE DEF L
<1>5. /\ Append(t, c) \in Seq(Chars) /\ Len(Append(t, c)) = L + 1
      /\ \A i \in 1..L : Append(t, c)[i] = t[i]
      /\ Append(t, c)[L + 1] = c
  BY <1>1, <1>3, <1>4, AppendProperties
<1>6. \A i \in 1..L + 1 : u[i] = Append(t, c)[i]
  <2> TAKE i \in 1..L + 1
  <2>1. u[i] = s[a + i - 1]
    BY <1>2, <1>4
  <2>2. CASE i \in 1..L
    <3>1. t[i] = s[a + i - 1]
      BY <1>1, <2>2 DEF L
    <3> QED BY <1>5, <2>1, <2>2, <3>1
  <2>3. CASE i = L + 1
    BY <1>4, <1>5, <2>1, <2>3 DEF c
  <2>4. i \in 1..L \/ i = L + 1
    BY <1>4
  <2> QED BY <2>2, <2>3, <2>4
<1>7. u = Append(t, c)
  BY <1>2, <1>4, <1>5, <1>6, SeqEqual
<1> QED BY <1>7 DEF t, u, c

LEMMA PieceFirst ==
  ASSUME NEW s \in Seq(Chars), NEW n \in WordStarts(s)
  PROVE  PieceTo(s, n, n) = <<s[n]>>
<1>1. n \in 1..Len(s) /\ s[n] # SPACE /\ Off(s, n) = 0 /\ Len(s) \in Nat /\ n \in Nat /\ s[n] \in Chars
  BY StartsAre
<1>2. LastAt(s, n, n)
  BY <1>1, LastHere
<1> DEFINE t == PieceTo(s, n, n)
           c == s[n]
<1>3. t \in Seq(Chars) /\ Len(t) = 1 /\ t[1] = s[n + 1 - 1]
  <2>1. 1 \in 1..(n - n) + 1 /\ 0 + 1 = 1
    BY <1>1
  <2>2. t \in Seq(Chars) /\ Len(t) = Off(s, n) + 1 /\ \A i \in 1..(n - n) + 1 : t[i] = s[n + i - 1]
    <3>1. n \in 1..Len(s)
      BY <1>1
    <3>2. ASSUME NEW a, LastAt(s, n, a)
          PROVE  /\ PieceTo(s, a, n) \in Seq(Chars) /\ Len(PieceTo(s, a, n)) = Off(s, n) + 1
                 /\ \A i \in 1..(n - a) + 1 : PieceTo(s, a, n)[i] = s[a + i - 1]
      BY <3>1, <3>2, PieceSo
    <3> QED BY <1>2, <3>2, Zenon
  <2> HIDE DEF t
  <2> QED BY <1>1, <2>1, <2>2
<1>4. t[1] = c /\ c \in Chars
  <2>1. n + 1 - 1 = n
    BY <1>1
  <2> QED BY <1>1, <1>3, <2>1
<1> HIDE DEF t, c
<1>5. <<c>> \in Seq(Chars) /\ Len(<<c>>) = 1 /\ <<c>>[1] = c
  BY <1>4
<1>6. \A i \in 1..1 : t[i] = <<c>>[i]
  BY <1>4, <1>5
<1>7. t = <<c>>
  BY <1>3, <1>5, <1>6, SeqEqual
<1> QED BY <1>7 DEF t, c


\* After n characters the words are the pieces that began, as far as there is place
\* for them and as far as they go.
ParsedTo(s, n, p) ==
  /\ Len(p.args) = IF Count(s, n) < MAX_ARGS THEN Count(s, n) ELSE MAX_ARGS
  /\ \A m \in 1..Count(s, n) : \E a \in WordStarts(s) : a <= n /\ Count(s, a) = m
  /\ \A a \in WordStarts(s) : a <= n /\ Count(s, a) <= MAX_ARGS => p.args[Count(s, a)] = PieceTo(s, a, n)
  /\ p.open <=> n > 0 /\ s[n] # SPACE /\ Count(s, n) <= MAX_ARGS

LEMMA PieceBegins ==
  ASSUME NEW s \in Seq(Chars), NEW n \in Nat, n + 1 \in WordStarts(s), NEW m \in 1..Count(s, n + 1),
         \A i \in 1..Count(s, n) : \E a \in WordStarts(s) : a <= n /\ Count(s, a) = i
  PROVE  \E a \in WordStarts(s) : a <= n + 1 /\ Count(s, a) = m
<1>1. Count(s, n + 1) = Count(s, n) + 1 /\ Count(s, n) \in Nat
  BY CountSteps
<1>2. CASE m = Count(s, n + 1)
  <2>1. n + 1 <= n + 1
    OBVIOUS
  <2> QED BY <1>2, <2>1
<1>3. CASE m # Count(s, n + 1)
  <2>1. m \in 1..Count(s, n)
    BY <1>1, <1>3
  <2>2. PICK a \in WordStarts(s) : a <= n /\ Count(s, a) = m
    BY <2>1
  <2>3. a <= n + 1
    <3>1. a \in Nat
      BY StartsAre
    <3> QED BY <2>2, <3>1
  <2> QED BY <2>2, <2>3
<1> QED BY <1>2, <1>3

\* A character that changes no word.
LEMMA ParsedLeaves ==
  ASSUME NEW s \in Seq(Chars), NEW n \in Nat, n + 1 \in 1..Len(s), NEW p \in Parsed, ParsedTo(s, n, p),
         NEW q, Leaves(p, q),
         \A a \in WordStarts(s) : a <= n /\ Count(s, a) <= MAX_ARGS => WordEnd(s, a) <= n,
         n + 1 \in WordStarts(s) => Count(s, n) >= MAX_ARGS,
         s[n + 1] # SPACE => Count(s, n + 1) > MAX_ARGS
  PROVE  ParsedTo(s, n + 1, q)
<1>1. q.args = p.args /\ ~q.open
  BY DEF Leaves
<1>2. /\ Count(s, n) \in Nat /\ Count(s, n + 1) \in Nat /\ MAX_ARGS \in Nat
      /\ Count(s, n + 1) = IF n + 1 \in WordStarts(s) THEN Count(s, n) + 1 ELSE Count(s, n)
  BY CountSteps, ShellAssumption
<1>3. Len(q.args) = IF Count(s, n + 1) < MAX_ARGS THEN Count(s, n + 1) ELSE MAX_ARGS
  BY <1>1, <1>2 DEF ParsedTo
<1>4. \A m \in 1..Count(s, n + 1) : \E a \in WordStarts(s) : a <= n + 1 /\ Count(s, a) = m
  <2>1. CASE n + 1 \in WordStarts(s)
    BY <2>1, PieceBegins DEF ParsedTo
  <2>2. CASE n + 1 \notin WordStarts(s)
    <3>1. \A a \in WordStarts(s) : a <= n => a <= n + 1
      <4>1. \A a \in WordStarts(s) : a \in Nat
        BY StartsAre
      <4> QED BY <4>1
    <3>2. Count(s, n + 1) = Count(s, n)
      BY <1>2, <2>2
    <3> QED BY <3>1, <3>2 DEF ParsedTo
  <2> QED BY <2>1, <2>2
<1>5. ASSUME NEW a \in WordStarts(s), a <= n + 1, Count(s, a) <= MAX_ARGS
      PROVE  q.args[Count(s, a)] = PieceTo(s, a, n + 1)
  <2>1. a \in Nat
    BY StartsAre
  <2>2. a # n + 1
    <3> SUFFICES ASSUME a = n + 1 PROVE FALSE
      OBVIOUS
    <3>1. Count(s, n + 1) = Count(s, n) + 1 /\ Count(s, n) >= MAX_ARGS /\ Count(s, n + 1) <= MAX_ARGS
      BY <1>2, <1>5
    <3> QED BY <1>2, <3>1
  <2>3. a <= n
    BY <1>5, <2>1, <2>2
  <2>4. p.args[Count(s, a)] = PieceTo(s, a, n)
    BY <1>5, <2>3 DEF ParsedTo
  <2>5. PieceTo(s, a, n + 1) = PieceTo(s, a, n)
    BY <1>5, <2>3, PieceKept
  <2> QED BY <1>1, <2>4, <2>5
<1>6. ~(n + 1 > 0 /\ s[n + 1] # SPACE /\ Count(s, n + 1) <= MAX_ARGS)
  BY <1>2
<1> QED BY <1>1, <1>3, <1>4, <1>5, <1>6 DEF ParsedTo

\* A character that is added to the last word.
LEMMA ParsedExtends ==
  ASSUME NEW s \in Seq(Chars), NEW n \in 1..Len(s), n + 1 \in 1..Len(s), NEW p \in Parsed, ParsedTo(s, n, p),
         NEW q, Extends(p, q, s[n + 1]), Count(s, n) <= MAX_ARGS, s[n + 1] # SPACE,
         n + 1 \notin WordStarts(s), NEW b, LastAt(s, n, b), LastAt(s, n + 1, b)
  PROVE  ParsedTo(s, n + 1, q)
<1> DEFINE k == Count(s, n)
<1>1. /\ k \in Nat /\ Count(s, n + 1) = k /\ MAX_ARGS \in Nat /\ n \in Nat /\ n + 1 > 0
  BY StartsAre, CountSteps, ShellAssumption
<1>2. b \in WordStarts(s) /\ b <= n /\ Count(s, b) = k /\ b \in Nat
  BY StartsAre DEF LastAt
<1>3. Len(p.args) = k
  BY <1>1 DEF ParsedTo
<1> HIDE DEF k
<1>4. /\ q.open /\ Len(q.args) = k /\ q.args[k] = Append(p.args[k], s[n + 1])
      /\ \A m \in 1..k - 1 : q.args[m] = p.args[m]
  BY <1>3 DEF Extends
<1>5. ASSUME NEW a \in WordStarts(s), a <= n + 1, Count(s, a) <= MAX_ARGS
      PROVE  q.args[Count(s, a)] = PieceTo(s, a, n + 1)
  <2>1. a \in Nat /\ a # n + 1
    BY StartsAre
  <2>2. a <= n
    BY <1>1, <1>5, <2>1
  <2>3. p.args[Count(s, a)] = PieceTo(s, a, n) /\ Count(s, a) <= k /\ Count(s, a) \in Nat \ {0}
    BY <1>1, <1>5, <2>2, CountOrder DEF ParsedTo, k
  <2>4. CASE a = b
    <3>1. PieceTo(s, b, n + 1) = Append(PieceTo(s, b, n), s[n + 1])
      BY PieceGrows
    <3> QED BY <1>2, <1>4, <2>3, <2>4, <3>1
  <2>5. CASE a < b
    <3>1. Count(s, a) < k
      BY <1>2, <2>1, <2>5, CountGrows
    <3>2. Count(s, a) \in 1..k - 1
      BY <1>1, <2>3, <3>1
    <3>3. WordEnd(s, a) <= n
      <4>1. WordEnd(s, a) < b /\ WordEnd(s, a) \in Nat
        BY <1>2, <2>5, EndsBefore, EndIs
      <4> QED BY <1>1, <1>2, <4>1
    <3>4. PieceTo(s, a, n + 1) = PieceTo(s, a, n)
      BY <1>1, <3>3, PieceKept
    <3> QED BY <1>4, <2>3, <3>2, <3>4
  <2>6. CASE b < a
    <3>1. k < Count(s, a)
      BY <1>2, <2>6, CountGrows
    <3> QED BY <1>1, <2>3, <3>1
  <2> QED BY <1>2, <2>1, <2>4, <2>5, <2>6
<1>6. \A m \in 1..Count(s, n + 1) : \E a \in WordStarts(s) : a <= n + 1 /\ Count(s, a) = m
  <2>1. \A a \in WordStarts(s) : a <= n => a <= n + 1
    <3>1. \A a \in WordStarts(s) : a \in Nat
      BY StartsAre
    <3> QED BY <1>1, <3>1
  <2> QED BY <1>1, <2>1 DEF ParsedTo, k
<1>7. k <= MAX_ARGS
  BY DEF k
<1>8. Len(q.args) = IF Count(s, n + 1) < MAX_ARGS THEN Count(s, n + 1) ELSE MAX_ARGS
  BY <1>1, <1>4, <1>7
<1> QED BY <1>1, <1>4, <1>5, <1>6, <1>7, <1>8 DEF ParsedTo

\* A character that begins a word.
LEMMA ParsedBegins ==
  ASSUME NEW s \in Seq(Chars), NEW n \in Nat, n + 1 \in WordStarts(s), NEW p \in Parsed, ParsedTo(s, n, p),
         NEW q, Begins(p, q, s[n + 1]), Count(s, n) < MAX_ARGS
  PROVE  ParsedTo(s, n + 1, q)
<1> DEFINE k == Count(s, n)
<1>1. /\ k \in Nat /\ Count(s, n + 1) = k + 1 /\ MAX_ARGS \in Nat /\ n + 1 > 0 /\ s[n + 1] # SPACE /\ k < MAX_ARGS
  BY StartsAre, CountSteps, ShellAssumption
<1>2. Len(p.args) = k
  BY <1>1 DEF ParsedTo
<1> HIDE DEF k
<1>3. /\ q.open /\ Len(q.args) = k + 1 /\ q.args[k + 1] = <<s[n + 1]>>
      /\ \A m \in 1..k : q.args[m] = p.args[m]
  BY <1>2 DEF Begins
<1>4. ASSUME NEW a \in WordStarts(s), a <= n + 1, Count(s, a) <= MAX_ARGS
      PROVE  q.args[Count(s, a)] = PieceTo(s, a, n + 1)
  <2>1. CASE a = n + 1
    <3>1. PieceTo(s, n + 1, n + 1) = <<s[n + 1]>>
      BY PieceFirst
    <3> QED BY <1>1, <1>3, <2>1, <3>1
  <2>2. CASE a # n + 1
    <3>1. a \in Nat /\ a <= n /\ a < n + 1
      <4>1. a \in Nat
        BY StartsAre
      <4> QED BY <1>4, <2>2, <4>1
    <3>2. p.args[Count(s, a)] = PieceTo(s, a, n) /\ Count(s, a) \in 1..k
      <4>1. Count(s, a) <= k /\ Count(s, a) \in Nat \ {0}
        BY <3>1, CountOrder DEF k
      <4>2. Count(s, a) \in 1..k
        BY <1>1, <4>1
      <4> QED BY <1>4, <3>1, <4>2 DEF ParsedTo
    <3>3. WordEnd(s, a) <= n
      <4>1. WordEnd(s, a) < n + 1 /\ WordEnd(s, a) \in Nat
        BY <3>1, EndsBefore, EndIs
      <4> QED BY <4>1
    <3>4. PieceTo(s, a, n + 1) = PieceTo(s, a, n)
      BY <3>3, PieceKept
    <3> QED BY <1>3, <3>2, <3>4
  <2> QED BY <2>1, <2>2
<1>5. \A m \in 1..Count(s, n + 1) : \E a \in WordStarts(s) : a <= n + 1 /\ Count(s, a) = m
  BY PieceBegins DEF ParsedTo
<1>6. Len(q.args) = IF Count(s, n + 1) < MAX_ARGS THEN Count(s, n + 1) ELSE MAX_ARGS
  BY <1>1, <1>3
<1>7. k + 1 <= MAX_ARGS
  BY <1>1
<1> QED BY <1>1, <1>3, <1>4, <1>5, <1>6, <1>7 DEF ParsedTo


LEMMA ParsedStep ==
  ASSUME NEW s \in Seq(Chars), NEW n \in Nat, n + 1 \in 1..Len(s), NEW p \in Parsed, ParsedTo(s, n, p)
  PROVE  ParsedTo(s, n + 1, Reads(p, s[n + 1]))
<1> DEFINE c == s[n + 1]
           q == Reads(p, c)
           k == Count(s, n)
<1>1. c \in Chars /\ Len(s) \in Nat /\ (n # 0 => n \in 1..Len(s))
  BY StartsAre
<1>2. /\ c = SPACE => Leaves(p, q)
      /\ c # SPACE /\ InWord(p) => Extends(p, q, c)
      /\ c # SPACE /\ ~InWord(p) /\ Len(p.args) < MAX_ARGS => Begins(p, q, c)
      /\ c # SPACE /\ ~InWord(p) /\ ~(Len(p.args) < MAX_ARGS) => Leaves(p, q)
  BY <1>1, ReadsDoes
<1> HIDE DEF q
<1>3. /\ k \in Nat /\ MAX_ARGS \in Nat /\ PIECE \in Nat \ {0}
      /\ Count(s, n + 1) = IF n + 1 \in WordStarts(s) THEN k + 1 ELSE k
  BY CountSteps, PieceNat
<1>4. Len(p.args) = IF k < MAX_ARGS THEN k ELSE MAX_ARGS
  BY DEF ParsedTo
<1>5. \A a \in WordStarts(s) : a \in Nat /\ WordEnd(s, a) \in Nat /\ Count(s, a) \in Nat
  BY StartsAre, EndIs, CountOrder
<1>6. CASE c = SPACE
  <2>1. n + 1 \notin WordStarts(s)
    BY <1>6, StartsAre
  <2>2. ASSUME NEW a \in WordStarts(s), a <= n PROVE WordEnd(s, a) <= n
    <3>1. n + 1 \in a..Len(s)
      BY <1>1, <1>5, <2>2
    <3>2. WordEnd(s, a) <= (n + 1) - 1
      BY <1>6, <3>1, EndIs
    <3> QED BY <3>2
  <2>3. ParsedTo(s, n + 1, q)
    BY <1>2, <1>6, <2>1, <2>2, ParsedLeaves
  <2> QED BY <2>3 DEF q
<1>7. CASE c # SPACE /\ InWord(p)
  <2>1. p.open /\ Len(p.args[Len(p.args)]) < PIECE
    BY <1>7 DEF InWord, PIECE
  <2>2. n # 0 /\ s[n] # SPACE /\ k <= MAX_ARGS
    BY <2>1 DEF ParsedTo
  <2>3. n \in 1..Len(s)
    BY <1>1, <2>2
  <2>4. PICK b : LastAt(s, n, b)
    BY <2>2, <2>3, LastPiece
  <2>5. b \in WordStarts(s) /\ b <= n /\ Count(s, b) = k
    BY <2>4 DEF LastAt
  <2>6. p.args[k] = PieceTo(s, b, n) /\ Len(p.args) = k
    BY <1>3, <1>4, <2>2, <2>5 DEF ParsedTo
  <2>7. Len(PieceTo(s, b, n)) = Off(s, n) + 1
    BY <2>3, <2>4, PieceSo
  <2>8. Off(s, n) # PIECE - 1
    <3> SUFFICES ASSUME Off(s, n) = PIECE - 1 PROVE FALSE
      OBVIOUS
    <3>1. (PIECE - 1) + 1 < PIECE
      BY <2>1, <2>6, <2>7
    <3> QED BY <1>3, <3>1
  <2>9. LastAt(s, n + 1, b) /\ n + 1 \notin WordStarts(s)
    BY <1>7, <2>2, <2>3, <2>4, <2>8, LastGoesOn
  <2>10. ParsedTo(s, n + 1, q)
    BY <1>2, <1>7, <2>2, <2>3, <2>4, <2>9, ParsedExtends
  <2> QED BY <2>10 DEF q
<1>8. CASE c # SPACE /\ ~InWord(p) /\ n + 1 \in WordStarts(s) /\ k < MAX_ARGS
  <2>1. Begins(p, q, c)
    BY <1>2, <1>4, <1>8
  <2>2. ParsedTo(s, n + 1, q)
    BY <1>8, <2>1, ParsedBegins
  <2> QED BY <2>2 DEF q
<1>9. CASE c # SPACE /\ ~InWord(p) /\ n + 1 \in WordStarts(s) /\ ~(k < MAX_ARGS)
  <2>1. Leaves(p, q) /\ k >= MAX_ARGS /\ Count(s, n + 1) > MAX_ARGS
    BY <1>2, <1>3, <1>4, <1>9
  <2>2. ASSUME NEW a \in WordStarts(s), a <= n PROVE WordEnd(s, a) <= n
    <3>1. a < n + 1
      BY <1>5, <2>2
    <3>2. WordEnd(s, a) < n + 1
      BY <1>9, <3>1, EndsBefore
    <3> QED BY <1>5, <3>2
  <2>3. ParsedTo(s, n + 1, q)
    BY <2>1, <2>2, ParsedLeaves
  <2> QED BY <2>3 DEF q
<1>10. CASE c # SPACE /\ ~InWord(p) /\ n + 1 \notin WordStarts(s)
  <2>1. Off(s, n + 1) # 0
    BY <1>10, StartsAre
  <2>2. n # 0
    <3>1. 1 \in Nat \ {0} /\ 0 + 1 = 1
      OBVIOUS
    <3>2. Off(s, 1) = 0
      BY <3>1, OffSteps
    <3> QED BY <2>1, <3>1, <3>2
  <2>3. n \in 1..Len(s) /\ n \in Nat \ {0}
    BY <1>1, <2>2
  <2>4. s[n] # SPACE /\ Off(s, n) # PIECE - 1
    BY <2>1, <2>3, OffSteps
  <2>5. PICK b : LastAt(s, n, b)
    BY <2>3, <2>4, LastPiece
  <2>6. b \in WordStarts(s) /\ b <= n /\ Count(s, b) = k
    BY <2>5 DEF LastAt
  <2>7. k > MAX_ARGS
    <3> SUFFICES ASSUME ~(k > MAX_ARGS) PROVE FALSE
      OBVIOUS
    <3>1. k <= MAX_ARGS
      BY <1>3
    <3>2. p.open /\ n > 0
      BY <2>3, <2>4, <3>1 DEF ParsedTo
    <3>3. p.args[k] = PieceTo(s, b, n) /\ Len(p.args) = k
      BY <1>3, <1>4, <2>6, <3>1 DEF ParsedTo
    <3>4. Len(PieceTo(s, b, n)) = Off(s, n) + 1
      BY <2>3, <2>5, PieceSo
    <3>5. Off(s, n) \in 0..PIECE - 1
      BY <2>3, OffSteps
    <3>6. ~(Off(s, n) + 1 < PIECE)
      BY <1>10, <3>2, <3>3, <3>4 DEF InWord, PIECE
    <3> QED BY <1>3, <2>4, <3>5, <3>6
  <2>8. Leaves(p, q) /\ Count(s, n + 1) > MAX_ARGS
    BY <1>2, <1>3, <1>4, <1>10, <2>7
  <2>9. ASSUME NEW a \in WordStarts(s), a <= n, Count(s, a) <= MAX_ARGS PROVE WordEnd(s, a) <= n
    <3>1. Count(s, a) < Count(s, b)
      BY <1>3, <1>5, <2>6, <2>7, <2>9
    <3>2. a < b
      BY <2>6, <3>1, CountOrder
    <3>3. WordEnd(s, a) < b
      BY <2>6, <3>2, EndsBefore
    <3> QED BY <1>5, <2>6, <3>3
  <2>10. ParsedTo(s, n + 1, q)
    BY <1>10, <2>8, <2>9, ParsedLeaves
  <2> QED BY <2>10 DEF q
<1> QED BY <1>6, <1>7, <1>8, <1>9, <1>10

\* What the loop of parseCommand makes of a line is the cut of its runs.
LEMMA ParsesWords ==
  ASSUME NEW s \in Seq(Chars)
  PROVE  parseCommand(s) = Words(s)
<1> DEFINE n == Len(s)
           W == Cardinality(WordStarts(s))
           start(m) == CHOOSE i \in WordStarts(s) : Count(s, i) = m
<1>1. DOMAIN s = 1..n /\ n \in Nat /\ \A i \in 1..n : s[i] \in Chars
  BY LenProperties, ElementOfSeq
<1>2. Unread \in Parsed
  <2>1. <<>> \in Seq(Seq(Chars))
    BY EmptySeq
  <2> QED BY <2>1 DEF Unread, Parsed
<1>3. \A p \in Parsed : \A i \in 1..n : Reads(p, s[i]) \in Parsed
  BY <1>1, ReadsDoes
<1> HIDE DEF n
<1>4. ReadsRun(Unread, s, n, Parsed)
  BY <1>1, <1>2, <1>3, ReadsSteps
<1>5. PICK r : /\ r[0] = Unread /\ r[n] = FoldLeft(Reads, Unread, s) /\ \A i \in 0..n : r[i] \in Parsed
               /\ \A i \in 0..n - 1 : r[i + 1] = Reads(r[i], s[i + 1])
  BY <1>4 DEF ReadsRun
<1>6. ParsedTo(s, 0, Unread)
  <2>1. Count(s, 0) = 0 /\ MAX_ARGS \in Nat
    BY CountSteps, PieceNat
  <2>2. \A a \in WordStarts(s) : ~(a <= 0)
    BY StartsAre
  <2>3. Unread.args = <<>> /\ Unread.open = FALSE /\ Len(Unread.args) = 0
    BY DEF Unread
  <2>4. Len(Unread.args) = IF Count(s, 0) < MAX_ARGS THEN Count(s, 0) ELSE MAX_ARGS
    BY <2>1, <2>3
  <2>5. 1..Count(s, 0) = {}
    BY <2>1
  <2>6. ~(0 > 0)
    OBVIOUS
  <2> QED BY <2>2, <2>3, <2>4, <2>5, <2>6 DEF ParsedTo
<1>7. \A i \in 0..n : ParsedTo(s, i, r[i])
  <2> DEFINE N == {i \in Nat : i <= n => ParsedTo(s, i, r[i])}
  <2>1. 0 \in N
    BY <1>5, <1>6
  <2>2. ASSUME NEW i \in Nat, i \in N PROVE i + 1 \in N
    <3> SUFFICES ASSUME i + 1 <= n PROVE ParsedTo(s, i + 1, r[i + 1])
      OBVIOUS
    <3>1. i \in 0..n - 1 /\ i \in 0..n /\ i <= n /\ i + 1 \in 1..n
      BY <1>1
    <3>2. r[i] \in Parsed /\ r[i + 1] = Reads(r[i], s[i + 1]) /\ ParsedTo(s, i, r[i])
      BY <1>5, <2>2, <3>1
    <3>3. ParsedTo(s, i + 1, Reads(r[i], s[i + 1]))
      BY <3>1, <3>2, ParsedStep DEF n
    <3> QED BY <3>2, <3>3
  <2> HIDE DEF N
  <2>3. \A i \in Nat : i \in N
    BY <2>1, <2>2, AllNaturals
  <2> QED BY <1>1, <2>3 DEF N
<1> DEFINE p == r[n]
           A == p.args
           M == IF W < MAX_ARGS THEN W ELSE MAX_ARGS
<1>8. ParsedTo(s, n, p) /\ p \in Parsed
  <2>1. n \in 0..n
    BY <1>1
  <2> QED BY <1>5, <1>7, <2>1
<1>9. parseCommand(s) = A
  BY <1>5 DEF parseCommand, Unread
<1>10. Count(s, n) = W /\ W \in Nat /\ MAX_ARGS \in Nat
  BY <1>1, CountSteps, PieceNat DEF n
<1>11. Min({W, MAX_ARGS}) = M
  <2> DEFINE T == {W, MAX_ARGS}
  <2>1. M \in T /\ T \subseteq Int /\ \A y \in T : M <= y
    BY <1>10
  <2> HIDE DEF T, M
  <2>2. Min(T) = M
    BY <2>1, MinIs
  <2> QED BY <2>2 DEF T
<1>12. Words(s) = [m \in 1..M |-> SubSeq(s, start(m), WordEnd(s, start(m)))]
  <2>1. Words(s) = [m \in 1..Min({W, MAX_ARGS}) |-> SubSeq(s, start(m), WordEnd(s, start(m)))]
    BY DEF Words, Count, Upto
  <2> QED BY <1>11, <2>1
<1> HIDE DEF p, A
<1>13. A \in Seq(Seq(Chars)) /\ Len(A) = M
  BY <1>8, <1>10 DEF A, Parsed, ParsedTo
<1>14. DOMAIN A = 1..M /\ M \in Nat /\ M <= W /\ M <= MAX_ARGS
  BY <1>10, <1>13, LenProperties
<1>15. ASSUME NEW m \in 1..M PROVE A[m] = SubSeq(s, start(m), WordEnd(s, start(m)))
  <2>1. m \in 1..Count(s, n) /\ m <= MAX_ARGS
    BY <1>10, <1>14
  <2>2. \E a \in WordStarts(s) : Count(s, a) = m
    BY <1>8, <2>1 DEF ParsedTo
  <2>3. start(m) \in WordStarts(s) /\ Count(s, start(m)) = m
    BY <2>2
  <2> DEFINE a == start(m)
  <2>4. a \in WordStarts(s) /\ Count(s, a) = m
    BY <2>3
  <2> HIDE DEF a
  <2>5. a <= n /\ a \in Nat
    BY <2>4, StartsAre DEF n
  <2>6. A[m] = PieceTo(s, a, n)
    BY <1>8, <2>1, <2>4, <2>5 DEF ParsedTo, A
  <2>7. WordEnd(s, a) <= n /\ WordEnd(s, a) \in Nat
    BY <2>4, EndIs DEF n
  <2>8. (IF WordEnd(s, a) < n THEN WordEnd(s, a) ELSE n) = WordEnd(s, a)
    BY <1>1, <2>7
  <2> QED BY <2>6, <2>8 DEF PieceTo, a
<1> DEFINE w(m) == SubSeq(s, start(m), WordEnd(s, start(m)))
<1>16. \A m \in 1..M : A[m] = w(m)
  BY <1>15
<1> HIDE DEF w, M
<1>17. A = [m \in 1..M |-> A[m]]
  BY <1>13, <1>14, LenProperties
<1>18. A = [m \in 1..M |-> w(m)]
  BY <1>16, <1>17
<1> QED BY <1>9, <1>12, <1>18 DEF w

LEMMA TextTyped == ASSUME NEW s \in Seq(Chars) PROVE Text(s) \in Seq(Chars)
<1> DEFINE E == {Len(s)} \cup {i - 1 : i \in {j \in DOMAIN s : s[j] = NUL}}
<1>1. DOMAIN s = 1..Len(s) /\ Len(s) \in Nat /\ \A i \in 1..Len(s) : s[i] \in Chars
  BY LenProperties, ElementOfSeq
<1>2. E \subseteq 0..Len(s) /\ E # {} /\ E \subseteq Nat
  <2>1. \A i \in 1..Len(s) : i - 1 \in 0..Len(s)
    BY <1>1
  <2>2. \A i \in DOMAIN s : i - 1 \in 0..Len(s)
    BY <1>1, <2>1
  <2>3. E \subseteq 0..Len(s) /\ Len(s) \in E
    BY <1>1, <2>2
  <2> HIDE DEF E
  <2> QED BY <1>1, <2>3
<1>3. Text(s) = SubSeq(s, 1, Min(E))
  BY DEF Text
<1> HIDE DEF E
<1>4. Min(E) \in 0..Len(s) /\ Min(E) \in Int
  <2>1. Min(E) \in E
    BY <1>2, MinIn
  <2>2. Min(E) \in 0..Len(s)
    BY <1>2, <2>1, Zenon
  <2>3. \A i \in 0..Len(s) : i \in Int
    BY <1>1
  <2> QED BY <2>2, <2>3, Zenon
<1>5. \A i \in 1..Min(E) : s[i] \in Chars
  BY <1>1, <1>4
<1> QED BY <1>3, <1>4, <1>5, SubSeqProperties

\* The words that are run are those that were typed: the line cut at its spaces, a word
\* that is longer than MAX_ARG_LEN - 1 cut again, and what comes after MAX_ARGS words
\* dropped, whatever the length of the line.
THEOREM WordsAreParsed == Spec => []ParseExact
<1>1. Init => KeysSound(kb, proc, fg) /\ LineSound(video, proc, line, fg, spoilt)
  BY InitKeys, InitLine
<1>2. KeysSound(kb, proc, fg) /\ LineSound(video, proc, line, fg, spoilt) /\ [Next]_vars
      => (KeysSound(kb, proc, fg) /\ LineSound(video, proc, line, fg, spoilt))'
  BY NextKeys, NextLine
<1>3. LineSound(video, proc, line, fg, spoilt) => ParseExact
  BY TextTyped, ParsesWords DEF LineSound, ParseExact
<1> QED BY <1>1, <1>2, <1>3, PTL DEF Spec

=============================================================================
