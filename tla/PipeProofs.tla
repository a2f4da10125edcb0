----------------------------- MODULE PipeProofs -----------------------------
(***************************************************************************)
(* Theorems on Pipe, for every number of pipes, descriptors, bytes and     *)
(* processes: the places of a buffer are neither made nor lost by the      *)
(* pipes that share the two semaphores (IInv); what a process holds is     *)
(* there, and the counts of a pipe are those of its holders (Linked); and  *)
(* the bytes of a pipe that had the semaphores for itself are read once    *)
(* and in order (OrderOK).                                                 *)
(***************************************************************************)
EXTENDS Pipe, FiniteSetTheorems, SequenceTheorems, WellFoundedInduction, TLAPS

\* The invariant speaks of semaphores sm and processes pr, so that the lemmas can
\* speak of the states between the steps of a call.

Fields == {"pc", "fd_table", "stdin", "stdout", "pipe"}

ProcsShaped(pr) ==
    /\ pr = [p \in Procs |-> pr[p]]
    /\ \A p \in Procs : pr[p] = [f \in Fields |-> pr[p][f]]

SemsTyped(sm) == sm \in [{DATA, FREE} -> [value : Int, waiting : Seq(Kids)]]

Hand(pr) == {p \in Kids : pr[p].pc \in {"put", "get"}}

Total(sm, pr) == sm[DATA].value + sm[FREE].value + Cardinality(Hand(pr))

\* Where a process in the queue of a semaphore is: it waits there, and is there once.
Queued == [s \in {DATA, FREE} |-> IF s = DATA THEN "get_q" ELSE "put_q"]

QueuesExact(sm, pr) ==
    \A s \in {DATA, FREE} : \A i \in DOMAIN sm[s].waiting :
        /\ pr[sm[s].waiting[i]].pc = Queued[s]
        /\ \A j \in DOMAIN sm[s].waiting : sm[s].waiting[i] = sm[s].waiting[j] => i = j

\* Before the first pipe nobody has a token; and while nobody is killed, a post
\* meets in the queue a process that waits for what it posts, so that none is lost.
IInv ==
    /\ ProcsShaped(proc) /\ SemsTyped(sem)
    /\ IF sem[FREE].value = -1 THEN sem[DATA].value = -1 /\ Hand(proc) = {}
                               ELSE sem[FREE].value >= 0 /\ sem[DATA].value >= 0
    /\ TokensKept
    /\ ~killed => QueuesExact(sem, proc)

-----------------------------------------------------------------------------
LEMMA MinProperties ==
  ASSUME NEW S \in SUBSET Nat, S # {}
  PROVE  Min(S) \in S /\ \A x \in S : Min(S) <= x
<1>1. PICK m \in S : \A y \in S : ~(<<y, m>> \in OpToRel(<, Nat))
  BY NatLessThanWellFounded, WFMin, Zenon
<1>2. ASSUME NEW y \in S PROVE m <= y
  <2>1. <<y, m>> \in {ss \in Nat \X Nat : ss[1] < ss[2]} <=> y < m
    OBVIOUS
  <2>2. ~(y < m)
    BY <1>1, <2>1 DEF OpToRel
  <2> QED BY <2>2
<1> QED BY <1>2 DEF Min

LEMMA KidsAreProcs == Kids \subseteq Procs /\ SHELL \notin Kids /\ SHELL \in Procs
BY PipeAssumption DEF Procs, SHELL

LEMMA HandFinite ==
  ASSUME NEW pr
  PROVE  IsFiniteSet(Hand(pr)) /\ Cardinality(Hand(pr)) \in Nat
BY PipeAssumption, FS_Subset, FS_CardinalityType DEF Hand

\* A step that leaves pc of the children alone leaves everything that is counted.
LEMMA SameHand ==
  ASSUME NEW pr, NEW new, \A p \in Kids : new[p].pc = pr[p].pc
  PROVE  Hand(new) = Hand(pr)
BY DEF Hand

\* unblock_process lets at most one process through.
LEMMA UnblockedOne ==
  ASSUME NEW pr, ProcsShaped(pr), NEW q \in Kids, NEW new,
         new = [pr EXCEPT ![q].pc = IF @ \in DOMAIN Resumes THEN Resumes[@] ELSE @]
  PROVE  /\ ProcsShaped(new)
         /\ \A p \in Kids \ {q} : new[p].pc = pr[p].pc
         /\ Cardinality(Hand(new)) <= Cardinality(Hand(pr)) + 1
         /\ pr[q].pc \in {"put_q", "get_q"} =>
              /\ new[q].pc \in {"put", "get"}
              /\ Cardinality(Hand(new)) = Cardinality(Hand(pr)) + 1
<1>1. q \in Procs
  BY KidsAreProcs
<1>2. ProcsShaped(new)
  BY <1>1 DEF ProcsShaped, Fields
<1>3. \A p \in Procs \ {q} : new[p].pc = pr[p].pc
  BY <1>1 DEF ProcsShaped, Fields
<1>4. new[q].pc = IF pr[q].pc \in DOMAIN Resumes THEN Resumes[pr[q].pc] ELSE pr[q].pc
  BY <1>1 DEF ProcsShaped, Fields
<1>5. \A p \in Kids \ {q} : new[p].pc = pr[p].pc
  BY <1>3, KidsAreProcs
<1>6. Hand(new) \subseteq Hand(pr) \cup {q}
  BY <1>5 DEF Hand
<1>7. Cardinality(Hand(new)) <= Cardinality(Hand(pr)) + 1
  <2>1. /\ IsFiniteSet(Hand(pr) \cup {q})
        /\ Cardinality(Hand(pr) \cup {q}) <= Cardinality(Hand(pr)) + 1
        /\ Cardinality(Hand(pr) \cup {q}) \in Nat
    BY HandFinite, FS_AddElement
  <2>2. Cardinality(Hand(new)) <= Cardinality(Hand(pr) \cup {q})
    BY <1>6, <2>1, FS_Subset
  <2> QED BY <2>1, <2>2, HandFinite
<1>8. ASSUME pr[q].pc \in {"put_q", "get_q"}
      PROVE  new[q].pc \in {"put", "get"} /\ Cardinality(Hand(new)) = Cardinality(Hand(pr)) + 1
  <2>1. new[q].pc \in {"put", "get"}
    BY <1>4, <1>8 DEF Resumes
  <2>2. q \notin Hand(pr) /\ Hand(new) = Hand(pr) \cup {q}
    BY <1>5, <1>8, <2>1 DEF Hand
  <2> QED BY <2>1, <2>2, HandFinite, FS_AddElement
<1> QED BY <1>2, <1>5, <1>7, <1>8

\* An assignment to one semaphore.
LEMMA SemsUpdated ==
  ASSUME NEW sm, SemsTyped(sm), NEW s \in {DATA, FREE},
         NEW v \in Int, NEW w \in Seq(Kids), NEW new,
         \/ new = [sm EXCEPT ![s] = [value |-> v, waiting |-> w]]
         \/ new = [sm EXCEPT ![s].waiting = w] /\ v = sm[s].value
         \/ new = [sm EXCEPT ![s].value = v] /\ w = sm[s].waiting
  PROVE  /\ SemsTyped(new)
         /\ new[s].value = v /\ new[s].waiting = w
         /\ \A t \in {DATA, FREE} \ {s} : new[t] = sm[t]
<1>1. ASSUME NEW Q, sm \in [{DATA, FREE} -> [value : Int, waiting : Q]], w \in Q
      PROVE  /\ new \in [{DATA, FREE} -> [value : Int, waiting : Q]]
             /\ new[s].value = v /\ new[s].waiting = w
             /\ \A t \in {DATA, FREE} \ {s} : new[t] = sm[t]
  BY <1>1
<1> QED BY <1>1 DEF SemsTyped

LEMMA TokenTaken ==
  ASSUME NEW sm, SemsTyped(sm), NEW t \in {DATA, FREE}, NEW new,
         new = [sm EXCEPT ![t].value = @ - 1]
  PROVE  /\ SemsTyped(new)
         /\ new[t].value = sm[t].value - 1 /\ new[t].waiting = sm[t].waiting
         /\ \A u \in {DATA, FREE} \ {t} : new[u] = sm[u]
<1>1. ASSUME NEW Q, sm \in [{DATA, FREE} -> [value : Int, waiting : Q]]
      PROVE  /\ new \in [{DATA, FREE} -> [value : Int, waiting : Q]]
             /\ new[t].value = sm[t].value - 1 /\ new[t].waiting = sm[t].waiting
             /\ \A u \in {DATA, FREE} \ {t} : new[u] = sm[u]
  BY <1>1
<1> QED BY <1>1 DEF SemsTyped

LEMMA WaiterAdded ==
  ASSUME NEW sm, SemsTyped(sm), NEW t \in {DATA, FREE}, NEW w \in Seq(Kids), NEW new,
         new = [sm EXCEPT ![t].waiting = w]
  PROVE  /\ SemsTyped(new)
         /\ new[t].value = sm[t].value /\ new[t].waiting = w
<1>1. ASSUME NEW Q, sm \in [{DATA, FREE} -> [value : Int, waiting : Q]], w \in Q
      PROVE  /\ new \in [{DATA, FREE} -> [value : Int, waiting : Q]]
             /\ new[t].value = sm[t].value /\ new[t].waiting = w
  BY <1>1
<1> QED BY <1>1 DEF SemsTyped

\* What is left of a queue when sem_post wakes its entry f: the entries behind it.
LEMMA RestOf ==
  ASSUME NEW w, NEW n \in Nat, NEW f \in 1..n, \A i \in 1..n : w[i] \in Kids
  PROVE  /\ SubSeq(w, f + 1, n) \in Seq(Kids)
         /\ Len(SubSeq(w, f + 1, n)) = n - f
         /\ \A i \in 1..n - f : SubSeq(w, f + 1, n)[i] = w[f + i]
<1>1. f + 1 \in Int /\ n \in Int /\ \A i \in f + 1 .. n : w[i] \in Kids
  OBVIOUS
<1>2. /\ SubSeq(w, f + 1, n) \in Seq(Kids)
      /\ Len(SubSeq(w, f + 1, n)) = IF f + 1 <= n THEN n - (f + 1) + 1 ELSE 0
      /\ \A i \in 1..n - (f + 1) + 1 : SubSeq(w, f + 1, n)[i] = w[(f + 1) + i - 1]
  BY <1>1, SubSeqProperties
<1>3. n - (f + 1) + 1 = n - f /\ \A i \in 1..n - f : (f + 1) + i - 1 = f + i
  OBVIOUS
<1> QED BY <1>2, <1>3

\* sem_post from any state between two steps: places may get lost in the queue but
\* are never made, and none is lost while the queues hold who waits and nobody else.
LEMMA Posts ==
  ASSUME NEW sm, NEW pr, SemsTyped(sm), ProcsShaped(pr),
         NEW s \in {DATA, FREE}, sm[s].value >= 0,
         NEW r, r = sem_post([sem |-> sm, proc |-> pr], s),
         \A p \in Kids : pr[p].pc \in {"put_q", "get_q"} => Alive(p)
  PROVE  /\ SemsTyped(r.sem) /\ ProcsShaped(r.proc)
         /\ \A t \in {DATA, FREE} : r.sem[t].value >= sm[t].value
         /\ Total(r.sem, r.proc) <= Total(sm, pr) + 1
         /\ QueuesExact(sm, pr) =>
              QueuesExact(r.sem, r.proc) /\ Total(r.sem, r.proc) = Total(sm, pr) + 1
<1> DEFINE w == sm[s].waiting
           n == Len(w)
           living == {i \in DOMAIN w : Alive(w[i])}
           q == w[Min(living)]
<1>1. w \in Seq(Kids) /\ n \in Nat /\ DOMAIN w = 1..n /\ \A i \in 1..n : w[i] \in Kids
  BY DEF SemsTyped
<1>2. sm[s].value \in Int /\ sm[DATA].value \in Int /\ sm[FREE].value \in Int
  BY DEF SemsTyped
<1>3. CASE living = {}
  <2>1. r.proc = pr /\ r.sem = [sm EXCEPT ![s] = [value |-> @.value + 1, waiting |-> <<>>]]
    BY <1>3 DEF sem_post
  <2>2. /\ SemsTyped(r.sem)
        /\ r.sem[s].value = sm[s].value + 1 /\ r.sem[s].waiting = <<>>
        /\ \A t \in {DATA, FREE} \ {s} : r.sem[t] = sm[t]
    <3>1. <<>> \in Seq(Kids) /\ sm[s].value + 1 \in Int
      BY <1>2
    <3>2. r.sem = [sm EXCEPT ![s] = [value |-> sm[s].value + 1, waiting |-> <<>>]]
      BY <2>1 DEF SemsTyped
    <3> HIDE DEF w, n, living, q
    <3>3. \A v \in Int, x \in Seq(Kids) :
             r.sem = [sm EXCEPT ![s] = [value |-> v, waiting |-> x]] =>
               /\ SemsTyped(r.sem) /\ r.sem[s].value = v /\ r.sem[s].waiting = x
               /\ \A t \in {DATA, FREE} \ {s} : r.sem[t] = sm[t]
      BY SemsUpdated
    <3> QED BY <3>1, <3>2, <3>3
  <2>3. Total(r.sem, r.proc) = Total(sm, pr) + 1
    <3>1. Cardinality(Hand(pr)) \in Nat
      BY HandFinite
    <3>2. r.sem[DATA].value + r.sem[FREE].value = sm[DATA].value + sm[FREE].value + 1
      <4>1. CASE s = DATA
        BY <4>1, <2>2, <1>2 DEF DATA, FREE
      <4>2. CASE s = FREE
        BY <4>2, <2>2, <1>2 DEF DATA, FREE
      <4> QED BY <4>1, <4>2
    <3>3. r.sem[DATA].value \in Int /\ r.sem[FREE].value \in Int
      BY <2>2 DEF SemsTyped
    <3> QED BY <3>1, <3>2, <3>3, <2>1, <1>2 DEF Total
  <2>4. QueuesExact(sm, pr) => QueuesExact(r.sem, r.proc)
    BY <2>1, <2>2 DEF QueuesExact
  <2>5. \A t \in {DATA, FREE} : r.sem[t].value >= sm[t].value
    BY <2>2, <1>2
  <2>6. Total(r.sem, r.proc) <= Total(sm, pr) + 1
    <3>1. Total(sm, pr) \in Int
      BY HandFinite, <1>2 DEF Total
    <3> QED BY <3>1, <2>3
  <2> QED BY <2>1, <2>2, <2>3, <2>4, <2>5, <2>6
<1>4. CASE living # {}
  <2>1. Min(living) \in living /\ \A i \in living : Min(living) <= i
    <3>1. living \in SUBSET Nat
      BY <1>1
    <3> HIDE DEF living
    <3> QED BY <3>1, <1>4, MinProperties
  <2>2. Min(living) \in 1..n /\ q \in Kids /\ Alive(q)
    BY <2>1, <1>1
  <2> DEFINE first == Min(living)
             rest == SubSeq(w, first + 1, n)
             up == [pr EXCEPT ![q].pc = IF @ \in DOMAIN Resumes THEN Resumes[@] ELSE @]
  <2>3. r = Unblock([[sem |-> sm, proc |-> pr] EXCEPT !.sem[s].waiting = rest], q)
    BY <1>4 DEF sem_post
  <2>4. r.proc = up /\ r.sem = [sm EXCEPT ![s].waiting = rest]
    BY <2>3 DEF Unblock
  <2>5. /\ rest \in Seq(Kids) /\ Len(rest) = n - first
        /\ \A i \in 1..n - first : rest[i] = w[first + i]
    <3>1. first \in 1..n /\ n \in Nat /\ \A i \in 1..n : w[i] \in Kids
      BY <1>1, <2>2
    <3> HIDE DEF living, q, w, n, first
    <3> QED BY <3>1, RestOf DEF rest
  <2> HIDE DEF first, rest, up, q, living
  <2>6. SemsTyped(r.sem) /\ r.sem[s].waiting = rest
        /\ \A t \in {DATA, FREE} \ {s} : r.sem[t] = sm[t]
    BY <2>4, <2>5, <1>2, SemsUpdated
  <2>7. \A t \in {DATA, FREE} : r.sem[t].value = sm[t].value
    BY <2>4, <2>5, <2>6, <1>2, SemsUpdated
  <2>8. /\ ProcsShaped(up)
        /\ \A p \in Kids \ {q} : up[p].pc = pr[p].pc
        /\ Cardinality(Hand(up)) <= Cardinality(Hand(pr)) + 1
        /\ pr[q].pc \in {"put_q", "get_q"} => Cardinality(Hand(up)) = Cardinality(Hand(pr)) + 1
    BY <2>2, UnblockedOne DEF up
  <2>9. Total(r.sem, r.proc) <= Total(sm, pr) + 1
    BY <2>4, <2>7, <2>8, <1>2, HandFinite DEF Total
  <2>10. ASSUME QueuesExact(sm, pr)
         PROVE  QueuesExact(r.sem, r.proc) /\ Total(r.sem, r.proc) = Total(sm, pr) + 1
    <3>1. \A i \in 1..n : Alive(w[i])
      <4>1. \A i \in 1..n : pr[w[i]].pc \in {"put_q", "get_q"}
        BY <2>10, <1>1 DEF QueuesExact, Queued
      <4> QED BY <4>1, <1>1
    <3>2. first = 1
      <4>1. living = 1..n
        BY <3>1, <1>1 DEF living
      <4>2. first \in 1..n /\ first <= 1
        BY <4>1, <2>1, <2>2 DEF first
      <4> QED BY <4>2
    <3>3. pr[q].pc = Queued[s] /\ pr[q].pc \in {"put_q", "get_q"}
      BY <2>2, <2>10, <1>1 DEF q, QueuesExact, Queued
    <3>4. Total(r.sem, r.proc) = Total(sm, pr) + 1
      BY <3>3, <2>4, <2>7, <2>8, <1>2, HandFinite DEF Total
    <3>5. q = w[1] /\ \A i \in 2..n : w[i] # q
      BY <3>2, <2>2, <2>10, <1>1 DEF q, first, QueuesExact
    <3>6. \A i, j \in 1..n : pr[w[i]].pc = Queued[s] /\ (w[i] = w[j] => i = j)
      BY <2>10, <1>1 DEF QueuesExact
    <3>7. ASSUME NEW t \in {DATA, FREE}, NEW i \in DOMAIN r.sem[t].waiting
          PROVE  /\ r.proc[r.sem[t].waiting[i]].pc = Queued[t]
                 /\ \A j \in DOMAIN r.sem[t].waiting :
                      r.sem[t].waiting[i] = r.sem[t].waiting[j] => i = j
      <4>1. CASE t = s
        <5>1. r.sem[t].waiting = rest /\ DOMAIN rest = 1..n - 1
          BY <4>1, <2>5, <2>6, <3>2, <1>1
        <5>2. \A j \in 1..n - 1 : rest[j] = w[j + 1] /\ j + 1 \in 2..n
          BY <2>5, <3>2, <1>1
        <5>3. i \in 1..n - 1
          BY <5>1, <3>7
        <5>4. i + 1 \in 1..n /\ i + 1 \in 2..n /\ rest[i] = w[i + 1]
          BY <5>2, <5>3, <1>1
        <5>5. rest[i] # q /\ rest[i] \in Kids /\ pr[rest[i]].pc = Queued[s]
          BY <5>4, <3>5, <3>6, <1>1
        <5>6. ASSUME NEW j \in 1..n - 1, rest[i] = rest[j] PROVE i = j
          <6>1. j + 1 \in 1..n /\ rest[j] = w[j + 1]
            BY <5>2, <1>1
          <6>2. i + 1 = j + 1
            BY <6>1, <5>4, <5>6, <3>6
          <6> QED BY <6>2, <5>3
        <5> QED BY <5>1, <5>5, <5>6, <4>1, <2>4, <2>8
      <4>2. CASE t # s
        <5>1. r.sem[t].waiting = sm[t].waiting
          BY <4>2, <2>6
        <5>2. sm[t].waiting[i] \in Kids
          BY <5>1, <3>7 DEF SemsTyped
        <5>3. pr[sm[t].waiting[i]].pc = Queued[t] /\ Queued[t] # Queued[s]
          BY <5>1, <4>2, <2>10, <3>7 DEF QueuesExact, Queued, DATA, FREE
        <5>4. sm[t].waiting[i] # q
          BY <5>3, <3>3
        <5> QED BY <5>1, <5>2, <5>3, <5>4, <2>4, <2>8, <2>10 DEF QueuesExact
      <4> QED BY <4>1, <4>2
    <3> QED BY <3>4, <3>7 DEF QueuesExact
  <2>11. \A t \in {DATA, FREE} : r.sem[t].value >= sm[t].value
    BY <2>7, <1>2
  <2> QED BY <2>4, <2>6, <2>8, <2>9, <2>10, <2>11
<1> QED BY <1>3, <1>4

-----------------------------------------------------------------------------
\* Steps that leave the semaphores and the places of the children alone.
LEMMA Quiet ==
  ASSUME IInv, ProcsShaped(proc'), sem' = sem, killed' = killed,
         \A p \in Kids : proc'[p].pc = proc[p].pc \/
                         {proc'[p].pc, proc[p].pc} \cap {"put", "get", "put_q", "get_q"} = {}
  PROVE  IInv'
<1>1. Hand(proc') = Hand(proc)
  BY DEF Hand
<1>2. InHand = Cardinality(Hand(proc)) /\ InHand' = Cardinality(Hand(proc'))
  BY DEF InHand, Hand
<1>3. TokensKept'
  BY <1>1, <1>2 DEF IInv, TokensKept
<1>4. ASSUME ~killed' PROVE QueuesExact(sem', proc')
  <2>1. QueuesExact(sem, proc)
    BY <1>4 DEF IInv
  <2>2. ASSUME NEW s \in {DATA, FREE}, NEW i \in DOMAIN sem[s].waiting
        PROVE  proc'[sem[s].waiting[i]].pc = Queued[s]
    <3>1. sem[s].waiting[i] \in Kids
      BY <2>2 DEF IInv, SemsTyped
    <3>2. proc[sem[s].waiting[i]].pc = Queued[s] /\ Queued[s] \in {"get_q", "put_q"}
      BY <2>1, <2>2 DEF QueuesExact, Queued
    <3> QED BY <3>1, <3>2
  <2> QED BY <2>1, <2>2 DEF QueuesExact
<1> QED BY <1>1, <1>3, <1>4 DEF IInv

\* The end of a write or a read: with a token in the hand of p, or with one taken
\* from a semaphore just now, a byte moves ...
HasToken(p, sm, pr) ==
    /\ pr = [proc EXCEPT ![p] = [@ EXCEPT !.pc = "run", !.pipe = NULL]]
    /\ \/ sm = sem /\ proc[p].pc \in {"put", "get"}
       \/ \E t \in {DATA, FREE} : /\ sm = [sem EXCEPT ![t].value = @ - 1]
                                  /\ sem[t].value > 0 /\ proc[p].pc = "run"

\* ... and a token is posted.
LEMMA Transfers ==
  ASSUME IInv, NEW p \in Kids, NEW s \in {DATA, FREE}, NEW sm, NEW pr,
         HasToken(p, sm, pr),
         Become(sem_post([sem |-> sm, proc |-> pr], s)), killed' = killed
  PROVE  IInv'
<1>1. p \in Procs
  BY KidsAreProcs
<1>2. /\ ProcsShaped(pr) /\ pr[p].pc = "run"
      /\ \A q \in Kids \ {p} : pr[q].pc = proc[q].pc
  <2>1. ProcsShaped(pr) /\ \A q \in Procs : pr[q].pc = IF q = p THEN "run" ELSE proc[q].pc
    BY <1>1 DEF IInv, ProcsShaped, Fields, HasToken
  <2> QED BY <2>1, KidsAreProcs
<1>3. /\ SemsTyped(sem) /\ sem[DATA].value \in Int /\ sem[FREE].value \in Int
      /\ Cardinality(Hand(proc)) \in Nat /\ Cardinality(Hand(pr)) \in Nat
  BY HandFinite DEF IInv, SemsTyped
<1>4. /\ sem[FREE].value >= 0 /\ sem[DATA].value >= 0
      /\ SemsTyped(sm) /\ sm[DATA].value >= 0 /\ sm[FREE].value >= 0
      /\ \A t \in {DATA, FREE} : sm[t].waiting = sem[t].waiting
      /\ Total(sm, pr) = Total(sem, proc) - 1
  <2>1. CASE sm = sem /\ proc[p].pc \in {"put", "get"}
    <3>1. p \in Hand(proc) /\ Hand(pr) = Hand(proc) \ {p}
      BY <1>2, <2>1 DEF Hand
    <3>2. Cardinality(Hand(pr)) = Cardinality(Hand(proc)) - 1
      BY <3>1, HandFinite, FS_RemoveElement
    <3>3. sem[FREE].value >= 0 /\ sem[DATA].value >= 0
      BY <3>1 DEF IInv
    <3> QED BY <2>1, <3>2, <3>3, <1>3 DEF Total
  <2>2. CASE \E t \in {DATA, FREE} : /\ sm = [sem EXCEPT ![t].value = @ - 1]
                                     /\ sem[t].value > 0 /\ proc[p].pc = "run"
    <3>1. PICK t \in {DATA, FREE} : /\ sm = [sem EXCEPT ![t].value = @ - 1]
                                    /\ sem[t].value > 0 /\ proc[p].pc = "run"
      BY <2>2
    <3>2. Hand(pr) = Hand(proc)
      BY <1>2, <3>1 DEF Hand
    <3>3. sem[FREE].value >= 0 /\ sem[DATA].value >= 0
      BY <3>1, <1>3 DEF IInv
    <3>4. /\ SemsTyped(sm)
          /\ sm[t].value = sem[t].value - 1 /\ sm[t].waiting = sem[t].waiting
          /\ \A u \in {DATA, FREE} \ {t} : sm[u] = sem[u]
      <4>1. SemsTyped(sm)
        BY <3>1, <1>3, TokenTaken
      <4>2. sm[t].value = sem[t].value - 1
        BY <3>1, <1>3, TokenTaken
      <4>3. sm[t].waiting = sem[t].waiting
        BY <3>1, <1>3, TokenTaken
      <4>4. \A u \in {DATA, FREE} \ {t} : sm[u] = sem[u]
        BY <3>1, <1>3 DEF SemsTyped
      <4> QED BY <4>1, <4>2, <4>3, <4>4
    <3>5. CASE t = DATA
      BY <3>1, <3>2, <3>3, <3>4, <3>5, <1>3 DEF Total, DATA, FREE
    <3>6. CASE t = FREE
      BY <3>1, <3>2, <3>3, <3>4, <3>6, <1>3 DEF Total, DATA, FREE
    <3> QED BY <3>5, <3>6
  <2> QED BY <2>1, <2>2 DEF HasToken
<1> DEFINE r == sem_post([sem |-> sm, proc |-> pr], s)
<1>5. \A q \in Kids : pr[q].pc \in {"put_q", "get_q"} => Alive(q)
  BY <1>2 DEF Alive
<1>6. /\ SemsTyped(r.sem) /\ ProcsShaped(r.proc)
      /\ \A t \in {DATA, FREE} : r.sem[t].value >= sm[t].value
      /\ Total(r.sem, r.proc) <= Total(sm, pr) + 1
      /\ QueuesExact(sm, pr) =>
           QueuesExact(r.sem, r.proc) /\ Total(r.sem, r.proc) = Total(sm, pr) + 1
  <2>1. sm[s].value >= 0
    BY <1>4
  <2>2. r = sem_post([sem |-> sm, proc |-> pr], s)
    OBVIOUS
  <2> HIDE DEF r
  <2> QED BY <2>1, <2>2, <1>2, <1>4, <1>5, Posts
<1>7. sem' = r.sem /\ proc' = r.proc
  BY DEF Become
<1>8. QueuesExact(sem, proc) => QueuesExact(sm, pr)
  <2> SUFFICES ASSUME QueuesExact(sem, proc) PROVE QueuesExact(sm, pr)
    OBVIOUS
  <2>1. ASSUME NEW t \in {DATA, FREE}, NEW i \in DOMAIN sem[t].waiting
        PROVE  pr[sem[t].waiting[i]].pc = Queued[t]
    <3>1. sem[t].waiting[i] \in Kids
      BY <2>1, <1>3 DEF SemsTyped
    <3>2. proc[sem[t].waiting[i]].pc = Queued[t] /\ Queued[t] \in {"get_q", "put_q"}
      BY <2>1 DEF QueuesExact, Queued
    <3>3. proc[p].pc \notin {"get_q", "put_q"}
      BY DEF HasToken
    <3> QED BY <3>1, <3>2, <3>3, <1>2
  <2>2. \A t \in {DATA, FREE} : sm[t].waiting = sem[t].waiting
    BY <1>4
  <2>3. ASSUME NEW t \in {DATA, FREE}, NEW i \in DOMAIN sm[t].waiting
        PROVE  /\ pr[sm[t].waiting[i]].pc = Queued[t]
               /\ \A j \in DOMAIN sm[t].waiting : sm[t].waiting[i] = sm[t].waiting[j] => i = j
    <3>1. sm[t].waiting = sem[t].waiting
      BY <2>2
    <3>2. i \in DOMAIN sem[t].waiting
      BY <3>1, <2>3
    <3>3. pr[sem[t].waiting[i]].pc = Queued[t]
      BY <2>1, <3>2
    <3>4. \A j \in DOMAIN sem[t].waiting : sem[t].waiting[i] = sem[t].waiting[j] => i = j
      BY <3>2 DEF QueuesExact
    <3> QED BY <3>1, <3>3, <3>4
  <2> HIDE DEF r
  <2> QED BY <2>3 DEF QueuesExact
<1> HIDE DEF r
<1>9. /\ InHand = Cardinality(Hand(proc)) /\ InHand' = Cardinality(Hand(proc'))
      /\ Cardinality(Hand(proc')) \in Nat
  BY HandFinite DEF InHand, Hand
<1>10. /\ sem'[FREE].value >= 0 /\ sem'[DATA].value >= 0
       /\ sem'[FREE].value \in Int /\ sem'[DATA].value \in Int
  <2>1. /\ r.sem[FREE].value \in Int /\ r.sem[DATA].value \in Int
        /\ sm[FREE].value \in Int /\ sm[DATA].value \in Int
    BY <1>4, <1>6 DEF SemsTyped
  <2> QED BY <2>1, <1>4, <1>6, <1>7
<1>11. TokensKept'
  <2>1. sem[FREE].value # -1
    BY <1>4, <1>3
  <2>2. Total(sem, proc) <= BUFFER_SIZE /\ (~killed => Total(sem, proc) = BUFFER_SIZE)
    BY <2>1, <1>9 DEF IInv, TokensKept, Total
  <2>3. ~killed => QueuesExact(sem, proc)
    BY DEF IInv
  <2>4. Total(sem', proc') <= Total(sem, proc) /\ (~killed => Total(sem', proc') = Total(sem, proc))
    <3>1. Total(sem, proc) \in Int /\ Total(sem', proc') \in Int
      BY <1>3, <1>9, <1>10 DEF Total
    <3> QED BY <3>1, <2>3, <1>4, <1>6, <1>7, <1>8
  <2>5. Total(sem', proc') <= BUFFER_SIZE /\ (~killed => Total(sem', proc') = BUFFER_SIZE)
    <3>1. Total(sem, proc) \in Int /\ Total(sem', proc') \in Int /\ BUFFER_SIZE \in Int
      BY <1>3, <1>9, <1>10, PipeAssumption DEF Total
    <3> QED BY <3>1, <2>2, <2>4
  <2> QED BY <2>5, <1>9 DEF TokensKept, Total
<1>12. ~killed' => QueuesExact(sem', proc')
  BY <1>6, <1>7, <1>8 DEF IInv
<1> QED BY <1>6, <1>7, <1>10, <1>11, <1>12 DEF IInv

\* What a call posts, and from which state.
LEMMA CallerPosts ==
  ASSUME NEW p \in Kids, NEW k, NEW u,
         Become(sem_post([k EXCEPT !.proc[p] = [@ EXCEPT !.pc = "run", !.pipe = NULL]], u)),
         \/ k = Now /\ proc[p].pc \in {"put", "get"}
         \/ \E t \in {DATA, FREE} : k = Token(t) /\ sem[t].value > 0 /\ proc[p].pc = "run"
  PROVE  \E sm, pr : HasToken(p, sm, pr) /\ Become(sem_post([sem |-> sm, proc |-> pr], u))
<1> DEFINE pr == [proc EXCEPT ![p] = [@ EXCEPT !.pc = "run", !.pipe = NULL]]
<1>1. PICK sm : k = [sem |-> sm, proc |-> proc] /\ HasToken(p, sm, pr)
  <2>1. CASE k = Now /\ proc[p].pc \in {"put", "get"}
    BY <2>1 DEF Now, HasToken
  <2>2. ASSUME NEW t \in {DATA, FREE}, k = Token(t), sem[t].value > 0, proc[p].pc = "run"
        PROVE  \E sm : k = [sem |-> sm, proc |-> proc] /\ HasToken(p, sm, pr)
    <3>1. k = [sem |-> [sem EXCEPT ![t].value = @ - 1], proc |-> proc]
      BY <2>2 DEF Token, Now
    <3>2. HasToken(p, [sem EXCEPT ![t].value = @ - 1], pr)
      BY <2>2 DEF HasToken
    <3> QED BY <3>1, <3>2
  <2> QED BY <2>1, <2>2
<1>2. [k EXCEPT !.proc[p] = [@ EXCEPT !.pc = "run", !.pipe = NULL]] = [sem |-> sm, proc |-> pr]
  BY <1>1
<1>3. Become(sem_post([sem |-> sm, proc |-> pr], u))
  BY <1>2
<1> HIDE DEF pr
<1> QED BY <1>1, <1>3

LEMMA PutOrGet ==
  ASSUME IInv, NEW p \in Kids, NEW s, killed' = killed,
         NEW k, Put(k, p, s) \/ Get(k, p, s),
         \/ k = Now /\ proc[p].pc \in {"put", "get"}
         \/ \E t \in {DATA, FREE} : k = Token(t) /\ sem[t].value > 0 /\ proc[p].pc = "run"
  PROVE  IInv'
<1>1. PICK u \in {DATA, FREE} :
         Become(sem_post([k EXCEPT !.proc[p] = [@ EXCEPT !.pc = "run", !.pipe = NULL]], u))
  BY DEF Put, Get
<1>2. PICK sm, pr : HasToken(p, sm, pr) /\ Become(sem_post([sem |-> sm, proc |-> pr], u))
  BY <1>1, CallerPosts
<1> QED BY <1>2, Transfers

\* A process that finds no token goes to the end of the queue.
LEMMA BlocksInQueue ==
  ASSUME IInv, NEW p \in Kids, NEW s \in {DATA, FREE}, NEW x, killed' = killed,
         proc[p].pc = "run", Blocks(p, s, Queued[s], x)
  PROVE  IInv'
<1> DEFINE w == sem[s].waiting
           n == Len(w)
<1>1. p \in Procs
  BY KidsAreProcs
<1>2. /\ ProcsShaped(proc') /\ proc'[p].pc = Queued[s]
      /\ \A q \in Kids \ {p} : proc'[q].pc = proc[q].pc
  <2>1. ProcsShaped(proc') /\ \A q \in Procs : proc'[q].pc = IF q = p THEN Queued[s] ELSE proc[q].pc
    BY <1>1 DEF IInv, ProcsShaped, Fields, Blocks
  <2> QED BY <2>1, KidsAreProcs
<1>3. SemsTyped(sem) /\ w \in Seq(Kids) /\ n \in Nat /\ DOMAIN w = 1..n /\ \A i \in 1..n : w[i] \in Kids
  BY DEF IInv, SemsTyped
<1>4. /\ Append(w, p) \in Seq(Kids) /\ DOMAIN Append(w, p) = 1..n + 1
      /\ \A i \in 1..n : Append(w, p)[i] = w[i]
      /\ Append(w, p)[n + 1] = p
  BY <1>3, AppendProperties
<1>5. sem' = [sem EXCEPT ![s].waiting = Append(w, p)]
  BY DEF Blocks
<1> HIDE DEF w
<1>6. /\ SemsTyped(sem') /\ sem'[s].value = sem[s].value /\ sem'[s].waiting = Append(w, p)
      /\ \A t \in {DATA, FREE} \ {s} : sem'[t] = sem[t]
  <2>1. SemsTyped(sem')
    BY <1>3, <1>4, <1>5, WaiterAdded
  <2>2. sem'[s].value = sem[s].value /\ sem'[s].waiting = Append(w, p)
    BY <1>3, <1>5 DEF SemsTyped
  <2>3. \A t \in {DATA, FREE} \ {s} : sem'[t] = sem[t]
    BY <1>3, <1>5 DEF SemsTyped
  <2> QED BY <2>1, <2>2, <2>3
<1>7. Hand(proc') = Hand(proc)
  BY <1>2 DEF Hand, Queued
<1>8. sem'[DATA].value = sem[DATA].value /\ sem'[FREE].value = sem[FREE].value
  BY <1>6
<1>9. TokensKept'
  <2>1. InHand = Cardinality(Hand(proc)) /\ InHand' = Cardinality(Hand(proc'))
    BY DEF InHand, Hand
  <2> QED BY <2>1, <1>7, <1>8 DEF IInv, TokensKept
<1>10. ASSUME ~killed', NEW t \in {DATA, FREE}, NEW i \in DOMAIN sem'[t].waiting
       PROVE  /\ proc'[sem'[t].waiting[i]].pc = Queued[t]
              /\ \A j \in DOMAIN sem'[t].waiting :
                   sem'[t].waiting[i] = sem'[t].waiting[j] => i = j
  <2>1. \A u \in {DATA, FREE} : \A j \in DOMAIN sem[u].waiting :
           /\ proc[sem[u].waiting[j]].pc = Queued[u] /\ sem[u].waiting[j] # p
           /\ sem[u].waiting[j] \in Kids
           /\ \A m \in DOMAIN sem[u].waiting : sem[u].waiting[j] = sem[u].waiting[m] => j = m
    <3>1. QueuesExact(sem, proc)
      BY <1>10 DEF IInv
    <3>2. \A u \in {DATA, FREE} : Queued[u] # "run"
      BY DEF Queued
    <3>3. \A u \in {DATA, FREE} : \A j \in DOMAIN sem[u].waiting : sem[u].waiting[j] \in Kids
      BY <1>3 DEF SemsTyped
    <3> QED BY <3>1, <3>2, <3>3 DEF QueuesExact
  <2>2. CASE t # s
    <3>1. sem'[t] = sem[t]
      BY <2>2, <1>6
    <3> QED BY <3>1, <2>1, <1>2, <1>10
  <2>3. CASE t = s
    <3>1. sem'[t].waiting = Append(w, p) /\ i \in 1..n + 1
      BY <2>3, <1>4, <1>6, <1>10
    <3>2. \A j \in 1..n : /\ proc'[w[j]].pc = Queued[s] /\ w[j] # p
                          /\ \A m \in 1..n : w[j] = w[m] => j = m
      BY <2>1, <1>2, <1>3 DEF w
    <3>3. \A j \in 1..n + 1 : j \in 1..n \/ j = n + 1
      BY <1>3
    <3>4. proc'[Append(w, p)[i]].pc = Queued[s]
      BY <3>1, <3>2, <3>3, <1>2, <1>4
    <3>5. ASSUME NEW j \in 1..n + 1, Append(w, p)[i] = Append(w, p)[j] PROVE i = j
      BY <3>1, <3>2, <3>3, <3>5, <1>4
    <3> QED BY <3>1, <3>4, <3>5, <2>3, <1>4
  <2> QED BY <2>2, <2>3
<1>11. ~killed' => QueuesExact(sem', proc')
  BY <1>10 DEF QueuesExact
<1> QED BY <1>2, <1>6, <1>7, <1>8, <1>9, <1>11 DEF IInv

-----------------------------------------------------------------------------
LEMMA InitTokens == ASSUME Init PROVE IInv
<1>1. ProcsShaped(proc) /\ \A p \in Procs : proc[p].pc \in {"prompt", "none"}
  BY DEF Init, Nobody, ProcsShaped, Fields
<1>2. Hand(proc) = {}
  BY <1>1, KidsAreProcs DEF Hand
<1>3. SemsTyped(sem) /\ sem[DATA].value = -1 /\ sem[FREE].value = -1
  BY DEF Init, SemsTyped
<1>4. QueuesExact(sem, proc)
  BY DEF Init, QueuesExact
<1> QED BY <1>1, <1>2, <1>3, <1>4 DEF IInv, TokensKept

LEMMA WriteKeeps ==
  ASSUME IInv, NEW p \in Kids, pipe_write(p), killed' = killed
  PROVE  IInv'
<1> DEFINE s == fd_table[proc[p].stdout].pipe
<1>1. CASE CanWrite(p) /\ Blocks(p, FREE, "put_q", s)
  <2>1. proc[p].pc = "run" /\ Queued[FREE] = "put_q"
    BY <1>1 DEF CanWrite, Queued, FREE, DATA
  <2> HIDE DEF s
  <2> QED BY <1>1, <2>1, BlocksInQueue
<1>2. CASE CanWrite(p) /\ sem[FREE].value > 0 /\ Put(Token(FREE), p, s)
  BY <1>2, PutOrGet DEF CanWrite
<1>3. CASE proc[p].pc = "put" /\ Put(Now, p, proc[p].pipe)
  BY <1>3, PutOrGet
<1> QED BY <1>1, <1>2, <1>3 DEF pipe_write

LEMMA ReadKeeps ==
  ASSUME IInv, NEW p \in Kids, pipe_read(p), killed' = killed
  PROVE  IInv'
<1> DEFINE s == fd_table[proc[p].stdin].pipe
<1>1. CASE CanRead(p) /\ Blocks(p, DATA, "get_q", s)
  <2>1. proc[p].pc = "run" /\ Queued[DATA] = "get_q"
    BY <1>1 DEF CanRead, Queued, DATA
  <2> HIDE DEF s
  <2> QED BY <1>1, <2>1, BlocksInQueue
<1>2. CASE CanRead(p) /\ sem[DATA].value > 0 /\ Get(Token(DATA), p, s)
  BY <1>2, PutOrGet DEF CanRead
<1>3. CASE proc[p].pc = "get" /\ Get(Now, p, proc[p].pipe)
  BY <1>3, PutOrGet
<1> QED BY <1>1, <1>2, <1>3 DEF pipe_read

LEMMA KeyboardKeeps ==
  ASSUME IInv, NEW p \in Kids, read_keyboard(p), killed' = killed
  PROVE  IInv'
<1>1. p \in Procs
  BY KidsAreProcs
<1>2. /\ ProcsShaped(proc')
      /\ \A q \in Procs : \/ proc'[q].pc = proc[q].pc
                          \/ {proc'[q].pc, proc[q].pc} \subseteq {"run", "kbd"}
  BY <1>1 DEF IInv, ProcsShaped, Fields, read_keyboard
<1> QED BY <1>2, KidsAreProcs, Quiet DEF read_keyboard

LEMMA ExitKeeps ==
  ASSUME IInv, NEW p \in Kids, exit_process(p)
  PROVE  IInv'
<1>1. p \in Procs /\ ProcsShaped(proc)
  BY KidsAreProcs DEF IInv
<1> DEFINE still == {"run", "exit", "none"}
<1>2. /\ ProcsShaped(proc')
      /\ \A q \in Procs : \/ proc'[q].pc = proc[q].pc
                          \/ {proc'[q].pc, proc[q].pc} \subseteq still
  <2>1. CASE proc[p].pc = "run" /\ proc' = [proc EXCEPT ![p].pc = "exit"]
    BY <1>1, <2>1 DEF ProcsShaped, Fields
  <2>2. CASE proc[p].pc = "exit" /\ proc' = [proc EXCEPT ![p] = Nobody]
    BY <1>1, <2>2 DEF ProcsShaped, Fields, Nobody
  <2>3. ASSUME NEW i, proc' = [proc EXCEPT ![p].fd_table[i] = -1]
        PROVE  <1>2
    BY <1>1, <2>3 DEF ProcsShaped, Fields
  <2> QED BY <2>1, <2>2, <2>3 DEF exit_process
<1>3. sem' = sem /\ killed' = killed
  BY DEF exit_process
<1> QED BY <1>2, <1>3, KidsAreProcs, Quiet

\* A kill takes the token in the hand of its victim with it.
LEMMA KillKeeps ==
  ASSUME IInv, NEW p \in Kids, Kill(p)
  PROVE  IInv'
<1>1. p \in Procs /\ ProcsShaped(proc)
  BY KidsAreProcs DEF IInv
<1>2. ProcsShaped(proc') /\ \A q \in Procs : proc'[q].pc = IF q = p THEN "none" ELSE proc[q].pc
  BY <1>1 DEF ProcsShaped, Fields, Nobody, Kill
<1>3. Hand(proc') \subseteq Hand(proc)
  BY <1>2, KidsAreProcs DEF Hand
<1>4. Cardinality(Hand(proc')) <= Cardinality(Hand(proc))
  BY <1>3, HandFinite, FS_Subset
<1>5. /\ InHand = Cardinality(Hand(proc)) /\ InHand' = Cardinality(Hand(proc'))
      /\ InHand \in Nat /\ InHand' \in Nat
  BY HandFinite DEF InHand, Hand
<1>6. sem' = sem /\ killed' = TRUE /\ sem[DATA].value \in Int /\ sem[FREE].value \in Int
  BY DEF Kill, IInv, SemsTyped
<1>7. TokensKept'
  BY <1>4, <1>5, <1>6, PipeAssumption DEF IInv, TokensKept
<1> QED BY <1>2, <1>3, <1>6, <1>7 DEF IInv

\* The first pipe opens the semaphores, with all the places of a buffer.
LEMMA create_pipeKeeps ==
  ASSUME IInv, create_pipe, killed' = killed
  PROVE  IInv'
<1>1. /\ ProcsShaped(proc')
      /\ \A q \in Kids : proc'[q].pc = proc[q].pc
  <2>1. PICK t : proc' = [proc EXCEPT ![SHELL].pc = "left", ![SHELL].fd_table = t]
    BY DEF create_pipe
  <2>2. /\ ProcsShaped(proc')
        /\ \A q \in Procs \ {SHELL} : proc'[q].pc = proc[q].pc
    BY <2>1, KidsAreProcs DEF IInv, ProcsShaped, Fields
  <2> QED BY <2>2, KidsAreProcs
<1>2. CASE sem[FREE].value # -1
  <2>1. sem' = sem
    BY <1>2 DEF create_pipe, pipe_init, IInv, SemsTyped, DATA, FREE
  <2> QED BY <1>1, <2>1, Quiet
<1>3. CASE sem[FREE].value = -1
  <2>1. /\ sem[DATA].value = -1 /\ Hand(proc) = {} /\ SemsTyped(sem)
    BY <1>3 DEF IInv
  <2>2. Hand(proc') = {}
    BY <1>1, <2>1, SameHand
  <2>3. InHand' = 0
    BY <2>2, FS_EmptySet DEF InHand, Hand
  <2>4. /\ SemsTyped(sem') /\ sem'[DATA].value = 0 /\ sem'[FREE].value = BUFFER_SIZE
        /\ \A t \in {DATA, FREE} : sem'[t].waiting = sem[t].waiting
    <3>1. sem' = [sem EXCEPT ![DATA].value = 0, ![FREE].value = BUFFER_SIZE]
      BY <1>3, <2>1 DEF create_pipe, pipe_init, SemsTyped, DATA, FREE
    <3>2. ASSUME NEW Q, sem \in [{DATA, FREE} -> [value : Int, waiting : Q]]
          PROVE  /\ sem' \in [{DATA, FREE} -> [value : Int, waiting : Q]]
                 /\ sem'[DATA].value = 0 /\ sem'[FREE].value = BUFFER_SIZE
                 /\ \A t \in {DATA, FREE} : sem'[t].waiting = sem[t].waiting
      BY <3>1, <3>2, PipeAssumption DEF DATA, FREE
    <3> QED BY <2>1, <3>2 DEF SemsTyped
  <2>5. TokensKept'
    BY <2>3, <2>4, PipeAssumption DEF TokensKept
  <2>6. ASSUME ~killed' PROVE QueuesExact(sem', proc')
    <3>1. QueuesExact(sem, proc)
      BY <2>6 DEF IInv
    <3>2. \A t \in {DATA, FREE} : \A i \in DOMAIN sem[t].waiting : sem[t].waiting[i] \in Kids
      BY <2>1 DEF SemsTyped
    <3> QED BY <3>1, <3>2, <1>1, <2>4 DEF QueuesExact
  <2> QED BY <1>1, <2>4, <2>5, <2>6, PipeAssumption DEF IInv
<1> QED BY <1>2, <1>3

\* The other steps of the shell.
LEMMA chekCommandKeeps ==
  ASSUME IInv, chekCommand, killed' = killed
  PROVE  IInv'
<1>1. ProcsShaped(proc) /\ SHELL \in Procs
  BY KidsAreProcs DEF IInv
<1>2. CASE create_pipe
  BY <1>2, create_pipeKeeps
<1>3. ASSUME NEW side, NEW next, NewChild(side, next) PROVE IInv'
  <2>1. PICK p \in Kids :
          /\ proc[p].pc = "none" /\ sem' = sem
          /\ proc' = [proc EXCEPT ![p] = [Nobody EXCEPT !.pc = "run", !.fd_table = proc[SHELL].fd_table],
                                  ![SHELL].pc = next]
    BY <1>3 DEF NewChild, FreePid
  <2>2. p \in Procs /\ p # SHELL
    BY KidsAreProcs
  <2>3. /\ ProcsShaped(proc')
        /\ \A q \in Procs \ {SHELL} : proc'[q].pc = IF q = p THEN "run" ELSE proc[q].pc
    BY <1>1, <2>1, <2>2 DEF ProcsShaped, Fields, Nobody
  <2> QED BY <2>1, <2>3, KidsAreProcs, Quiet
<1>4. ASSUME NEW side, NEW std \in {"stdin", "stdout"}, NEW fd, NEW next,
             change_std(side, std, fd, next)
      PROVE  IInv'
  <2>1. ProcsShaped(proc') /\ \A q \in Procs \ {SHELL} : proc'[q].pc = proc[q].pc
    <3>1. CASE proc' = [proc EXCEPT ![SHELL].pc = next]
      BY <1>1, <3>1 DEF ProcsShaped, Fields
    <3>2. CASE proc' = [[proc EXCEPT ![SHELL].pc = next] EXCEPT ![new_pipe[side]][std] = fd]
      BY <1>1, <1>4, <3>2 DEF ProcsShaped, Fields
    <3> QED BY <1>4, <3>1, <3>2 DEF change_std
  <2> QED BY <1>4, <2>1, KidsAreProcs, Quiet DEF change_std
<1>5. ASSUME NEW fd, NEW next, ShellCloses(fd, next) PROVE IInv'
  <2>1. PICK i : proc' = [proc EXCEPT ![SHELL].pc = next, ![SHELL].fd_table[i] = -1]
    BY <1>5 DEF ShellCloses
  <2>2. ProcsShaped(proc') /\ \A q \in Procs \ {SHELL} : proc'[q].pc = proc[q].pc
    BY <1>1, <2>1 DEF ProcsShaped, Fields
  <2> QED BY <1>5, <2>2, KidsAreProcs, Quiet DEF ShellCloses
<1>6. ASSUME proc' = [proc EXCEPT ![SHELL].pc = "prompt"], sem' = sem PROVE IInv'
  <2>1. ProcsShaped(proc') /\ \A q \in Procs \ {SHELL} : proc'[q].pc = proc[q].pc
    BY <1>1, <1>6 DEF ProcsShaped, Fields
  <2> QED BY <1>6, <2>1, KidsAreProcs, Quiet
<1> QED BY <1>2, <1>3, <1>4, <1>5, <1>6 DEF chekCommand

LEMMA NextTokens == IInv /\ [Next]_vars => IInv'
<1> SUFFICES ASSUME IInv, [Next]_vars PROVE IInv'
  OBVIOUS
<1>1. ASSUME NEW p \in Kids, exit_process(p) PROVE IInv'
  BY <1>1, ExitKeeps
<1>2. ASSUME NEW p \in Kids, Kill(p) PROVE IInv'
  BY <1>2, KillKeeps
<1>3. ASSUME NEW p \in Kids, pipe_write(p), killed' = killed PROVE IInv'
  BY <1>3, WriteKeeps
<1>4. ASSUME NEW p \in Kids, pipe_read(p), killed' = killed PROVE IInv'
  BY <1>4, ReadKeeps
<1>5. ASSUME NEW p \in Kids, read_keyboard(p), killed' = killed PROVE IInv'
  BY <1>5, KeyboardKeeps
<1>6. CASE chekCommand /\ killed' = killed
  BY <1>6, chekCommandKeeps
<1>7. CASE UNCHANGED vars
  BY <1>7, Quiet DEF vars, IInv
<1> QED BY <1>1, <1>2, <1>3, <1>4, <1>5, <1>6, <1>7 DEF Next

\* Every place of the buffer is in one of the two semaphores or in the hand of a
\* process that was let through, however many pipes share them (pipe.c, pipe_write
\* and pipe_read): no order of writes, reads, exits and opened pipes loses one, and
\* no kill makes one.
THEOREM TokensSound == Spec => []TokensKept
<1>1. Init => IInv
  BY InitTokens
<1>2. IInv /\ [Next]_vars => IInv'
  BY NextTokens
<1>3. IInv => TokensKept
  BY DEF IInv
<1> QED BY <1>1, <1>2, <1>3, PTL DEF Spec

-----------------------------------------------------------------------------
(* Who holds what.                                                         *)

ReadEnds == {f \in Fds : f % 2 = 0}

\* A process has the read end of a pipe in the first place of its table, and the
\* write end in the second one; it closes the first place first.
Tab(a, b) == [i \in Places |-> IF i = 1 THEN a ELSE IF i = 2 THEN b ELSE -1]

InCall == {"put", "get", "put_q", "get_q"}
Live   == {"put", "get", "put_q", "get_q", "run", "kbd"}
Labels == {"prompt", "left", "right", "std_w", "std_r", "close_r", "close_w", "wait"}

PipeRecord == [unread : Int, read_open : Nat, write_open : Nat]
Descriptor == [pipe : Slots \cup {NULL}, type : {"FD_UNUSED", "FD_READ", "FD_WRITE"},
               in_use : BOOLEAN]

PipesTyped == pipes \in [Slots -> {NULL} \cup PipeRecord]

\* Both ends of a pipe are in use or none, and no other descriptor is of this pipe.
Paired ==
    /\ fd_table \in [Fds -> Descriptor]
    /\ \A f \in ReadEnds :
         \/ ~fd_table[f].in_use /\ ~fd_table[f + 1].in_use
         \/ /\ fd_table[f].in_use /\ fd_table[f].type = "FD_READ"
            /\ fd_table[f + 1].in_use /\ fd_table[f + 1].type = "FD_WRITE"
            /\ fd_table[f].pipe \in Opened /\ fd_table[f + 1].pipe = fd_table[f].pipe
    /\ \A f, g \in ReadEnds :
         fd_table[f].in_use /\ fd_table[g].in_use /\ f # g => fd_table[f].pipe # fd_table[g].pipe

\* Nobody has the read end of a pipe without its write end.
TablesOK ==
    \A p \in Procs :
        \/ proc[p].fd_table = Tab(-1, -1)
        \/ \E f \in ReadEnds : /\ fd_table[f].in_use
                               /\ proc[p].fd_table \in {Tab(f, f + 1), Tab(-1, f + 1)}

ShellOK ==
    LET pc == proc[SHELL].pc
    IN  /\ pc \in Labels
        /\ new_pipe = [f \in {"r", "w", "left", "right"} |-> new_pipe[f]]
        /\ pc # "prompt" => new_pipe.r \in ReadEnds /\ new_pipe.w = new_pipe.r + 1
        /\ proc[SHELL].fd_table = IF pc \in {"prompt", "wait"} THEN Tab(-1, -1)
                                  ELSE IF pc = "close_w" THEN Tab(-1, new_pipe.w)
                                  ELSE Tab(new_pipe.r, new_pipe.w)
        /\ pc \in {"prompt", "left"} => \A p \in Kids : ~Alive(p)

\* A child that runs is one of the last pipeline, and holds both ends of its pipe.
ChildrenOK ==
    \A p \in Kids :
        /\ proc[p].pc \in Live \cup {"none", "exit"}
        /\ proc[p].pc = "none" => proc[p].fd_table = Tab(-1, -1)
        /\ proc[p].pc \in Live => /\ proc[p].fd_table = Tab(new_pipe.r, new_pipe.w)
                                  /\ proc[p].stdin \in {STDIN, new_pipe.r}
                                  /\ proc[p].stdout \in {STDOUT, new_pipe.w}
        /\ proc[p].pc \in InCall => proc[p].pipe = fd_table[new_pipe.r].pipe

CountsOK ==
    \A f \in ReadEnds : fd_table[f].in_use =>
        LET pipe == pipes[fd_table[f].pipe]
        IN  /\ pipe.read_open >= Cardinality(Holders(f))
            /\ pipe.write_open >= Cardinality(Holders(f + 1))
            /\ pipe.read_open + pipe.write_open > 0
            /\ ~killed => /\ pipe.read_open = Cardinality(Holders(f))
                          /\ pipe.write_open = Cardinality(Holders(f + 1))

Linked == PipesTyped /\ Paired /\ TablesOK /\ ShellOK /\ ChildrenOK /\ CountsOK

LEMMA TwoEnds ==
  /\ \A fd \in Fds : fd \in ReadEnds \/ \E f \in ReadEnds : fd = f + 1
  /\ \A f \in ReadEnds : f \in Fds /\ f + 1 \in Fds /\ f \in Nat /\ f >= 2 /\ f + 1 \notin ReadEnds
  /\ \A f, g \in ReadEnds : f + 1 = g + 1 => f = g
<1>0. MAX_FDS \in Nat /\ MAX_FDS % 2 = 0
  BY PipeAssumption
<1>1. PICK m \in Nat : MAX_FDS = 2 * m
  BY <1>0
<1>2. \A n \in Nat : \E k \in Nat : n = 2 * k \/ n = 2 * k + 1
  <2>1. \A n \in Nat : n \div 2 \in Nat /\ (n = 2 * (n \div 2) \/ n = 2 * (n \div 2) + 1)
    OBVIOUS
  <2> QED BY <2>1
<1>3. \A k \in Nat : (2 * k) % 2 = 0 /\ (2 * k + 1) % 2 = 1
  OBVIOUS
<1>4. \A fd \in Fds : fd \in Nat
  BY <1>0 DEF Fds
<1>5. \A f \in ReadEnds : \E k \in Nat : f = 2 * k
  BY <1>2, <1>3, <1>4 DEF ReadEnds
<1>6. \A fd \in Fds : fd \in ReadEnds \/ \E f \in ReadEnds : fd = f + 1
  <2> SUFFICES ASSUME NEW fd \in Fds PROVE fd \in ReadEnds \/ \E f \in ReadEnds : fd = f + 1
    OBVIOUS
  <2>1. PICK k \in Nat : fd = 2 * k \/ fd = 2 * k + 1
    BY <1>2, <1>4
  <2>2. CASE fd = 2 * k
    BY <2>2, <1>3 DEF ReadEnds
  <2>3. CASE fd = 2 * k + 1
    <3>1. 2 * k \in Fds
      BY <2>3, <1>0 DEF Fds
    <3> QED BY <3>1, <2>3, <1>3 DEF ReadEnds
  <2> QED BY <2>1, <2>2, <2>3
<1>7. ASSUME NEW f \in ReadEnds
      PROVE  f \in Fds /\ f + 1 \in Fds /\ f \in Nat /\ f >= 2 /\ f + 1 \notin ReadEnds
  <2>1. PICK k \in Nat : f = 2 * k
    BY <1>5
  <2>2. f \in Fds /\ f >= 2 /\ f <= MAX_FDS + 1
    BY <1>0 DEF ReadEnds, Fds
  <2>3. f + 1 <= MAX_FDS + 1
    BY <2>1, <2>2, <1>1
  <2>4. f + 1 \in Fds
    BY <2>2, <2>3, <1>0 DEF Fds
  <2> QED BY <2>1, <2>2, <2>4, <1>3 DEF ReadEnds
<1>8. \A f, g \in ReadEnds : f + 1 = g + 1 => f = g
  BY <1>7
<1> QED BY <1>6, <1>7, <1>8

LEMMA TabIs ==
  /\ 1 \in Places /\ 2 \in Places /\ -1 \notin Fds
  /\ \A i \in Places : i \in Nat /\ i >= 1
  /\ Nobody.fd_table = Tab(-1, -1)
  /\ \A a, b : /\ Tab(a, b)[1] = a /\ Tab(a, b)[2] = b
               /\ \A i \in Places : i # 1 /\ i # 2 => Tab(a, b)[i] = -1
<1>1. MAX_BUFF \in Nat /\ MAX_BUFF >= 1
  BY PipeAssumption
<1>2. 1 \in Places /\ 2 \in Places /\ \A i \in Places : i \in Nat /\ i >= 1
  BY <1>1 DEF Places
<1>3. -1 \notin Fds
  BY PipeAssumption DEF Fds
<1> QED BY <1>2, <1>3 DEF Tab, Nobody

LEMMA TabSame ==
  ASSUME NEW a, NEW b, NEW c, NEW d, Tab(a, b) = Tab(c, d)
  PROVE  a = c /\ b = d
BY TabIs

\* A close clears one place of a table.
LEMMA TabCleared ==
  ASSUME NEW a, NEW b
  PROVE  [Tab(a, b) EXCEPT ![1] = -1] = Tab(-1, b) /\ [Tab(a, b) EXCEPT ![2] = -1] = Tab(a, -1)
BY TabIs DEF Tab

LEMMA HoldersFinite ==
  ASSUME NEW fd
  PROVE  /\ IsFiniteSet(Holders(fd)) /\ Cardinality(Holders(fd)) \in Nat
         /\ IsFiniteSet(Holders(fd)') /\ Cardinality(Holders(fd)') \in Nat
<1>1. IsFiniteSet(Procs)
  BY PipeAssumption, FS_AddElement DEF Procs
<1>2. IsFiniteSet(Places)
  BY PipeAssumption, FS_Interval DEF Places
<1>3. IsFiniteSet(Procs \X Places)
  BY <1>1, <1>2, FS_Product
<1>4. Holders(fd) \subseteq Procs \X Places /\ Holders(fd)' \subseteq Procs \X Places
  BY DEF Holders
<1> QED BY <1>3, <1>4, FS_Subset, FS_CardinalityType

\* One process turns Tab(a, b) into Tab(c, d).
Retabled(p, a, b, c, d) ==
    /\ proc[p].fd_table = Tab(a, b) /\ proc'[p].fd_table = Tab(c, d)
    /\ \A q \in Procs \ {p} : proc'[q].fd_table = proc[q].fd_table

LEMMA HoldersAre ==
  ASSUME NEW p \in Procs, NEW a, NEW b, NEW c, NEW d, Retabled(p, a, b, c, d), NEW fd \in Fds
  PROVE  \E S : /\ <<p, 1>> \notin S /\ <<p, 2>> \notin S
                /\ Holders(fd) = S \cup (IF a = fd THEN {<<p, 1>>} ELSE {})
                                   \cup (IF b = fd THEN {<<p, 2>>} ELSE {})
                /\ Holders(fd)' = S \cup (IF c = fd THEN {<<p, 1>>} ELSE {})
                                    \cup (IF d = fd THEN {<<p, 2>>} ELSE {})
<1> DEFINE S == {h \in Procs \X Places : h[1] # p /\ proc[h[1]].fd_table[h[2]] = fd}
<1>1. /\ 1 \in Places /\ 2 \in Places /\ fd # -1
      /\ Tab(a, b)[1] = a /\ Tab(a, b)[2] = b /\ Tab(c, d)[1] = c /\ Tab(c, d)[2] = d
      /\ \A i \in Places : i # 1 /\ i # 2 => Tab(a, b)[i] # fd /\ Tab(c, d)[i] # fd
  BY TabIs
<1>2. ASSUME NEW h \in Procs \X Places, h[1] = p
      PROVE  /\ h \in Holders(fd) <=> (h = <<p, 1>> /\ a = fd) \/ (h = <<p, 2>> /\ b = fd)
             /\ h \in Holders(fd)' <=> (h = <<p, 1>> /\ c = fd) \/ (h = <<p, 2>> /\ d = fd)
  <2>1. PICK i \in Places : h = <<p, i>>
    BY <1>2
  <2>2. /\ h \in Holders(fd) <=> Tab(a, b)[i] = fd
        /\ h \in Holders(fd)' <=> Tab(c, d)[i] = fd
    BY <2>1, <1>2 DEF Holders, Retabled
  <2>3. \A j : h = <<p, j>> <=> i = j
    BY <2>1
  <2>4. CASE i = 1
    BY <2>4, <2>2, <2>3, <1>1
  <2>5. CASE i = 2
    BY <2>5, <2>2, <2>3, <1>1
  <2>6. CASE i # 1 /\ i # 2
    BY <2>6, <2>2, <2>3, <1>1
  <2> QED BY <2>4, <2>5, <2>6
<1>3. ASSUME NEW h \in Procs \X Places, h[1] # p
      PROVE  (h \in Holders(fd) <=> h \in S) /\ (h \in Holders(fd)' <=> h \in S)
  <2>1. proc'[h[1]].fd_table = proc[h[1]].fd_table
    BY <1>3 DEF Retabled
  <2> QED BY <1>3, <2>1 DEF Holders
<1>4. /\ <<p, 1>> \in Procs \X Places /\ <<p, 2>> \in Procs \X Places
      /\ Holders(fd) \subseteq Procs \X Places /\ Holders(fd)' \subseteq Procs \X Places
      /\ S \subseteq Procs \X Places /\ <<p, 1>>[1] = p /\ <<p, 2>>[1] = p
      /\ \A h \in S : h[1] # p
  BY <1>1 DEF Holders
<1> HIDE DEF S
<1>5. /\ Holders(fd) = S \cup (IF a = fd THEN {<<p, 1>>} ELSE {}) \cup (IF b = fd THEN {<<p, 2>>} ELSE {})
      /\ Holders(fd)' = S \cup (IF c = fd THEN {<<p, 1>>} ELSE {}) \cup (IF d = fd THEN {<<p, 2>>} ELSE {})
  <2> DEFINE h1 == <<p, 1>>
             h2 == <<p, 2>>
             H  == Holders(fd)
             Hn == Holders(fd)'
             U  == Procs \X Places
  <2>1. /\ \A h \in U : h[1] = p => (h \in H <=> (h = h1 /\ a = fd) \/ (h = h2 /\ b = fd))
        /\ \A h \in U : h[1] = p => (h \in Hn <=> (h = h1 /\ c = fd) \/ (h = h2 /\ d = fd))
    BY <1>2
  <2>2. \A h \in U : h[1] # p => (h \in H <=> h \in S) /\ (h \in Hn <=> h \in S)
    BY <1>3
  <2>3. /\ h1 \in U /\ h2 \in U /\ H \subseteq U /\ Hn \subseteq U /\ S \subseteq U
        /\ h1[1] = p /\ h2[1] = p /\ \A h \in S : h[1] # p
    BY <1>4
  <2> HIDE DEF h1, h2, H, Hn, U
  <2>4. \A h : h \in H <=> h \in S \/ (h = h1 /\ a = fd) \/ (h = h2 /\ b = fd)
    BY <2>1, <2>2, <2>3
  <2>5. \A h : h \in Hn <=> h \in S \/ (h = h1 /\ c = fd) \/ (h = h2 /\ d = fd)
    BY <2>1, <2>2, <2>3
  <2>6. /\ H = S \cup (IF a = fd THEN {h1} ELSE {}) \cup (IF b = fd THEN {h2} ELSE {})
        /\ Hn = S \cup (IF c = fd THEN {h1} ELSE {}) \cup (IF d = fd THEN {h2} ELSE {})
    BY <2>4, <2>5
  <2> QED BY <2>6 DEF h1, h2, H, Hn
<1>6. <<p, 1>> \notin S /\ <<p, 2>> \notin S
  BY <1>4
<1> QED BY <1>5, <1>6

\* ... and what this does to the number of holders of a descriptor.
LEMMA HoldersCounted ==
  ASSUME NEW p \in Procs, NEW a, NEW b, NEW c, NEW d, Retabled(p, a, b, c, d), NEW fd \in Fds
  PROVE  /\ a # fd /\ b # fd /\ c = fd /\ d # fd =>
              Cardinality(Holders(fd)') = Cardinality(Holders(fd)) + 1
         /\ a # fd /\ b # fd /\ c # fd /\ d = fd =>
              Cardinality(Holders(fd)') = Cardinality(Holders(fd)) + 1
         /\ a = fd /\ b # fd /\ c # fd /\ d # fd =>
              Cardinality(Holders(fd)') = Cardinality(Holders(fd)) - 1
         /\ a # fd /\ b = fd /\ c # fd /\ d # fd =>
              Cardinality(Holders(fd)') = Cardinality(Holders(fd)) - 1
         /\ (a = fd <=> c = fd) /\ (b = fd <=> d = fd) => Holders(fd)' = Holders(fd)
         /\ a = fd => Cardinality(Holders(fd)) > 0
         /\ b = fd => Cardinality(Holders(fd)) > 0
<1>1. PICK S : /\ <<p, 1>> \notin S /\ <<p, 2>> \notin S
               /\ Holders(fd) = S \cup (IF a = fd THEN {<<p, 1>>} ELSE {})
                                  \cup (IF b = fd THEN {<<p, 2>>} ELSE {})
               /\ Holders(fd)' = S \cup (IF c = fd THEN {<<p, 1>>} ELSE {})
                                   \cup (IF d = fd THEN {<<p, 2>>} ELSE {})
  BY HoldersAre
<1> DEFINE h1 == <<p, 1>>
           h2 == <<p, 2>>
           H  == Holders(fd)
           Hn == Holders(fd)'
<1>2. /\ h1 \notin S /\ h2 \notin S
      /\ H = S \cup (IF a = fd THEN {h1} ELSE {}) \cup (IF b = fd THEN {h2} ELSE {})
      /\ Hn = S \cup (IF c = fd THEN {h1} ELSE {}) \cup (IF d = fd THEN {h2} ELSE {})
  BY <1>1
<1>3. /\ IsFiniteSet(H) /\ Cardinality(H) \in Nat /\ IsFiniteSet(Hn) /\ Cardinality(Hn) \in Nat
  BY HoldersFinite
<1> HIDE DEF h1, h2, H, Hn
<1>4. IsFiniteSet(S)
  BY <1>2, <1>3, FS_Subset
<1>5. /\ Cardinality(S \cup {h1}) = Cardinality(S) + 1
      /\ Cardinality(S \cup {h2}) = Cardinality(S) + 1 /\ Cardinality(S) \in Nat
  BY <1>2, <1>4, FS_AddElement, FS_CardinalityType
<1>6. \A h \in H : Cardinality(H) > 0
  <2>1. H # {} => Cardinality(H) # 0
    BY <1>3, FS_EmptySet
  <2> QED BY <2>1, <1>3
<1>7. a = fd /\ b # fd => H = S \cup {h1}
  BY <1>2
<1>8. a # fd /\ b = fd => H = S \cup {h2}
  BY <1>2
<1>9. c = fd /\ d # fd => Hn = S \cup {h1}
  BY <1>2
<1>10. c # fd /\ d = fd => Hn = S \cup {h2}
  BY <1>2
<1>11. (a # fd /\ b # fd => H = S) /\ (c # fd /\ d # fd => Hn = S)
  BY <1>2
<1>12. (a = fd => h1 \in H) /\ (b = fd => h2 \in H)
  BY <1>2
<1>13. (a = fd <=> c = fd) /\ (b = fd <=> d = fd) => Hn = H
  BY <1>2
<1>14. /\ a # fd /\ b # fd /\ c = fd /\ d # fd => Cardinality(Hn) = Cardinality(H) + 1
       /\ a # fd /\ b # fd /\ c # fd /\ d = fd => Cardinality(Hn) = Cardinality(H) + 1
  BY <1>5, <1>9, <1>10, <1>11
<1>15. Cardinality(S) + 1 - 1 = Cardinality(S)
  BY <1>5
<1>17. /\ a = fd /\ b # fd /\ c # fd /\ d # fd => Cardinality(Hn) = Cardinality(H) - 1
       /\ a # fd /\ b = fd /\ c # fd /\ d # fd => Cardinality(Hn) = Cardinality(H) - 1
  <2>1. ASSUME a = fd, b # fd, c # fd, d # fd PROVE Cardinality(Hn) = Cardinality(H) - 1
    <3>1. H = S \cup {h1} /\ Hn = S
      BY <2>1, <1>7, <1>11
    <3> QED BY <3>1, <1>5, <1>15
  <2>2. ASSUME a # fd, b = fd, c # fd, d # fd PROVE Cardinality(Hn) = Cardinality(H) - 1
    <3>1. H = S \cup {h2} /\ Hn = S
      BY <2>2, <1>8, <1>11
    <3> QED BY <3>1, <1>5, <1>15
  <2> QED BY <2>1, <2>2
<1>16. (a = fd => Cardinality(H) > 0) /\ (b = fd => Cardinality(H) > 0)
  BY <1>6, <1>12
<1> QED BY <1>13, <1>14, <1>16, <1>17 DEF H, Hn

\* What the processes share: the pipes, the descriptors, and who has them.
Shared == PipesTyped /\ Paired /\ TablesOK /\ CountsOK

\* The counts of a pipe are as they were, or the pipe is still not there.
SameCounts(pipe, new) ==
    \/ pipe = NULL /\ new = NULL
    \/ /\ pipe # NULL /\ new # NULL
       /\ new.read_open = pipe.read_open /\ new.write_open = pipe.write_open

LEMMA SharedKept ==
  ASSUME Shared, PipesTyped', fd_table' = fd_table, killed' = killed,
         \A p \in Procs : proc'[p].fd_table = proc[p].fd_table,
         \A s \in Slots : SameCounts(pipes[s], pipes'[s])
  PROVE  Shared'
<1>1. Opened' = Opened
  BY DEF Opened, SameCounts
<1>2. Paired'
  BY <1>1 DEF Shared, Paired
<1>3. TablesOK'
  BY DEF Shared, TablesOK
<1>4. \A fd : Holders(fd)' = Holders(fd)
  BY DEF Holders
<1>5. ASSUME NEW f \in ReadEnds, fd_table[f].in_use
      PROVE  /\ pipes'[fd_table[f].pipe].read_open = pipes[fd_table[f].pipe].read_open
             /\ pipes'[fd_table[f].pipe].write_open = pipes[fd_table[f].pipe].write_open
  <2>1. fd_table[f].pipe \in Slots /\ pipes[fd_table[f].pipe] # NULL
    BY <1>5 DEF Shared, Paired, Opened
  <2> QED BY <2>1 DEF SameCounts
<1>6. CountsOK'
  BY <1>4, <1>5 DEF Shared, CountsOK
<1> QED BY <1>2, <1>3, <1>6 DEF Shared

-----------------------------------------------------------------------------
(* Closing.                                                                *)

Has(g, table) == table \in {Tab(g, g + 1), Tab(-1, g + 1)}

\* The facts on a descriptor pair in use and its pipe.
LEMMA PipeOf ==
  ASSUME Shared, NEW f \in ReadEnds, fd_table[f].in_use,
         NEW s, s = fd_table[f].pipe, NEW q, q = pipes[s]
  PROVE  /\ s \in Slots /\ q \in PipeRecord /\ q # NULL
         /\ fd_table[f].type = "FD_READ" /\ fd_table[f + 1].type = "FD_WRITE"
         /\ fd_table[f + 1].in_use /\ fd_table[f + 1].pipe = s
         /\ q.read_open >= Cardinality(Holders(f)) /\ q.write_open >= Cardinality(Holders(f + 1))
         /\ q.read_open + q.write_open > 0
         /\ ~killed => q.read_open = Cardinality(Holders(f)) /\ q.write_open = Cardinality(Holders(f + 1))
<1>1. s \in Slots /\ q # NULL
  BY DEF Shared, Paired, Opened
<1>2. q \in PipeRecord
  BY <1>1 DEF Shared, PipesTyped
<1> QED BY <1>1, <1>2 DEF Shared, Paired, CountsOK

\* The first close of a process leaves the pipe open: it has the write end still.
LEMMA ClosesRead ==
  ASSUME Shared, NEW p \in Procs, NEW f \in ReadEnds, fd_table[f].in_use,
         Retabled(p, f, f + 1, -1, f + 1), pipe_close(f), killed' = killed
  PROVE  Shared' /\ fd_table' = fd_table
<1> DEFINE s == fd_table[f].pipe
           q == pipes[s]
           left == Counted(q, f, -1)
<1>1. /\ s \in Slots /\ q \in PipeRecord /\ q # NULL /\ fd_table[f].type = "FD_READ"
      /\ q.read_open >= Cardinality(Holders(f)) /\ q.write_open >= Cardinality(Holders(f + 1))
      /\ q.read_open + q.write_open > 0
      /\ ~killed => q.read_open = Cardinality(Holders(f)) /\ q.write_open = Cardinality(Holders(f + 1))
  BY PipeOf
<1>2. f \in Fds /\ f + 1 \in Fds /\ f # f + 1 /\ f # -1 /\ f + 1 # -1
  BY TwoEnds
<1>3. /\ Cardinality(Holders(f)') = Cardinality(Holders(f)) - 1
      /\ Holders(f + 1)' = Holders(f + 1)
      /\ Cardinality(Holders(f)) > 0 /\ Cardinality(Holders(f + 1)) > 0
  BY <1>2, HoldersCounted
<1>4. Cardinality(Holders(f)) \in Nat /\ Cardinality(Holders(f + 1)) \in Nat
  BY HoldersFinite
<1>5. left = [q EXCEPT !.read_open = @ + (-1)]
  BY <1>1 DEF Counted
<1>6. /\ left \in PipeRecord /\ left.unread = q.unread
      /\ left.read_open = q.read_open - 1 /\ left.write_open = q.write_open
  <2>1. q.read_open - 1 \in Nat
    BY <1>1, <1>3, <1>4 DEF PipeRecord
  <2>2. left = [q EXCEPT !.read_open = q.read_open - 1]
    <3> HIDE DEF s
    <3> QED BY <1>1, <1>5 DEF PipeRecord
  <2> HIDE DEF q, left
  <2> QED BY <1>1, <2>1, <2>2 DEF PipeRecord
<1>7. pipe_close(f) => pipes' = [pipes EXCEPT ![s] = left] /\ fd_table' = fd_table
  <2>1. ~Last(left)
    BY <1>1, <1>3, <1>4, <1>6 DEF Last
  <2> QED BY <2>1 DEF pipe_close
<1>8. left # NULL
  BY <1>6, PipeAssumption DEF PipeRecord
<1> HIDE DEF left
<1>9. /\ PipesTyped' /\ Opened' = Opened /\ pipes'[s] = left
      /\ \A t \in Slots \ {s} : pipes'[t] = pipes[t]
  BY <1>1, <1>6, <1>7, <1>8 DEF PipesTyped, Opened, Shared
<1>10. Paired'
  BY <1>7, <1>9 DEF Shared, Paired
<1>11. TablesOK'
  <2> SUFFICES ASSUME NEW r \in Procs
               PROVE  \/ proc'[r].fd_table = Tab(-1, -1)
                      \/ \E g \in ReadEnds : /\ fd_table[g].in_use
                                             /\ proc'[r].fd_table \in {Tab(g, g + 1), Tab(-1, g + 1)}
    BY <1>7 DEF TablesOK
  <2>1. CASE r = p
    BY <2>1 DEF Retabled
  <2>2. CASE r # p
    BY <2>2 DEF Retabled, Shared, TablesOK
  <2> QED BY <2>1, <2>2
<1>12. ASSUME NEW g \in ReadEnds, fd_table[g].in_use
       PROVE  LET pipe == pipes'[fd_table[g].pipe]
              IN  /\ pipe.read_open >= Cardinality(Holders(g)')
                  /\ pipe.write_open >= Cardinality(Holders(g + 1)')
                  /\ pipe.read_open + pipe.write_open > 0
                  /\ ~killed => /\ pipe.read_open = Cardinality(Holders(g)')
                                /\ pipe.write_open = Cardinality(Holders(g + 1)')
  <2>1. CASE g = f
    <3>1. q.read_open \in Nat /\ q.write_open \in Nat
      BY <1>1 DEF PipeRecord
    <3> QED BY <2>1, <3>1, <1>1, <1>3, <1>4, <1>6, <1>9
  <2>2. CASE g # f
    <3>1. /\ g \in Fds /\ g + 1 \in Fds /\ g # f + 1 /\ g + 1 # f /\ g + 1 # f + 1 /\ g # -1 /\ g + 1 # -1
      BY <2>2, TwoEnds
    <3>2. Holders(g)' = Holders(g) /\ Holders(g + 1)' = Holders(g + 1)
      BY <2>2, <3>1, HoldersCounted
    <3>3. fd_table[g].pipe \in Slots \ {s}
      BY <2>2, <1>12 DEF Shared, Paired, Opened
    <3>4. pipes'[fd_table[g].pipe] = pipes[fd_table[g].pipe]
      BY <3>3, <1>9
    <3> QED BY <3>2, <3>4, <1>12 DEF Shared, CountsOK
  <2> QED BY <2>1, <2>2
<1>13. CountsOK'
  BY <1>7, <1>12 DEF CountsOK
<1> QED BY <1>7, <1>9, <1>10, <1>11, <1>13 DEF Shared

\* The second close may be the last one: then nobody has an end of the pipe, and both
\* descriptors are free.
LEMMA ClosesWrite ==
  ASSUME Shared, NEW p \in Procs, NEW f \in ReadEnds, fd_table[f].in_use,
         Retabled(p, -1, f + 1, -1, -1), pipe_close(f + 1), killed' = killed
  PROVE  /\ Shared'
         /\ \A g \in ReadEnds :
              fd_table[g].in_use /\ (\E r \in Procs : Has(g, proc'[r].fd_table))
                => fd_table'[g] = fd_table[g]
<1> DEFINE s == fd_table[f].pipe
           q == pipes[s]
           left == Counted(q, f + 1, -1)
<1>1. /\ s \in Slots /\ q \in PipeRecord /\ q # NULL
      /\ fd_table[f + 1].type = "FD_WRITE" /\ fd_table[f + 1].pipe = s
      /\ q.read_open >= Cardinality(Holders(f)) /\ q.write_open >= Cardinality(Holders(f + 1))
      /\ q.read_open + q.write_open > 0
      /\ ~killed => q.read_open = Cardinality(Holders(f)) /\ q.write_open = Cardinality(Holders(f + 1))
  BY PipeOf
<1>2. f \in Fds /\ f + 1 \in Fds /\ f # f + 1 /\ f # -1 /\ f + 1 # -1 /\ (f + 1) - 1 = f
  BY TwoEnds
<1>3. /\ Cardinality(Holders(f + 1)') = Cardinality(Holders(f + 1)) - 1
      /\ Holders(f)' = Holders(f)
      /\ Cardinality(Holders(f + 1)) > 0
  BY <1>2, HoldersCounted
<1>4. /\ Cardinality(Holders(f)) \in Nat /\ Cardinality(Holders(f + 1)) \in Nat
      /\ Cardinality(Holders(f + 1)') \in Nat
  BY HoldersFinite
<1>5. left = [q EXCEPT !.write_open = @ + (-1)]
  BY <1>1 DEF Counted
<1>6. /\ left \in PipeRecord
      /\ left.read_open = q.read_open /\ left.write_open = q.write_open - 1
  <2>1. q.write_open - 1 \in Nat
    BY <1>1, <1>3, <1>4 DEF PipeRecord
  <2>2. left = [q EXCEPT !.write_open = q.write_open - 1]
    <3> HIDE DEF s
    <3> QED BY <1>1, <1>5 DEF PipeRecord
  <2> HIDE DEF q, left
  <2> QED BY <1>1, <2>1, <2>2 DEF PipeRecord
<1>7. left # NULL
  BY <1>6, PipeAssumption DEF PipeRecord
<1>n. q.read_open \in Nat /\ q.write_open \in Nat
  BY <1>1 DEF PipeRecord
<1>8. IF Last(left)
      THEN /\ pipes' = [pipes EXCEPT ![s] = NULL]
           /\ fd_table' = [g \in Fds |-> IF g \in {f + 1, f} THEN Unused ELSE fd_table[g]]
      ELSE /\ pipes' = [pipes EXCEPT ![s] = left] /\ fd_table' = fd_table
  BY <1>1, <1>2 DEF pipe_close
\* The other pairs.
<1>9. ASSUME NEW g \in ReadEnds, g # f
      PROVE  /\ g \in Fds /\ g + 1 \in Fds /\ fd_table'[g] = fd_table[g] /\ fd_table'[g + 1] = fd_table[g + 1]
             /\ fd_table[g].in_use => fd_table[g].pipe \in Slots \ {s}
             /\ Holders(g)' = Holders(g) /\ Holders(g + 1)' = Holders(g + 1)
  <2>1. /\ g \in Fds /\ g + 1 \in Fds /\ g # f + 1 /\ g + 1 # f /\ g + 1 # f + 1 /\ g # -1 /\ g + 1 # -1
    BY <1>9, TwoEnds
  <2>2. Holders(g)' = Holders(g) /\ Holders(g + 1)' = Holders(g + 1)
    BY <1>9, <2>1, HoldersCounted
  <2>3. fd_table'[g] = fd_table[g] /\ fd_table'[g + 1] = fd_table[g + 1]
    BY <1>8, <1>9, <2>1
  <2>4. fd_table[g].in_use => fd_table[g].pipe \in Slots \ {s}
    BY <1>9 DEF Shared, Paired, Opened
  <2> QED BY <2>1, <2>2, <2>3, <2>4
<1> HIDE DEF left
<1>10. /\ PipesTyped' /\ \A t \in Slots \ {s} : pipes'[t] = pipes[t]
       /\ Opened \ {s} \subseteq Opened'
  BY <1>1, <1>6, <1>8 DEF PipesTyped, Opened, Shared
<1>11. CASE Last(left)
  <2>1. Holders(f)' = {} /\ Holders(f + 1)' = {}
    <3>1. q.read_open = 0 /\ q.write_open = 1
      BY <1>11, <1>6, <1>n DEF Last
    <3>2. Cardinality(Holders(f)') = 0 /\ Cardinality(Holders(f + 1)') = 0
      BY <3>1, <1>1, <1>3, <1>4
    <3> QED BY <3>2, HoldersFinite, FS_EmptySet
  <2>2. \A r \in Procs : ~Has(f, proc'[r].fd_table)
    <3> SUFFICES ASSUME NEW r \in Procs, Has(f, proc'[r].fd_table) PROVE FALSE
      OBVIOUS
    <3>1. proc'[r].fd_table[2] = f + 1 /\ 2 \in Places
      BY TabIs DEF Has
    <3>2. <<r, 2>> \in Holders(f + 1)'
      BY <3>1 DEF Holders
    <3> QED BY <3>2, <2>1
  <2>3. /\ fd_table' = [g \in Fds |-> IF g \in {f + 1, f} THEN Unused ELSE fd_table[g]]
        /\ fd_table'[f] = Unused /\ fd_table'[f + 1] = Unused
    BY <1>8, <1>11, <1>2
  <2>4. fd_table' \in [Fds -> Descriptor]
    BY <2>3 DEF Shared, Paired, Descriptor, Unused
  <2>5. Paired'
    <3>1. ASSUME NEW g \in ReadEnds
          PROVE  \/ ~fd_table'[g].in_use /\ ~fd_table'[g + 1].in_use
                 \/ /\ fd_table'[g].in_use /\ fd_table'[g].type = "FD_READ"
                    /\ fd_table'[g + 1].in_use /\ fd_table'[g + 1].type = "FD_WRITE"
                    /\ fd_table'[g].pipe \in Opened' /\ fd_table'[g + 1].pipe = fd_table'[g].pipe
      <4>1. CASE g = f
        BY <4>1, <2>3 DEF Unused
      <4>2. CASE g # f
        BY <4>2, <1>9, <1>10 DEF Shared, Paired
      <4> QED BY <4>1, <4>2
    <3>2. \A g \in ReadEnds : fd_table'[g].in_use => g # f
      BY <2>3 DEF Unused
    <3>3. \A g, h \in ReadEnds : fd_table'[g].in_use /\ fd_table'[h].in_use /\ g # h
                                   => fd_table'[g].pipe # fd_table'[h].pipe
      BY <3>2, <1>9 DEF Shared, Paired
    <3> QED BY <2>4, <3>1, <3>3 DEF Paired
  <2>6. TablesOK'
    <3> SUFFICES ASSUME NEW r \in Procs
                 PROVE  \/ proc'[r].fd_table = Tab(-1, -1)
                        \/ \E g \in ReadEnds : /\ fd_table'[g].in_use
                                               /\ proc'[r].fd_table \in {Tab(g, g + 1), Tab(-1, g + 1)}
      BY DEF TablesOK
    <3>1. CASE r = p
      BY <3>1 DEF Retabled
    <3>2. CASE r # p
      <4>1. \/ proc'[r].fd_table = Tab(-1, -1)
            \/ \E g \in ReadEnds : /\ fd_table[g].in_use /\ Has(g, proc'[r].fd_table)
        BY <3>2 DEF Retabled, Shared, TablesOK, Has
      <4> QED BY <4>1, <2>2, <1>9 DEF Has
    <3> QED BY <3>1, <3>2
  <2>7. CountsOK'
    <3>1. ASSUME NEW g \in ReadEnds, fd_table'[g].in_use
          PROVE  /\ g # f /\ fd_table'[g] = fd_table[g]
                 /\ pipes'[fd_table[g].pipe] = pipes[fd_table[g].pipe]
                 /\ Holders(g)' = Holders(g) /\ Holders(g + 1)' = Holders(g + 1)
      <4>1. g # f
        BY <3>1, <2>3 DEF Unused
      <4> QED BY <4>1, <3>1, <1>9, <1>10
    <3> QED BY <3>1 DEF Shared, CountsOK
  <2> QED BY <2>2, <2>5, <2>6, <2>7, <1>9, <1>10 DEF Shared
<1>12. CASE ~Last(left)
  <2>1. fd_table' = fd_table /\ pipes'[s] = left /\ Opened' = Opened
    BY <1>1, <1>7, <1>8, <1>12 DEF Opened, Shared, PipesTyped
  <2>2. Paired'
    BY <2>1 DEF Shared, Paired
  <2>3. TablesOK'
    <3> SUFFICES ASSUME NEW r \in Procs
                 PROVE  \/ proc'[r].fd_table = Tab(-1, -1)
                        \/ \E g \in ReadEnds : /\ fd_table[g].in_use
                                               /\ proc'[r].fd_table \in {Tab(g, g + 1), Tab(-1, g + 1)}
      BY <2>1 DEF TablesOK
    <3>1. CASE r = p
      BY <3>1 DEF Retabled
    <3>2. CASE r # p
      BY <3>2 DEF Retabled, Shared, TablesOK
    <3> QED BY <3>1, <3>2
  <2>4. ASSUME NEW g \in ReadEnds, fd_table[g].in_use
        PROVE  LET pipe == pipes'[fd_table[g].pipe]
               IN  /\ pipe.read_open >= Cardinality(Holders(g)')
                   /\ pipe.write_open >= Cardinality(Holders(g + 1)')
                   /\ pipe.read_open + pipe.write_open > 0
                   /\ ~killed => /\ pipe.read_open = Cardinality(Holders(g)')
                                 /\ pipe.write_open = Cardinality(Holders(g + 1)')
    <3>1. CASE g = f
      <4>1. left.read_open + left.write_open > 0
        BY <1>12, <1>6, <1>n, <1>1, <1>3, <1>4 DEF Last
      <4> QED BY <3>1, <4>1, <1>1, <1>3, <1>4, <1>6, <1>n, <2>1
    <3>2. CASE g # f
      <4>1. pipes'[fd_table[g].pipe] = pipes[fd_table[g].pipe]
        BY <3>2, <2>4, <1>9, <1>10
      <4> QED BY <3>2, <4>1, <1>9, <2>4 DEF Shared, CountsOK
    <3> QED BY <3>1, <3>2
  <2>5. CountsOK'
    BY <2>1, <2>4 DEF CountsOK
  <2> QED BY <2>1, <2>2, <2>3, <2>5, <1>10 DEF Shared
<1> QED BY <1>11, <1>12

-----------------------------------------------------------------------------
(* Opening and inheriting.                                                 *)

LEMMA MinIs ==
  ASSUME NEW S \in SUBSET Nat, NEW m \in S, \A x \in S : m <= x
  PROVE  Min(S) = m
<1>1. Min(S) \in S /\ \A x \in S : Min(S) <= x
  BY MinProperties
<1>2. Min(S) <= m /\ m <= Min(S) /\ Min(S) \in Nat /\ m \in Nat
  BY <1>1
<1> QED BY <1>2

\* create_pipe puts both ends in the empty table of the shell.
LEMMA Opens ==
  ASSUME Shared, ProcsShaped(proc), proc[SHELL].fd_table = Tab(-1, -1),
         FreeSlots # {}, FreePairs # {}, create_pipe, killed' = killed,
         NEW r, r = Min(FreePairs)
  PROVE  /\ Shared' /\ r \in ReadEnds /\ new_pipe'.r = r /\ new_pipe'.w = r + 1
         /\ proc'[SHELL].fd_table = Tab(r, r + 1) /\ proc'[SHELL].pc = "left"
         /\ \A p \in Kids : proc'[p] = proc[p]
<1> DEFINE s == Min(FreeSlots)
           new == [unread |-> 0, read_open |-> 1, write_open |-> 1]
<1>1. r \in ReadEnds /\ ~fd_table[r].in_use /\ ~fd_table[r + 1].in_use
  <2>1. FreePairs \in SUBSET Nat /\ FreePairs \subseteq ReadEnds
    BY TwoEnds DEF FreePairs, ReadEnds
  <2>2. r \in FreePairs
    BY <2>1, MinProperties
  <2> QED BY <2>1, <2>2 DEF FreePairs
<1>2. s \in Slots /\ s \notin Opened
  <2>1. FreeSlots \in SUBSET Nat /\ FreeSlots \subseteq Slots
    BY PipeAssumption DEF FreeSlots, Slots
  <2>2. s \in FreeSlots
    BY <2>1, MinProperties
  <2> QED BY <2>2 DEF FreeSlots
<1>3. Min(Empty(proc[SHELL].fd_table)) = 1 /\ Min(Empty(proc[SHELL].fd_table) \ {1}) = 2
  <2>1. /\ Places \in SUBSET Nat /\ Places \ {1} \in SUBSET Nat /\ 1 \in Places /\ 2 \in Places \ {1}
        /\ \A i \in Places : 1 <= i
        /\ \A i \in Places \ {1} : 2 <= i
    BY TabIs
  <2>2. Empty(proc[SHELL].fd_table) = Places
    BY DEF Empty, Tab
  <2> QED BY <2>1, <2>2, MinIs
<1>4. /\ r \in Fds /\ r + 1 \in Fds /\ r # r + 1 /\ r # -1 /\ r + 1 # -1
  BY <1>1, TwoEnds
<1>5. [[Tab(-1, -1) EXCEPT ![1] = r] EXCEPT ![2] = r + 1] = Tab(r, r + 1)
  BY TabIs DEF Tab
<1>6. SHELL \in Procs /\ SHELL \notin Kids
  BY KidsAreProcs
<1>7. PICK t : /\ t = Tab(r, r + 1)
               /\ proc' = [proc EXCEPT ![SHELL].pc = "left", ![SHELL].fd_table = t]
  BY <1>3, <1>5 DEF create_pipe
<1>8. /\ proc'[SHELL].fd_table = t /\ proc'[SHELL].pc = "left"
      /\ \A p \in Procs \ {SHELL} : proc'[p] = proc[p]
  BY <1>6, <1>7 DEF ProcsShaped, Fields
<1>9. new_pipe'.r = r /\ new_pipe'.w = r + 1
  BY DEF create_pipe
<1>10. Retabled(SHELL, -1, -1, r, r + 1)
  BY <1>7, <1>8 DEF Retabled
<1>11. /\ pipes' = [pipes EXCEPT ![s] = new]
       /\ fd_table' = [fd_table EXCEPT ![r]     = [pipe |-> s, type |-> "FD_READ", in_use |-> TRUE],
                                       ![r + 1] = [pipe |-> s, type |-> "FD_WRITE", in_use |-> TRUE]]
  BY DEF create_pipe
<1>12. new \in PipeRecord /\ new # NULL
  BY PipeAssumption DEF PipeRecord
<1> HIDE DEF new, s
<1>13. /\ PipesTyped' /\ pipes'[s] = new /\ Opened' = Opened \cup {s}
       /\ \A t2 \in Slots \ {s} : pipes'[t2] = pipes[t2]
  BY <1>2, <1>11, <1>12 DEF PipesTyped, Opened, Shared
<1>14. /\ fd_table' \in [Fds -> Descriptor]
       /\ fd_table'[r] = [pipe |-> s, type |-> "FD_READ", in_use |-> TRUE]
       /\ fd_table'[r + 1] = [pipe |-> s, type |-> "FD_WRITE", in_use |-> TRUE]
       /\ \A fd \in Fds : fd # r /\ fd # r + 1 => fd_table'[fd] = fd_table[fd]
  BY <1>2, <1>4, <1>11 DEF Shared, Paired, Descriptor
<1>15. ASSUME NEW g \in ReadEnds, g # r
       PROVE  /\ g \in Fds /\ g + 1 \in Fds /\ fd_table'[g] = fd_table[g] /\ fd_table'[g + 1] = fd_table[g + 1]
              /\ fd_table[g].in_use => fd_table[g].pipe \in Opened
              /\ Holders(g)' = Holders(g) /\ Holders(g + 1)' = Holders(g + 1)
  <2>1. /\ g \in Fds /\ g + 1 \in Fds /\ g # r + 1 /\ g + 1 # r /\ g + 1 # r + 1 /\ g # -1 /\ g + 1 # -1
    BY <1>15, <1>1, TwoEnds
  <2>2. Holders(g)' = Holders(g) /\ Holders(g + 1)' = Holders(g + 1)
    BY <1>15, <1>6, <1>10, <2>1, HoldersCounted
  <2>3. fd_table[g].in_use => fd_table[g].pipe \in Opened
    BY DEF Shared, Paired
  <2> QED BY <2>1, <2>2, <2>3, <1>14, <1>15
<1>16. Cardinality(Holders(r)') = 1 /\ Cardinality(Holders(r + 1)') = 1
  <2>1. \A p \in Procs : \A i \in Places : proc[p].fd_table[i] # r /\ proc[p].fd_table[i] # r + 1
    <3> SUFFICES ASSUME NEW p \in Procs, NEW i \in Places
                 PROVE  proc[p].fd_table[i] # r /\ proc[p].fd_table[i] # r + 1
      OBVIOUS
    <3>1. CASE proc[p].fd_table = Tab(-1, -1)
      BY <3>1, <1>4 DEF Tab
    <3>2. ASSUME NEW f \in ReadEnds, fd_table[f].in_use,
                 proc[p].fd_table \in {Tab(f, f + 1), Tab(-1, f + 1)}
          PROVE  proc[p].fd_table[i] # r /\ proc[p].fd_table[i] # r + 1
      <4>1. f # r /\ f # r + 1 /\ f + 1 # r /\ f + 1 # r + 1
        BY <3>2, <1>1, TwoEnds
      <4> QED BY <3>2, <4>1, <1>4 DEF Tab
    <3> QED BY <3>1, <3>2 DEF Shared, TablesOK
  <2>2. Holders(r) = {} /\ Holders(r + 1) = {}
    BY <2>1 DEF Holders
  <2>3. /\ Cardinality(Holders(r)') = Cardinality(Holders(r)) + 1
        /\ Cardinality(Holders(r + 1)') = Cardinality(Holders(r + 1)) + 1
    BY <1>4, <1>6, <1>10, HoldersCounted
  <2> QED BY <2>2, <2>3, FS_EmptySet
<1>17. Paired'
  <2>1. ASSUME NEW g \in ReadEnds
        PROVE  \/ ~fd_table'[g].in_use /\ ~fd_table'[g + 1].in_use
               \/ /\ fd_table'[g].in_use /\ fd_table'[g].type = "FD_READ"
                  /\ fd_table'[g + 1].in_use /\ fd_table'[g + 1].type = "FD_WRITE"
                  /\ fd_table'[g].pipe \in Opened' /\ fd_table'[g + 1].pipe = fd_table'[g].pipe
    <3>1. CASE g = r
      BY <3>1, <1>13, <1>14
    <3>2. CASE g # r
      BY <3>2, <1>13, <1>15 DEF Shared, Paired
    <3> QED BY <3>1, <3>2
  <2>2. \A g \in ReadEnds : fd_table'[g].in_use /\ g # r =>
            fd_table'[g].pipe = fd_table[g].pipe /\ fd_table[g].in_use /\ fd_table[g].pipe # s
    BY <1>2, <1>15
  <2>3. \A g, h \in ReadEnds : fd_table'[g].in_use /\ fd_table'[h].in_use /\ g # h
                                 => fd_table'[g].pipe # fd_table'[h].pipe
    BY <2>2, <1>14 DEF Shared, Paired
  <2> QED BY <2>1, <2>3, <1>14 DEF Paired
<1>18. TablesOK'
  <2> SUFFICES ASSUME NEW p \in Procs
               PROVE  \/ proc'[p].fd_table = Tab(-1, -1)
                      \/ \E g \in ReadEnds : /\ fd_table'[g].in_use
                                             /\ proc'[p].fd_table \in {Tab(g, g + 1), Tab(-1, g + 1)}
    BY DEF TablesOK
  <2>1. CASE p = SHELL
    <3>1. t = Tab(r, r + 1)
      BY <1>7
    <3>2. proc'[p].fd_table = Tab(r, r + 1) /\ fd_table'[r].in_use
      BY <2>1, <3>1, <1>8, <1>14
    <3> QED BY <3>2, <1>1
  <2>2. CASE p # SHELL
    <3>1. \/ proc'[p].fd_table = Tab(-1, -1)
          \/ \E g \in ReadEnds : /\ fd_table[g].in_use
                                 /\ proc'[p].fd_table \in {Tab(g, g + 1), Tab(-1, g + 1)}
      BY <2>2, <1>8 DEF Shared, TablesOK
    <3>2. \A g \in ReadEnds : fd_table[g].in_use => fd_table'[g].in_use
      BY <1>1, <1>15
    <3> QED BY <3>1, <3>2
  <2> QED BY <2>1, <2>2
<1>19. CountsOK'
  <2>1. ASSUME NEW g \in ReadEnds, fd_table'[g].in_use
        PROVE  LET pipe == pipes'[fd_table'[g].pipe]
               IN  /\ pipe.read_open >= Cardinality(Holders(g)')
                   /\ pipe.write_open >= Cardinality(Holders(g + 1)')
                   /\ pipe.read_open + pipe.write_open > 0
                   /\ ~killed => /\ pipe.read_open = Cardinality(Holders(g)')
                                 /\ pipe.write_open = Cardinality(Holders(g + 1)')
    <3>1. CASE g = r
      BY <3>1, <1>13, <1>14, <1>16 DEF new
    <3>2. CASE g # r
      <4>1. fd_table[g].in_use /\ fd_table'[g] = fd_table[g] /\ fd_table[g].pipe \in Slots \ {s}
        BY <3>2, <2>1, <1>2, <1>15 DEF Opened
      <4>2. pipes'[fd_table'[g].pipe] = pipes[fd_table[g].pipe]
        BY <4>1, <1>13
      <4> QED BY <3>2, <4>1, <4>2, <1>15 DEF Shared, CountsOK
    <3> QED BY <3>1, <3>2
  <2> QED BY <2>1 DEF CountsOK
<1>20. \A p \in Kids : proc'[p] = proc[p]
  BY <1>8, KidsAreProcs
<1> QED BY <1>1, <1>7, <1>8, <1>9, <1>13, <1>17, <1>18, <1>19, <1>20 DEF Shared

HeldOf(fds, s, type) ==
    {i \in Places : fds[i] # -1 /\ fd_table[fds[i]].pipe = s /\ fd_table[fds[i]].type = type}

More(pipe, x, y) == [pipe EXCEPT !.read_open = @ + x, !.write_open = @ + y]

LEMMA MoreIs ==
  ASSUME NEW pipe \in PipeRecord, NEW x \in Nat, NEW y \in Nat
  PROVE  /\ More(pipe, x, y) \in PipeRecord
         /\ More(pipe, x, y).read_open = pipe.read_open + x
         /\ More(pipe, x, y).write_open = pipe.write_open + y
         /\ x = 0 /\ y = 0 => More(pipe, x, y) = pipe
<1>1. PICK a \in Nat, b \in Nat : a = pipe.read_open + x /\ b = pipe.write_open + y
  BY DEF PipeRecord
<1>2. PICK one : one = [pipe EXCEPT !.read_open = a]
  OBVIOUS
<1>3. one \in PipeRecord /\ one.read_open = a /\ one.write_open = pipe.write_open /\ one.unread = pipe.unread
  BY <1>2 DEF PipeRecord
<1>4. PICK both : both = [one EXCEPT !.write_open = b]
  OBVIOUS
<1>5. both \in PipeRecord /\ both.read_open = a /\ both.write_open = b /\ both.unread = pipe.unread
  BY <1>3, <1>4 DEF PipeRecord
<1>6. More(pipe, x, y) = both
  BY <1>1, <1>2, <1>4 DEF More
<1>7. ASSUME x = 0, y = 0 PROVE both = pipe
  <2>1. both.read_open = pipe.read_open /\ both.write_open = pipe.write_open
    BY <1>1, <1>5, <1>7 DEF PipeRecord
  <2>2. \A u, v \in PipeRecord : u.unread = v.unread /\ u.read_open = v.read_open
                                 /\ u.write_open = v.write_open => u = v
    BY DEF PipeRecord
  <2> QED BY <2>1, <2>2, <1>5
<1> QED BY <1>1, <1>5, <1>6, <1>7

\* A child that is created while the shell has a pipe is one holder more of each end.
LEMMA Inherited ==
  ASSUME Shared, NEW p \in Kids, proc[p].fd_table = Tab(-1, -1),
         NEW r \in ReadEnds, fd_table[r].in_use, proc[SHELL].fd_table = Tab(r, r + 1),
         Inherits(Tab(r, r + 1)), fd_table' = fd_table, killed' = killed,
         Retabled(p, -1, -1, r, r + 1)
  PROVE  Shared'
<1> DEFINE s == fd_table[r].pipe
           q == pipes[s]
<1>1. /\ s \in Slots /\ q \in PipeRecord /\ q # NULL
      /\ fd_table[r].type = "FD_READ" /\ fd_table[r + 1].type = "FD_WRITE" /\ fd_table[r + 1].pipe = s
      /\ q.read_open >= Cardinality(Holders(r)) /\ q.write_open >= Cardinality(Holders(r + 1))
      /\ ~killed => q.read_open = Cardinality(Holders(r)) /\ q.write_open = Cardinality(Holders(r + 1))
  BY PipeOf
<1>2. /\ r \in Fds /\ r + 1 \in Fds /\ r # r + 1 /\ r # -1 /\ r + 1 # -1
      /\ p \in Procs
  BY TwoEnds, KidsAreProcs
<1>3. /\ 1 \in Places /\ 2 \in Places
      /\ Tab(r, r + 1)[1] = r /\ Tab(r, r + 1)[2] = r + 1
      /\ \A i \in Places : i # 1 /\ i # 2 => Tab(r, r + 1)[i] = -1
  BY TabIs
<1> HIDE DEF s, q
<1>4. \A t : t # s => /\ HeldOf(Tab(r, r + 1), t, "FD_READ") = {}
                      /\ HeldOf(Tab(r, r + 1), t, "FD_WRITE") = {}
  BY <1>1, <1>3 DEF HeldOf, s
<1>5. /\ HeldOf(Tab(r, r + 1), s, "FD_READ") = {1}
      /\ HeldOf(Tab(r, r + 1), s, "FD_WRITE") = {2}
  <2>1. \A i \in Places : i \in HeldOf(Tab(r, r + 1), s, "FD_READ") <=> i = 1
    BY <1>1, <1>2, <1>3 DEF HeldOf, s
  <2>2. \A i \in Places : i \in HeldOf(Tab(r, r + 1), s, "FD_WRITE") <=> i = 2
    BY <1>1, <1>2, <1>3 DEF HeldOf, s
  <2>3. \A type : HeldOf(Tab(r, r + 1), s, type) \subseteq Places
    BY DEF HeldOf
  <2> QED BY <2>1, <2>2, <2>3, <1>3
<1>6. Cardinality({1}) = 1 /\ Cardinality({2}) = 1 /\ Cardinality({}) = 0
  BY FS_Singleton, FS_EmptySet
<1>7. \A t \in Slots : pipes'[t] =
        IF pipes[t] = NULL THEN NULL
        ELSE More(pipes[t], Cardinality(HeldOf(Tab(r, r + 1), t, "FD_READ")),
                            Cardinality(HeldOf(Tab(r, r + 1), t, "FD_WRITE")))
  BY DEF Inherits, HeldOf, More
<1>8. /\ pipes'[s] \in PipeRecord
      /\ pipes'[s].read_open = q.read_open + 1 /\ pipes'[s].write_open = q.write_open + 1
  <2>1. pipes'[s] = More(q, 1, 1)
    <3>1. pipes'[s] = More(q, Cardinality(HeldOf(Tab(r, r + 1), s, "FD_READ")),
                              Cardinality(HeldOf(Tab(r, r + 1), s, "FD_WRITE")))
      BY <1>1, <1>7 DEF q
    <3> QED BY <3>1, <1>5, <1>6
  <2>2. 1 \in Nat
    OBVIOUS
  <2> QED BY <2>1, <2>2, <1>1, MoreIs
<1>9. \A t \in Slots \ {s} : pipes'[t] = pipes[t]
  <2> SUFFICES ASSUME NEW t \in Slots \ {s} PROVE pipes'[t] = pipes[t]
    OBVIOUS
  <2>1. CASE pipes[t] = NULL
    BY <2>1, <1>7
  <2>2. CASE pipes[t] # NULL
    <3>1. pipes'[t] = More(pipes[t], Cardinality(HeldOf(Tab(r, r + 1), t, "FD_READ")),
                                     Cardinality(HeldOf(Tab(r, r + 1), t, "FD_WRITE")))
      BY <2>2, <1>7
    <3>2. pipes'[t] = More(pipes[t], 0, 0)
      BY <3>1, <1>4, <1>6
    <3>3. pipes[t] \in PipeRecord /\ 0 \in Nat
      BY <2>2 DEF Shared, PipesTyped
    <3> QED BY <3>2, <3>3, MoreIs
  <2> QED BY <2>1, <2>2
<1>10. PipesTyped' /\ Opened' = Opened
  <2>1. pipes' = [t \in Slots |-> pipes'[t]]
    BY DEF Inherits
  <2>2. pipes'[s] # NULL
    BY <1>8, PipeAssumption DEF PipeRecord
  <2> QED BY <2>1, <2>2, <1>1, <1>8, <1>9 DEF Shared, PipesTyped, Opened, q
<1>11. Paired'
  BY <1>10 DEF Shared, Paired
<1>12. TablesOK'
  <2> SUFFICES ASSUME NEW x \in Procs
               PROVE  \/ proc'[x].fd_table = Tab(-1, -1)
                      \/ \E g \in ReadEnds : /\ fd_table[g].in_use
                                             /\ proc'[x].fd_table \in {Tab(g, g + 1), Tab(-1, g + 1)}
    BY DEF TablesOK
  <2>1. CASE x = p
    BY <2>1 DEF Retabled
  <2>2. CASE x # p
    BY <2>2 DEF Retabled, Shared, TablesOK
  <2> QED BY <2>1, <2>2
<1>13. CountsOK'
  <2>1. ASSUME NEW g \in ReadEnds, fd_table[g].in_use
        PROVE  LET pipe == pipes'[fd_table[g].pipe]
               IN  /\ pipe.read_open >= Cardinality(Holders(g)')
                   /\ pipe.write_open >= Cardinality(Holders(g + 1)')
                   /\ pipe.read_open + pipe.write_open > 0
                   /\ ~killed => /\ pipe.read_open = Cardinality(Holders(g)')
                                 /\ pipe.write_open = Cardinality(Holders(g + 1)')
    <3>1. CASE g = r
      <4>1. /\ Cardinality(Holders(r)') = Cardinality(Holders(r)) + 1
            /\ Cardinality(Holders(r + 1)') = Cardinality(Holders(r + 1)) + 1
        BY <1>2, HoldersCounted
      <4>2. Cardinality(Holders(r)) \in Nat /\ Cardinality(Holders(r + 1)) \in Nat
        BY HoldersFinite
      <4>3. q.read_open \in Nat /\ q.write_open \in Nat
        BY <1>1 DEF PipeRecord
      <4> QED BY <3>1, <4>1, <4>2, <4>3, <1>1, <1>8 DEF s
    <3>2. CASE g # r
      <4>1. /\ g \in Fds /\ g + 1 \in Fds /\ g # r + 1 /\ g + 1 # r /\ g + 1 # r + 1 /\ g # -1 /\ g + 1 # -1
        BY <3>2, TwoEnds
      <4>2. Holders(g)' = Holders(g) /\ Holders(g + 1)' = Holders(g + 1)
        BY <3>2, <4>1, <1>2, HoldersCounted
      <4>3. fd_table[g].pipe \in Slots \ {s}
        BY <3>2, <2>1 DEF Shared, Paired, Opened, s
      <4>4. pipes'[fd_table[g].pipe] = pipes[fd_table[g].pipe]
        BY <4>3, <1>9
      <4> QED BY <4>2, <4>4, <2>1 DEF Shared, CountsOK
    <3> QED BY <3>1, <3>2
  <2> QED BY <2>1 DEF CountsOK
<1> QED BY <1>10, <1>11, <1>12, <1>13 DEF Shared

-----------------------------------------------------------------------------
(* What the calls move.                                                    *)

Woken(pr, q) == [pr EXCEPT ![q].pc = IF @ \in DOMAIN Resumes THEN Resumes[@] ELSE @]

\* sem_post adds a token where nobody alive waits, or moves one who waits.
LEMMA PostHow ==
  ASSUME NEW sm, NEW pr, SemsTyped(sm), ProcsShaped(pr), NEW s \in {DATA, FREE},
         NEW r, r = sem_post([sem |-> sm, proc |-> pr], s)
  PROVE  \/ /\ \A i \in DOMAIN sm[s].waiting : ~Alive(sm[s].waiting[i])
            /\ r.proc = pr /\ r.sem[s].value = sm[s].value + 1
            /\ \A t \in {DATA, FREE} \ {s} : r.sem[t].value = sm[t].value
         \/ \E i \in DOMAIN sm[s].waiting :
              /\ sm[s].waiting[i] \in Kids
              /\ r.proc = Woken(pr, sm[s].waiting[i])
              /\ \A t \in {DATA, FREE} : r.sem[t].value = sm[t].value
<1> DEFINE w == sm[s].waiting
           n == Len(w)
           living == {i \in DOMAIN w : Alive(w[i])}
<1>1. w \in Seq(Kids) /\ n \in Nat /\ DOMAIN w = 1..n /\ \A i \in 1..n : w[i] \in Kids
  BY DEF SemsTyped
<1>2. sm[s].value \in Int /\ s \in DOMAIN sm
  BY DEF SemsTyped
<1>3. CASE living = {}
  <2>1. r.proc = pr /\ r.sem = [sm EXCEPT ![s] = [value |-> @.value + 1, waiting |-> <<>>]]
    BY <1>3 DEF sem_post
  <2>2. /\ r.sem[s].value = sm[s].value + 1
        /\ \A t \in {DATA, FREE} \ {s} : r.sem[t] = sm[t]
    <3>1. <<>> \in Seq(Kids) /\ sm[s].value + 1 \in Int
      BY <1>2
    <3>2. r.sem = [sm EXCEPT ![s] = [value |-> sm[s].value + 1, waiting |-> <<>>]]
      BY <2>1 DEF SemsTyped
    <3>3. \A v \in Int, x \in Seq(Kids) :
             r.sem = [sm EXCEPT ![s] = [value |-> v, waiting |-> x]] =>
               r.sem[s].value = v /\ \A t \in {DATA, FREE} \ {s} : r.sem[t] = sm[t]
      BY SemsUpdated
    <3> QED BY <3>1, <3>2, <3>3
  <2> QED BY <2>1, <2>2, <1>3
<1>4. CASE living # {}
  <2> DEFINE first == Min(living)
             rest == SubSeq(w, first + 1, n)
             q == w[first]
  <2>1. first \in living
    <3>1. living \in SUBSET Nat
      BY <1>1
    <3> HIDE DEF living
    <3> QED BY <3>1, <1>4, MinProperties
  <2>2. first \in 1..n /\ q \in Kids
    BY <2>1, <1>1
  <2>3. r = Unblock([[sem |-> sm, proc |-> pr] EXCEPT !.sem[s].waiting = rest], q)
    BY <1>4 DEF sem_post
  <2>4. r.proc = Woken(pr, q) /\ r.sem = [sm EXCEPT ![s].waiting = rest]
    BY <2>3 DEF Unblock, Woken
  <2> HIDE DEF rest
  <2>5. \A t \in {DATA, FREE} : r.sem[t].value = sm[t].value
    <3>1. rest \in Seq(Kids)
      <4>1. first \in 1..n /\ n \in Nat /\ \A i \in 1..n : w[i] \in Kids
        BY <1>1, <2>2
      <4> HIDE DEF living, w, n, first
      <4> QED BY <4>1, RestOf DEF rest
    <3>2. r.sem[s].value = sm[s].value
      BY <2>4, <3>1, <1>2, SemsUpdated
    <3>3. \A t \in {DATA, FREE} \ {s} : r.sem[t] = sm[t]
      BY <2>4, <3>1, <1>2, SemsUpdated
    <3> QED BY <3>2, <3>3
  <2> HIDE DEF first, living
  <2> QED BY <2>2, <2>4, <2>5, <1>1
<1> QED BY <1>3, <1>4

\* Who moves inside a call, and what stays.
Moved(pr, new) ==
    /\ \A q \in Procs : /\ new[q].fd_table = pr[q].fd_table
                        /\ new[q].stdin = pr[q].stdin /\ new[q].stdout = pr[q].stdout
    /\ new[SHELL].pc = pr[SHELL].pc
    /\ \A q \in Kids : \/ new[q].pc = pr[q].pc /\ new[q].pipe = pr[q].pipe
                       \/ /\ pr[q].pc \in Live /\ new[q].pc \in Live
                          /\ new[q].pc \in InCall => new[q].pipe = fd_table[new_pipe.r].pipe

LEMMA PostMoves ==
  ASSUME NEW sm, NEW pr, SemsTyped(sm), ProcsShaped(pr), NEW s \in {DATA, FREE},
         NEW r, r = sem_post([sem |-> sm, proc |-> pr], s),
         \A q \in Kids : pr[q].pc \in InCall => pr[q].pipe = fd_table[new_pipe.r].pipe
  PROVE  Moved(pr, r.proc)
<1>1. CASE r.proc = pr
  <2>1. Moved(pr, pr)
    BY DEF Moved
  <2> QED BY <1>1, <2>1
<1>2. ASSUME NEW q \in Kids, r.proc = Woken(pr, q)
      PROVE  Moved(pr, r.proc)
  <2>1. q \in Procs /\ q # SHELL
    BY KidsAreProcs
  <2>2. /\ \A x \in Procs : /\ r.proc[x].fd_table = pr[x].fd_table
                            /\ r.proc[x].stdin = pr[x].stdin /\ r.proc[x].stdout = pr[x].stdout
                            /\ r.proc[x].pipe = pr[x].pipe
        /\ \A x \in Procs : r.proc[x].pc =
              IF x = q /\ pr[x].pc \in DOMAIN Resumes THEN Resumes[pr[x].pc] ELSE pr[x].pc
    BY <1>2, <2>1 DEF ProcsShaped, Fields, Woken
  <2>3. /\ DOMAIN Resumes = {"put_q", "get_q", "kbd"}
        /\ Resumes["put_q"] = "put" /\ Resumes["get_q"] = "get" /\ Resumes["kbd"] = "run"
    BY DEF Resumes
  <2>4. ASSUME NEW x \in Kids
        PROVE  \/ r.proc[x].pc = pr[x].pc /\ r.proc[x].pipe = pr[x].pipe
               \/ /\ pr[x].pc \in Live /\ r.proc[x].pc \in Live
                  /\ r.proc[x].pc \in InCall => r.proc[x].pipe = fd_table[new_pipe.r].pipe
    <3>1. x \in Procs
      BY KidsAreProcs
    <3>2. CASE x = q /\ pr[x].pc \in DOMAIN Resumes
      BY <3>1, <3>2, <2>2, <2>3 DEF Live, InCall
    <3>3. CASE ~(x = q /\ pr[x].pc \in DOMAIN Resumes)
      BY <3>1, <3>3, <2>2
    <3> QED BY <3>2, <3>3
  <2>5. r.proc[SHELL].pc = pr[SHELL].pc
    BY <2>1, <2>2, KidsAreProcs
  <2> QED BY <2>2, <2>4, <2>5 DEF Moved
<1>3. r.proc = pr \/ \E q \in Kids : r.proc = Woken(pr, q)
  BY PostHow
<1> QED BY <1>1, <1>2, <1>3

\* A call leaves everything linked.
LEMMA LinksKept ==
  ASSUME Linked, Moved(proc, proc'), PipesTyped', fd_table' = fd_table,
         new_pipe' = new_pipe, killed' = killed,
         \A s \in Slots : SameCounts(pipes[s], pipes'[s])
  PROVE  Linked'
<1>1. Shared
  BY DEF Linked, Shared
<1>2. Shared'
  BY <1>1, SharedKept DEF Moved
<1>3. \A p \in Kids : Alive(p)' <=> Alive(p)
  BY DEF Moved, Alive, Live
<1>4. SHELL \in Procs /\ Kids \subseteq Procs
  BY KidsAreProcs
<1>5. ShellOK'
  BY <1>3, <1>4 DEF Linked, ShellOK, Moved
<1>6. ChildrenOK'
  <2> SUFFICES ASSUME NEW p \in Kids
               PROVE  /\ proc'[p].pc \in Live \cup {"none", "exit"}
                      /\ proc'[p].pc = "none" => proc'[p].fd_table = Tab(-1, -1)
                      /\ proc'[p].pc \in Live =>
                           /\ proc'[p].fd_table = Tab(new_pipe.r, new_pipe.w)
                           /\ proc'[p].stdin \in {STDIN, new_pipe.r}
                           /\ proc'[p].stdout \in {STDOUT, new_pipe.w}
                      /\ proc'[p].pc \in InCall => proc'[p].pipe = fd_table[new_pipe.r].pipe
    BY DEF ChildrenOK
  <2>1. /\ proc'[p].fd_table = proc[p].fd_table
        /\ proc'[p].stdin = proc[p].stdin /\ proc'[p].stdout = proc[p].stdout
    BY <1>4 DEF Moved
  <2>2. CASE proc'[p].pc = proc[p].pc /\ proc'[p].pipe = proc[p].pipe
    BY <2>1, <2>2 DEF Linked, ChildrenOK
  <2>3. CASE /\ proc[p].pc \in Live /\ proc'[p].pc \in Live
             /\ proc'[p].pc \in InCall => proc'[p].pipe = fd_table[new_pipe.r].pipe
    BY <2>1, <2>3 DEF Linked, ChildrenOK, Live
  <2> QED BY <2>2, <2>3 DEF Moved
<1> QED BY <1>2, <1>5, <1>6 DEF Linked, Shared

LEMMA MovedTwice ==
  ASSUME NEW one, NEW two, NEW three, Moved(one, two), Moved(two, three)
  PROVE  Moved(one, three)
<1> SUFFICES ASSUME NEW q \in Kids
             PROVE  \/ three[q].pc = one[q].pc /\ three[q].pipe = one[q].pipe
                    \/ /\ one[q].pc \in Live /\ three[q].pc \in Live
                       /\ three[q].pc \in InCall => three[q].pipe = fd_table[new_pipe.r].pipe
  BY DEF Moved
<1>1. \/ two[q].pc = one[q].pc /\ two[q].pipe = one[q].pipe
      \/ /\ one[q].pc \in Live /\ two[q].pc \in Live
         /\ two[q].pc \in InCall => two[q].pipe = fd_table[new_pipe.r].pipe
  BY DEF Moved
<1>2. \/ three[q].pc = two[q].pc /\ three[q].pipe = two[q].pipe
      \/ /\ two[q].pc \in Live /\ three[q].pc \in Live
         /\ three[q].pc \in InCall => three[q].pipe = fd_table[new_pipe.r].pipe
  BY DEF Moved
<1> QED BY <1>1, <1>2

\* A child that runs has the pipe of the last pipeline, which is open.
LEMMA LivePipe ==
  ASSUME Linked, NEW p \in Kids, proc[p].pc \in Live
  PROVE  /\ new_pipe.r \in ReadEnds /\ new_pipe.w = new_pipe.r + 1
         /\ fd_table[new_pipe.r].in_use
         /\ fd_table[new_pipe.r].pipe \in Opened
         /\ fd_table[new_pipe.w].pipe = fd_table[new_pipe.r].pipe
<1>1. proc[SHELL].pc # "prompt"
  BY DEF Linked, ShellOK, Alive, Live
<1>2. new_pipe.r \in ReadEnds /\ new_pipe.w = new_pipe.r + 1 /\ new_pipe.r # -1
  BY <1>1, TwoEnds DEF Linked, ShellOK
<1>3. p \in Procs /\ proc[p].fd_table = Tab(new_pipe.r, new_pipe.w)
  BY KidsAreProcs DEF Linked, ChildrenOK
<1>4. fd_table[new_pipe.r].in_use
  <2>1. proc[p].fd_table # Tab(-1, -1)
    BY <1>2, <1>3, TabSame
  <2>2. PICK f \in ReadEnds : /\ fd_table[f].in_use
                              /\ proc[p].fd_table \in {Tab(f, f + 1), Tab(-1, f + 1)}
    BY <1>3, <2>1 DEF Linked, TablesOK
  <2>3. new_pipe.r = f
    BY <1>2, <1>3, <2>2, TabSame
  <2> QED BY <2>2, <2>3
<1> QED BY <1>2, <1>4 DEF Linked, Paired

\* A byte moves: its pipe's counts stay.
LEMMA ByteMoves ==
  ASSUME PipesTyped, NEW s \in Opened, NEW d \in {1, -1},
         pipes' = [pipes EXCEPT ![s].unread = @ + d]
  PROVE  /\ PipesTyped' /\ \A t \in Slots : SameCounts(pipes[t], pipes'[t])
         /\ pipes'[s].unread = pipes[s].unread + d
         /\ \A t \in Slots \ {s} : pipes'[t] = pipes[t]
<1>1. s \in Slots /\ pipes[s] \in PipeRecord
  BY DEF Opened, PipesTyped
<1>2. PICK u \in Int : u = pipes[s].unread + d
  BY <1>1 DEF PipeRecord
<1>3. PICK new : new = [pipes[s] EXCEPT !.unread = u]
  OBVIOUS
<1>4. /\ new \in PipeRecord /\ new.unread = u
      /\ new.read_open = pipes[s].read_open /\ new.write_open = pipes[s].write_open
  BY <1>1, <1>3 DEF PipeRecord
<1>5. pipes' = [pipes EXCEPT ![s] = new]
  BY <1>2, <1>3
<1>6. new # NULL /\ pipes[s] # NULL
  BY <1>1, <1>4, PipeAssumption DEF PipeRecord
<1>7. PipesTyped' /\ pipes'[s] = new /\ \A t \in Slots \ {s} : pipes'[t] = pipes[t]
  BY <1>1, <1>4, <1>5 DEF PipesTyped
<1>8. \A t \in Slots : SameCounts(pipes[t], pipes'[t])
  BY <1>4, <1>6, <1>7 DEF SameCounts
<1> QED BY <1>2, <1>4, <1>7, <1>8

LEMMA TransferMoves ==
  ASSUME IInv, Linked, NEW p \in Kids, NEW u \in {DATA, FREE}, NEW sm, NEW pr,
         HasToken(p, sm, pr), Become(sem_post([sem |-> sm, proc |-> pr], u))
  PROVE  Moved(proc, proc')
<1>1. p \in Procs /\ p # SHELL
  BY KidsAreProcs
<1>2. /\ ProcsShaped(pr) /\ pr[p].pc = "run"
      /\ \A q \in Procs : /\ pr[q].fd_table = proc[q].fd_table
                          /\ pr[q].stdin = proc[q].stdin /\ pr[q].stdout = proc[q].stdout
      /\ \A q \in Procs \ {p} : pr[q] = proc[q]
  BY <1>1 DEF IInv, ProcsShaped, Fields, HasToken
<1>3. proc[p].pc \in Live
  BY DEF HasToken, Live
<1>4. Moved(proc, pr)
  BY <1>1, <1>2, <1>3, KidsAreProcs DEF Moved, Live, InCall
<1>5. SemsTyped(sm)
  BY TokenTaken DEF IInv, HasToken
<1>6. \A q \in Kids : pr[q].pc \in InCall => pr[q].pipe = fd_table[new_pipe.r].pipe
  BY <1>2, KidsAreProcs DEF Linked, ChildrenOK, InCall
<1>7. PICK r : r = sem_post([sem |-> sm, proc |-> pr], u)
  OBVIOUS
<1>8. Moved(pr, r.proc)
  BY <1>2, <1>5, <1>6, <1>7, PostMoves
<1>9. proc' = r.proc
  BY <1>7 DEF Become
<1> QED BY <1>4, <1>8, <1>9, MovedTwice

LEMMA PutOrGetLinks ==
  ASSUME IInv, Linked, NEW p \in Kids, NEW s \in Opened,
         NEW k, Put(k, p, s) \/ Get(k, p, s),
         \/ k = Now /\ proc[p].pc \in {"put", "get"}
         \/ \E t \in {DATA, FREE} : k = Token(t) /\ sem[t].value > 0 /\ proc[p].pc = "run",
         fd_table' = fd_table, new_pipe' = new_pipe, killed' = killed
  PROVE  Linked'
<1>1. PICK u \in {DATA, FREE} :
         Become(sem_post([k EXCEPT !.proc[p] = [@ EXCEPT !.pc = "run", !.pipe = NULL]], u))
  BY DEF Put, Get
<1>2. PICK sm, pr : HasToken(p, sm, pr) /\ Become(sem_post([sem |-> sm, proc |-> pr], u))
  BY <1>1, CallerPosts
<1>3. Moved(proc, proc')
  BY <1>2, TransferMoves
<1>4. PICK d \in {1, -1} : pipes' = [pipes EXCEPT ![s].unread = @ + d]
  <2>1. CASE pipes' = [pipes EXCEPT ![s].unread = @ + 1]
    BY <2>1
  <2>2. CASE pipes' = [pipes EXCEPT ![s].unread = @ - 1]
    <3>1. pipes[s].unread \in Int
      BY DEF Linked, PipesTyped, Opened, PipeRecord
    <3>2. pipes[s].unread - 1 = pipes[s].unread + (-1)
      BY <3>1
    <3> QED BY <2>2, <3>2
  <2> QED BY <2>1, <2>2 DEF Put, Get
<1>5. PipesTyped' /\ \A t \in Slots : SameCounts(pipes[t], pipes'[t])
  BY <1>4, ByteMoves DEF Linked
<1> QED BY <1>3, <1>5, LinksKept

LEMMA BlocksLinks ==
  ASSUME IInv, Linked, NEW p \in Kids, NEW s, NEW label \in {"put_q", "get_q"},
         proc[p].pc = "run", Blocks(p, s, label, fd_table[new_pipe.r].pipe),
         fd_table' = fd_table, new_pipe' = new_pipe, killed' = killed
  PROVE  Linked'
<1>1. p \in Procs /\ p # SHELL
  BY KidsAreProcs
<1>2. /\ proc'[p].pc = label /\ proc'[p].pipe = fd_table[new_pipe.r].pipe
      /\ \A q \in Procs : /\ proc'[q].fd_table = proc[q].fd_table
                          /\ proc'[q].stdin = proc[q].stdin /\ proc'[q].stdout = proc[q].stdout
      /\ \A q \in Procs \ {p} : proc'[q] = proc[q]
  BY <1>1 DEF IInv, ProcsShaped, Fields, Blocks
<1>3. Moved(proc, proc')
  BY <1>1, <1>2, KidsAreProcs DEF Moved, Live, InCall
<1>4. PipesTyped' /\ \A t \in Slots : SameCounts(pipes[t], pipes'[t])
  BY DEF Blocks, Linked, PipesTyped, SameCounts
<1> QED BY <1>3, <1>4, LinksKept

LEMMA WriteLinks ==
  ASSUME IInv, Linked, NEW p \in Kids, pipe_write(p),
         fd_table' = fd_table, new_pipe' = new_pipe, killed' = killed
  PROVE  Linked'
<1> DEFINE s == fd_table[proc[p].stdout].pipe
           own == fd_table[new_pipe.r].pipe
<1>1. proc[p].pc \in Live => own \in Opened /\ fd_table[new_pipe.w].pipe = own
  BY LivePipe
<1>2. CanWrite(p) => s = own /\ own \in Opened /\ proc[p].pc = "run"
  <2>1. SUFFICES ASSUME CanWrite(p) PROVE s = own /\ own \in Opened /\ proc[p].pc = "run"
    OBVIOUS
  <2>2. proc[p].pc = "run" /\ proc[p].pc \in Live /\ proc[p].stdout # STDOUT
    BY <2>1 DEF CanWrite, Live
  <2>3. proc[p].stdout = new_pipe.w
    BY <2>2 DEF Linked, ChildrenOK
  <2> QED BY <2>2, <2>3, <1>1
<1>3. proc[p].pc = "put" => proc[p].pipe = own /\ own \in Opened
  BY <1>1 DEF Linked, ChildrenOK, InCall, Live
<1> HIDE DEF s, own
<1>4. CASE CanWrite(p) /\ Blocks(p, FREE, "put_q", s)
  BY <1>2, <1>4, BlocksLinks DEF own
<1>5. CASE CanWrite(p) /\ sem[FREE].value > 0 /\ Put(Token(FREE), p, s)
  BY <1>2, <1>5, PutOrGetLinks
<1>6. CASE proc[p].pc = "put" /\ Put(Now, p, proc[p].pipe)
  BY <1>3, <1>6, PutOrGetLinks
<1> QED BY <1>4, <1>5, <1>6 DEF pipe_write, s

LEMMA ReadLinks ==
  ASSUME IInv, Linked, NEW p \in Kids, pipe_read(p),
         fd_table' = fd_table, new_pipe' = new_pipe, killed' = killed
  PROVE  Linked'
<1> DEFINE s == fd_table[proc[p].stdin].pipe
           own == fd_table[new_pipe.r].pipe
<1>1. proc[p].pc \in Live => own \in Opened
  BY LivePipe
<1>2. CanRead(p) => s = own /\ own \in Opened /\ proc[p].pc = "run"
  <2>1. SUFFICES ASSUME CanRead(p) PROVE s = own /\ own \in Opened /\ proc[p].pc = "run"
    OBVIOUS
  <2>2. proc[p].pc = "run" /\ proc[p].pc \in Live /\ proc[p].stdin # STDIN
    BY <2>1 DEF CanRead, Live
  <2>3. proc[p].stdin = new_pipe.r
    BY <2>2 DEF Linked, ChildrenOK
  <2> QED BY <2>2, <2>3, <1>1
<1>3. proc[p].pc = "get" => proc[p].pipe = own /\ own \in Opened
  BY <1>1 DEF Linked, ChildrenOK, InCall, Live
<1> HIDE DEF s, own
<1>4. CASE CanRead(p) /\ Blocks(p, DATA, "get_q", s)
  BY <1>2, <1>4, BlocksLinks DEF own
<1>5. CASE CanRead(p) /\ sem[DATA].value > 0 /\ Get(Token(DATA), p, s)
  BY <1>2, <1>5, PutOrGetLinks
<1>6. CASE proc[p].pc = "get" /\ Get(Now, p, proc[p].pipe)
  BY <1>3, <1>6, PutOrGetLinks
<1> QED BY <1>4, <1>5, <1>6 DEF pipe_read, s

LEMMA KeyboardLinks ==
  ASSUME IInv, Linked, NEW p \in Kids, read_keyboard(p),
         fd_table' = fd_table, new_pipe' = new_pipe, killed' = killed
  PROVE  Linked'
<1>1. p \in Procs /\ p # SHELL
  BY KidsAreProcs
<1>2. /\ \A q \in Procs : /\ proc'[q].fd_table = proc[q].fd_table
                          /\ proc'[q].stdin = proc[q].stdin /\ proc'[q].stdout = proc[q].stdout
      /\ \A q \in Procs \ {p} : proc'[q] = proc[q]
      /\ {proc'[p].pc, proc[p].pc} \subseteq {"run", "kbd"}
  BY <1>1 DEF IInv, ProcsShaped, Fields, read_keyboard
<1>3. Moved(proc, proc')
  BY <1>1, <1>2, KidsAreProcs DEF Moved, Live, InCall
<1>4. PipesTyped' /\ \A t \in Slots : SameCounts(pipes[t], pipes'[t])
  BY DEF read_keyboard, Linked, PipesTyped, SameCounts
<1> QED BY <1>3, <1>4, LinksKept

-----------------------------------------------------------------------------
(* The steps of exits, kills and the shell.                                *)

\* What a step has to show, besides Shared: the shell and the children.
LEMMA StillLive ==
  ASSUME Linked, NEW p \in Kids, proc[p].pc \in Live,
         proc'[p].pc = proc[p].pc, proc'[p].fd_table = proc[p].fd_table,
         proc'[p].stdin = proc[p].stdin, proc'[p].stdout = proc[p].stdout,
         proc'[p].pipe = proc[p].pipe, new_pipe'.r = new_pipe.r, new_pipe'.w = new_pipe.w,
         \A g \in ReadEnds :
            fd_table[g].in_use /\ (\E r \in Procs : Has(g, proc'[r].fd_table))
              => fd_table'[g] = fd_table[g]
  PROVE  /\ proc'[p].fd_table = Tab(new_pipe'.r, new_pipe'.w)
         /\ proc'[p].stdin \in {STDIN, new_pipe'.r} /\ proc'[p].stdout \in {STDOUT, new_pipe'.w}
         /\ proc'[p].pc \in InCall => proc'[p].pipe = fd_table'[new_pipe'.r].pipe
<1>1. new_pipe.r \in ReadEnds /\ new_pipe.w = new_pipe.r + 1 /\ fd_table[new_pipe.r].in_use
  BY LivePipe
<1>2. p \in Procs /\ Has(new_pipe.r, proc'[p].fd_table)
  BY <1>1, KidsAreProcs DEF Has, Linked, ChildrenOK
<1>3. fd_table'[new_pipe.r] = fd_table[new_pipe.r]
  BY <1>1, <1>2
<1> QED BY <1>3 DEF Linked, ChildrenOK

\* A step of an exit.
LEMMA ExitLinks ==
  ASSUME IInv, Linked, NEW p \in Kids, exit_process(p)
  PROVE  Linked'
<1>1. p \in Procs /\ p # SHELL /\ SHELL \in Procs /\ Kids \subseteq Procs
  BY KidsAreProcs
<1>2. Shared /\ killed' = killed /\ new_pipe' = new_pipe
  BY DEF Linked, Shared, exit_process
\* Whatever the step is, Shared is all that there is to show.
<1>3. ASSUME Shared', NEW label \in {"exit", "none"},
             proc[p].pc \notin {"none"}, proc'[p].pc = label,
             label = "none" => proc'[p].fd_table = Tab(-1, -1),
             \A q \in Procs \ {p} : proc'[q] = proc[q],
             \A g \in ReadEnds :
                fd_table[g].in_use /\ (\E r \in Procs : Has(g, proc'[r].fd_table))
                  => fd_table'[g] = fd_table[g]
      PROVE  Linked'
  <2>1. ShellOK'
    BY <1>1, <1>2, <1>3 DEF Linked, ShellOK, Alive
  <2>2. ChildrenOK'
    <3> SUFFICES ASSUME NEW q \in Kids
                 PROVE  /\ proc'[q].pc \in Live \cup {"none", "exit"}
                        /\ proc'[q].pc = "none" => proc'[q].fd_table = Tab(-1, -1)
                        /\ proc'[q].pc \in Live =>
                             /\ proc'[q].fd_table = Tab(new_pipe'.r, new_pipe'.w)
                             /\ proc'[q].stdin \in {STDIN, new_pipe'.r}
                             /\ proc'[q].stdout \in {STDOUT, new_pipe'.w}
                        /\ proc'[q].pc \in InCall => proc'[q].pipe = fd_table'[new_pipe'.r].pipe
      BY DEF ChildrenOK
    <3>1. CASE q = p
      BY <3>1, <1>3 DEF Live, InCall
    <3>2. CASE q # p /\ proc[q].pc \in Live
      <4>1. proc'[q] = proc[q]
        BY <3>2, <1>1, <1>3
      <4>2. /\ proc'[q].fd_table = Tab(new_pipe'.r, new_pipe'.w)
            /\ proc'[q].stdin \in {STDIN, new_pipe'.r} /\ proc'[q].stdout \in {STDOUT, new_pipe'.w}
            /\ proc'[q].pc \in InCall => proc'[q].pipe = fd_table'[new_pipe'.r].pipe
        BY <3>2, <4>1, <1>2, <1>3, StillLive
      <4> QED BY <3>2, <4>1, <4>2 DEF Live
    <3>3. CASE q # p /\ proc[q].pc \notin Live
      BY <3>3, <1>1, <1>3 DEF Linked, ChildrenOK, Live, InCall
    <3> QED BY <3>1, <3>2, <3>3
  <2> QED BY <1>3, <2>1, <2>2 DEF Linked, Shared
<1>4. CASE /\ proc[p].pc = "run" /\ proc' = [proc EXCEPT ![p].pc = "exit"]
           /\ UNCHANGED <<pipes, fd_table>>
  <2>1. /\ proc'[p].pc = "exit" /\ \A q \in Procs \ {p} : proc'[q] = proc[q]
        /\ \A q \in Procs : proc'[q].fd_table = proc[q].fd_table
    BY <1>1, <1>4 DEF IInv, ProcsShaped, Fields
  <2>2. PipesTyped' /\ \A s \in Slots : SameCounts(pipes[s], pipes'[s])
    BY <1>4 DEF Linked, PipesTyped, SameCounts
  <2>3. Shared'
    BY <2>1, <2>2, <1>2, <1>4, SharedKept
  <2> QED BY <2>1, <2>3, <1>3, <1>4
<1> DEFINE table == proc[p].fd_table
           held == Places \ Empty(table)
<1>5. CASE /\ proc[p].pc = "exit" /\ held = {}
           /\ proc' = [proc EXCEPT ![p] = Nobody] /\ UNCHANGED <<pipes, fd_table>>
  <2>1. /\ proc'[p] = Nobody /\ \A q \in Procs \ {p} : proc'[q] = proc[q]
    BY <1>1, <1>5 DEF IInv, ProcsShaped
  <2>2. table = Tab(-1, -1)
    <3>1. \A i \in Places : table[i] = -1
      BY <1>5 DEF Empty
    <3>2. \A f \in ReadEnds : table # Tab(f, f + 1) /\ table # Tab(-1, f + 1)
      BY <3>1, TabIs, TwoEnds
    <3> QED BY <3>2, <1>1, <1>2 DEF Shared, TablesOK
  <2>3. Nobody.fd_table = Tab(-1, -1) /\ Nobody.pc = "none"
    BY TabIs DEF Nobody
  <2>4. \A q \in Procs : proc'[q].fd_table = proc[q].fd_table
    BY <2>1, <2>2, <2>3
  <2>5. PipesTyped' /\ \A s \in Slots : SameCounts(pipes[s], pipes'[s])
    BY <1>5 DEF Linked, PipesTyped, SameCounts
  <2>6. Shared'
    BY <2>4, <2>5, <1>2, <1>5, SharedKept
  <2>7. fd_table' = fd_table /\ proc[p].pc # "none" /\ proc'[p].pc = "none" /\ proc'[p].fd_table = Tab(-1, -1)
    BY <2>1, <2>3, <1>5
  <2> QED BY <2>1, <2>6, <2>7, <1>3
<1>6. CASE /\ proc[p].pc = "exit" /\ held # {}
           /\ pipe_close(table[Min(held)]) /\ proc' = [proc EXCEPT ![p].fd_table[Min(held)] = -1]
  <2>1. PICK i : i = Min(held)
    OBVIOUS
  <2>2. i \in held /\ \A j \in held : i <= j
    <3>1. held \in SUBSET Nat
      BY TabIs
    <3> HIDE DEF held
    <3> QED BY <2>1, <3>1, <1>6, MinProperties
  <2>3. PICK t : /\ t = [table EXCEPT ![i] = -1]
                 /\ proc'[p].fd_table = t /\ proc'[p].pc = "exit"
                 /\ \A q \in Procs \ {p} : proc'[q] = proc[q]
    <3>1. proc' = [proc EXCEPT ![p].fd_table[i] = -1]
      BY <1>6, <2>1
    <3> QED BY <3>1, <1>1, <1>6 DEF IInv, ProcsShaped, Fields
  <2>4. ASSUME NEW f \in ReadEnds, fd_table[f].in_use, table = Tab(f, f + 1) PROVE Linked'
    <3>1. i = 1
      <4>1. 1 \in held
        BY <2>4, TabIs, TwoEnds DEF Empty
      <4> QED BY <4>1, <2>2, TabIs
    <3>2. t = Tab(-1, f + 1) /\ table[i] = f
      BY <3>1, <2>3, <2>4, TabCleared, TabIs
    <3>3. Retabled(p, f, f + 1, -1, f + 1) /\ pipe_close(f)
      BY <3>2, <2>1, <2>3, <2>4, <1>6 DEF Retabled
    <3>4. Shared' /\ fd_table' = fd_table
      BY <3>3, <2>4, <1>1, <1>2, ClosesRead
    <3> QED BY <3>4, <2>3, <1>3, <1>6
  <2>5. ASSUME NEW f \in ReadEnds, fd_table[f].in_use, table = Tab(-1, f + 1) PROVE Linked'
    <3>1. i = 2
      <4>1. 1 \notin held /\ \A j \in held : j = 2
        BY <2>5, TabIs DEF Empty
      <4> QED BY <4>1, <2>2
    <3>2. t = Tab(-1, -1) /\ table[i] = f + 1
      BY <3>1, <2>3, <2>5, TabCleared, TabIs
    <3>3. Retabled(p, -1, f + 1, -1, -1) /\ pipe_close(f + 1)
      BY <3>2, <2>1, <2>3, <2>5, <1>6 DEF Retabled
    <3>4. /\ Shared'
          /\ \A g \in ReadEnds :
               fd_table[g].in_use /\ (\E r \in Procs : Has(g, proc'[r].fd_table))
                 => fd_table'[g] = fd_table[g]
      BY <3>3, <2>5, <1>1, <1>2, ClosesWrite
    <3> QED BY <3>4, <2>3, <1>3, <1>6
  <2>6. table # Tab(-1, -1)
    BY <2>2, TabIs DEF Empty, Tab
  <2> QED BY <2>4, <2>5, <2>6, <1>1, <1>2 DEF Shared, TablesOK
<1> QED BY <1>4, <1>5, <1>6 DEF exit_process

\* A kill closes nothing: the pipes keep their counts, and the holders get fewer.
LEMMA KillLinks ==
  ASSUME IInv, Linked, NEW p \in Kids, Kill(p)
  PROVE  Linked'
<1>1. p \in Procs /\ p # SHELL /\ SHELL \in Procs /\ Kids \subseteq Procs
  BY KidsAreProcs
<1>2. /\ proc'[p] = Nobody /\ \A q \in Procs \ {p} : proc'[q] = proc[q]
      /\ killed' = TRUE /\ UNCHANGED <<pipes, fd_table, new_pipe>>
  BY <1>1 DEF IInv, ProcsShaped, Kill
<1>3. Nobody.fd_table = Tab(-1, -1) /\ Nobody.pc = "none"
  BY TabIs DEF Nobody
<1>4. PipesTyped' /\ Paired'
  BY <1>2 DEF Linked, PipesTyped, Paired, Opened
<1>5. TablesOK'
  BY <1>2, <1>3 DEF Linked, TablesOK
<1>6. ASSUME NEW fd \in Fds PROVE Cardinality(Holders(fd)') <= Cardinality(Holders(fd))
  <2>1. ASSUME NEW h \in Holders(fd)' PROVE h \in Holders(fd)
    <3>1. h \in Procs \X Places /\ proc'[h[1]].fd_table[h[2]] = fd
      BY DEF Holders
    <3>2. h[1] # p
      BY <3>1, <1>2, <1>3, TabIs DEF Tab
    <3> QED BY <3>1, <3>2, <1>2 DEF Holders
  <2> QED BY <2>1, HoldersFinite, FS_Subset
<1>7. CountsOK'
  <2>1. ASSUME NEW f \in ReadEnds, fd_table[f].in_use
        PROVE  LET pipe == pipes[fd_table[f].pipe]
               IN  /\ pipe.read_open >= Cardinality(Holders(f)')
                   /\ pipe.write_open >= Cardinality(Holders(f + 1)')
                   /\ pipe.read_open + pipe.write_open > 0
    <3> DEFINE pipe == pipes[fd_table[f].pipe]
    <3>1. /\ pipe \in PipeRecord /\ pipe.read_open + pipe.write_open > 0
          /\ pipe.read_open >= Cardinality(Holders(f))
          /\ pipe.write_open >= Cardinality(Holders(f + 1))
      BY <2>1, PipeOf DEF Linked, Shared
    <3>2. f \in Fds /\ f + 1 \in Fds
      BY TwoEnds
    <3>3. /\ Cardinality(Holders(f)') <= Cardinality(Holders(f))
          /\ Cardinality(Holders(f + 1)') <= Cardinality(Holders(f + 1))
      BY <3>2, <1>6
    <3>4. pipe.read_open \in Nat /\ pipe.write_open \in Nat
      BY <3>1 DEF PipeRecord
    <3>5. /\ Cardinality(Holders(f)) \in Nat /\ Cardinality(Holders(f)') \in Nat
          /\ Cardinality(Holders(f + 1)) \in Nat /\ Cardinality(Holders(f + 1)') \in Nat
      BY HoldersFinite
    <3> HIDE DEF pipe
    <3>6. /\ pipe.read_open >= Cardinality(Holders(f)')
          /\ pipe.write_open >= Cardinality(Holders(f + 1)')
      BY <3>1, <3>3, <3>4, <3>5
    <3> QED BY <3>1, <3>6 DEF pipe
  <2> QED BY <2>1, <1>2 DEF CountsOK
<1>8. ShellOK'
  BY <1>1, <1>2, <1>3 DEF Linked, ShellOK, Alive
<1>9. ChildrenOK'
  BY <1>1, <1>2, <1>3 DEF Linked, ChildrenOK, Live, InCall
<1> QED BY <1>4, <1>5, <1>7, <1>8, <1>9 DEF Linked

\* Steps of the shell after which the tables are as they were: change_std and waitpid.
LEMMA ShellWalks ==
  ASSUME Linked, \A q \in Procs : proc'[q].fd_table = proc[q].fd_table,
         UNCHANGED <<pipes, fd_table, new_pipe, killed>>,
         \A q \in Kids : /\ proc'[q].pc = proc[q].pc /\ proc'[q].pipe = proc[q].pipe
                         /\ proc'[q].stdin \in {proc[q].stdin, new_pipe.r}
                         /\ proc'[q].stdout \in {proc[q].stdout, new_pipe.w},
         NEW from, proc[SHELL].pc = from,
         NEW to, proc'[SHELL].pc = to,
         \/ from = "std_w" /\ to = "std_r"
         \/ from = "std_r" /\ to = "close_r"
         \/ from = "wait" /\ to = "prompt" /\ \A q \in Kids : ~Alive(q)
  PROVE  Linked'
<1>1. SHELL \in Procs /\ Kids \subseteq Procs
  BY KidsAreProcs
<1>2. PipesTyped' /\ \A s \in Slots : SameCounts(pipes[s], pipes'[s])
  BY DEF Linked, PipesTyped, SameCounts
<1>3. Shared'
  BY <1>2, SharedKept DEF Linked, Shared
<1>4. ShellOK'
  BY <1>1 DEF Linked, ShellOK, Alive, Labels
<1>5. ChildrenOK'
  BY <1>1 DEF Linked, ChildrenOK
<1> QED BY <1>3, <1>4, <1>5 DEF Linked, Shared

LEMMA ShellClosesLinks ==
  ASSUME IInv, Linked, killed' = killed,
         \/ proc[SHELL].pc = "close_r" /\ ShellCloses(new_pipe.r, "close_w")
         \/ proc[SHELL].pc = "close_w" /\ ShellCloses(new_pipe.w, "wait")
  PROVE  Linked'
<1> DEFINE r == new_pipe.r
<1>1. SHELL \in Procs /\ Kids \subseteq Procs /\ SHELL \notin Kids
  BY KidsAreProcs
<1>2. r \in ReadEnds /\ new_pipe.w = r + 1 /\ r # -1 /\ r + 1 # -1 /\ r # r + 1
  BY TwoEnds DEF Linked, ShellOK
<1>3. Shared /\ new_pipe' = new_pipe
  BY DEF Linked, Shared, ShellCloses
<1>4. fd_table[r].in_use
  <2>1. proc[SHELL].fd_table = Tab(r, r + 1) \/ proc[SHELL].fd_table = Tab(-1, r + 1)
    BY <1>2 DEF Linked, ShellOK
  <2>2. proc[SHELL].fd_table # Tab(-1, -1)
    BY <2>1, <1>2, TabSame
  <2>3. PICK f \in ReadEnds : /\ fd_table[f].in_use
                              /\ proc[SHELL].fd_table \in {Tab(f, f + 1), Tab(-1, f + 1)}
    BY <2>2, <1>1 DEF Linked, TablesOK
  <2>4. r + 1 = f + 1
    BY <2>1, <2>3, TabSame
  <2>5. r = f
    BY <2>4, <1>2, TwoEnds
  <2> QED BY <2>3, <2>5
<1> HIDE DEF r
<1>5. ASSUME Shared', proc'[SHELL].pc \in {"close_w", "wait"},
             proc'[SHELL].fd_table = IF proc'[SHELL].pc = "wait" THEN Tab(-1, -1) ELSE Tab(-1, r + 1),
             \A q \in Kids : proc'[q] = proc[q],
             \A g \in ReadEnds :
                fd_table[g].in_use /\ (\E x \in Procs : Has(g, proc'[x].fd_table))
                  => fd_table'[g] = fd_table[g]
      PROVE  Linked'
  <2>0. new_pipe = [f \in {"r", "w", "left", "right"} |-> new_pipe[f]]
    BY DEF Linked, ShellOK
  <2>1. ShellOK'
    BY <2>0, <1>2, <1>3, <1>5 DEF ShellOK, Labels, r
  <2>2. ASSUME NEW q \in Kids
        PROVE  /\ proc'[q].pc \in Live \cup {"none", "exit"}
               /\ proc'[q].pc = "none" => proc'[q].fd_table = Tab(-1, -1)
               /\ proc'[q].pc \in Live =>
                    /\ proc'[q].fd_table = Tab(new_pipe'.r, new_pipe'.w)
                    /\ proc'[q].stdin \in {STDIN, new_pipe'.r}
                    /\ proc'[q].stdout \in {STDOUT, new_pipe'.w}
               /\ proc'[q].pc \in InCall => proc'[q].pipe = fd_table'[new_pipe'.r].pipe
    <3>1. CASE proc[q].pc \in Live
      <4>1. /\ proc'[q].fd_table = Tab(new_pipe'.r, new_pipe'.w)
            /\ proc'[q].stdin \in {STDIN, new_pipe'.r} /\ proc'[q].stdout \in {STDOUT, new_pipe'.w}
            /\ proc'[q].pc \in InCall => proc'[q].pipe = fd_table'[new_pipe'.r].pipe
        BY <3>1, <1>3, <1>5, StillLive
      <4> QED BY <3>1, <4>1, <1>5 DEF Live
    <3>2. CASE proc[q].pc \notin Live
      BY <3>2, <1>5 DEF Linked, ChildrenOK, Live, InCall
    <3> QED BY <3>1, <3>2
  <2>3. ChildrenOK'
    BY <2>2 DEF ChildrenOK
  <2> QED BY <1>5, <2>1, <2>3 DEF Linked, Shared
\* The place of fd in the table of the shell, and the table after.
<1>6. ASSUME NEW fd, NEW next, ShellCloses(fd, next), NEW i \in Places,
             \A j \in Places : proc[SHELL].fd_table[j] = fd <=> j = i,
             NEW a, NEW b, proc[SHELL].fd_table = Tab(a, b),
             NEW t, t = [Tab(a, b) EXCEPT ![i] = -1]
      PROVE  /\ pipe_close(fd) /\ proc'[SHELL].pc = next /\ proc'[SHELL].fd_table = t
             /\ \A q \in Procs \ {SHELL} : proc'[q] = proc[q]
             /\ \A q \in Kids : proc'[q] = proc[q]
  <2>1. Place(SHELL, fd) = i
    <3>1. {j \in Places : proc[SHELL].fd_table[j] = fd} = {i} /\ {i} \in SUBSET Nat
      BY <1>6, TabIs
    <3>2. \A x \in {i} : i <= x
      BY TabIs
    <3> QED BY <3>1, <3>2, MinIs DEF Place
  <2>2. pipe_close(fd) /\ proc' = [proc EXCEPT ![SHELL].pc = next, ![SHELL].fd_table[i] = -1]
    BY <2>1, <1>6 DEF ShellCloses
  <2>3. /\ proc'[SHELL].pc = next
        /\ proc'[SHELL].fd_table = [proc[SHELL].fd_table EXCEPT ![i] = -1]
        /\ \A q \in Procs \ {SHELL} : proc'[q] = proc[q]
    BY <2>2, <1>1 DEF IInv, ProcsShaped, Fields
  <2> QED BY <2>2, <2>3, <1>6, <1>1
<1>7. CASE proc[SHELL].pc = "close_r" /\ ShellCloses(r, "close_w")
  <2>1. proc[SHELL].fd_table = Tab(r, r + 1)
    BY <1>2, <1>7 DEF Linked, ShellOK, r
  <2>2. 1 \in Places /\ \A j \in Places : proc[SHELL].fd_table[j] = r <=> j = 1
    BY <2>1, <1>2, TabIs
  <2>3. PICK t : t = [Tab(r, r + 1) EXCEPT ![1] = -1]
    OBVIOUS
  <2>4. t = Tab(-1, r + 1)
    BY <2>3, TabCleared
  <2>5. /\ pipe_close(r) /\ proc'[SHELL].pc = "close_w" /\ proc'[SHELL].fd_table = t
        /\ \A q \in Procs \ {SHELL} : proc'[q] = proc[q]
        /\ \A q \in Kids : proc'[q] = proc[q]
    BY <2>1, <2>2, <2>3, <1>6, <1>7
  <2>6. Retabled(SHELL, r, r + 1, -1, r + 1)
    BY <2>1, <2>4, <2>5 DEF Retabled
  <2>7. Shared' /\ fd_table' = fd_table
    BY <2>5, <2>6, <1>1, <1>2, <1>3, <1>4, ClosesRead
  <2> QED BY <2>4, <2>5, <2>7, <1>5
<1>8. CASE proc[SHELL].pc = "close_w" /\ ShellCloses(r + 1, "wait")
  <2>1. proc[SHELL].fd_table = Tab(-1, r + 1)
    BY <1>2, <1>8 DEF Linked, ShellOK, r
  <2>2. 2 \in Places /\ \A j \in Places : proc[SHELL].fd_table[j] = r + 1 <=> j = 2
    BY <2>1, <1>2, TabIs
  <2>3. PICK t : t = [Tab(-1, r + 1) EXCEPT ![2] = -1]
    OBVIOUS
  <2>4. t = Tab(-1, -1)
    BY <2>3, TabCleared
  <2>5. /\ pipe_close(r + 1) /\ proc'[SHELL].pc = "wait" /\ proc'[SHELL].fd_table = t
        /\ \A q \in Procs \ {SHELL} : proc'[q] = proc[q]
        /\ \A q \in Kids : proc'[q] = proc[q]
    BY <2>1, <2>2, <2>3, <1>6, <1>8
  <2>6. Retabled(SHELL, -1, r + 1, -1, -1)
    BY <2>1, <2>4, <2>5 DEF Retabled
  <2>7. /\ Shared'
        /\ \A g \in ReadEnds :
             fd_table[g].in_use /\ (\E x \in Procs : Has(g, proc'[x].fd_table))
               => fd_table'[g] = fd_table[g]
    BY <2>5, <2>6, <1>1, <1>2, <1>3, <1>4, ClosesWrite
  <2> QED BY <2>4, <2>5, <2>7, <1>5
<1> QED BY <1>2, <1>7, <1>8 DEF r

LEMMA create_pipeLinks ==
  ASSUME IInv, Linked, proc[SHELL].pc = "prompt", FreeSlots # {}, FreePairs # {}, create_pipe,
         killed' = killed
  PROVE  Linked'
<1>1. PICK r : r = Min(FreePairs)
  OBVIOUS
<1>2. Shared /\ proc[SHELL].fd_table = Tab(-1, -1) /\ ProcsShaped(proc)
      /\ \A q \in Kids : ~Alive(q)
  BY DEF Linked, Shared, ShellOK, IInv
<1>3. /\ Shared' /\ r \in ReadEnds /\ new_pipe'.r = r /\ new_pipe'.w = r + 1
      /\ proc'[SHELL].fd_table = Tab(r, r + 1) /\ proc'[SHELL].pc = "left"
      /\ \A p \in Kids : proc'[p] = proc[p]
  BY <1>1, <1>2, Opens
<1>4. new_pipe' = [f \in {"r", "w", "left", "right"} |-> new_pipe'[f]]
  BY DEF create_pipe
<1>5. ShellOK'
  BY <1>2, <1>3, <1>4 DEF ShellOK, Labels, Alive
<1>6. \A q \in Kids : /\ proc'[q] = proc[q] /\ proc[q].pc \in {"none", "exit"}
                      /\ proc[q].pc = "none" => proc[q].fd_table = Tab(-1, -1)
  BY <1>2, <1>3 DEF Linked, ChildrenOK, Alive
<1>7. ChildrenOK'
  BY <1>6 DEF ChildrenOK, Live, InCall
<1> QED BY <1>3, <1>5, <1>7 DEF Linked, Shared

LEMMA NewChildLinks ==
  ASSUME IInv, Linked, killed' = killed,
         \/ proc[SHELL].pc = "left" /\ NewChild("left", "right")
         \/ proc[SHELL].pc = "right" /\ NewChild("right", "std_w")
  PROVE  Linked'
<1> DEFINE r == new_pipe.r
           w == new_pipe.w
<1>1. PICK side \in {"left", "right"}, next \in {"right", "std_w"} : NewChild(side, next)
  OBVIOUS
<1>2. PICK p \in Kids :
        /\ proc[p].pc = "none"
        /\ Inherits(proc[SHELL].fd_table)
        /\ proc' = [proc EXCEPT ![p] = [Nobody EXCEPT !.pc = "run", !.fd_table = proc[SHELL].fd_table],
                                ![SHELL].pc = next]
        /\ new_pipe' = [new_pipe EXCEPT ![side] = p] /\ fd_table' = fd_table
  BY <1>1 DEF NewChild, FreePid
<1>3. p \in Procs /\ p # SHELL /\ SHELL \in Procs /\ Kids \subseteq Procs /\ SHELL \notin Kids
  BY KidsAreProcs
<1>4. Shared /\ proc[p].fd_table = Tab(-1, -1) /\ proc[SHELL].fd_table = Tab(r, w)
      /\ r \in ReadEnds /\ w = r + 1
  BY <1>2 DEF Linked, Shared, ShellOK, ChildrenOK
<1>5. /\ new_pipe'.r = r /\ new_pipe'.w = w
      /\ new_pipe' = [f \in {"r", "w", "left", "right"} |-> new_pipe'[f]]
  <2>1. new_pipe = [f \in {"r", "w", "left", "right"} |-> new_pipe[f]]
    BY DEF Linked, ShellOK
  <2> QED BY <1>1, <1>2, <2>1
<1> HIDE DEF r, w
<1>6. /\ proc'[p].pc = "run" /\ proc'[p].fd_table = proc[SHELL].fd_table
      /\ proc'[p].stdin = STDIN /\ proc'[p].stdout = STDOUT
      /\ proc'[SHELL].pc = next /\ proc'[SHELL].fd_table = proc[SHELL].fd_table
      /\ \A q \in Procs \ {SHELL, p} : proc'[q] = proc[q]
  BY <1>2, <1>3 DEF IInv, ProcsShaped, Fields, Nobody
<1>7. fd_table[r].in_use
  <2>1. r # -1
    BY <1>4, TwoEnds
  <2>2. PICK f \in ReadEnds : /\ fd_table[f].in_use
                              /\ proc[SHELL].fd_table \in {Tab(f, f + 1), Tab(-1, f + 1)}
    BY <2>1, <1>3, <1>4, TabSame DEF Shared, TablesOK
  <2>3. r = f
    BY <2>1, <2>2, <1>4, TabSame
  <2> QED BY <2>2, <2>3
<1>8. Retabled(p, -1, -1, r, r + 1)
  BY <1>3, <1>4, <1>6 DEF Retabled
<1>9. Shared'
  <2>1. Inherits(Tab(r, r + 1)) /\ proc[SHELL].fd_table = Tab(r, r + 1)
    BY <1>2, <1>4
  <2> QED BY <2>1, <1>2, <1>4, <1>7, <1>8, Inherited
<1>10. ShellOK'
  BY <1>1, <1>4, <1>5, <1>6 DEF ShellOK, Labels
<1>11. ChildrenOK'
  <2> SUFFICES ASSUME NEW q \in Kids
               PROVE  /\ proc'[q].pc \in Live \cup {"none", "exit"}
                      /\ proc'[q].pc = "none" => proc'[q].fd_table = Tab(-1, -1)
                      /\ proc'[q].pc \in Live =>
                           /\ proc'[q].fd_table = Tab(r, w)
                           /\ proc'[q].stdin \in {STDIN, r}
                           /\ proc'[q].stdout \in {STDOUT, w}
                      /\ proc'[q].pc \in InCall => proc'[q].pipe = fd_table[r].pipe
    <3>1. fd_table' = fd_table /\ new_pipe'.r = r /\ new_pipe'.w = w
      BY <1>2, <1>5
    <3> QED BY <3>1 DEF ChildrenOK
  <2>1. CASE q = p
    BY <2>1, <1>4, <1>6 DEF Live, InCall
  <2>2. CASE q # p
    <3>1. proc'[q] = proc[q]
      BY <2>2, <1>3, <1>6
    <3> QED BY <3>1 DEF Linked, ChildrenOK, r, w
  <2> QED BY <2>1, <2>2
<1> QED BY <1>9, <1>10, <1>11 DEF Linked, Shared

LEMMA chekCommandLinks ==
  ASSUME IInv, Linked, chekCommand, killed' = killed
  PROVE  Linked'
<1>0. SHELL \in Procs /\ Kids \subseteq Procs /\ SHELL \notin Kids
  BY KidsAreProcs
<1>1. CASE proc[SHELL].pc = "prompt" /\ FreeSlots # {} /\ FreePairs # {} /\ create_pipe
  BY <1>1, create_pipeLinks
<1>2. CASE \/ proc[SHELL].pc = "left" /\ NewChild("left", "right")
           \/ proc[SHELL].pc = "right" /\ NewChild("right", "std_w")
  BY <1>2, NewChildLinks
<1>3. ASSUME NEW side, NEW std, NEW fd, NEW from, NEW next, change_std(side, std, fd, next),
             proc[SHELL].pc = from, std \in {"stdin", "stdout"},
             std = "stdin" => fd = new_pipe.r, std = "stdout" => fd = new_pipe.w,
             (from = "std_w" /\ next = "std_r") \/ (from = "std_r" /\ next = "close_r")
      PROVE  Linked'
  <2> DEFINE p == new_pipe[side]
             k == [proc EXCEPT ![SHELL].pc = next]
  <2>1. proc' = k \/ proc' = [k EXCEPT ![p][std] = fd]
    BY <1>3 DEF change_std
  <2>2. /\ k[SHELL].pc = next
        /\ \A q \in Procs : /\ k[q].fd_table = proc[q].fd_table /\ k[q].pipe = proc[q].pipe
                            /\ k[q].stdin = proc[q].stdin /\ k[q].stdout = proc[q].stdout
        /\ \A q \in Procs \ {SHELL} : k[q].pc = proc[q].pc
        /\ ProcsShaped(k)
    BY <1>0 DEF IInv, ProcsShaped, Fields
  <2> HIDE DEF k, p
  <2>3. /\ proc'[SHELL].pc = next
        /\ \A q \in Procs : /\ proc'[q].fd_table = k[q].fd_table /\ proc'[q].pipe = k[q].pipe
                            /\ proc'[q].stdin \in {k[q].stdin, new_pipe.r}
                            /\ proc'[q].stdout \in {k[q].stdout, new_pipe.w}
                            /\ proc'[q].pc = k[q].pc
    <3>1. CASE proc' = k
      BY <3>1, <2>2
    <3>2. CASE proc' = [k EXCEPT ![p][std] = fd]
      <4>1. \A q \in Procs : \A f \in Fields :
               proc'[q][f] = IF q = p /\ f = std THEN fd ELSE k[q][f]
        BY <3>2, <2>2, <1>3 DEF ProcsShaped, Fields
      <4> QED BY <4>1, <2>2, <1>0, <1>3 DEF Fields
    <3> QED BY <2>1, <3>1, <3>2
  <2>4. /\ \A q \in Procs : proc'[q].fd_table = proc[q].fd_table
        /\ \A q \in Kids : /\ proc'[q].pc = proc[q].pc /\ proc'[q].pipe = proc[q].pipe
                           /\ proc'[q].stdin \in {proc[q].stdin, new_pipe.r}
                           /\ proc'[q].stdout \in {proc[q].stdout, new_pipe.w}
    BY <2>2, <2>3, <1>0
  <2>5. UNCHANGED <<pipes, fd_table, new_pipe, killed>>
    BY <1>3 DEF change_std
  <2> QED BY <2>3, <2>4, <2>5, <1>3, ShellWalks
<1>4. CASE \/ proc[SHELL].pc = "close_r" /\ ShellCloses(new_pipe.r, "close_w")
           \/ proc[SHELL].pc = "close_w" /\ ShellCloses(new_pipe.w, "wait")
  BY <1>4, ShellClosesLinks
<1>5. CASE /\ proc[SHELL].pc = "wait" /\ \A p \in Kids : ~Alive(p)
           /\ proc' = [proc EXCEPT ![SHELL].pc = "prompt"]
           /\ UNCHANGED <<pipes, fd_table, sem, new_pipe, crossed>>
  <2>1. /\ proc'[SHELL].pc = "prompt"
        /\ \A q \in Procs : proc'[q].fd_table = proc[q].fd_table
        /\ \A q \in Kids : proc'[q] = proc[q]
    BY <1>0, <1>5 DEF IInv, ProcsShaped, Fields
  <2> QED BY <2>1, <1>5, ShellWalks
<1>6. CASE proc[SHELL].pc = "std_w" /\ change_std("left", "stdout", new_pipe.w, "std_r")
  <2>1. PICK side, std, from, next :
           side = "left" /\ std = "stdout" /\ from = "std_w" /\ next = "std_r"
    OBVIOUS
  <2>2. change_std(side, std, new_pipe.w, next) /\ proc[SHELL].pc = from
    BY <2>1, <1>6
  <2> QED BY <2>1, <2>2, <1>3
<1>7. CASE proc[SHELL].pc = "std_r" /\ change_std("right", "stdin", new_pipe.r, "close_r")
  <2>1. PICK side, std, from, next :
           side = "right" /\ std = "stdin" /\ from = "std_r" /\ next = "close_r"
    OBVIOUS
  <2>2. change_std(side, std, new_pipe.r, next) /\ proc[SHELL].pc = from
    BY <2>1, <1>7
  <2> QED BY <2>1, <2>2, <1>3
<1> QED BY <1>1, <1>2, <1>4, <1>5, <1>6, <1>7 DEF chekCommand

-----------------------------------------------------------------------------
LEMMA InitLinks == ASSUME Init PROVE Linked
<1>1. SHELL \in Procs /\ Kids \subseteq Procs /\ SHELL \notin Kids
  BY KidsAreProcs
<1>2. Nobody.fd_table = Tab(-1, -1) /\ Nobody.pc = "none"
  BY TabIs DEF Nobody
<1>3. /\ \A p \in Procs : proc[p].fd_table = Tab(-1, -1)
      /\ proc[SHELL].pc = "prompt" /\ \A p \in Kids : proc[p].pc = "none"
  BY <1>1, <1>2 DEF Init, Nobody
<1>4. PipesTyped
  BY DEF Init, PipesTyped
<1>5. /\ fd_table \in [Fds -> Descriptor] /\ \A f \in Fds : fd_table[f].in_use = FALSE
  BY DEF Init, Unused, Descriptor
<1>6. Paired /\ CountsOK
  BY <1>5, TwoEnds DEF Paired, CountsOK
<1>7. TablesOK
  BY <1>3 DEF TablesOK
<1>8. ShellOK
  <2>1. new_pipe = [f \in {"r", "w", "left", "right"} |-> new_pipe[f]]
    BY DEF Init
  <2>2. \A p \in Kids : ~Alive(p)
    BY <1>3 DEF Alive
  <2> QED BY <1>1, <1>3, <2>1, <2>2 DEF ShellOK, Labels
<1>9. ChildrenOK
  <2>1. \A p \in Kids : proc[p].pc = "none" /\ proc[p].fd_table = Tab(-1, -1)
    BY <1>1, <1>3
  <2> QED BY <2>1 DEF ChildrenOK, Live, InCall
<1> QED BY <1>4, <1>6, <1>7, <1>8, <1>9 DEF Linked

LEMMA NextLinks == IInv /\ Linked /\ [Next]_vars => Linked'
<1> SUFFICES ASSUME IInv, Linked, [Next]_vars PROVE Linked'
  OBVIOUS
<1>1. ASSUME NEW p \in Kids, exit_process(p) PROVE Linked'
  BY <1>1, ExitLinks
<1>2. ASSUME NEW p \in Kids, Kill(p) PROVE Linked'
  BY <1>2, KillLinks
<1>3. ASSUME NEW p \in Kids, pipe_write(p), UNCHANGED <<fd_table, new_pipe, killed, crossed>> PROVE Linked'
  BY <1>3, WriteLinks
<1>4. ASSUME NEW p \in Kids, pipe_read(p), UNCHANGED <<fd_table, new_pipe, killed, crossed>> PROVE Linked'
  BY <1>4, ReadLinks
<1>5. ASSUME NEW p \in Kids, read_keyboard(p), UNCHANGED <<fd_table, new_pipe, killed, crossed>> PROVE Linked'
  BY <1>5, KeyboardLinks
<1>6. CASE chekCommand /\ UNCHANGED killed
  BY <1>6, chekCommandLinks
<1>7. CASE UNCHANGED vars
  <2>1. UNCHANGED <<pipes, fd_table, proc, new_pipe, killed>>
    BY <1>7 DEF vars
  <2>2. Moved(proc, proc')
    BY <2>1 DEF Moved
  <2>3. PipesTyped' /\ \A s \in Slots : SameCounts(pipes[s], pipes'[s])
    BY <2>1 DEF Linked, PipesTyped, SameCounts
  <2> QED BY <2>1, <2>2, <2>3, LinksKept
<1> QED BY <1>1, <1>2, <1>3, <1>4, <1>5, <1>6, <1>7 DEF Next

LEMMA LinkedIsSafe == Linked => NoDangling /\ CountsExact
<1> SUFFICES ASSUME Linked PROVE NoDangling /\ CountsExact
  OBVIOUS
\* An end that somebody holds is in use, and so is its pipe.
<1>1. ASSUME NEW fd \in Fds, Holders(fd) # {}
      PROVE  fd_table[fd].in_use /\ fd_table[fd].pipe \in Opened
  <2>1. PICK h : h \in Holders(fd)
    BY <1>1
  <2>2. PICK p \in Procs, i \in Places : proc[p].fd_table[i] = fd
    BY <2>1 DEF Holders
  <2>3. proc[p].fd_table # Tab(-1, -1)
    BY <2>2, TabIs DEF Tab
  <2>4. PICK f \in ReadEnds : /\ fd_table[f].in_use
                              /\ proc[p].fd_table \in {Tab(f, f + 1), Tab(-1, f + 1)}
    BY <2>3 DEF Linked, TablesOK
  <2>5. fd \in {f, f + 1}
    BY <2>2, <2>4, TabIs DEF Tab
  <2> QED BY <2>4, <2>5 DEF Linked, Paired
<1>2. ASSUME NEW p \in Procs, proc[p].pc \in {"put", "get", "put_q", "get_q"}
      PROVE  proc[p].pipe \in Opened
  <2>1. p \in Kids
    BY <1>2 DEF Procs, Linked, ShellOK, Labels
  <2> QED BY <2>1, <1>2, LivePipe DEF Linked, ChildrenOK, Live, InCall
<1>3. ASSUME NEW fd \in Fds, fd_table[fd].in_use
      PROVE  LET pipe  == pipes[fd_table[fd].pipe]
                 count == IF fd_table[fd].type = "FD_READ" THEN pipe.read_open ELSE pipe.write_open
             IN  /\ count >= Cardinality(Holders(fd))
                 /\ ~killed => count = Cardinality(Holders(fd)) /\ pipe.read_open + pipe.write_open > 0
  <2>1. PICK f \in ReadEnds : fd \in {f, f + 1}
    BY TwoEnds
  <2>2. fd_table[f].in_use
    BY <2>1, <1>3 DEF Linked, Paired
  <2> DEFINE pipe == pipes[fd_table[f].pipe]
  <2>3. /\ fd_table[f].type = "FD_READ" /\ fd_table[f + 1].type = "FD_WRITE"
        /\ fd_table[f + 1].pipe = fd_table[f].pipe
        /\ pipe.read_open >= Cardinality(Holders(f))
        /\ pipe.write_open >= Cardinality(Holders(f + 1))
        /\ pipe.read_open + pipe.write_open > 0
        /\ ~killed => /\ pipe.read_open = Cardinality(Holders(f))
                      /\ pipe.write_open = Cardinality(Holders(f + 1))
    BY <2>2, PipeOf DEF Linked, Shared
  <2>4. CASE fd = f
    BY <2>3, <2>4
  <2>5. CASE fd = f + 1
    BY <2>3, <2>5
  <2> QED BY <2>1, <2>4, <2>5
<1>4. NoDangling
  BY <1>1, <1>2 DEF NoDangling
<1>5. CountsExact
  BY <1>3 DEF CountsExact
<1> QED BY <1>4, <1>5


-----------------------------------------------------------------------------
(* The bytes of the only pipe there is.                                    *)

Gets(pr) == {p \in Kids : pr[p].pc = "get"}

\* The tokens for bytes, and those that readers were let through with.
Readable(sm, pr) == sm[DATA].value + Cardinality(Gets(pr))

OrderOK ==
    /\ sem[FREE].value = -1 => Opened = {}
    /\ (~crossed /\ ~killed) =>
         \A s, t \in Opened : s = t /\ pipes[s].unread = Readable(sem, proc)

LEMMA GetsFinite ==
  ASSUME NEW pr
  PROVE  /\ IsFiniteSet(Gets(pr)) /\ Cardinality(Gets(pr)) \in Nat
         /\ Gets(pr) \subseteq Hand(pr) /\ Cardinality(Gets(pr)) <= Cardinality(Hand(pr))
<1>1. Gets(pr) \subseteq Hand(pr)
  BY DEF Gets, Hand
<1> QED BY <1>1, HandFinite, FS_Subset, FS_CardinalityType

LEMMA QueuesStill ==
  ASSUME IInv, NEW p \in Kids, NEW sm, NEW pr, HasToken(p, sm, pr), ~killed
  PROVE  QueuesExact(sm, pr) /\ SemsTyped(sm) /\ ProcsShaped(pr)
<1>1. p \in Procs
  BY KidsAreProcs
<1>2. /\ ProcsShaped(pr) /\ \A q \in Kids \ {p} : pr[q].pc = proc[q].pc
  <2>1. ProcsShaped(pr) /\ \A q \in Procs : pr[q].pc = IF q = p THEN "run" ELSE proc[q].pc
    BY <1>1 DEF IInv, ProcsShaped, Fields, HasToken
  <2> QED BY <2>1, KidsAreProcs
<1>3. SemsTyped(sem) /\ QueuesExact(sem, proc)
  BY DEF IInv
<1>4. SemsTyped(sm) /\ \A t \in {DATA, FREE} : sm[t].waiting = sem[t].waiting
  <2>1. CASE sm = sem
    BY <2>1, <1>3
  <2>2. ASSUME NEW u \in {DATA, FREE}, sm = [sem EXCEPT ![u].value = @ - 1]
        PROVE  SemsTyped(sm) /\ \A t \in {DATA, FREE} : sm[t].waiting = sem[t].waiting
    <3>1. SemsTyped(sm)
      BY <2>2, <1>3, TokenTaken
    <3>2. \A t \in {DATA, FREE} : sm[t].waiting = sem[t].waiting
      BY <2>2, <1>3 DEF SemsTyped
    <3> QED BY <3>1, <3>2
  <2> QED BY <2>1, <2>2 DEF HasToken
<1>5. ASSUME NEW t \in {DATA, FREE}, NEW i \in DOMAIN sm[t].waiting
      PROVE  /\ pr[sm[t].waiting[i]].pc = Queued[t]
             /\ \A j \in DOMAIN sm[t].waiting : sm[t].waiting[i] = sm[t].waiting[j] => i = j
  <2>1. sm[t].waiting = sem[t].waiting
    BY <1>4
  <2>2. sem[t].waiting[i] \in Kids
    BY <2>1, <1>3, <1>5 DEF SemsTyped
  <2>3. proc[sem[t].waiting[i]].pc = Queued[t] /\ Queued[t] \in {"get_q", "put_q"}
    BY <2>1, <1>3, <1>5 DEF QueuesExact, Queued
  <2>4. proc[p].pc \notin {"get_q", "put_q"}
    BY DEF HasToken
  <2>5. pr[sem[t].waiting[i]].pc = Queued[t]
    BY <2>2, <2>3, <2>4, <1>2
  <2>6. \A j \in DOMAIN sem[t].waiting : sem[t].waiting[i] = sem[t].waiting[j] => i = j
    BY <2>1, <1>3, <1>5 DEF QueuesExact
  <2> QED BY <2>1, <2>5, <2>6
<1> QED BY <1>2, <1>4, <1>5 DEF QueuesExact

\* A token that is posted for a byte can be had, or is had by a reader at once.
LEMMA PostReadable ==
  ASSUME NEW sm, NEW pr, SemsTyped(sm), ProcsShaped(pr), QueuesExact(sm, pr),
         NEW s \in {DATA, FREE}, NEW r, r = sem_post([sem |-> sm, proc |-> pr], s)
  PROVE  Readable(r.sem, r.proc) = Readable(sm, pr) + (IF s = DATA THEN 1 ELSE 0)
<1>1. sm[DATA].value \in Int /\ Cardinality(Gets(pr)) \in Nat /\ DATA # FREE
  BY GetsFinite DEF SemsTyped, DATA, FREE
<1>2. CASE /\ r.proc = pr /\ r.sem[s].value = sm[s].value + 1
           /\ \A t \in {DATA, FREE} \ {s} : r.sem[t].value = sm[t].value
  <2>1. r.sem[DATA].value = sm[DATA].value + (IF s = DATA THEN 1 ELSE 0)
    BY <1>1, <1>2
  <2> QED BY <2>1, <1>1, <1>2 DEF Readable
<1>3. ASSUME NEW i \in DOMAIN sm[s].waiting, sm[s].waiting[i] \in Kids,
             r.proc = Woken(pr, sm[s].waiting[i]),
             \A t \in {DATA, FREE} : r.sem[t].value = sm[t].value
      PROVE  Readable(r.sem, r.proc) = Readable(sm, pr) + (IF s = DATA THEN 1 ELSE 0)
  <2>1. PICK q \in Kids : q = sm[s].waiting[i]
    BY <1>3
  <2>2. pr[q].pc = IF s = DATA THEN "get_q" ELSE "put_q"
    BY <2>1, <1>3 DEF QueuesExact, Queued
  <2>3. \A x \in Procs : r.proc[x].pc =
           IF x = q /\ pr[x].pc \in DOMAIN Resumes THEN Resumes[pr[x].pc] ELSE pr[x].pc
    BY <2>1, <1>3, KidsAreProcs DEF ProcsShaped, Fields, Woken
  <2>4. /\ DOMAIN Resumes = {"put_q", "get_q", "kbd"}
        /\ Resumes["put_q"] = "put" /\ Resumes["get_q"] = "get"
    BY DEF Resumes
  <2>5. r.proc[q].pc = IF s = DATA THEN "get" ELSE "put"
    BY <2>2, <2>3, <2>4, KidsAreProcs
  <2>6. \A x \in Kids \ {q} : r.proc[x].pc = pr[x].pc
    BY <2>3, KidsAreProcs
  <2>7. CASE s = DATA
    <3>1. q \notin Gets(pr) /\ Gets(r.proc) = Gets(pr) \cup {q}
      BY <2>2, <2>5, <2>6, <2>7 DEF Gets
    <3>2. Cardinality(Gets(r.proc)) = Cardinality(Gets(pr)) + 1
      BY <3>1, GetsFinite, FS_AddElement
    <3> QED BY <3>2, <2>7, <1>1, <1>3 DEF Readable
  <2>8. CASE s # DATA
    <3>1. Gets(r.proc) = Gets(pr)
      BY <2>2, <2>5, <2>6, <2>8 DEF Gets
    <3> QED BY <3>1, <2>8, <1>1, <1>3 DEF Readable
  <2> QED BY <2>7, <2>8
<1> QED BY <1>2, <1>3, PostHow

\* A byte that moves is one more, or one less, that can be read.
LEMMA TokenMoves ==
  ASSUME IInv, ~killed, NEW p \in Kids, NEW t \in {DATA, FREE}, NEW u \in {DATA, FREE}, NEW k,
         Become(sem_post([k EXCEPT !.proc[p] = [@ EXCEPT !.pc = "run", !.pipe = NULL]], u)),
         \/ k = Now /\ proc[p].pc = (IF t = DATA THEN "get" ELSE "put")
         \/ k = Token(t) /\ sem[t].value > 0 /\ proc[p].pc = "run"
  PROVE  Readable(sem', proc') =
            Readable(sem, proc) + (IF u = DATA THEN 1 ELSE 0) - (IF t = DATA THEN 1 ELSE 0)
<1>1. PICK pr : pr = [proc EXCEPT ![p] = [@ EXCEPT !.pc = "run", !.pipe = NULL]]
  OBVIOUS
<1>2. PICK sm :
        /\ k = [sem |-> sm, proc |-> proc]
        /\ \/ sm = sem /\ proc[p].pc = (IF t = DATA THEN "get" ELSE "put")
           \/ sm = [sem EXCEPT ![t].value = @ - 1] /\ sem[t].value > 0 /\ proc[p].pc = "run"
  BY DEF Now, Token
<1>3. Become(sem_post([sem |-> sm, proc |-> pr], u))
  <2>1. [k EXCEPT !.proc[p] = [@ EXCEPT !.pc = "run", !.pipe = NULL]] = [sem |-> sm, proc |-> pr]
    BY <1>1, <1>2
  <2> QED BY <2>1
<1>4. HasToken(p, sm, pr)
  BY <1>1, <1>2 DEF HasToken
<1>5. QueuesExact(sm, pr) /\ SemsTyped(sm) /\ ProcsShaped(pr)
  BY <1>4, QueuesStill
<1>6. PICK r : r = sem_post([sem |-> sm, proc |-> pr], u)
  OBVIOUS
<1>7. Readable(r.sem, r.proc) = Readable(sm, pr) + (IF u = DATA THEN 1 ELSE 0)
  BY <1>5, <1>6, PostReadable
<1>8. sem' = r.sem /\ proc' = r.proc
  BY <1>3, <1>6 DEF Become
<1>9. Readable(sm, pr) = Readable(sem, proc) - (IF t = DATA THEN 1 ELSE 0)
  <2>1. /\ sem[DATA].value \in Int /\ Cardinality(Gets(proc)) \in Nat /\ DATA # FREE
        /\ SemsTyped(sem)
    BY GetsFinite DEF IInv, SemsTyped, DATA, FREE
  <2>2. pr[p].pc = "run" /\ \A q \in Kids \ {p} : pr[q].pc = proc[q].pc
    <3>1. \A q \in Procs : pr[q].pc = IF q = p THEN "run" ELSE proc[q].pc
      BY <1>1, KidsAreProcs DEF IInv, ProcsShaped, Fields
    <3> QED BY <3>1, KidsAreProcs
  <2>3. CASE sm = sem /\ proc[p].pc = (IF t = DATA THEN "get" ELSE "put")
    <3>1. CASE t = DATA
      <4>1. p \in Gets(proc) /\ Gets(pr) = Gets(proc) \ {p}
        BY <2>2, <2>3, <3>1 DEF Gets
      <4>2. Cardinality(Gets(pr)) = Cardinality(Gets(proc)) - 1
        BY <4>1, GetsFinite, FS_RemoveElement
      <4> QED BY <4>2, <2>1, <2>3, <3>1 DEF Readable
    <3>2. CASE t # DATA
      <4>1. Gets(pr) = Gets(proc)
        BY <2>2, <2>3, <3>2 DEF Gets
      <4> QED BY <4>1, <2>1, <2>3, <3>2 DEF Readable
    <3> QED BY <3>1, <3>2
  <2>4. CASE sm = [sem EXCEPT ![t].value = @ - 1] /\ sem[t].value > 0 /\ proc[p].pc = "run"
    <3>1. Gets(pr) = Gets(proc)
      BY <2>2, <2>4 DEF Gets
    <3>2. sm[DATA].value = sem[DATA].value - (IF t = DATA THEN 1 ELSE 0)
      BY <2>1, <2>4 DEF SemsTyped
    <3> QED BY <3>1, <3>2, <2>1 DEF Readable
  <2> QED BY <1>2, <2>3, <2>4
<1> QED
  <2>1. Readable(sem, proc) \in Int
    BY GetsFinite DEF IInv, SemsTyped, Readable
  <2> QED BY <2>1, <1>7, <1>8, <1>9

\* A step that opens nothing, moves no byte and leaves the tokens where they are.
LEMMA OrderKept ==
  ASSUME OrderOK, crossed' = crossed, killed' = killed,
         \A s \in {DATA, FREE} : sem'[s].value = sem[s].value,
         \A q \in Kids : proc'[q].pc = "get" <=> proc[q].pc = "get",
         \A s \in Opened' : s \in Opened /\ pipes'[s].unread = pipes[s].unread
  PROVE  OrderOK'
<1>1. Gets(proc') = Gets(proc)
  BY DEF Gets
<1>2. Readable(sem', proc') = Readable(sem, proc)
  BY <1>1 DEF Readable
<1> QED BY <1>2 DEF OrderOK

LEMMA StaysOpen ==
  ASSUME IInv, NEW p \in Kids, NEW s \in {DATA, FREE}, NEW sm, NEW pr, HasToken(p, sm, pr),
         Become(sem_post([sem |-> sm, proc |-> pr], s))
  PROVE  sem'[FREE].value # -1
<1>1. SemsTyped(sem) /\ DATA # FREE
  BY DEF IInv, DATA, FREE
<1>2. ProcsShaped(pr)
  BY KidsAreProcs DEF IInv, ProcsShaped, Fields, HasToken
<1>3. SemsTyped(sm) /\ sm[FREE].value >= 0
  <2>1. CASE sm = sem /\ proc[p].pc \in {"put", "get"}
    <3>1. p \in Hand(proc)
      BY <2>1 DEF Hand
    <3> QED BY <2>1, <3>1, <1>1 DEF IInv
  <2>2. ASSUME NEW t \in {DATA, FREE}, sm = [sem EXCEPT ![t].value = @ - 1], sem[t].value > 0
        PROVE  SemsTyped(sm) /\ sm[FREE].value >= 0
    <3>1. SemsTyped(sm)
      BY <2>2, <1>1, TokenTaken
    <3>2. sem[FREE].value >= 0 /\ sem[FREE].value \in Int /\ sem[t].value \in Int
      BY <2>2, <1>1 DEF IInv, SemsTyped
    <3>3. sm[FREE].value = IF t = FREE THEN sem[t].value - 1 ELSE sem[FREE].value
      BY <2>2, <1>1 DEF SemsTyped
    <3> QED BY <3>1, <3>2, <3>3, <2>2
  <2> QED BY <2>1, <2>2 DEF HasToken
<1>4. PICK r : r = sem_post([sem |-> sm, proc |-> pr], s)
  OBVIOUS
<1>5. sem' = r.sem
  BY <1>4 DEF Become
<1>6. r.sem[FREE].value \in {sm[FREE].value, sm[FREE].value + 1}
  BY <1>2, <1>3, <1>4, PostHow
<1>7. sm[FREE].value \in Int
  BY <1>3 DEF SemsTyped
<1> QED BY <1>3, <1>5, <1>6, <1>7

Puts(k, p, s) ==
    /\ Put(k, p, s)
    /\ \/ k = Now /\ proc[p].pc = "put"
       \/ k = Token(FREE) /\ sem[FREE].value > 0 /\ proc[p].pc = "run"

Takes(k, p, s) ==
    /\ Get(k, p, s)
    /\ \/ k = Now /\ proc[p].pc = "get"
       \/ k = Token(DATA) /\ sem[DATA].value > 0 /\ proc[p].pc = "run"

LEMMA ByteOrdered ==
  ASSUME IInv, Linked, OrderOK, NEW p \in Kids, NEW s \in Opened, NEW k,
         \/ Puts(k, p, s)
         \/ Takes(k, p, s),
         killed' = killed, crossed' = crossed
  PROVE  OrderOK'
<1>1. PICK d \in {1, -1} :
        /\ pipes' = [pipes EXCEPT ![s].unread = @ + d]
        /\ ~killed => Readable(sem', proc') = Readable(sem, proc) + d
  <2>0. Readable(sem, proc) \in Int /\ DATA # FREE
    BY GetsFinite DEF IInv, SemsTyped, Readable, DATA, FREE
  <2>1. CASE Puts(k, p, s)
    <3>1. pipes' = [pipes EXCEPT ![s].unread = @ + 1]
      BY <2>1 DEF Puts, Put
    <3>2. ~killed => Readable(sem', proc') = Readable(sem, proc) + 1
      <4> SUFFICES ASSUME ~killed PROVE Readable(sem', proc') = Readable(sem, proc) + 1
        OBVIOUS
      <4>1. Become(sem_post([k EXCEPT !.proc[p] = [@ EXCEPT !.pc = "run", !.pipe = NULL]], DATA))
        BY <2>1 DEF Puts, Put
      <4>2. PICK t \in {DATA, FREE} : t = FREE
        OBVIOUS
      <4>3. \/ k = Now /\ proc[p].pc = (IF t = DATA THEN "get" ELSE "put")
            \/ k = Token(t) /\ sem[t].value > 0 /\ proc[p].pc = "run"
        BY <2>0, <2>1, <4>2 DEF Puts
      <4>4. Readable(sem', proc') = Readable(sem, proc) + (IF DATA = DATA THEN 1 ELSE 0)
                                                        - (IF t = DATA THEN 1 ELSE 0)
        BY <4>1, <4>3, TokenMoves
      <4> QED BY <2>0, <4>2, <4>4
    <3> QED BY <3>1, <3>2
  <2>2. CASE Takes(k, p, s)
    <3>1. pipes' = [pipes EXCEPT ![s].unread = @ + (-1)]
      <4>1. pipes[s].unread \in Int
        BY DEF Linked, PipesTyped, Opened, PipeRecord
      <4>2. pipes[s].unread - 1 = pipes[s].unread + (-1)
        BY <4>1
      <4> QED BY <2>2, <4>2 DEF Takes, Get
    <3>2. ~killed => Readable(sem', proc') = Readable(sem, proc) + (-1)
      <4> SUFFICES ASSUME ~killed PROVE Readable(sem', proc') = Readable(sem, proc) + (-1)
        OBVIOUS
      <4>1. PICK u \in {DATA, FREE} : u = FREE
        OBVIOUS
      <4>2. Become(sem_post([k EXCEPT !.proc[p] = [@ EXCEPT !.pc = "run", !.pipe = NULL]], u))
        BY <2>2, <4>1 DEF Takes, Get
      <4>3. \/ k = Now /\ proc[p].pc = (IF DATA = DATA THEN "get" ELSE "put")
            \/ k = Token(DATA) /\ sem[DATA].value > 0 /\ proc[p].pc = "run"
        BY <2>2 DEF Takes
      <4>4. Readable(sem', proc') = Readable(sem, proc) + (IF u = DATA THEN 1 ELSE 0)
                                                        - (IF DATA = DATA THEN 1 ELSE 0)
        BY <4>2, <4>3, TokenMoves
      <4> QED BY <2>0, <4>1, <4>4
    <3> QED BY <3>1, <3>2
  <2> QED BY <2>1, <2>2
<1>2. /\ PipesTyped' /\ \A t \in Slots : SameCounts(pipes[t], pipes'[t])
      /\ pipes'[s].unread = pipes[s].unread + d
  BY <1>1, ByteMoves DEF Linked
<1>3. Opened' = Opened
  BY <1>2 DEF Opened, SameCounts
<1>4. sem'[FREE].value # -1
  <2>1. PICK u \in {DATA, FREE} :
           Become(sem_post([k EXCEPT !.proc[p] = [@ EXCEPT !.pc = "run", !.pipe = NULL]], u))
    BY DEF Puts, Takes, Put, Get
  <2>2. \/ k = Now /\ proc[p].pc \in {"put", "get"}
        \/ \E t \in {DATA, FREE} : k = Token(t) /\ sem[t].value > 0 /\ proc[p].pc = "run"
    BY DEF Puts, Takes
  <2> QED BY <2>1, <2>2, CallerPosts, StaysOpen
<1>5. ASSUME ~crossed, ~killed, NEW a \in Opened, NEW b \in Opened
      PROVE  a = b /\ pipes'[a].unread = Readable(sem', proc')
  <2>1. a = b /\ a = s /\ pipes[s].unread = Readable(sem, proc)
    BY <1>5 DEF OrderOK
  <2> QED BY <2>1, <1>1, <1>2, <1>5
<1> QED BY <1>3, <1>4, <1>5 DEF OrderOK

\* A close frees a pipe or leaves its bytes alone.
LEMMA ClosesOrdered ==
  ASSUME Linked, NEW fd \in Fds, Holders(fd) # {}, pipe_close(fd)
  PROVE  \A s \in Opened' : s \in Opened /\ pipes'[s].unread = pipes[s].unread
<1>1. PICK s \in Opened : s = fd_table[fd].pipe
  BY LinkedIsSafe DEF NoDangling
<1>2. s \in Slots /\ pipes[s] \in PipeRecord /\ pipes \in [Slots -> {NULL} \cup PipeRecord]
  BY DEF Linked, PipesTyped, Opened
<1>3. PICK left : left = Counted(pipes[s], fd, -1)
  OBVIOUS
<1>4. left.unread = pipes[s].unread
  BY <1>2, <1>3 DEF Counted, PipeRecord
<1>5. pipes' = [pipes EXCEPT ![s] = NULL] \/ pipes' = [pipes EXCEPT ![s] = left]
  BY <1>1, <1>3 DEF pipe_close
<1>6. /\ pipes'[s] \in {NULL, left} /\ \A t \in Slots \ {s} : pipes'[t] = pipes[t]
  BY <1>2, <1>5
<1> QED BY <1>4, <1>6 DEF Opened

\* The first pipe finds the semaphores new, or without a byte.
LEMMA create_pipeOrdered ==
  ASSUME IInv, Linked, OrderOK, proc[SHELL].pc = "prompt", FreeSlots # {}, FreePairs # {},
         create_pipe, killed' = killed
  PROVE  OrderOK'
<1>1. PICK s : s = Min(FreeSlots)
  OBVIOUS
<1>2. s \in Slots /\ s \notin Opened
  <2>1. FreeSlots \in SUBSET Nat
    BY PipeAssumption DEF FreeSlots, Slots
  <2>2. s \in FreeSlots
    BY <1>1, <2>1, MinProperties
  <2> QED BY <2>2 DEF FreeSlots
<1>3. PICK new : new = [unread |-> 0, read_open |-> 1, write_open |-> 1]
  OBVIOUS
<1>4. new \in PipeRecord /\ new.unread = 0 /\ new # NULL
  BY <1>3, PipeAssumption DEF PipeRecord
<1>5. pipes' = [pipes EXCEPT ![s] = new] /\ pipe_init(s)
      /\ crossed' = (crossed \/ Opened # {} \/ sem[DATA].value > 0)
  BY <1>1, <1>3 DEF create_pipe
<1>6. pipes'[s] = new /\ \A t \in Slots \ {s} : pipes'[t] = pipes[t]
  BY <1>2, <1>5 DEF Linked, PipesTyped
<1>7. Opened' = Opened \cup {s}
  BY <1>2, <1>4, <1>6 DEF Opened
<1>8. /\ sem'[DATA].value = IF sem[DATA].value = -1 THEN 0 ELSE sem[DATA].value
      /\ sem'[FREE].value = IF sem[FREE].value = -1 THEN BUFFER_SIZE ELSE sem[FREE].value
  BY <1>5 DEF pipe_init, IInv, SemsTyped, DATA, FREE
<1>9. sem'[FREE].value # -1
  BY <1>8, PipeAssumption
<1>10. Gets(proc') = {}
  <2>1. \A q \in Kids : ~Alive(q)
    BY DEF Linked, ShellOK
  <2>2. \A q \in Kids : proc'[q] = proc[q]
    BY KidsAreProcs DEF create_pipe, IInv, ProcsShaped
  <2> QED BY <2>1, <2>2 DEF Gets, Alive
<1>11. ASSUME ~crossed', NEW a \in Opened', NEW b \in Opened'
       PROVE  a = b /\ pipes'[a].unread = Readable(sem', proc')
  <2>1. Opened = {} /\ ~(sem[DATA].value > 0)
    BY <1>5, <1>11
  <2>2. a = s /\ b = s /\ pipes'[a].unread = 0
    BY <2>1, <1>4, <1>6, <1>7, <1>11
  <2>3. sem[DATA].value \in Int /\ sem[DATA].value >= -1
    BY DEF IInv, SemsTyped
  <2>4. sem'[DATA].value = 0
    BY <2>1, <2>3, <1>8
  <2> QED BY <2>2, <2>4, <1>10, FS_EmptySet DEF Readable
<1> QED BY <1>9, <1>11 DEF OrderOK

LEMMA ExitOrdered ==
  ASSUME IInv, Linked, OrderOK, NEW p \in Kids, exit_process(p)
  PROVE  OrderOK'
<1>1. p \in Procs /\ Kids \subseteq Procs
  BY KidsAreProcs
<1>2. sem' = sem /\ crossed' = crossed /\ killed' = killed
  BY DEF exit_process
<1>3. ASSUME UNCHANGED pipes, \/ proc[p].pc = "run" /\ proc' = [proc EXCEPT ![p].pc = "exit"]
                              \/ proc[p].pc = "exit" /\ proc' = [proc EXCEPT ![p] = Nobody]
      PROVE  OrderOK'
  <2>1. proc[p].pc # "get" /\ proc'[p].pc # "get" /\ \A q \in Kids \ {p} : proc'[q] = proc[q]
    BY <1>1, <1>3 DEF IInv, ProcsShaped, Fields, Nobody
  <2>2. \A q \in Kids : proc'[q].pc = "get" <=> proc[q].pc = "get"
    BY <2>1
  <2>3. \A s \in Opened' : s \in Opened /\ pipes'[s].unread = pipes[s].unread
    BY <1>3 DEF Opened
  <2> QED BY <1>2, <2>2, <2>3, OrderKept
<1>4. ASSUME proc[p].pc = "exit", NEW i, i = Min(Places \ Empty(proc[p].fd_table)),
             Places \ Empty(proc[p].fd_table) # {},
             pipe_close(proc[p].fd_table[i]), proc' = [proc EXCEPT ![p].fd_table[i] = -1]
      PROVE  OrderOK'
  <2>1. i \in Places /\ proc[p].fd_table[i] # -1
    <3>1. (Places \ Empty(proc[p].fd_table)) \in SUBSET Nat
      BY DEF Places
    <3>2. i \in Places \ Empty(proc[p].fd_table)
      BY <3>1, <1>4, MinProperties
    <3> QED BY <3>2 DEF Empty
  <2>2. PICK fd : fd = proc[p].fd_table[i]
    OBVIOUS
  <2>3. fd \in Fds
    <3>1. proc[p].fd_table # Tab(-1, -1)
      BY <2>1, TabIs DEF Tab
    <3>2. PICK f \in ReadEnds : proc[p].fd_table \in {Tab(f, f + 1), Tab(-1, f + 1)}
      BY <3>1, <1>1 DEF Linked, TablesOK
    <3>3. fd \in {f, f + 1}
      BY <2>1, <2>2, <3>2 DEF Tab
    <3> QED BY <3>3, TwoEnds DEF ReadEnds
  <2>4. Holders(fd) # {}
    <3>1. <<p, i>> \in Holders(fd)
      BY <1>1, <2>1, <2>2 DEF Holders
    <3> QED BY <3>1
  <2>5. \A s \in Opened' : s \in Opened /\ pipes'[s].unread = pipes[s].unread
    BY <2>2, <2>3, <2>4, <1>4, ClosesOrdered
  <2>6. \A q \in Kids : proc'[q].pc = proc[q].pc
    BY <1>1, <1>4 DEF IInv, ProcsShaped, Fields
  <2> QED BY <1>2, <2>5, <2>6, OrderKept
<1> QED BY <1>3, <1>4 DEF exit_process

LEMMA ShellClosesOrdered ==
  ASSUME IInv, Linked, OrderOK, killed' = killed,
         \/ proc[SHELL].pc = "close_r" /\ ShellCloses(new_pipe.r, "close_w")
         \/ proc[SHELL].pc = "close_w" /\ ShellCloses(new_pipe.w, "wait")
  PROVE  OrderOK'
<1>1. SHELL \in Procs /\ SHELL \notin Kids /\ Kids \subseteq Procs
  BY KidsAreProcs
<1>2. new_pipe.r \in ReadEnds /\ new_pipe.w = new_pipe.r + 1
  BY DEF Linked, ShellOK
<1>3. ASSUME NEW fd \in Fds, Holders(fd) # {}, NEW next, ShellCloses(fd, next)
      PROVE  OrderOK'
  <2>1. \A s \in Opened' : s \in Opened /\ pipes'[s].unread = pipes[s].unread
    BY <1>3, ClosesOrdered DEF ShellCloses
  <2>2. PICK i : proc' = [proc EXCEPT ![SHELL].pc = next, ![SHELL].fd_table[i] = -1]
    BY <1>3 DEF ShellCloses
  <2>3. \A q \in Kids : proc'[q] = proc[q]
    BY <1>1, <2>2 DEF IInv, ProcsShaped
  <2>4. sem' = sem /\ crossed' = crossed
    BY <1>3 DEF ShellCloses
  <2> QED BY <2>1, <2>3, <2>4, OrderKept
<1>4. CASE proc[SHELL].pc = "close_r" /\ ShellCloses(new_pipe.r, "close_w")
  <2>1. proc[SHELL].fd_table[1] = new_pipe.r /\ 1 \in Places
    BY <1>4, TabIs DEF Linked, ShellOK, Tab
  <2>2. <<SHELL, 1>> \in Holders(new_pipe.r)
    BY <1>1, <2>1 DEF Holders
  <2> QED BY <1>2, <1>3, <1>4, <2>2, TwoEnds
<1>5. CASE proc[SHELL].pc = "close_w" /\ ShellCloses(new_pipe.w, "wait")
  <2>1. proc[SHELL].fd_table[2] = new_pipe.w /\ 2 \in Places
    BY <1>5, TabIs DEF Linked, ShellOK, Tab
  <2>2. <<SHELL, 2>> \in Holders(new_pipe.w)
    BY <1>1, <2>1 DEF Holders
  <2> QED BY <1>2, <1>3, <1>5, <2>2, TwoEnds
<1> QED BY <1>4, <1>5

LEMMA NewChildOrdered ==
  ASSUME IInv, Linked, OrderOK, killed' = killed, NEW side, NEW next \in {"right", "std_w"},
         NewChild(side, next)
  PROVE  OrderOK'
<1>1. PICK p \in Kids :
        /\ proc[p].pc = "none"
        /\ Inherits(proc[SHELL].fd_table)
        /\ proc' = [proc EXCEPT ![p] = [Nobody EXCEPT !.pc = "run", !.fd_table = proc[SHELL].fd_table],
                                ![SHELL].pc = next]
        /\ sem' = sem /\ crossed' = crossed
  BY DEF NewChild, FreePid
<1>2. p \in Procs /\ p # SHELL /\ SHELL \in Procs /\ Kids \subseteq Procs /\ SHELL \notin Kids
  BY KidsAreProcs
<1>3. proc'[p].pc = "run" /\ \A q \in Kids \ {p} : proc'[q] = proc[q]
  BY <1>1, <1>2 DEF IInv, ProcsShaped, Fields, Nobody
<1>4. \A q \in Kids : proc'[q].pc = "get" <=> proc[q].pc = "get"
  BY <1>1, <1>3
<1>5. ASSUME NEW s \in Opened'
      PROVE  s \in Opened /\ pipes'[s].unread = pipes[s].unread
  <2>1. s \in Slots /\ pipes'[s] # NULL
    BY <1>5 DEF Opened
  <2>2. pipes[s] # NULL
    BY <1>1, <2>1 DEF Inherits
  <2>3. PICK x, y : pipes'[s] = [pipes[s] EXCEPT !.read_open = @ + x, !.write_open = @ + y]
    BY <1>1, <2>1, <2>2 DEF Inherits
  <2>4. pipes[s] \in PipeRecord
    BY <2>1, <2>2 DEF Linked, PipesTyped
  <2>5. pipes'[s].unread = pipes[s].unread
    BY <2>3, <2>4 DEF PipeRecord
  <2> QED BY <2>1, <2>2, <2>5 DEF Opened
<1> QED BY <1>1, <1>4, <1>5, OrderKept

LEMMA chekCommandOrdered ==
  ASSUME IInv, Linked, OrderOK, chekCommand, killed' = killed
  PROVE  OrderOK'
<1>0. SHELL \in Procs /\ Kids \subseteq Procs /\ SHELL \notin Kids
  BY KidsAreProcs
<1>1. CASE proc[SHELL].pc = "prompt" /\ FreeSlots # {} /\ FreePairs # {} /\ create_pipe
  BY <1>1, create_pipeOrdered
<1>2. CASE NewChild("left", "right") \/ NewChild("right", "std_w")
  BY <1>2, NewChildOrdered
<1>3. ASSUME UNCHANGED <<pipes, sem, crossed>>, \A q \in Kids : proc'[q].pc = proc[q].pc
      PROVE  OrderOK'
  <2>1. \A s \in Opened' : s \in Opened /\ pipes'[s].unread = pipes[s].unread
    BY <1>3 DEF Opened
  <2> QED BY <1>3, <2>1, OrderKept
<1>4. ASSUME NEW side, NEW std, NEW fd, NEW next, change_std(side, std, fd, next),
             std \in {"stdin", "stdout"}
      PROVE  OrderOK'
  <2> DEFINE p == new_pipe[side]
             k == [proc EXCEPT ![SHELL].pc = next]
  <2>1. proc' = k \/ proc' = [k EXCEPT ![p][std] = fd]
    BY <1>4 DEF change_std
  <2>2. \A q \in Kids : k[q] = proc[q] /\ ProcsShaped(k)
    BY <1>0 DEF IInv, ProcsShaped, Fields
  <2> HIDE DEF k, p
  <2>3. \A q \in Kids : proc'[q].pc = proc[q].pc
    <3>1. CASE proc' = k
      BY <3>1, <2>2
    <3>2. CASE proc' = [k EXCEPT ![p][std] = fd]
      <4>1. \A q \in Kids : \A f \in Fields :
               proc'[q][f] = IF q = p /\ f = std THEN fd ELSE k[q][f]
        BY <3>2, <2>2, <1>0, <1>4 DEF ProcsShaped, Fields
      <4> QED BY <4>1, <2>2, <1>4 DEF Fields
    <3> QED BY <2>1, <3>1, <3>2
  <2>4. UNCHANGED <<pipes, sem, crossed>>
    BY <1>4 DEF change_std
  <2> QED BY <2>3, <2>4, <1>3
<1>5. CASE change_std("left", "stdout", new_pipe.w, "std_r")
  <2>1. PICK std : std = "stdout"
    OBVIOUS
  <2>2. change_std("left", std, new_pipe.w, "std_r")
    BY <2>1, <1>5
  <2> QED BY <2>1, <2>2, <1>4
<1>6. CASE change_std("right", "stdin", new_pipe.r, "close_r")
  <2>1. PICK std : std = "stdin"
    OBVIOUS
  <2>2. change_std("right", std, new_pipe.r, "close_r")
    BY <2>1, <1>6
  <2> QED BY <2>1, <2>2, <1>4
<1>7. CASE \/ proc[SHELL].pc = "close_r" /\ ShellCloses(new_pipe.r, "close_w")
           \/ proc[SHELL].pc = "close_w" /\ ShellCloses(new_pipe.w, "wait")
  BY <1>7, ShellClosesOrdered
<1>8. CASE /\ proc' = [proc EXCEPT ![SHELL].pc = "prompt"]
           /\ UNCHANGED <<pipes, fd_table, sem, new_pipe, crossed>>
  <2>1. \A q \in Kids : proc'[q] = proc[q]
    BY <1>0, <1>8 DEF IInv, ProcsShaped
  <2> QED BY <2>1, <1>3, <1>8
<1> QED BY <1>1, <1>2, <1>5, <1>6, <1>7, <1>8 DEF chekCommand

\* A call that does not move a byte.
LEMMA CallOrdered ==
  ASSUME IInv, OrderOK, NEW p \in Kids, UNCHANGED <<pipes, crossed, killed>>,
         \A s \in {DATA, FREE} : sem'[s].value = sem[s].value,
         NEW label \in {"run", "kbd", "put_q", "get_q"}, proc[p].pc \in {"run", "kbd"},
         \A q \in Kids : proc'[q].pc = IF q = p THEN label ELSE proc[q].pc
  PROVE  OrderOK'
<1>1. \A q \in Kids : proc'[q].pc = "get" <=> proc[q].pc = "get"
  OBVIOUS
<1>2. \A s \in Opened' : s \in Opened /\ pipes'[s].unread = pipes[s].unread
  BY DEF Opened
<1> QED BY <1>1, <1>2, OrderKept

LEMMA BlocksOrdered ==
  ASSUME IInv, OrderOK, NEW p \in Kids, NEW s \in {DATA, FREE}, NEW label \in {"put_q", "get_q"},
         NEW x, proc[p].pc = "run", Blocks(p, s, label, x), UNCHANGED <<crossed, killed>>
  PROVE  OrderOK'
<1>1. \A q \in Kids : proc'[q].pc = IF q = p THEN label ELSE proc[q].pc
  BY KidsAreProcs DEF IInv, ProcsShaped, Fields, Blocks
<1>2. \A t \in {DATA, FREE} : sem'[t].value = sem[t].value
  BY DEF IInv, SemsTyped, Blocks
<1> QED BY <1>1, <1>2, CallOrdered DEF Blocks

LEMMA OwnPipe ==
  ASSUME Linked, NEW p \in Kids
  PROVE  /\ CanWrite(p) => proc[p].pc = "run" /\ fd_table[proc[p].stdout].pipe \in Opened
         /\ CanRead(p) => proc[p].pc = "run" /\ fd_table[proc[p].stdin].pipe \in Opened
         /\ proc[p].pc \in InCall => proc[p].pipe \in Opened
<1>1. proc[p].pc \in Live =>
         /\ fd_table[new_pipe.r].pipe \in Opened /\ fd_table[new_pipe.w].pipe \in Opened
         /\ proc[p].stdin \in {STDIN, new_pipe.r} /\ proc[p].stdout \in {STDOUT, new_pipe.w}
  BY LivePipe DEF Linked, ChildrenOK
<1>2. CanWrite(p) => proc[p].pc = "run" /\ proc[p].stdout # STDOUT
  BY DEF CanWrite
<1>3. CanRead(p) => proc[p].pc = "run" /\ proc[p].stdin # STDIN
  BY DEF CanRead
<1>4. proc[p].pc \in InCall => proc[p].pipe \in Opened
  BY <1>1 DEF Linked, ChildrenOK, InCall, Live
<1> QED BY <1>1, <1>2, <1>3, <1>4 DEF Live

LEMMA WriteOrdered ==
  ASSUME IInv, Linked, OrderOK, NEW p \in Kids, pipe_write(p), UNCHANGED <<killed, crossed>>
  PROVE  OrderOK'
<1> DEFINE s == fd_table[proc[p].stdout].pipe
<1>1. CanWrite(p) => proc[p].pc = "run" /\ s \in Opened
  BY OwnPipe
<1>2. proc[p].pc = "put" => proc[p].pipe \in Opened
  BY OwnPipe DEF InCall
<1>3. ASSUME NEW t \in Opened, NEW k, Puts(k, p, t) PROVE OrderOK'
  BY <1>3, ByteOrdered
<1> HIDE DEF s
<1>4. CASE CanWrite(p) /\ Blocks(p, FREE, "put_q", s)
  BY <1>1, <1>4, BlocksOrdered
<1>5. CASE CanWrite(p) /\ sem[FREE].value > 0 /\ Put(Token(FREE), p, s)
  BY <1>1, <1>3, <1>5 DEF Puts
<1>6. CASE proc[p].pc = "put" /\ Put(Now, p, proc[p].pipe)
  BY <1>2, <1>3, <1>6 DEF Puts
<1> QED BY <1>4, <1>5, <1>6 DEF pipe_write, s

LEMMA ReadOrdered ==
  ASSUME IInv, Linked, OrderOK, NEW p \in Kids, pipe_read(p), UNCHANGED <<killed, crossed>>
  PROVE  OrderOK'
<1> DEFINE s == fd_table[proc[p].stdin].pipe
<1>1. CanRead(p) => proc[p].pc = "run" /\ s \in Opened
  BY OwnPipe
<1>2. proc[p].pc = "get" => proc[p].pipe \in Opened
  BY OwnPipe DEF InCall
<1>3. ASSUME NEW t \in Opened, NEW k, Takes(k, p, t) PROVE OrderOK'
  BY <1>3, ByteOrdered
<1> HIDE DEF s
<1>4. CASE CanRead(p) /\ Blocks(p, DATA, "get_q", s)
  BY <1>1, <1>4, BlocksOrdered
<1>5. CASE CanRead(p) /\ sem[DATA].value > 0 /\ Get(Token(DATA), p, s)
  BY <1>1, <1>3, <1>5 DEF Takes
<1>6. CASE proc[p].pc = "get" /\ Get(Now, p, proc[p].pipe)
  BY <1>2, <1>3, <1>6 DEF Takes
<1> QED BY <1>4, <1>5, <1>6 DEF pipe_read, s

LEMMA KeyboardOrdered ==
  ASSUME IInv, OrderOK, NEW p \in Kids, read_keyboard(p), UNCHANGED <<killed, crossed>>
  PROVE  OrderOK'
<1>1. PICK label \in {"run", "kbd"} :
        /\ proc[p].pc \in {"run", "kbd"} /\ proc' = [proc EXCEPT ![p].pc = label]
        /\ UNCHANGED <<pipes, sem>>
  BY DEF read_keyboard
<1>2. \A q \in Kids : proc'[q].pc = IF q = p THEN label ELSE proc[q].pc
  BY <1>1, KidsAreProcs DEF IInv, ProcsShaped, Fields
<1> QED BY <1>1, <1>2, CallOrdered

LEMMA NextOrdered == IInv /\ Linked /\ OrderOK /\ [Next]_vars => OrderOK'
<1> SUFFICES ASSUME IInv, Linked, OrderOK, [Next]_vars PROVE OrderOK'
  OBVIOUS
<1>1. ASSUME NEW p \in Kids, exit_process(p) PROVE OrderOK'
  BY <1>1, ExitOrdered
<1>2. ASSUME NEW p \in Kids, Kill(p) PROVE OrderOK'
  BY <1>2 DEF Kill, OrderOK, Opened
<1>3. ASSUME NEW p \in Kids, pipe_write(p), UNCHANGED <<fd_table, new_pipe, killed, crossed>> PROVE OrderOK'
  BY <1>3, WriteOrdered
<1>4. ASSUME NEW p \in Kids, pipe_read(p), UNCHANGED <<fd_table, new_pipe, killed, crossed>> PROVE OrderOK'
  BY <1>4, ReadOrdered
<1>5. ASSUME NEW p \in Kids, read_keyboard(p), UNCHANGED <<fd_table, new_pipe, killed, crossed>> PROVE OrderOK'
  BY <1>5, KeyboardOrdered
<1>6. CASE chekCommand /\ UNCHANGED killed
  BY <1>6, chekCommandOrdered
<1>7. CASE UNCHANGED vars
  BY <1>7 DEF vars, OrderOK, Opened, Readable, Gets
<1> QED BY <1>1, <1>2, <1>3, <1>4, <1>5, <1>6, <1>7 DEF Next

LEMMA OrderIsSafe == IInv /\ OrderOK => InOrder
<1> SUFFICES ASSUME IInv, OrderOK, ~crossed, ~killed, NEW s \in Opened
             PROVE  pipes[s].unread \in 0..BUFFER_SIZE
  BY DEF InOrder
<1>1. pipes[s].unread = Readable(sem, proc) /\ sem[FREE].value # -1
  BY DEF OrderOK
<1>2. /\ sem[FREE].value >= 0 /\ sem[DATA].value >= 0
      /\ sem[FREE].value \in Int /\ sem[DATA].value \in Int
  BY <1>1 DEF IInv, SemsTyped
<1>3. sem[DATA].value + sem[FREE].value + Cardinality(Hand(proc)) = BUFFER_SIZE
  <2>1. InHand = Cardinality(Hand(proc))
    BY DEF InHand, Hand
  <2> QED BY <2>1, <1>1 DEF IInv, TokensKept
<1>4. /\ Cardinality(Gets(proc)) \in Nat /\ Cardinality(Hand(proc)) \in Nat
      /\ Cardinality(Gets(proc)) <= Cardinality(Hand(proc))
  BY GetsFinite, HandFinite
<1>5. BUFFER_SIZE \in Nat
  BY PipeAssumption
<1> QED BY <1>1, <1>2, <1>3, <1>4, <1>5 DEF Readable

LEMMA InitOrdered == ASSUME Init PROVE OrderOK
BY DEF Init, OrderOK, Opened

-----------------------------------------------------------------------------
\* Whatever a process can still close, read or write is there: no order of closes,
\* exits and kills frees a pipe under one who holds an end of it or is in a call on it
\* (pipe.c, pipe_close; process.c, exit_process).
THEOREM NothingDangles == Spec => []NoDangling
<1>1. Init => IInv /\ Linked
  BY InitTokens, InitLinks
<1>2. (IInv /\ Linked) /\ [Next]_vars => (IInv /\ Linked)'
  BY NextTokens, NextLinks
<1>3. IInv /\ Linked => NoDangling
  BY LinkedIsSafe
<1> QED BY <1>1, <1>2, <1>3, PTL DEF Spec

\* read_open and write_open count the processes that hold an end, and as long as
\* nobody is killed the pipe goes with the last of them (pipe.c, pipe_accses and
\* pipe_close).
THEOREM HoldersAreCounted == Spec => []CountsExact
<1>1. Init => IInv /\ Linked
  BY InitTokens, InitLinks
<1>2. (IInv /\ Linked) /\ [Next]_vars => (IInv /\ Linked)'
  BY NextTokens, NextLinks
<1>3. IInv /\ Linked => CountsExact
  BY LinkedIsSafe
<1> QED BY <1>1, <1>2, <1>3, PTL DEF Spec

\* A pipe whose semaphores only it has used never has more than BUFFER_SIZE bytes
\* unread nor less than none, so that every byte is read once and none is written over
\* (pipe.c, pipe_write and pipe_read), as long as nobody is killed.
THEOREM BytesInOrder == Spec => []InOrder
<1>1. Init => IInv /\ Linked /\ OrderOK
  BY InitTokens, InitLinks, InitOrdered
<1>2. (IInv /\ Linked /\ OrderOK) /\ [Next]_vars => (IInv /\ Linked /\ OrderOK)'
  BY NextTokens, NextLinks, NextOrdered
<1>3. IInv /\ Linked /\ OrderOK => InOrder
  BY OrderIsSafe
<1> QED BY <1>1, <1>2, <1>3, PTL DEF Spec

=============================================================================
