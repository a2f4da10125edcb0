-------------------------- MODULE SemaphoreProofs --------------------------
(***************************************************************************)
(* Theorems on Semaphore, for every size of the table and of the queue,    *)
(* every number of tokens and every set of calls.                          *)
(***************************************************************************)
EXTENDS Semaphore, FiniteSetTheorems, SequenceTheorems, WellFoundedInduction, TLAPS

Idle == inside = {} /\ \A p \in Pids : at[p] # "sem"

\* The properties need one another: NoIdleToken after a post comes from WaiterQueued,
\* and both, after a sem_open, from a semaphore that nobody uses while it is closed.
IInv ==
    /\ TypeOK /\ Exclusion /\ WaiterQueued /\ NoIdleToken
    /\ IsOpen \/ Idle

LEMMA MinProperties ==
  ASSUME NEW S \in SUBSET Nat, S # {}
  PROVE  Min(S) \in S /\ \A x \in S : Min(S) <= x
<1>1. PICK m \in S : \A y \in S : ~(<<y, m>> \in OpToRel(<, Nat))
  BY NatLessThanWellFounded, WFMin, Zenon
<1>2. ASSUME NEW y \in S PROVE m <= y
  <2>1. <<y, m>> \in {ss \in Nat \X Nat : ss[1] < ss[2]} <=> y < m
    OBVIOUS
  <2>2. ~(y < m)
    BY <1>1, <2>1 DEF OpToRel
  <2> QED BY <2>2
<1> QED BY <1>2 DEF Min

LEMMA InsideFinite ==
  ASSUME NEW S \in SUBSET Pids
  PROVE  IsFiniteSet(S) /\ Cardinality(S) \in Nat
<1>1. IsFiniteSet(Pids)
  BY SemaphoreAssumption, FS_Interval DEF Pids
<1> QED BY <1>1, FS_Subset, FS_CardinalityType

LEMMA WaitingType ==
  ASSUME TypeOK
  PROVE  /\ Len(sem.waiting) \in Nat /\ DOMAIN sem.waiting = 1..Len(sem.waiting)
         /\ \A i \in DOMAIN sem.waiting : sem.waiting[i] \in Pids
         /\ Living \subseteq DOMAIN sem.waiting
BY DEF TypeOK, Living

\* Nobody is found in the queue: nobody waits, and the value grows.
LEMMA PostsNobody ==
  ASSUME IInv, IsOpen, NEW in \in SUBSET inside, NEW t \in 0..MaxTokens,
         sem.value + Cardinality(in) + 1 <= t, Posts(in), tokens' = t, Living = {}
  PROVE  IInv'
<1>1. /\ sem' = [value |-> sem.value + 1, waiting |-> <<>>]
      /\ state' = state /\ at' = at /\ inside' = in
  <2>1. state \in [Pids -> {"none", "ready", "blocked"}] /\ at \in [Pids -> {"user", "sem", "other"}]
    BY DEF IInv, TypeOK
  <2>2. sem' = [value |-> sem.value + 1, waiting |-> <<>>] /\ Unblocks({}, in)
    BY DEF Posts
  <2> QED BY <2>1, <2>2 DEF Unblocks
<1>2. \A p \in Pids : at[p] # "sem"
  BY DEF IInv, WaiterQueued, Living, Exists
<1>3. sem.value \in 0..MaxTokens /\ Cardinality(in) \in Nat /\ inside \subseteq Pids
  BY InsideFinite DEF IInv, TypeOK, IsOpen
<1>4. TypeOK'
  BY <1>1, <1>3, SemaphoreAssumption DEF IInv, TypeOK
<1>5. Exclusion' /\ IsOpen'
  BY <1>1, <1>3 DEF Exclusion, IsOpen
<1> QED BY <1>1, <1>2, <1>4, <1>5 DEF IInv, WaiterQueued, NoIdleToken

\* The first process in the queue is unblocked; the entries behind it stay.
LEMMA PostsFirst ==
  ASSUME IInv, IsOpen, NEW in \in SUBSET inside, NEW t \in 0..MaxTokens,
         sem.value + Cardinality(in) + 1 <= t, Posts(in), tokens' = t, Living # {}
  PROVE  IInv'
<1> DEFINE i == Min(Living)
           w == sem.waiting
           q == w[i]
           up == {p \in {q} : p \in Pids /\ state[p] = "blocked"}
           n == Len(w)
<1>1. TypeOK /\ WaiterQueued /\ NoIdleToken /\ Exclusion
  BY DEF IInv
<1>2. n \in Nat /\ DOMAIN w = 1..n /\ w \in Seq(Pids) /\ n <= MAX_PROCESSES /\ \A j \in 1..n : w[j] \in Pids
  BY <1>1, WaitingType DEF TypeOK
<1>3. i \in 1..n /\ q \in Pids /\ \A j \in Living : i <= j
  BY <1>1, <1>2, WaitingType, MinProperties
<1>4. sem' = [sem EXCEPT !.waiting = SubSeq(@, i + 1, Len(@))] /\ Unblocks({q}, in)
  BY DEF Posts
<1>5. /\ state' = [p \in Pids |-> IF p \in up THEN "ready" ELSE state[p]]
      /\ at' = [p \in Pids |-> IF p \in up THEN "user" ELSE at[p]]
      /\ inside' = in \cup {p \in up : at[p] = "sem"}
  BY <1>4 DEF Unblocks
<1>6. sem' = [value |-> sem.value, waiting |-> SubSeq(w, i + 1, n)]
  BY <1>1, <1>4 DEF TypeOK
<1>7. /\ SubSeq(w, i + 1, n) \in Seq(Pids) /\ Len(SubSeq(w, i + 1, n)) = n - i
      /\ \A j \in 1 .. n - i : SubSeq(w, i + 1, n)[j] = w[i + j]
  <2>1. i + 1 \in Int /\ n \in Int /\ \A j \in i + 1 .. n : w[j] \in Pids
    BY <1>2, <1>3
  <2> QED BY <2>1, <1>2, <1>3, SubSeqProperties
<1> HIDE DEF i, q, up
<1>8. up \subseteq {q}
  BY DEF up
<1>9. inside' \subseteq Pids /\ Cardinality(inside') <= Cardinality(in) + 1
  <2>1. inside \subseteq Pids
    BY <1>1 DEF TypeOK
  <2>2. IsFiniteSet(in) /\ Cardinality(in) \in Nat
    BY <2>1, InsideFinite
  <2>3. inside' \subseteq in \cup {q}
    BY <1>5, <1>8
  <2>4. IsFiniteSet(in \cup {q}) /\ Cardinality(in \cup {q}) <= Cardinality(in) + 1
    BY <2>2, FS_AddElement
  <2>5. inside' \subseteq Pids
    BY <2>1, <2>3, <1>3
  <2>6. Cardinality(inside') <= Cardinality(in \cup {q})
    BY <2>3, <2>4, FS_Subset
  <2>7. Cardinality(inside') \in Nat /\ Cardinality(in \cup {q}) \in Nat
    BY <2>4, <2>5, InsideFinite, FS_CardinalityType
  <2> QED BY <2>2, <2>4, <2>5, <2>6, <2>7
<1>10. TypeOK'
  <2>1. sem' \in [value : -1..MaxTokens, waiting : Seq(Pids)] /\ Len(sem'.waiting) <= MAX_PROCESSES
    BY <1>1, <1>2, <1>3, <1>6, <1>7, SemaphoreAssumption DEF TypeOK
  <2> QED BY <1>1, <1>5, <1>9, <2>1 DEF TypeOK
<1>11. Exclusion' /\ IsOpen'
  <2>1. Cardinality(in) \in Nat /\ Cardinality(inside') \in Nat /\ sem.value \in 0..MaxTokens
    BY <1>1, <1>9, InsideFinite DEF TypeOK, IsOpen
  <2> QED BY <1>6, <1>9, <2>1 DEF Exclusion, IsOpen
<1>12. WaiterQueued'
  <2> SUFFICES ASSUME NEW p \in Pids, at'[p] = "sem"
               PROVE  state'[p] = "blocked" /\ \E j \in DOMAIN sem'.waiting : sem'.waiting[j] = p
    BY DEF WaiterQueued
  <2>1. p \notin up /\ at[p] = "sem" /\ state'[p] = state[p]
    BY <1>5
  <2>2. PICK j \in DOMAIN w : w[j] = p
    BY <1>1, <2>1 DEF WaiterQueued
  <2>3. state[p] = "blocked" /\ j \in Living
    BY <1>1, <2>1, <2>2 DEF WaiterQueued, Living, Exists
  <2>4. j # i
    BY <2>1, <2>2, <2>3 DEF up, q
  <2>5. j - i \in 1 .. n - i /\ i + (j - i) = j
    BY <1>2, <1>3, <2>2, <2>3, <2>4
  <2>6. sem'.waiting[j - i] = p /\ j - i \in DOMAIN sem'.waiting
    BY <1>6, <1>7, <2>2, <2>5
  <2> QED BY <2>1, <2>3, <2>6
<1>13. NoIdleToken'
  BY <1>1, <1>5, <1>6 DEF NoIdleToken
<1> QED BY <1>10, <1>11, <1>12, <1>13 DEF IInv

LEMMA PostsInv ==
  ASSUME IInv, IsOpen, NEW in \in SUBSET inside, NEW t \in 0..MaxTokens,
         sem.value + Cardinality(in) + 1 <= t, Posts(in), tokens' = t
  PROVE  IInv'
BY PostsNobody, PostsFirst

-----------------------------------------------------------------------------
(* One lemma per call or event.                                            *)

LEMMA OpenInv == ASSUME IInv, NEW p \in Pids, NEW v \in Values, sem_open(p, v) PROVE IInv'
<1>1. CASE IsOpen
  BY <1>1 DEF sem_open, Unchanged, IInv, TypeOK, Exclusion, WaiterQueued, NoIdleToken, IsOpen, Idle
<1>2. CASE ~IsOpen
  <2>1. /\ sem' = [value |-> v, waiting |-> <<>>] /\ tokens' = v
        /\ UNCHANGED <<state, at, inside>> /\ inside = {} /\ \A q \in Pids : at[q] # "sem"
    BY <1>2 DEF sem_open, Unchanged, IInv, Idle
  <2>2. v \in 0..MaxTokens /\ Cardinality({}) = 0
    BY SemaphoreAssumption, FS_EmptySet
  <2>3. TypeOK'
    BY <2>1, <2>2, SemaphoreAssumption DEF IInv, TypeOK
  <2>4. Exclusion' /\ IsOpen'
    BY <2>1, <2>2 DEF Exclusion, IsOpen
  <2> QED BY <2>1, <2>3, <2>4 DEF IInv, WaiterQueued, NoIdleToken
<1> QED BY <1>1, <1>2

LEMMA WaitInv == ASSUME IInv, NEW p \in Pids, sem_wait(p) PROVE IInv'
<1>1. /\ TypeOK /\ Exclusion /\ WaiterQueued /\ NoIdleToken
      /\ Program(p, "wait") /\ p \notin inside /\ tokens' = tokens
  BY DEF IInv, sem_wait
<1>2. CASE UNCHANGED sem /\ Unchanged
  BY <1>1, <1>2 DEF Unchanged, IInv, TypeOK, Exclusion, WaiterQueued, NoIdleToken, IsOpen, Idle
<1>3. CASE /\ IsOpen /\ sem.value # 0
           /\ sem' = [sem EXCEPT !.value = @ - 1]
           /\ inside' = inside \cup {p} /\ UNCHANGED <<state, at>>
  <2>1. sem' = [value |-> sem.value - 1, waiting |-> sem.waiting] /\ sem.value \in 1..MaxTokens
    BY <1>1, <1>3 DEF TypeOK, IsOpen
  <2>2. Cardinality(inside') = Cardinality(inside) + 1 /\ Cardinality(inside) \in Nat
    BY <1>1, <1>3, InsideFinite, FS_AddElement DEF TypeOK
  <2>3. TypeOK'
    <3>1. sem' \in [value : -1..MaxTokens, waiting : Seq(Pids)] /\ sem'.waiting = sem.waiting
      BY <1>1, <2>1, SemaphoreAssumption DEF TypeOK
    <3> QED BY <1>1, <1>3, <3>1 DEF TypeOK
  <2>4. Exclusion' /\ IsOpen'
    BY <1>1, <1>3, <2>1, <2>2 DEF Exclusion, IsOpen, TypeOK
  <2>5. WaiterQueued' /\ NoIdleToken'
    BY <1>1, <1>3, <2>1 DEF WaiterQueued, NoIdleToken
  <2> QED BY <2>3, <2>4, <2>5 DEF IInv
<1>4. CASE /\ sem.value = 0 /\ ~QueueFull
           /\ sem' = [sem EXCEPT !.waiting = Append(@, p)]
           /\ state' = [state EXCEPT ![p] = "blocked"]
           /\ at' = [at EXCEPT ![p] = "sem"] /\ UNCHANGED inside
  <2> DEFINE w == sem.waiting
  <2>1. sem' = [value |-> 0, waiting |-> Append(w, p)]
    BY <1>1, <1>4 DEF TypeOK
  <2>2. w \in Seq(Pids) /\ Len(w) \in Nat /\ DOMAIN w = 1..Len(w) /\ Len(w) < MAX_PROCESSES
    BY <1>1, <1>4, WaitingType, SemaphoreAssumption DEF TypeOK, QueueFull
  <2>3. /\ Append(w, p) \in Seq(Pids) /\ Len(Append(w, p)) = Len(w) + 1
        /\ \A i \in 1..Len(w) : Append(w, p)[i] = w[i]
        /\ Append(w, p)[Len(w) + 1] = p
        /\ DOMAIN Append(w, p) = 1..Len(w) + 1
    BY <2>2, AppendProperties, LenProperties
  <2>4. TypeOK'
    <3>1. /\ sem' \in [value : -1..MaxTokens, waiting : Seq(Pids)]
          /\ Len(sem'.waiting) <= MAX_PROCESSES
      BY <2>1, <2>2, <2>3, SemaphoreAssumption
    <3> QED BY <1>1, <1>4, <3>1 DEF TypeOK
  <2>5. Exclusion' /\ IsOpen'
    BY <1>1, <1>4, <2>1 DEF Exclusion, IsOpen
  <2>6. WaiterQueued'
    <3> SUFFICES ASSUME NEW q \in Pids, at'[q] = "sem"
                 PROVE  state'[q] = "blocked" /\ \E i \in DOMAIN sem'.waiting : sem'.waiting[i] = q
      BY DEF WaiterQueued
    <3>1. CASE q = p
      <4>1. Len(w) + 1 \in DOMAIN sem'.waiting /\ sem'.waiting[Len(w) + 1] = p
        BY <2>1, <2>2, <2>3
      <4> QED BY <1>1, <1>4, <3>1, <4>1 DEF TypeOK
    <3>2. CASE q # p
      <4>1. at[q] = "sem" /\ state'[q] = state[q]
        BY <1>1, <1>4, <3>2 DEF TypeOK
      <4>2. PICK i \in 1..Len(w) : w[i] = q
        BY <1>1, <2>2, <4>1 DEF WaiterQueued
      <4>3. i \in DOMAIN sem'.waiting /\ sem'.waiting[i] = q
        BY <2>1, <2>2, <2>3, <4>2
      <4> QED BY <1>1, <4>1, <4>3 DEF WaiterQueued
    <3> QED BY <3>1, <3>2
  <2>7. NoIdleToken'
    BY <2>1 DEF NoIdleToken
  <2> QED BY <2>4, <2>5, <2>6, <2>7 DEF IInv
<1> QED BY <1>2, <1>3, <1>4 DEF sem_wait

LEMMA LeaveInv == ASSUME IInv, NEW p \in Pids, Leave(p) PROVE IInv'
<1>1. /\ TypeOK /\ Exclusion /\ IsOpen /\ p \in inside /\ tokens' = tokens
      /\ Posts(inside \ {p})
  BY DEF IInv, Leave
<1>2. /\ Cardinality(inside \ {p}) = Cardinality(inside) - 1
      /\ Cardinality(inside) \in Nat
  BY <1>1, InsideFinite, FS_RemoveElement DEF TypeOK
<1>3. sem.value + Cardinality(inside \ {p}) + 1 <= tokens /\ tokens \in 0..MaxTokens
  BY <1>1, <1>2 DEF Exclusion, TypeOK
<1> QED BY <1>1, <1>3, PostsInv

LEMMA SignalInv == ASSUME IInv, Signal PROVE IInv'
<1>1. /\ TypeOK /\ Exclusion /\ IsOpen /\ tokens < MaxTokens /\ tokens' = tokens + 1
      /\ Posts(inside)
  BY DEF IInv, Signal
<1>2. Cardinality(inside) \in Nat /\ sem.value \in Int /\ tokens + 1 \in 0..MaxTokens
  BY <1>1, InsideFinite, SemaphoreAssumption DEF TypeOK
<1>3. sem.value + Cardinality(inside) + 1 <= tokens + 1
  BY <1>1, <1>2 DEF Exclusion, TypeOK
<1> QED BY <1>1, <1>2, <1>3, PostsInv

LEMMA ConsumeInv == ASSUME IInv, NEW p \in Pids, Consume(p) PROVE IInv'
<1>1. /\ TypeOK /\ Exclusion /\ p \in inside /\ inside' = inside \ {p} /\ tokens' = tokens - 1
      /\ UNCHANGED <<sem, state, at>> /\ IsOpen
  BY DEF IInv, Consume, Idle
<1>2. /\ Cardinality(inside') = Cardinality(inside) - 1
      /\ Cardinality(inside') \in Nat /\ Cardinality(inside) \in Nat
  BY <1>1, InsideFinite, FS_RemoveElement DEF TypeOK
<1>3. Exclusion' /\ IsOpen'
  BY <1>1, <1>2 DEF Exclusion, IsOpen, TypeOK
<1>4. TypeOK'
  <2>1. tokens - 1 \in 0..MaxTokens
    BY <1>1, <1>2, SemaphoreAssumption DEF TypeOK, Exclusion, IsOpen
  <2> QED BY <1>1, <2>1 DEF TypeOK
<1> QED BY <1>1, <1>3, <1>4 DEF IInv, WaiterQueued, NoIdleToken

LEMMA CloseInv == ASSUME IInv, NEW p \in Pids, sem_close(p) PROVE IInv'
<1>1. /\ TypeOK /\ inside = {} /\ (\A q \in Pids : at[q] # "sem")
      /\ sem' = [value |-> -1, waiting |-> <<>>] /\ tokens' = 0
  BY DEF IInv, sem_close
<1>2. PICK woken : Unblocks(woken, {})
  BY DEF sem_close
<1> DEFINE up == {q \in woken : q \in Pids /\ state[q] = "blocked"}
<1>3. /\ state' = [q \in Pids |-> IF q \in up THEN "ready" ELSE state[q]]
      /\ at' = [q \in Pids |-> IF q \in up THEN "user" ELSE at[q]]
      /\ inside' = {} \cup {q \in up : at[q] = "sem"}
  BY <1>2 DEF Unblocks
<1>4. inside' = {} /\ \A q \in Pids : at'[q] # "sem"
  BY <1>1, <1>3
<1>5. TypeOK'
  <2>1. /\ sem' \in [value : -1..MaxTokens, waiting : Seq(Pids)] /\ Len(sem'.waiting) <= MAX_PROCESSES
        /\ tokens' \in 0..MaxTokens
    BY <1>1, SemaphoreAssumption
  <2>2. /\ state' \in [Pids -> {"none", "ready", "blocked"}]
        /\ at' \in [Pids -> {"user", "sem", "other"}]
    BY <1>1, <1>3 DEF TypeOK
  <2> QED BY <1>4, <2>1, <2>2 DEF TypeOK
<1> QED BY <1>1, <1>4, <1>5 DEF IInv, Exclusion, WaiterQueued, NoIdleToken, IsOpen, Idle

\* A death leaves the pid in the queue, which nothing here forbids.
LEMMA KillInv == ASSUME IInv, NEW p \in Pids, Kill(p) PROVE IInv'
<1>1. /\ TypeOK /\ Exclusion /\ WaiterQueued /\ NoIdleToken
      /\ state' = [state EXCEPT ![p] = "none"] /\ at' = [at EXCEPT ![p] = "user"]
      /\ inside' = inside \ {p} /\ UNCHANGED sem
      /\ tokens' = IF p \in inside THEN tokens - 1 ELSE tokens
  BY DEF IInv, Kill
<1>2. /\ Cardinality(inside') = IF p \in inside THEN Cardinality(inside) - 1 ELSE Cardinality(inside)
      /\ Cardinality(inside') \in Nat /\ Cardinality(inside) \in Nat
  BY <1>1, InsideFinite, FS_RemoveElement DEF TypeOK
<1>3. IsOpen \/ p \notin inside
  BY DEF IInv, Idle
<1>4. Exclusion'
  BY <1>1, <1>2 DEF Exclusion, IsOpen, TypeOK
<1>5. TypeOK'
  <2>1. tokens' \in 0..MaxTokens
    BY <1>1, <1>2, <1>3, SemaphoreAssumption DEF TypeOK, Exclusion, IsOpen
  <2> QED BY <1>1, <2>1 DEF TypeOK
<1>6. \A q \in Pids : at'[q] = "sem" => at[q] = "sem" /\ state'[q] = state[q]
  BY <1>1 DEF TypeOK
<1> QED BY <1>1, <1>4, <1>5, <1>6 DEF IInv, WaiterQueued, NoIdleToken, IsOpen, Idle

\* The other events change neither the semaphore nor who is in it or waits for it.
LEMMA OthersInv ==
  ASSUME IInv, Create \/ \E p \in Pids : Away(p) \/ Back(p)
  PROVE  IInv'
<1>1. /\ TypeOK /\ WaiterQueued /\ UNCHANGED <<sem, inside, tokens>>
  BY DEF IInv, Create, Away, Back
<1>2. TypeOK' /\ \A q \in Pids : at'[q] = "sem" => at[q] = "sem" /\ state'[q] = state[q]
  BY <1>1 DEF Create, Away, Back, Program, TypeOK, WaiterQueued
<1> QED BY <1>1, <1>2 DEF IInv, Exclusion, WaiterQueued, NoIdleToken, IsOpen, Idle

-----------------------------------------------------------------------------

LEMMA InvariantHolds == Spec => []IInv
<1>1. Init => IInv
  <2> SUFFICES ASSUME Init PROVE IInv
    OBVIOUS
  <2>1. TypeOK
    BY SemaphoreAssumption DEF Init, TypeOK
  <2> QED BY <2>1 DEF Init, IInv, Exclusion, WaiterQueued, NoIdleToken, IsOpen, Idle
<1>2. IInv /\ [Next]_vars => IInv'
  <2> SUFFICES ASSUME IInv, [Next]_vars PROVE IInv'
    OBVIOUS
  <2>1. CASE UNCHANGED vars
    BY <2>1 DEF vars, IInv, TypeOK, Exclusion, WaiterQueued, NoIdleToken, IsOpen, Idle
  <2>2. CASE Next
    BY <2>2, OpenInv, WaitInv, LeaveInv, ConsumeInv, CloseInv, KillInv, SignalInv, OthersInv DEF Next
  <2> QED BY <2>1, <2>2
<1> QED BY <1>1, <1>2, PTL DEF Spec

\* The queue never has more entries than waiting[] has places and the value never
\* leaves its range, in every run of the semaphore.
THEOREM SemaphoreTypeOK == Spec => []TypeOK
<1>1. IInv => TypeOK
  BY DEF IInv
<1> QED BY <1>1, InvariantHolds, PTL

\* A semaphore never lets in more than it has tokens for, whoever is killed while
\* waiting or inside, and whoever gets the pid of a dead waiter and waits again.
THEOREM SemaphoreExclusion == Spec => []Exclusion
<1>1. IInv => Exclusion
  BY DEF IInv
<1> QED BY <1>1, InvariantHolds, PTL

\* No wakeup is lost: a process blocked in sem_wait is in the queue, where sem_post
\* looks.
THEOREM NoLostWakeup == Spec => []WaiterQueued
<1>1. IInv => WaiterQueued
  BY DEF IInv
<1> QED BY <1>1, InvariantHolds, PTL

\* sem_post never raises the value past a process that waits: nobody is blocked in
\* sem_wait while there is a token, though entries of dead processes come and go.
THEOREM NobodyWaitsForNothing == Spec => []NoIdleToken
<1>1. IInv => NoIdleToken
  BY DEF IInv
<1> QED BY <1>1, InvariantHolds, PTL

-----------------------------------------------------------------------------
(* A system in which nobody is killed.                                     *)

\* The queue then has each waiter once and nobody else, and a waiter has no token:
\* the first entry is that of a process that takes the token that is posted.
QueueExact ==
    NobodyDies =>
        /\ \A p \in Pids : state[p] # "none" /\ (at[p] = "sem" => p \notin inside)
        /\ \A i \in DOMAIN sem.waiting :
              /\ at[sem.waiting[i]] = "sem"
              /\ \A j \in DOMAIN sem.waiting : sem.waiting[i] = sem.waiting[j] => i = j

ExactInv == IInv /\ QueueExact /\ TokensConserved

\* The order of one step: nobody leaves the queue before those ahead of it.
InOrder ==
    \A p, q \in Pids : NobodyDies /\ at[p] = "sem" /\ at[q] = "sem" /\ Before(p, q) /\ at'[q] # "sem"
                       => at'[p] # "sem"

\* A post to an empty queue.
LEMMA ExactPostsNobody ==
  ASSUME IInv, QueueExact, NobodyDies, calls' = calls, NEW in \in SUBSET inside,
         Posts(in), sem.waiting = <<>>
  PROVE  /\ QueueExact' /\ InOrder
         /\ sem'.value + Cardinality(inside') = sem.value + Cardinality(in) + 1
<1>1. Living = {} /\ TypeOK
  BY DEF Living, IInv
<1>2. /\ sem' = [value |-> sem.value + 1, waiting |-> <<>>]
      /\ state' = state /\ at' = at /\ inside' = in
  <2>1. state \in [Pids -> {"none", "ready", "blocked"}] /\ at \in [Pids -> {"user", "sem", "other"}]
    BY <1>1 DEF TypeOK
  <2>2. sem' = [value |-> sem.value + 1, waiting |-> <<>>] /\ Unblocks({}, in)
    BY <1>1 DEF Posts
  <2> QED BY <2>1, <2>2 DEF Unblocks
<1>3. QueueExact'
  BY <1>2 DEF QueueExact, NobodyDies
<1>4. InOrder
  BY <1>2 DEF InOrder
<1>5. Cardinality(in) \in Nat /\ sem.value \in Int
  BY <1>1, InsideFinite DEF TypeOK
<1> QED BY <1>2, <1>3, <1>4, <1>5

\* A post to a queue with somebody in it: the first goes.
LEMMA ExactPostsFirst ==
  ASSUME IInv, QueueExact, NobodyDies, calls' = calls, NEW in \in SUBSET inside,
         Posts(in), sem.waiting # <<>>
  PROVE  /\ QueueExact' /\ InOrder
         /\ sem'.value + Cardinality(inside') = sem.value + Cardinality(in) + 1
<1> DEFINE w == sem.waiting
           n == Len(w)
           q == w[1]
           rest == SubSeq(w, 2, n)
<1>1. TypeOK /\ WaiterQueued
  BY DEF IInv
<1>2. n \in Nat \ {0} /\ DOMAIN w = 1..n /\ \A i \in 1..n : w[i] \in Pids
  <2>1. w \in Seq(Pids) /\ n \in Nat /\ DOMAIN w = 1..n /\ \A i \in 1..n : w[i] \in Pids
    BY <1>1, WaitingType DEF TypeOK
  <2> QED BY <2>1, EmptySeq
<1>3. \A i \in 1..n : at[w[i]] = "sem" /\ state[w[i]] = "blocked"
  BY <1>1, <1>2 DEF QueueExact, WaiterQueued
<1>4. Living = 1..n
  BY <1>2, <1>3 DEF Living, Exists
<1>5. Min(Living) = 1
  <2>1. Living \in SUBSET Nat /\ Living # {} /\ 1 \in Living
    BY <1>2, <1>4
  <2>2. Min(Living) \in Living /\ Min(Living) <= 1
    BY <2>1, MinProperties
  <2> QED BY <1>2, <1>4, <2>2
<1>6. sem' = [sem EXCEPT !.waiting = rest] /\ Unblocks({q}, in)
  <2>1. Living # {}
    BY <1>2, <1>4
  <2>2. sem' = [sem EXCEPT !.waiting = SubSeq(@, 1 + 1, Len(@))] /\ Unblocks({sem.waiting[1]}, in)
    BY <1>5, <2>1 DEF Posts
  <2> QED BY <2>2
<1>7. sem'.value = sem.value /\ sem'.waiting = rest
  BY <1>1, <1>6 DEF TypeOK
<1>8. Len(rest) = n - 1 /\ DOMAIN rest = 1..n - 1 /\ \A i \in 1..n - 1 : rest[i] = w[i + 1]
  <2>1. 2 \in Int /\ n \in Int /\ \A i \in 2 .. n : w[i] \in Pids
    BY <1>2
  <2>2. /\ rest \in Seq(Pids)
        /\ Len(rest) = IF 2 <= n THEN n - 2 + 1 ELSE 0
        /\ \A i \in 1..n - 2 + 1 : rest[i] = w[2 + i - 1]
    BY <2>1, SubSeqProperties
  <2> HIDE DEF rest, w, n
  <2>3. Len(rest) = n - 1 /\ n - 2 + 1 = n - 1 /\ \A i \in 1..n - 1 : 2 + i - 1 = i + 1
    BY <1>2, <2>2
  <2> QED BY <2>2, <2>3
<1>9. q \in Pids /\ state[q] = "blocked" /\ at[q] = "sem"
  BY <1>2, <1>3
<1>10. /\ state' = [p \in Pids |-> IF p = q THEN "ready" ELSE state[p]]
       /\ at' = [p \in Pids |-> IF p = q THEN "user" ELSE at[p]]
       /\ inside' = in \cup {q}
  <2> DEFINE up == {p \in {q} : p \in Pids /\ state[p] = "blocked"}
  <2>1. up = {q} /\ {p \in up : at[p] = "sem"} = {q}
    BY <1>9
  <2>2. /\ state' = [p \in Pids |-> IF p \in up THEN "ready" ELSE state[p]]
        /\ at' = [p \in Pids |-> IF p \in up THEN "user" ELSE at[p]]
        /\ inside' = in \cup {p \in up : at[p] = "sem"}
    BY <1>6 DEF Unblocks
  <2> QED BY <2>1, <2>2
<1> HIDE DEF rest, q, n, w
<1>11. \A i, j \in 1..n : w[i] = w[j] => i = j
  BY <1>2 DEF QueueExact, w
<1>12. QueueExact'
  <2>1. \A p \in Pids : state'[p] # "none" /\ (at'[p] = "sem" => p \notin inside')
    BY <1>10 DEF QueueExact
  <2>2. ASSUME NEW i \in 1..n - 1
        PROVE  at'[rest[i]] = "sem" /\ \A j \in 1..n - 1 : rest[i] = rest[j] => i = j
    <3>1. i + 1 \in 1..n /\ i + 1 # 1 /\ 1 \in 1..n /\ rest[i] = w[i + 1]
      BY <1>2, <1>8
    <3>2. w[i + 1] # q /\ w[i + 1] \in Pids /\ at[w[i + 1]] = "sem"
      BY <1>2, <1>3, <1>11, <3>1 DEF q
    <3>3. ASSUME NEW j \in 1..n - 1, rest[i] = rest[j] PROVE i = j
      <4>1. j + 1 \in 1..n /\ rest[j] = w[j + 1]
        BY <1>2, <1>8
      <4>2. i + 1 = j + 1
        BY <1>11, <3>1, <3>3, <4>1
      <4> QED BY <4>2, <1>2
    <3> QED BY <1>10, <3>1, <3>2, <3>3
  <2> QED BY <1>7, <1>8, <2>1, <2>2 DEF QueueExact
<1>13. InOrder
  <2> SUFFICES ASSUME NEW p \in Pids, NEW r \in Pids, Before(p, r), at[r] = "sem", at'[r] # "sem"
               PROVE  FALSE
    BY DEF InOrder
  <2>1. r = q
    BY <1>10
  <2>2. PICK i \in 1..n, j \in 1..n : i < j /\ w[j] = r
    BY <1>2 DEF Before, w
  <2>3. j = 1
    BY <1>2, <1>11, <2>1, <2>2 DEF q
  <2> QED BY <2>2, <2>3
<1>14. Cardinality(inside') = Cardinality(in) + 1
  <2>1. in \in SUBSET Pids /\ q \notin in
    BY <1>1, <1>9 DEF TypeOK, QueueExact
  <2> QED BY <1>10, <2>1, InsideFinite, FS_AddElement
<1>15. Cardinality(in) \in Nat /\ sem.value \in Int
  BY <1>1, InsideFinite DEF TypeOK
<1> QED BY <1>7, <1>12, <1>13, <1>14, <1>15

LEMMA ExactPosts ==
  ASSUME IInv, QueueExact, NobodyDies, calls' = calls, NEW in \in SUBSET inside, Posts(in)
  PROVE  /\ QueueExact' /\ InOrder
         /\ sem'.value + Cardinality(inside') = sem.value + Cardinality(in) + 1
BY ExactPostsNobody, ExactPostsFirst

Exact == QueueExact' /\ TokensConserved' /\ InOrder

LEMMA ExactWait ==
  ASSUME ExactInv, NobodyDies, NEW p \in Pids, sem_wait(p)
  PROVE  Exact
<1>1. /\ TypeOK /\ QueueExact /\ TokensConserved /\ WaiterQueued
      /\ state[p] = "ready" /\ at[p] # "sem" /\ p \notin inside
      /\ tokens' = tokens /\ calls' = calls
  BY DEF ExactInv, IInv, sem_wait, Program, WaiterQueued
<1>2. CASE UNCHANGED sem /\ Unchanged
  BY <1>1, <1>2 DEF Unchanged, Exact, QueueExact, TokensConserved, InOrder, NobodyDies, IsOpen
<1>3. CASE /\ IsOpen /\ sem.value # 0
           /\ sem' = [sem EXCEPT !.value = @ - 1]
           /\ inside' = inside \cup {p} /\ UNCHANGED <<state, at>>
  <2>1. sem' = [value |-> sem.value - 1, waiting |-> sem.waiting] /\ sem.value \in 1..MaxTokens
    BY <1>1, <1>3 DEF TypeOK, IsOpen
  <2>2. Cardinality(inside') = Cardinality(inside) + 1 /\ Cardinality(inside) \in Nat
    BY <1>1, <1>3, InsideFinite, FS_AddElement DEF TypeOK
  <2>3. TokensConserved'
    BY <1>1, <1>3, <2>1, <2>2 DEF TokensConserved, NobodyDies, IsOpen
  <2>4. QueueExact' /\ InOrder
    BY <1>1, <1>3, <2>1 DEF QueueExact, InOrder, NobodyDies
  <2> QED BY <2>3, <2>4 DEF Exact
<1>4. CASE /\ sem.value = 0 /\ ~QueueFull
           /\ sem' = [sem EXCEPT !.waiting = Append(@, p)]
           /\ state' = [state EXCEPT ![p] = "blocked"]
           /\ at' = [at EXCEPT ![p] = "sem"] /\ UNCHANGED inside
  <2> DEFINE w == sem.waiting
             n == Len(w)
             longer == Append(w, p)
  <2>1. sem' = [value |-> 0, waiting |-> longer]
    BY <1>1, <1>4 DEF TypeOK
  <2>2. w \in Seq(Pids) /\ n \in Nat /\ DOMAIN w = 1..n /\ \A i \in 1..n : w[i] \in Pids
    BY <1>1, WaitingType DEF TypeOK
  <2>3. /\ DOMAIN longer = 1..n + 1 /\ longer[n + 1] = p
        /\ \A i \in 1..n : longer[i] = w[i]
    BY <2>2, AppendProperties, LenProperties
  <2>4. /\ \A q \in Pids : state'[q] = IF q = p THEN "blocked" ELSE state[q]
        /\ \A q \in Pids : at'[q] = IF q = p THEN "sem" ELSE at[q]
    BY <1>1, <1>4 DEF TypeOK
  <2>5. \A i \in 1..n : w[i] # p /\ at[w[i]] = "sem" /\ \A j \in 1..n : w[i] = w[j] => i = j
    BY <1>1, <2>2 DEF QueueExact
  <2>6. TokensConserved' /\ InOrder
    BY <1>1, <1>4, <2>1, <2>4 DEF TokensConserved, InOrder, NobodyDies, IsOpen
  <2> HIDE DEF w, n, longer
  <2>7. ASSUME NEW i \in 1..n + 1
        PROVE  at'[longer[i]] = "sem" /\ \A j \in 1..n + 1 : longer[i] = longer[j] => i = j
    BY <2>2, <2>3, <2>4, <2>5
  <2>8. \A q \in Pids : state'[q] # "none" /\ (at'[q] = "sem" => q \notin inside')
    BY <1>1, <1>4, <2>4 DEF QueueExact
  <2>9. QueueExact'
    BY <2>1, <2>3, <2>7, <2>8 DEF QueueExact
  <2> QED BY <2>6, <2>9 DEF Exact
<1> QED BY <1>2, <1>3, <1>4 DEF sem_wait

LEMMA ExactPost ==
  ASSUME ExactInv, NobodyDies, Signal \/ \E p \in Pids : Leave(p)
  PROVE  Exact
<1>1. /\ IInv /\ TypeOK /\ QueueExact /\ TokensConserved /\ IsOpen /\ calls' = calls
  BY DEF ExactInv, IInv, Signal, Leave
<1>2. Cardinality(inside) \in Nat /\ sem.value \in Int /\ tokens \in Nat
      /\ sem.value + Cardinality(inside) = tokens
  BY <1>1, InsideFinite DEF TypeOK, TokensConserved
<1>3. CASE Signal
  <2>1. Posts(inside) /\ tokens' = tokens + 1 /\ inside \in SUBSET inside
    BY <1>3 DEF Signal
  <2>2. /\ QueueExact' /\ InOrder
        /\ sem'.value + Cardinality(inside') = sem.value + Cardinality(inside) + 1
    BY <1>1, <2>1, ExactPosts
  <2> QED BY <1>2, <2>1, <2>2 DEF Exact, TokensConserved
<1>4. ASSUME NEW p \in Pids, Leave(p) PROVE Exact
  <2>1. Posts(inside \ {p}) /\ tokens' = tokens /\ p \in inside /\ inside \ {p} \in SUBSET inside
    BY <1>4 DEF Leave
  <2>2. /\ QueueExact' /\ InOrder
        /\ sem'.value + Cardinality(inside') = sem.value + Cardinality(inside \ {p}) + 1
    BY <1>1, <2>1, ExactPosts
  <2>3. Cardinality(inside \ {p}) = Cardinality(inside) - 1
    BY <1>1, <2>1, InsideFinite, FS_RemoveElement DEF TypeOK
  <2> QED BY <1>2, <2>1, <2>2, <2>3 DEF Exact, TokensConserved
<1> QED BY <1>3, <1>4

LEMMA ExactOpen ==
  ASSUME ExactInv, NobodyDies, NEW p \in Pids, NEW v \in Values, sem_open(p, v)
  PROVE  Exact
<1>1. QueueExact /\ TokensConserved /\ Unchanged /\ calls' = calls
  BY DEF ExactInv, sem_open
<1>2. CASE IsOpen
  BY <1>1, <1>2 DEF sem_open, Unchanged, Exact, QueueExact, TokensConserved, InOrder, NobodyDies, IsOpen
<1>3. CASE ~IsOpen
  <2>1. /\ sem' = [value |-> v, waiting |-> <<>>] /\ tokens' = v /\ inside' = {}
    BY <1>1, <1>3 DEF sem_open, Unchanged, ExactInv, IInv, Idle
  <2>2. v \in Int /\ Cardinality({}) = 0
    BY SemaphoreAssumption, FS_EmptySet
  <2>3. TokensConserved'
    BY <2>1, <2>2 DEF TokensConserved
  <2> QED BY <1>1, <2>1, <2>3 DEF Exact, Unchanged, QueueExact, InOrder, NobodyDies
<1> QED BY <1>2, <1>3

LEMMA ExactConsume ==
  ASSUME ExactInv, NobodyDies, NEW p \in Pids, Consume(p)
  PROVE  Exact
<1>1. /\ TypeOK /\ QueueExact /\ TokensConserved /\ p \in inside
      /\ inside' = inside \ {p} /\ tokens' = tokens - 1 /\ UNCHANGED <<sem, state, at, calls>>
  BY DEF ExactInv, IInv, Consume
<1>2. /\ Cardinality(inside') = Cardinality(inside) - 1
      /\ Cardinality(inside) \in Nat /\ sem.value \in Int /\ tokens \in Int
  <2>1. IsFiniteSet(inside) /\ Cardinality(inside) \in Nat
    BY <1>1, InsideFinite DEF TypeOK
  <2>2. sem.value \in Int /\ tokens \in Int
    BY <1>1, SemaphoreAssumption DEF TypeOK
  <2> QED BY <1>1, <2>1, <2>2, FS_RemoveElement
<1>3. TokensConserved'
  BY <1>1, <1>2 DEF TokensConserved, NobodyDies, IsOpen
<1> QED BY <1>1, <1>3 DEF Exact, QueueExact, InOrder, NobodyDies

LEMMA ExactClose ==
  ASSUME ExactInv, NobodyDies, NEW p \in Pids, sem_close(p)
  PROVE  Exact
<1>1. /\ QueueExact /\ inside = {} /\ (\A q \in Pids : at[q] # "sem")
      /\ sem' = [value |-> -1, waiting |-> <<>>] /\ calls' = calls
  BY DEF ExactInv, sem_close
<1>2. PICK woken : Unblocks(woken, {})
  BY DEF sem_close
<1> DEFINE up == {q \in woken : q \in Pids /\ state[q] = "blocked"}
<1>3. /\ state' = [q \in Pids |-> IF q \in up THEN "ready" ELSE state[q]]
      /\ at' = [q \in Pids |-> IF q \in up THEN "user" ELSE at[q]]
  BY <1>2 DEF Unblocks
<1>4. TokensConserved'
  BY <1>1 DEF TokensConserved, IsOpen
<1> QED BY <1>1, <1>3, <1>4 DEF Exact, QueueExact, InOrder

\* A process goes to sleep or comes back: neither is in the queue.  There is no
\* place to create one in.
LEMMA ExactOthers ==
  ASSUME ExactInv, NobodyDies, Create \/ \E p \in Pids : Away(p) \/ Back(p)
  PROVE  Exact
<1>1. /\ TypeOK /\ WaiterQueued /\ QueueExact /\ TokensConserved
      /\ UNCHANGED <<sem, inside, tokens, calls>>
  BY DEF ExactInv, IInv, Create, Away, Back
<1>2. /\ \A q \in Pids : (at'[q] = "sem") <=> (at[q] = "sem")
      /\ \A q \in Pids : state[q] # "none" => state'[q] # "none"
  BY <1>1 DEF Create, Away, Back, Program, TypeOK, WaiterQueued
<1>3. \A i \in DOMAIN sem.waiting : sem.waiting[i] \in Pids
  BY <1>1, WaitingType
<1>4. TokensConserved' /\ InOrder
  BY <1>1, <1>2 DEF TokensConserved, InOrder, NobodyDies, IsOpen
<1>5. QueueExact'
  BY <1>1, <1>2, <1>3 DEF QueueExact, NobodyDies
<1> QED BY <1>4, <1>5 DEF Exact

LEMMA ExactStep == ASSUME ExactInv, Next PROVE Exact
<1>1. calls' = calls
  BY DEF Next, sem_open, sem_wait, Leave, Consume, sem_close, Kill, Away, Back, Signal, Create
<1>2. CASE ~NobodyDies
  BY <1>1, <1>2 DEF Exact, QueueExact, TokensConserved, InOrder, NobodyDies
<1>3. CASE NobodyDies
  <2>1. \A p \in Pids : ~Kill(p)
    BY <1>3 DEF Kill, NobodyDies
  <2> QED BY <1>3, <2>1, ExactWait, ExactPost, ExactOpen, ExactConsume, ExactClose, ExactOthers DEF Next
<1> QED BY <1>2, <1>3

LEMMA ExactHolds == Spec => []ExactInv
<1>1. Init => QueueExact /\ TokensConserved
  BY DEF Init, QueueExact, TokensConserved, IsOpen
<1>2. IInv /\ QueueExact /\ TokensConserved /\ [Next]_vars => (QueueExact /\ TokensConserved)'
  <2> SUFFICES ASSUME IInv, QueueExact, TokensConserved, [Next]_vars
               PROVE  (QueueExact /\ TokensConserved)'
    OBVIOUS
  <2>1. CASE UNCHANGED vars
    BY <2>1 DEF vars, QueueExact, TokensConserved, NobodyDies, IsOpen
  <2>2. CASE Next
    BY <2>2, ExactStep DEF ExactInv, Exact
  <2> QED BY <2>1, <2>2
<1>3. IInv /\ QueueExact /\ TokensConserved => ExactInv
  BY DEF ExactInv
<1> QED BY <1>1, <1>2, <1>3, InvariantHolds, PTL DEF Spec

\* A post gives its token to exactly one waiter or to the value: in a system without
\* kills none is lost, however processes wait, post, sleep, close and open again.
THEOREM NoTokenLost == Spec => []TokensConserved
<1>1. ExactInv => TokensConserved
  BY DEF ExactInv
<1> QED BY <1>1, ExactHolds, PTL

\* sem_wait is fair: nobody is let in before a process that waits for longer, for
\* any number of waiters (test_sync and the philosophers rely on it).
THEOREM ServedInOrder == Spec => FirstComeFirstServed
<1>1. ExactInv /\ [Next]_vars => [InOrder]_vars
  BY ExactStep DEF Exact
<1> QED BY <1>1, ExactHolds, PTL DEF Spec, FirstComeFirstServed, InOrder
=============================================================================
