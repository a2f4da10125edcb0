-------------------------------- MODULE Heap --------------------------------
(***************************************************************************)
(* What mm_malloc and mm_free promise, whichever manager is behind them:   *)
(* the memory given to a program is inside the heap and is nobody else's   *)
(* until it is freed.                                                      *)
(***************************************************************************)
EXTENDS Integers

CONSTANT TOTAL  \* the size of the heap

VARIABLE live   \* the memory in use: a function from its pointers to its sizes

Overlap(p, n, q, m) == p < q + m /\ q < p + n

Init == live = [p \in {} |-> 0]

\* A failed allocation changes nothing.
Malloc(p, n) ==
    /\ p + n <= TOTAL
    /\ \A q \in DOMAIN live : ~Overlap(p, n, q, live[q])
    /\ live' = [q \in DOMAIN live \cup {p} |-> IF q = p THEN n ELSE live[q]]

Free(p) == live' = [q \in DOMAIN live \ {p} |-> live[q]]

Next == \/ \E p \in 0..TOTAL, n \in 1..TOTAL : Malloc(p, n)
        \/ \E p \in DOMAIN live : Free(p)

Spec == Init /\ [][Next]_live

\* No two blocks in use share a byte, and none leaves the heap.
Exclusive ==
    /\ \A p \in DOMAIN live : p + live[p] <= TOTAL
    /\ \A p, q \in DOMAIN live : p # q => ~Overlap(p, live[p], q, live[q])
=============================================================================
