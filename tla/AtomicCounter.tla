--------------------------- MODULE AtomicCounter ----------------------------
(***************************************************************************)
(* 1115_latch/counter_fetch_and_add.cc: NbThread threads add 1 to Counter  *)
(* NbLoop times each, atomically.  The counter with a latch implements it. *)
(***************************************************************************)
EXTENDS Integers

CONSTANTS
    Threads,  \* the NbThread threads
    NbLoop    \* increments of each

VARIABLES
    Counter,
    i        \* i[t]: the loop index of thread t

vars == <<Counter, i>>

Init ==
    /\ Counter = 0
    /\ i = [t \in Threads |-> 0]

\* atomic_fetch_add
Add(t) ==
    /\ i[t] < NbLoop
    /\ Counter' = Counter + 1
    /\ i' = [i EXCEPT ![t] = @ + 1]

Next == \E t \in Threads : Add(t)

Spec == Init /\ [][Next]_vars
=============================================================================
