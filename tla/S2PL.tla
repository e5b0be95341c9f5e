-------------------------------- MODULE S2PL --------------------------------
(***************************************************************************)
(* Strong two-phase locking of 1101_s2pl/s2pl.cc.                          *)
(*                                                                         *)
(* Every thread runs one transaction: it draws MAX_OPERATION object ids,   *)
(* sorts them, locks them in that order (growing phase), runs task_alpha   *)
(* MAX_OPERATION times and unlocks the ids (shrinking phase).  The code    *)
(* passes the loop index, not the drawn id, to task_alpha (50), and the    *)
(* shrinking phase unlocks an id drawn twice as often as it was drawn,     *)
(* while the growing phase locked it once.                                 *)
(*                                                                         *)
(* The value of an object is modelled by the number of modifications it    *)
(* reflects: comp adds a random amount, here 1.                            *)
(***************************************************************************)
EXTENDS Integers, Sequences

CONSTANTS
    Threads,        \* the threads main creates
    MAX_OBJ,        \* number of objects
    MAX_OPERATION,  \* ids a transaction draws
    Nobody          \* the owner of a free mutex

ASSUME ConstantsAssumption ==
    /\ MAX_OBJ \in Nat \ {0}
    /\ MAX_OPERATION \in 1 .. MAX_OBJ
    /\ Nobody \notin Threads

Objects == 0 .. (MAX_OBJ - 1)
Ops     == 1 .. MAX_OPERATION

VARIABLES
    mutex,    \* mutex[o]: who has locked object o
    val,      \* val[o]: the modifications its value reflects
    pc,       \* pc[t]: the phase thread t is in
    access,   \* access[t]: the ids it drew, sorted
    i,        \* i[t]: the operation its current loop is at
    read,     \* read[t]: the local val of task_alpha
    updates   \* history: updates[o], the calls of task_alpha(o) that returned

vars == <<mutex, val, pc, access, i, read, updates>>

\* Fault: the ids are not sorted.
UnsortedDraws == [Ops -> Objects]

\* The ids after my_sort.
SortedDraws == {a \in [Ops -> Objects] : \A j, k \in Ops : j < k => a[j] <= a[k]}

Init ==
    /\ mutex = [o \in Objects |-> Nobody]
    /\ val = [o \in Objects |-> 0]
    /\ pc = [t \in Threads |-> "draw"]
    /\ access = [t \in Threads |-> <<>>]
    /\ i = [t \in Threads |-> 1]
    /\ read = [t \in Threads |-> 0]
    /\ updates = [o \in Objects |-> 0]

-----------------------------------------------------------------------------
Draw(t) ==
    /\ pc[t] = "draw"
    /\ \E a \in SortedDraws : access' = [access EXCEPT ![t] = a]
    /\ pc' = [pc EXCEPT ![t] = "grow"]
    /\ UNCHANGED <<mutex, val, i, read, updates>>

\* "if(access[i] == prev)": the id was locked by the operation before.
SameAsPrev(t) == i[t] > 1 /\ access[t][i[t]] = access[t][i[t] - 1]

\* Fault: a loop runs once too often.
NextOpPastEnd(t, phase, next) ==
    IF i[t] <= MAX_OPERATION
    THEN i' = [i EXCEPT ![t] = @ + 1] /\ pc' = [pc EXCEPT ![t] = phase]
    ELSE i' = [i EXCEPT ![t] = 1]     /\ pc' = [pc EXCEPT ![t] = next]

\* After its last operation a loop starts the next phase.
NextOp(t, phase, next) ==
    IF i[t] < MAX_OPERATION
    THEN i' = [i EXCEPT ![t] = @ + 1] /\ pc' = [pc EXCEPT ![t] = phase]
    ELSE i' = [i EXCEPT ![t] = 1]     /\ pc' = [pc EXCEPT ![t] = next]

SkipDuplicate(t) ==
    /\ pc[t] = "grow"
    /\ SameAsPrev(t)
    /\ NextOp(t, "grow", "read")
    /\ UNCHANGED <<mutex, val, access, read, updates>>

\* Fault: a busy mutex is taken as if it were free.
LockUnchecked(t) ==
    /\ pc[t] = "grow"
    /\ ~SameAsPrev(t)
    /\ mutex' = [mutex EXCEPT ![access[t][i[t]]] = t]
    /\ NextOp(t, "grow", "read")
    /\ UNCHANGED <<val, access, read, updates>>

Lock(t) ==
    /\ pc[t] = "grow"
    /\ ~SameAsPrev(t)
    /\ mutex[access[t][i[t]]] = Nobody
    /\ mutex' = [mutex EXCEPT ![access[t][i[t]]] = t]
    /\ NextOp(t, "grow", "read")
    /\ UNCHANGED <<val, access, read, updates>>

\* task_alpha(i) works on the object numbered by the loop index.
Target(t) == i[t] - 1

TaskRead(t) ==
    /\ pc[t] = "read"
    /\ read' = [read EXCEPT ![t] = val[Target(t)]]
    /\ pc' = [pc EXCEPT ![t] = "write"]
    /\ UNCHANGED <<mutex, val, access, i, updates>>

TaskWrite(t) ==
    /\ pc[t] = "write"
    /\ val' = [val EXCEPT ![Target(t)] = read[t] + 1]
    /\ updates' = [updates EXCEPT ![Target(t)] = @ + 1]
    /\ read' = [read EXCEPT ![t] = 0]
    /\ NextOp(t, "read", "shrink")
    /\ UNCHANGED <<mutex, access>>

\* Fault: the loop index is unlocked, not the id drawn.
UnlockIndex(t) ==
    /\ pc[t] = "shrink"
    /\ mutex' = [mutex EXCEPT ![Target(t)] = Nobody]
    /\ NextOp(t, "shrink", "done")
    /\ UNCHANGED <<val, access, read, updates>>

\* pthread_mutex_unlock on a default mutex does not look at the owner: glibc
\* frees the mutex, whoever holds it, and returns 0.
Unlock(t) ==
    /\ pc[t] = "shrink"
    /\ mutex' = [mutex EXCEPT ![access[t][i[t]]] = Nobody]
    /\ NextOp(t, "shrink", "done")
    /\ UNCHANGED <<val, access, read, updates>>

\* main has joined every thread.
Terminated ==
    /\ \A t \in Threads : pc[t] = "done"
    /\ UNCHANGED vars

Step(t) ==
    \/ Draw(t) \/ SkipDuplicate(t) \/ Lock(t)
    \/ TaskRead(t) \/ TaskWrite(t) \/ Unlock(t)

Next == (\E t \in Threads : Step(t)) \/ Terminated

Spec == Init /\ [][Next]_vars

\* A thread that can run is eventually scheduled.
FairSpec == Spec /\ \A t \in Threads : WF_vars(Step(t))

-----------------------------------------------------------------------------
TypeOK ==
    /\ mutex \in [Objects -> Threads \cup {Nobody}]
    /\ val \in [Objects -> Nat]
    /\ pc \in [Threads -> {"draw", "grow", "read", "write", "shrink", "done"}]
    /\ access \in [Threads -> SortedDraws \cup {<<>>}]
    /\ \A t \in Threads : pc[t] # "draw" => access[t] \in SortedDraws
    /\ i \in [Threads -> Ops]
    /\ read \in [Threads -> Nat]
    /\ updates \in [Objects -> Nat]

\* The operations of t whose id t has locked and not yet unlocked.
LockedOps(t) ==
    CASE pc[t] = "grow"              -> 1 .. (i[t] - 1)
      [] pc[t] \in {"read", "write"} -> Ops
      [] pc[t] = "shrink"            -> i[t] .. MAX_OPERATION
      [] OTHER                       -> {}

HasDuplicate(t) == \E j, k \in Ops : j # k /\ access[t][j] = access[t][k]

NoDuplicates == \A t \in Threads : pc[t] # "draw" => ~HasDuplicate(t)

\* As long as no thread has drawn an id twice, the two phases do what they
\* are for: a thread owns every id from its lock to its unlock, and nobody
\* owns an id without being between the two (s2pl.cc:40-47, 54-56).
TwoPhaseLocking ==
    NoDuplicates =>
        \A t \in Threads, o \in Objects :
            mutex[o] = t <=> \E j \in LockedOps(t) : access[t][j] = o

\* Even with ids drawn twice, a mutex taken is one its owner asked for and
\* will still unlock: every mutex is free when the threads are done.
OwnerWillUnlock ==
    \A t \in Threads, o \in Objects :
        mutex[o] = t => \E j \in LockedOps(t) : access[t][j] = o

\* The sorted order excludes a deadlock: every thread commits.
AllCommit == <>(\A t \in Threads : pc[t] = "done")

\* "Read modify write" (lib.cc:24): no modification is lost.
NoLostUpdate == \A o \in Objects : val[o] = updates[o]
=============================================================================
