---------------------------- MODULE LatchCounter ----------------------------
(***************************************************************************)
(* The counters of 1115_latch that take a latch around "Counter++":        *)
(*   counter_cas_lock.cc      a lock word, tested and then swapped ("cas"),*)
(*   counter_pthread_lock.cc  a pthread mutex ("pthread").                 *)
(* Both are built with -O0: Counter++ is a load followed by a store.       *)
(***************************************************************************)
EXTENDS Integers, FiniteSets

CONSTANTS
    Workers,  \* the NbThread threads
    NbLoop    \* increments of each

ASSUME LatchAssumption == NbLoop \in Nat \ {0}

UnlockBit == 0
LockBit   == 1

VARIABLES
    latch,   \* which of the two programs runs
    Counter,
    Mutex,   \* the lock word, or the state of the pthread mutex
    at,      \* at[t]: where thread t is
    loaded,  \* loaded[t]: the Counter it has loaded
    loop     \* loop[t]: its loop index

latchVars == <<latch, Counter, Mutex, at, loaded, loop>>

LatchInit ==
    /\ latch \in {"cas", "pthread"}
    /\ Counter = 0
    /\ Mutex = UnlockBit
    /\ at = [t \in Workers |-> "lock"]
    /\ loaded = [t \in Workers |-> 0]
    /\ loop = [t \in Workers |-> 0]

-----------------------------------------------------------------------------
Goto(t, from, to) ==
    /\ at[t] = from
    /\ at' = [at EXCEPT ![t] = to]
    /\ UNCHANGED latch

\* Fault: the result of the lock is not looked at.
PthreadLockUnchecked(t) ==
    /\ latch = "pthread"
    /\ Goto(t, "lock", "get")
    /\ Mutex' = LockBit
    /\ UNCHANGED <<Counter, loaded, loop>>

PthreadLock(t) ==
    /\ latch = "pthread"
    /\ Goto(t, "lock", "get")
    /\ Mutex = UnlockBit
    /\ Mutex' = LockBit
    /\ UNCHANGED <<Counter, loaded, loop>>

\* my_lock_core: a load that finds LockBit sleeps and is done again.
LoadMutex(t) ==
    /\ latch = "cas"
    /\ Goto(t, "lock", "cas")
    /\ Mutex = UnlockBit
    /\ UNCHANGED <<Counter, Mutex, loaded, loop>>

\* Fault: the lock word is stored, not compared and swapped.
StoreLockBit(t) ==
    /\ Goto(t, "cas", "get")
    /\ Mutex' = LockBit
    /\ UNCHANGED <<Counter, loaded, loop>>

CasSucceeds(t) ==
    /\ Goto(t, "cas", "get")
    /\ Mutex = UnlockBit
    /\ Mutex' = LockBit
    /\ UNCHANGED <<Counter, loaded, loop>>

\* Another thread has locked since the load: my_lock calls again.
CasFails(t) ==
    /\ Goto(t, "cas", "lock")
    /\ Mutex # UnlockBit
    /\ UNCHANGED <<Counter, Mutex, loaded, loop>>

LoadCounter(t) ==
    /\ Goto(t, "get", "put")
    /\ loaded' = [loaded EXCEPT ![t] = Counter]
    /\ UNCHANGED <<Counter, Mutex, loop>>

StoreCounter(t) ==
    /\ Goto(t, "put", "unlock")
    /\ Counter' = loaded[t] + 1
    /\ UNCHANGED <<Mutex, loaded, loop>>

\* Fault: the last release of a thread is left out.
UnlockButLast(t) ==
    /\ Goto(t, "unlock", IF loop[t] + 1 < NbLoop THEN "lock" ELSE "done")
    /\ Mutex' = IF loop[t] + 1 < NbLoop THEN UnlockBit ELSE LockBit
    /\ loop' = [loop EXCEPT ![t] = @ + 1]
    /\ UNCHANGED <<Counter, loaded>>

\* Fault: one round too many.
UnlockPastEnd(t) ==
    /\ Goto(t, "unlock", IF loop[t] < NbLoop THEN "lock" ELSE "done")
    /\ Mutex' = UnlockBit
    /\ loop' = [loop EXCEPT ![t] = @ + 1]
    /\ UNCHANGED <<Counter, loaded>>

MutexUnlock(t) ==
    /\ Goto(t, "unlock", IF loop[t] + 1 < NbLoop THEN "lock" ELSE "done")
    /\ Mutex' = UnlockBit
    /\ loop' = [loop EXCEPT ![t] = @ + 1]
    /\ UNCHANGED <<Counter, loaded>>

\* main has joined every thread.
LatchTerminated ==
    /\ \A t \in Workers : at[t] = "done"
    /\ UNCHANGED latchVars

LatchStep(t) ==
    \/ PthreadLock(t) \/ LoadMutex(t) \/ CasSucceeds(t) \/ CasFails(t)
    \/ LoadCounter(t) \/ StoreCounter(t) \/ MutexUnlock(t)

LatchNext == (\E t \in Workers : LatchStep(t)) \/ LatchTerminated

LatchSpec == LatchInit /\ [][LatchNext]_latchVars

\* A thread that can run is eventually scheduled.
FairLatchSpec == LatchSpec /\ \A t \in Workers : WF_latchVars(LatchStep(t))

-----------------------------------------------------------------------------
\* Every variable keeps its type.
LatchTypeOK ==
    /\ latch \in {"cas", "pthread"}
    /\ Counter \in Nat
    /\ Mutex \in {UnlockBit, LockBit}
    /\ at \in [Workers -> {"lock", "cas", "get", "put", "unlock", "done"}]
    /\ loaded \in [Workers -> Nat]
    /\ loop \in [Workers -> 0 .. NbLoop]

InLatch(t) == at[t] \in {"get", "put", "unlock"}

\* Whatever happens between the load of the lock word and the swap, at most
\* one thread is inside the latch, and the word is set exactly then.
OneInLatch ==
    /\ Mutex = LockBit <=> \E t \in Workers : InLatch(t)
    /\ \A t, u \in Workers : InLatch(t) /\ InLatch(u) => t = u

\* Load, store and the steps of the latch together are one atomic addition:
\* the program implements counter_fetch_and_add.cc.  The addition is the
\* store; the loop index counts from then on.
Added(t) == IF at[t] = "unlock" THEN loop[t] + 1 ELSE loop[t]

Atomic == INSTANCE AtomicCounter WITH
    Threads <- Workers,
    i <- [t \in Workers |-> Added(t)]

ImplementsFetchAndAdd == Atomic!Spec

\* The spinning threads do not keep each other from finishing, and main then
\* prints the reference value, NbThread * NbLoop (counter_cas_lock.cc:62).
PrintsReference ==
    <>[](/\ \A t \in Workers : at[t] = "done"
         /\ Counter = Cardinality(Workers) * NbLoop)
=============================================================================
