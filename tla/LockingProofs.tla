----------------------------- MODULE LockingProofs ----------------------------
(***************************************************************************)
(* Proofs about the programs that only lock: the two-phase locking of      *)
(* 1101_s2pl/s2pl.cc, for any set of threads, any number of objects and of *)
(* operations, and the latched counters of 1115_latch, for any set of      *)
(* threads and any number of increments.  No theorem about one supposes    *)
(* anything of the other.                                                  *)
(***************************************************************************)
EXTENDS S2PL, LatchCounter, TLAPS

\* A sorted draw is a sequence of object ids.
LEMMA DrawsAreObjects == \A a \in SortedDraws : a \in [Ops -> Objects]
  BY DEF SortedDraws

\* The end of a loop body moves to a place and an operation of its type, and
\* never back to the draw.
LEMMA NextOpType ==
  ASSUME TypeOK, NEW t \in Threads, pc[t] # "draw",
         NEW phase \in {"grow", "read", "write", "shrink", "done"},
         NEW next \in {"grow", "read", "write", "shrink", "done"},
         NextOp(t, phase, next)
  PROVE  /\ i' \in [Threads -> Ops]
         /\ pc' \in [Threads -> {"draw", "grow", "read", "write", "shrink", "done"}]
         /\ \A u \in Threads : pc'[u] # "draw" => pc[u] # "draw"
<1>1. MAX_OPERATION \in Nat \ {0} /\ Ops = 1 .. MAX_OPERATION
  BY ConstantsAssumption DEF Ops
<1>2. /\ i \in [Threads -> Ops]
      /\ pc \in [Threads -> {"draw", "grow", "read", "write", "shrink", "done"}]
  BY DEF TypeOK
<1>3. CASE i[t] < MAX_OPERATION
  <2>1. i' = [i EXCEPT ![t] = @ + 1] /\ pc' = [pc EXCEPT ![t] = phase]
    BY <1>3 DEF NextOp
  <2>2. i[t] + 1 \in Ops
    BY <1>1, <1>2, <1>3
  <2>3. QED
    BY <1>2, <2>1, <2>2
<1>4. CASE ~(i[t] < MAX_OPERATION)
  <2>1. i' = [i EXCEPT ![t] = 1] /\ pc' = [pc EXCEPT ![t] = next]
    BY <1>4 DEF NextOp
  <2>2. QED
    BY <1>1, <1>2, <2>1
<1>5. QED
  BY <1>3, <1>4

\* Every variable keeps its type (TypeOK) in a step.
LEMMA NextTypeOK == TypeOK /\ [Next]_vars => TypeOK'
<1> SUFFICES ASSUME TypeOK, [Next]_vars PROVE TypeOK'
  OBVIOUS
<1> USE ConstantsAssumption, DrawsAreObjects DEF TypeOK
<1>1. ASSUME NEW t \in Threads, Draw(t) PROVE TypeOK'
  BY <1>1 DEF Draw
<1>2. ASSUME NEW t \in Threads, SkipDuplicate(t) PROVE TypeOK'
  BY <1>2, NextOpType DEF SkipDuplicate
<1>3. ASSUME NEW t \in Threads, Lock(t) PROVE TypeOK'
  <2>1. i' \in [Threads -> Ops]
    BY <1>3, NextOpType DEF Lock
  <2>2. mutex' \in [Objects -> Threads \cup {Nobody}]
    BY <1>3 DEF Lock
  <2>3. QED
    BY <1>3, <2>1, <2>2, NextOpType DEF Lock
<1>4. ASSUME NEW t \in Threads, TaskRead(t) PROVE TypeOK'
  <2>1. Target(t) \in Objects
    BY DEF Target, Ops, Objects
  <2>2. QED
    BY <1>4, <2>1 DEF TaskRead
<1>5. ASSUME NEW t \in Threads, TaskWrite(t) PROVE TypeOK'
  <2>1. Target(t) \in Objects
    BY DEF Target, Ops, Objects
  <2>2. /\ val' \in [Objects -> Nat]
        /\ updates' \in [Objects -> Nat]
        /\ read' \in [Threads -> Nat]
    BY <1>5, <2>1 DEF TaskWrite
  <2>3. pc[t] # "draw" /\ NextOp(t, "read", "shrink") /\ mutex' = mutex /\ access' = access
    BY <1>5 DEF TaskWrite
  <2>4. QED
    BY <2>2, <2>3, NextOpType
<1>6. ASSUME NEW t \in Threads, Unlock(t) PROVE TypeOK'
  BY <1>6, NextOpType DEF Unlock
<1>7. CASE UNCHANGED vars
  BY <1>7 DEF vars
<1>8. QED
  BY <1>1, <1>2, <1>3, <1>4, <1>5, <1>6, <1>7 DEF Next, Step, Terminated

\* Every variable keeps its type.
THEOREM TypeCorrect == Spec => []TypeOK
<1>1. Init => TypeOK
  BY ConstantsAssumption DEF Init, TypeOK, Ops
<1>2. QED
  BY <1>1, NextTypeOK, PTL DEF Spec

-----------------------------------------------------------------------------
\* The operation after i[t], and the operations locked at it.
LEMMA LockedAfter ==
  ASSUME TypeOK, NEW t \in Threads,
         \/ SkipDuplicate(t) \/ Lock(t)
  PROVE  LockedOps(t)' = LockedOps(t) \cup {i[t]}
  BY ConstantsAssumption DEF TypeOK, SkipDuplicate, Lock, NextOp, LockedOps, Ops

\* An unlock leaves the operations behind it.
LEMMA LockedAfterUnlock ==
  ASSUME TypeOK, NEW t \in Threads, Unlock(t)
  PROVE  LockedOps(t)' = LockedOps(t) \ {i[t]} /\ i[t] \in LockedOps(t)
<1> USE ConstantsAssumption DEF TypeOK, Unlock, Ops
<1>1. pc[t] = "shrink" /\ LockedOps(t) = i[t] .. MAX_OPERATION
  BY DEF LockedOps
<1>2. CASE i[t] < MAX_OPERATION
  <2>1. pc'[t] = "shrink" /\ i'[t] = i[t] + 1
    BY <1>2 DEF NextOp
  <2>2. LockedOps(t)' = (i[t] + 1) .. MAX_OPERATION
    BY <2>1 DEF LockedOps
  <2>3. QED
    BY <1>1, <2>2
<1>3. CASE ~(i[t] < MAX_OPERATION)
  <2>1. pc'[t] = "done" /\ i[t] = MAX_OPERATION
    BY <1>3 DEF NextOp
  <2>2. LockedOps(t)' = {}
    BY <2>1 DEF LockedOps
  <2>3. LockedOps(t) = {i[t]}
    BY <1>1, <2>1
  <2>4. QED
    BY <2>2, <2>3
<1>4. QED
  BY <1>2, <1>3

\* A thread is at its first operation when it draws.
DrawsFirst == \A t \in Threads : pc[t] = "draw" => i[t] = 1

\* DrawsFirst is kept by every step.
LEMMA NextDrawsFirst == TypeOK /\ DrawsFirst /\ [Next]_vars => DrawsFirst'
<1> SUFFICES ASSUME TypeOK, DrawsFirst, [Next]_vars PROVE DrawsFirst'
  OBVIOUS
<1>1. ASSUME NEW t \in Threads, Step(t) PROVE DrawsFirst'
  BY <1>1 DEF TypeOK, DrawsFirst, Step, Draw, SkipDuplicate, Lock, TaskRead,
              TaskWrite, Unlock, NextOp
<1>2. CASE UNCHANGED vars
  BY <1>2 DEF vars, DrawsFirst
<1>3. QED
  BY <1>1, <1>2 DEF Next, Terminated

\* Drawing and working change no lock and no locked operation.
LEMMA LockedKept ==
  ASSUME TypeOK, DrawsFirst, NEW t \in Threads,
         \/ Draw(t) \/ TaskRead(t) \/ TaskWrite(t)
  PROVE  LockedOps(t)' = LockedOps(t) /\ mutex' = mutex
  BY ConstantsAssumption
  DEF TypeOK, DrawsFirst, Draw, TaskRead, TaskWrite, NextOp, LockedOps, Ops

\* A step of one thread leaves the operations of the others alone.
LEMMA OthersKept ==
  ASSUME TypeOK, NEW t \in Threads, Step(t), NEW u \in Threads, u # t
  PROVE  /\ LockedOps(u)' = LockedOps(u)
         /\ access'[u] = access[u]
         /\ (pc'[u] = "draw") = (pc[u] = "draw")
  BY DEF TypeOK, Step, Draw, SkipDuplicate, Lock, TaskRead, TaskWrite, Unlock,
         NextOp, LockedOps

\* A thread draws only once; before that nothing of it is locked.
LEMMA DrawnKept ==
  ASSUME TypeOK, NEW t \in Threads, Step(t)
  PROVE  /\ pc'[t] # "draw"
         /\ pc[t] # "draw" => access'[t] = access[t]
         /\ pc[t] = "draw" => LockedOps(t) = {} /\ Draw(t)
  BY ConstantsAssumption
  DEF TypeOK, Step, Draw, SkipDuplicate, Lock, TaskRead, TaskWrite, Unlock,
      NextOp, LockedOps, Ops

-----------------------------------------------------------------------------
\* OwnerWillUnlock is kept by every step.
LEMMA NextOwner == TypeOK /\ DrawsFirst /\ OwnerWillUnlock /\ [Next]_vars => OwnerWillUnlock'
<1> SUFFICES ASSUME TypeOK, DrawsFirst, OwnerWillUnlock, [Next]_vars,
                    NEW u \in Threads, NEW o \in Objects, mutex'[o] = u
             PROVE  \E j \in LockedOps(u)' : access'[u][j] = o
  BY DEF OwnerWillUnlock
<1>1. ASSUME mutex[o] = u
      PROVE  \E j \in LockedOps(u) : access[u][j] = o
  BY <1>1 DEF OwnerWillUnlock
<1>2. ASSUME NEW t \in Threads, SkipDuplicate(t)
      PROVE  \E j \in LockedOps(u)' : access'[u][j] = o
  <2>1. mutex' = mutex /\ access' = access
    BY <1>2 DEF SkipDuplicate
  <2>2. QED
    BY <1>1, <1>2, <2>1, LockedAfter, OthersKept DEF Step
<1>3. ASSUME NEW t \in Threads, Lock(t)
      PROVE  \E j \in LockedOps(u)' : access'[u][j] = o
  <2>1. access' = access /\ mutex' = [mutex EXCEPT ![access[t][i[t]]] = t]
    BY <1>3 DEF Lock
  <2>2. LockedOps(t)' = LockedOps(t) \cup {i[t]}
    BY <1>3, LockedAfter
  <2>3. CASE mutex[o] = u
    BY <1>1, <1>3, <2>1, <2>2, <2>3, OthersKept DEF Step
  <2>4. CASE mutex[o] # u
    <3>1. o = access[t][i[t]] /\ u = t
      BY <2>1, <2>4 DEF TypeOK
    <3>2. QED
      BY <2>1, <2>2, <3>1
  <2>5. QED
    BY <2>3, <2>4
<1>4. ASSUME NEW t \in Threads, Unlock(t)
      PROVE  \E j \in LockedOps(u)' : access'[u][j] = o
  <2>1. access' = access /\ mutex' = [mutex EXCEPT ![access[t][i[t]]] = Nobody]
    BY <1>4 DEF Unlock
  <2>2. mutex[o] = u /\ o # access[t][i[t]]
    BY <2>1, ConstantsAssumption DEF TypeOK
  <2>3. PICK j \in LockedOps(u) : access[u][j] = o
    BY <1>1, <2>2
  <2>4. CASE u = t
    <3>1. j \in LockedOps(u)'
      BY <1>4, <2>2, <2>3, <2>4, LockedAfterUnlock
    <3>2. QED
      BY <2>1, <2>3, <3>1
  <2>5. CASE u # t
    BY <1>4, <2>1, <2>3, <2>5, OthersKept DEF Step
  <2>6. QED
    BY <2>4, <2>5
<1>5. ASSUME NEW t \in Threads, Draw(t) \/ TaskRead(t) \/ TaskWrite(t)
      PROVE  \E j \in LockedOps(u)' : access'[u][j] = o
  <2>1. mutex[o] = u
    BY <1>5, LockedKept
  <2>2. PICK j \in LockedOps(u) : access[u][j] = o
    BY <1>1, <2>1
  <2>3. j \in LockedOps(u)'
    BY <1>5, <2>2, LockedKept, OthersKept DEF Step
  <2>4. access'[u] = access[u]
    BY <1>5, <2>2, DrawnKept, OthersKept DEF Step
  <2>5. QED
    BY <2>2, <2>3, <2>4
<1>6. CASE UNCHANGED vars
  BY <1>1, <1>6 DEF vars, LockedOps
<1>7. QED
  BY <1>2, <1>3, <1>4, <1>5, <1>6 DEF Next, Step, Terminated

\* Whatever ids the threads draw, a taken mutex is one its owner will still
\* unlock (s2pl.cc:40-47, 54-56): no mutex is left locked.
THEOREM OwnersUnlock == Spec => []OwnerWillUnlock
<1>1. Init => OwnerWillUnlock /\ DrawsFirst
  BY ConstantsAssumption DEF Init, OwnerWillUnlock, DrawsFirst
<1>2. QED
  BY <1>1, NextOwner, NextDrawsFirst, TypeCorrect, PTL DEF Spec

-----------------------------------------------------------------------------
\* Every id between its lock and its unlock is owned.
Held == \A t \in Threads : \A j \in LockedOps(t) : mutex[access[t][j]] = t

\* A thread locks operations only after its draw.
LEMMA LockedAreOps ==
  ASSUME TypeOK, DrawsFirst, NEW t \in Threads
  PROVE  LockedOps(t) \subseteq Ops /\ (pc[t] = "draw" => LockedOps(t) = {})
<1>1. MAX_OPERATION \in Nat /\ Ops = 1 .. MAX_OPERATION /\ i[t] \in Ops
  BY ConstantsAssumption DEF Ops, TypeOK
<1>2. CASE pc[t] = "grow"
  BY <1>1, <1>2 DEF LockedOps
<1>3. CASE pc[t] \in {"read", "write"}
  BY <1>3 DEF LockedOps
<1>4. CASE pc[t] = "shrink"
  BY <1>1, <1>4 DEF LockedOps
<1>5. CASE pc[t] \in {"draw", "done"}
  BY <1>5 DEF LockedOps
<1>6. QED
  BY <1>2, <1>3, <1>4, <1>5 DEF TypeOK

\* As long as no thread has drawn an id twice, every step keeps Held.
LEMMA NextHeld ==
  ASSUME TypeOK, DrawsFirst, NoDuplicates, Held, [Next]_vars
  PROVE  Held'
<1> SUFFICES ASSUME NEW u \in Threads, NEW j \in LockedOps(u)'
             PROVE  mutex'[access'[u][j]] = u
  BY DEF Held
<1>1. \A t \in Threads : \A k \in LockedOps(t) :
         mutex[access[t][k]] = t /\ access[t][k] \in Objects
  <2> SUFFICES ASSUME NEW t \in Threads, NEW k \in LockedOps(t)
               PROVE  mutex[access[t][k]] = t /\ access[t][k] \in Objects
    OBVIOUS
  <2>1. pc[t] # "draw" /\ k \in Ops
    BY LockedAreOps
  <2>2. access[t] \in [Ops -> Objects]
    BY <2>1, DrawsAreObjects DEF TypeOK
  <2>3. QED
    BY <2>1, <2>2 DEF Held
<1>2. ASSUME NEW t \in Threads, SkipDuplicate(t) PROVE FALSE
  <2>1. i[t] \in Ops /\ i[t] - 1 \in Ops /\ pc[t] = "grow"
        /\ access[t][i[t]] = access[t][i[t] - 1]
    BY <1>2, ConstantsAssumption DEF SkipDuplicate, SameAsPrev, TypeOK, Ops
  <2>2. i[t] # i[t] - 1
    BY <2>1 DEF Ops
  <2>3. QED
    BY <2>1, <2>2 DEF NoDuplicates, HasDuplicate
<1>3. ASSUME NEW t \in Threads, Lock(t) PROVE mutex'[access'[u][j]] = u
  <2>1. /\ access' = access
        /\ mutex[access[t][i[t]]] = Nobody
        /\ mutex' = [mutex EXCEPT ![access[t][i[t]]] = t]
    BY <1>3 DEF Lock
  <2>2. CASE j \in LockedOps(u)
    BY <1>1, <2>1, <2>2, ConstantsAssumption DEF TypeOK
  <2>3. CASE j \notin LockedOps(u)
    <3>1. u = t /\ j = i[t]
      BY <1>3, <2>3, LockedAfter, OthersKept DEF Step
    <3>2. access[t][i[t]] \in Objects
      <4>1. i[t] \in Ops /\ access[t] \in SortedDraws
        BY <1>3 DEF Lock, TypeOK
      <4>2. QED
        BY <4>1, DrawsAreObjects
    <3>3. QED
      BY <2>1, <3>1, <3>2 DEF TypeOK
  <2>4. QED
    BY <2>2, <2>3
<1>4. ASSUME NEW t \in Threads, Unlock(t) PROVE mutex'[access'[u][j]] = u
  <2>1. /\ access' = access
        /\ mutex' = [mutex EXCEPT ![access[t][i[t]]] = Nobody]
    BY <1>4 DEF Unlock
  <2>2. i[t] \in LockedOps(t) /\ pc[t] # "draw"
    BY <1>4, LockedAfterUnlock DEF Unlock
  <2>3. j \in LockedOps(u) /\ (u = t => j # i[t])
    BY <1>4, LockedAfterUnlock, OthersKept DEF Step
  <2>4. access[u][j] # access[t][i[t]]
    <3>1. CASE u = t
      BY <2>2, <2>3, <3>1, LockedAreOps DEF NoDuplicates, HasDuplicate
    <3>2. CASE u # t
      BY <1>1, <2>2, <2>3, <3>2
    <3>3. QED
      BY <3>1, <3>2
  <2>5. QED
    BY <1>1, <2>1, <2>3, <2>4 DEF TypeOK
<1>5. ASSUME NEW t \in Threads, Draw(t) \/ TaskRead(t) \/ TaskWrite(t)
      PROVE  mutex'[access'[u][j]] = u
  <2>1. j \in LockedOps(u) /\ mutex' = mutex
    BY <1>5, LockedKept, OthersKept DEF Step
  <2>2. pc[u] # "draw"
    BY <2>1, LockedAreOps
  <2>3. access'[u] = access[u]
    BY <1>5, <2>2, DrawnKept, OthersKept DEF Step
  <2>4. QED
    BY <1>1, <2>1, <2>3
<1>6. CASE UNCHANGED vars
  BY <1>1, <1>6 DEF vars, LockedOps
<1>7. QED
  BY <1>2, <1>3, <1>4, <1>5, <1>6 DEF Next, Step, Terminated

\* A draw is never undone: an id drawn twice now was so afterwards.
LEMMA DuplicatesStay == TypeOK /\ [Next]_vars /\ NoDuplicates' => NoDuplicates
<1> SUFFICES ASSUME TypeOK, [Next]_vars, NoDuplicates',
                    NEW u \in Threads, pc[u] # "draw"
             PROVE  ~HasDuplicate(u)
  BY DEF NoDuplicates
<1>1. pc'[u] # "draw" /\ access'[u] = access[u]
  <2>1. ASSUME NEW t \in Threads, Step(t)
        PROVE  pc'[u] # "draw" /\ access'[u] = access[u]
    BY <2>1, DrawnKept, OthersKept
  <2>2. QED
    BY <2>1 DEF Next, Terminated, vars
<1>2. QED
  BY <1>1 DEF NoDuplicates, HasDuplicate

\* As long as no thread has drawn an id twice, a thread owns an id exactly
\* from its lock to its unlock (s2pl.cc:40-47, 54-56).
THEOREM LocksAreTwoPhase == Spec => []TwoPhaseLocking
<1> DEFINE Inv == NoDuplicates => Held
<1>1. Init => Inv
  BY ConstantsAssumption DEF Init, Held, LockedOps
<1>2. TypeOK /\ DrawsFirst /\ Inv /\ [Next]_vars => Inv'
  BY DuplicatesStay, NextHeld
<1>3. Init => DrawsFirst
  BY DEF Init, DrawsFirst
<1>4. OwnerWillUnlock /\ Inv => TwoPhaseLocking
  BY DEF OwnerWillUnlock, Held, TwoPhaseLocking
<1> HIDE DEF Inv
<1>5. QED
  BY <1>1, <1>2, <1>3, <1>4, NextDrawsFirst, TypeCorrect, OwnersUnlock, PTL
  DEF Spec

-----------------------------------------------------------------------------
(* The latched counters of 1115_latch                                      *)

\* The inductive invariant: the latch excludes, and while a thread is between
\* its load and its store nobody changes the Counter it has loaded.
LatchInv ==
    /\ LatchTypeOK
    /\ OneInLatch
    /\ \A t \in Workers : at[t] = "put" => loaded[t] = Counter
    /\ \A t \in Workers : at[t] # "done" => loop[t] < NbLoop

\* The program starts with the latch free.
LEMMA InitLatchInv == LatchInit => LatchInv
  BY LatchAssumption DEF LatchInit, LatchInv, LatchTypeOK, OneInLatch, InLatch, UnlockBit, LockBit

\* Every step keeps the latch exclusive and the loaded value current.
LEMMA NextLatchInv == LatchInv /\ [LatchNext]_latchVars => LatchInv'
<1> SUFFICES ASSUME LatchInv, [LatchNext]_latchVars PROVE LatchInv'
  OBVIOUS
<1> USE LatchAssumption DEF LatchInv, LatchTypeOK, OneInLatch, InLatch, UnlockBit, LockBit, Goto
<1>1. ASSUME NEW t \in Workers, PthreadLock(t) PROVE LatchInv'
  BY <1>1 DEF PthreadLock
<1>2. ASSUME NEW t \in Workers, LoadMutex(t) PROVE LatchInv'
  BY <1>2 DEF LoadMutex
<1>3. ASSUME NEW t \in Workers, CasSucceeds(t) PROVE LatchInv'
  BY <1>3 DEF CasSucceeds
<1>4. ASSUME NEW t \in Workers, CasFails(t) PROVE LatchInv'
  BY <1>4 DEF CasFails
<1>5. ASSUME NEW t \in Workers, LoadCounter(t) PROVE LatchInv'
  BY <1>5 DEF LoadCounter
<1>6. ASSUME NEW t \in Workers, StoreCounter(t) PROVE LatchInv'
  BY <1>6 DEF StoreCounter
<1>7. ASSUME NEW t \in Workers, MutexUnlock(t) PROVE LatchInv'
  BY <1>7 DEF MutexUnlock
<1>8. CASE UNCHANGED latchVars
  BY <1>8 DEF latchVars
<1>9. QED
  BY <1>1, <1>2, <1>3, <1>4, <1>5, <1>6, <1>7, <1>8 DEF LatchNext, LatchStep, LatchTerminated

LEMMA LatchInvariant == LatchSpec => []LatchInv
  BY InitLatchInv, NextLatchInv, PTL DEF LatchSpec

\* Every variable of both programs keeps its type, and no index passes its
\* limit.
THEOREM LatchTypeCorrect == LatchSpec => []LatchTypeOK
<1>1. LatchInv => LatchTypeOK
  BY DEF LatchInv
<1>2. QED
  BY <1>1, LatchInvariant, PTL

\* At most one thread is inside the latch, and the lock word is set exactly
\* while one is (counter_cas_lock.cc:17-39, counter_pthread_lock.cc:17-21).
THEOREM LatchExcludes == LatchSpec => []OneInLatch
<1>1. LatchInv => OneInLatch
  BY DEF LatchInv
<1>2. QED
  BY <1>1, LatchInvariant, PTL

\* The initial state is an initial state of the atomic counter.
LEMMA LatchRefineInit == LatchInit => Atomic!Init
  BY DEF LatchInit, Atomic!Init, Added

\* A store inside the latch is an atomic addition; every other step leaves
\* the atomic counter as it is.
LEMMA LatchRefineNext == LatchInv /\ [LatchNext]_latchVars => [Atomic!Next]_(Atomic!vars)
<1> SUFFICES ASSUME LatchInv, [LatchNext]_latchVars PROVE [Atomic!Next]_(Atomic!vars)
  OBVIOUS
<1> DEFINE i_ == [t \in Workers |-> Added(t)]
<1> USE DEF LatchInv, LatchTypeOK, Goto
<1>1. ASSUME NEW t \in Workers, StoreCounter(t) PROVE Atomic!Add(t)
  <2>1. i_[t] < NbLoop /\ Counter' = Counter + 1
    BY <1>1 DEF StoreCounter, Added
  <2>2. i_' = [i_ EXCEPT ![t] = @ + 1]
    BY <1>1 DEF StoreCounter, Added
  <2>3. QED
    BY <2>1, <2>2 DEF Atomic!Add
<1>2. ASSUME NEW t \in Workers,
             \/ PthreadLock(t) \/ LoadMutex(t) \/ CasSucceeds(t)
             \/ CasFails(t) \/ LoadCounter(t) \/ MutexUnlock(t)
      PROVE  UNCHANGED <<Counter, i_>>
  <2>1. Counter' = Counter
    BY <1>2 DEF PthreadLock, LoadMutex, CasSucceeds, CasFails, LoadCounter, MutexUnlock
  <2>2. ASSUME NEW u \in Workers PROVE Added(u)' = Added(u)
    BY <1>2, <2>2 DEF PthreadLock, LoadMutex, CasSucceeds, CasFails,
                      LoadCounter, MutexUnlock, Added
  <2>3. QED
    BY <2>1, <2>2
<1>3. CASE UNCHANGED latchVars
  BY <1>3 DEF latchVars, Added, Atomic!vars
<1>4. QED
  BY <1>1, <1>2, <1>3 DEF LatchNext, LatchStep, LatchTerminated, Atomic!Next, Atomic!vars

\* The latched counters implement the atomic counter of
\* counter_fetch_and_add.cc: no addition is lost.
THEOREM LatchRefinement == LatchSpec => ImplementsFetchAndAdd
<1> QED
  BY LatchInvariant, LatchRefineInit, LatchRefineNext, PTL
  DEF LatchSpec, ImplementsFetchAndAdd, Atomic!Spec
=============================================================================
