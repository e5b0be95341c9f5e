------------------------- MODULE KungRobinsonProofs -------------------------
(***************************************************************************)
(* Proofs about KungRobinson, for every number of workers, transactions    *)
(* and operations and every set of rows.                                   *)
(***************************************************************************)
EXTENDS KungRobinson, SequenceTheorems, TLAPS

USE DEF NoWorker

-----------------------------------------------------------------------------
(* Type correctness. *)

\* What is left of a list when its first k - 1 entries are erased.
LEMMA Suffix ==
    ASSUME NEW S, NEW s \in Seq(S), NEW k \in DOMAIN s, NEW t,
           t = SubSeq(s, k, Len(s))
    PROVE  /\ t \in Seq(S)
           /\ Len(t) = Len(s) - k + 1
           /\ \A i \in DOMAIN t : t[i] = s[k + i - 1]
<1>1. k \in 1 .. Len(s) /\ Len(s) \in Nat
  OBVIOUS
<1>2. \A i \in k .. Len(s) : s[i] \in S
  BY <1>1
<1>3. /\ t \in Seq(S)
      /\ Len(t) = IF k <= Len(s) THEN Len(s) - k + 1 ELSE 0
      /\ \A i \in 1 .. Len(s) - k + 1 : t[i] = s[k + i - 1]
  BY <1>1, <1>2, SubSeqProperties, k \in Int, Len(s) \in Int
<1> QED BY <1>1, <1>3

\* A worker's operations, chosen or not, are two sequences of rows.
LEMMA TargetsType ==
    ASSUME NEW t \in Targets \cup {NoTarget}
    PROVE  /\ \E n \in Nat : DOMAIN t.reads = 1 .. n
           /\ \E n \in Nat : DOMAIN t.writes = 1 .. n
           /\ \A i \in DOMAIN t.reads : t.reads[i] \in Rows
           /\ \A i \in DOMAIN t.writes : t.writes[i] \in Rows
           /\ RowsOf(t.writes) \in SUBSET Rows
<1>1. CASE t = NoTarget
  <2>1. DOMAIN t.reads = 1 .. 0 /\ DOMAIN t.writes = 1 .. 0
    BY <1>1 DEF NoTarget
  <2> QED BY <2>1 DEF RowsOf
<1>2. CASE t \in Targets
  <2>1. PICK n \in 0 .. MAX_OPERATION :
              t \in [reads : [1 .. n -> Rows],
                     writes : [1 .. (MAX_OPERATION - n) -> Rows]]
    BY <1>2 DEF Targets
  <2>2. n \in Nat /\ MAX_OPERATION - n \in Nat
    BY ConstantsAssumption
  <2>3. t.reads \in [1 .. n -> Rows] /\ t.writes \in [1 .. (MAX_OPERATION - n) -> Rows]
    BY <2>1
  <2> QED BY <2>2, <2>3 DEF RowsOf
<1> QED BY <1>1, <1>2

\* The initial state (init, kr.cc:147-198) has the declared types.
LEMMA InitTypeOK == Init => TypeOK
<1> SUFFICES ASSUME Init PROVE TypeOK
  OBVIOUS
<1>1. 0 \in 0 .. MAX_TRANSACTION /\ 0 < MAX_TRANSACTION
  BY ConstantsAssumption
<1>2. /\ DoneXact \in Seq([tx_id : Nat, writes : SUBSET Rows])
      /\ log \in Seq([reads : SUBSET (Rows \X Nat), writes : SUBSET Rows])
      /\ Len(log) = Tx_id
  BY DEF Init
<1>3. read_set \in [Workers -> SUBSET (Rows \X Nat)]
  BY Zenon DEF Init
<1>4. /\ tid \in [Workers -> 0 .. MAX_TRANSACTION]
      /\ \A w \in Workers : pc[w] # "done" => tid[w] < MAX_TRANSACTION
      /\ pc \in [Workers -> {"begin", "err", "done"} \cup Running \cup InLock]
  BY <1>1 DEF Init
<1>5. /\ WaterMark \in [Workers -> Nat] /\ tx_begin \in [Workers -> Nat]
      /\ pos \in [Workers -> Nat] /\ min_tx_id \in [Workers -> Nat]
      /\ Row \in [Rows -> Nat]
  BY DEF Init
<1>6. target \in [Workers -> Targets \cup {NoTarget}]
  BY DEF Init
<1>7. Tx_id \in Nat /\ GiantLock \in Workers \cup {NoWorker} /\ exited \in BOOLEAN
  BY DEF Init
<1> QED BY <1>2, <1>3, <1>4, <1>5, <1>6, <1>7 DEF TypeOK

\* Every action keeps the types.
LEMMA NextTypeOK == TypeOK /\ [Next]_vars => TypeOK'
<1> SUFFICES ASSUME TypeOK, [Next]_vars PROVE TypeOK'
  OBVIOUS
<1> USE DEF TypeOK
<1>1. ASSUME NEW w \in Workers, Begin(w) PROVE TypeOK'
  BY <1>1 DEF Begin, Goto, Running, InLock
<1>2. ASSUME NEW w \in Workers, Mark(w) PROVE TypeOK'
  BY <1>2 DEF Mark, Goto, Running, InLock
<1>3. ASSUME NEW w \in Workers, ReadRow(w) PROVE TypeOK'
  <2>1. target[w].reads[pos[w]] \in Rows
    BY <1>3, TargetsType DEF ReadRow
  <2> QED BY <1>3, <2>1 DEF ReadRow, Goto, Running, InLock
<1>4. ASSUME NEW w \in Workers, LockGiant(w) PROVE TypeOK'
  BY <1>4 DEF LockGiant, Goto, Running, InLock
<1>5. ASSUME NEW w \in Workers, ValidateOK(w) PROVE TypeOK'
  BY <1>5 DEF ValidateOK, Goto, Running, InLock
<1>6. ASSUME NEW w \in Workers, ValidateFail(w) PROVE TypeOK'
  BY <1>6 DEF ValidateFail, Goto, Running, InLock
<1>7. ASSUME NEW w \in Workers, Exit(w) PROVE TypeOK'
  BY <1>7 DEF Exit, local, Running, InLock
<1>8. ASSUME NEW w \in Workers, WriteRow(w) PROVE TypeOK'
  <2>1. Row' \in [Rows -> Nat]
    BY <1>8, Tx_id + 1 \in Nat DEF WriteRow
  <2>2. pos' \in [Workers -> Nat]
    BY <1>8 DEF WriteRow
  <2> QED BY <1>8, <2>1, <2>2 DEF WriteRow, Goto, Running, InLock
<1>9. ASSUME NEW w \in Workers, TakeTxId(w) PROVE TypeOK'
  <2>1. RowsOf(target[w].writes) \in SUBSET Rows
    BY TargetsType
  <2> QED BY <1>9, <2>1 DEF TakeTxId, Goto, Running, InLock
<1>10. ASSUME NEW w \in Workers, Register(w) PROVE TypeOK'
  <2>1. RowsOf(target[w].writes) \in SUBSET Rows
    BY TargetsType
  <2>2. 0 \in Workers
    BY ConstantsAssumption DEF Workers
  <2>3. WaterMark' \in [Workers -> Nat]
    BY <1>10 DEF Register
  <2>4. min_tx_id' \in [Workers -> Nat]
    BY <1>10, <2>2, <2>3 DEF Register
  <2>5. DoneXact' \in Seq([tx_id : Nat, writes : SUBSET Rows])
    BY <1>10, <2>1 DEF Register
  <2> QED BY <1>10, <2>3, <2>4, <2>5 DEF Register, Goto, Running, InLock
<1>11. ASSUME NEW w \in Workers, ScanMark(w) PROVE TypeOK'
  <2>1. min_tx_id' \in [Workers -> Nat]
    BY <1>11 DEF ScanMark
  <2>2. pos' \in [Workers -> Nat]
    BY <1>11 DEF ScanMark
  <2> QED BY <1>11, <2>1, <2>2 DEF ScanMark, Goto, Running, InLock
<1>12. ASSUME NEW w \in Workers, Collect(w) PROVE TypeOK'
  <2>1. pc[w] = "scan"
    BY <1>12 DEF Collect, Goto
  <2>2. DoneXact' \in Seq([tx_id : Nat, writes : SUBSET Rows])
    <3>1. PICK k \in DOMAIN DoneXact :
                DoneXact' = SubSeq(DoneXact, k, Len(DoneXact))
      BY <1>12 DEF Collect
    <3> QED BY <3>1, Suffix
  <2>3. tid[w] + 1 \in 0 .. MAX_TRANSACTION
    <3>1. tid[w] < MAX_TRANSACTION
      BY <2>1
    <3>2. tid[w] \in Nat
      OBVIOUS
    <3> QED BY <3>1, <3>2, ConstantsAssumption
  <2>4. /\ tid' \in [Workers -> 0 .. MAX_TRANSACTION]
        /\ pc' \in [Workers -> {"begin", "err", "done"} \cup Running \cup InLock]
        /\ \A u \in Workers : pc'[u] # "done" => tid'[u] < MAX_TRANSACTION
    <3>1. tid' = [tid EXCEPT ![w] = @ + 1]
      BY <1>12 DEF Collect
    <3>2. pc' = [pc EXCEPT ![w] = IF tid[w] + 1 < MAX_TRANSACTION THEN "begin"
                                                                  ELSE "done"]
      BY <1>12 DEF Collect, Goto
    <3> QED BY <2>3, <3>1, <3>2, ConstantsAssumption
  <2>5. target' \in [Workers -> Targets \cup {NoTarget}]
    BY <1>12 DEF Collect
  <2>6. read_set' \in [Workers -> SUBSET (Rows \X Nat)]
    BY <1>12 DEF Collect
  <2>7. /\ tx_begin' \in [Workers -> Nat] /\ pos' \in [Workers -> Nat]
        /\ min_tx_id' \in [Workers -> Nat] /\ GiantLock' \in Workers \cup {NoWorker}
    BY <1>12 DEF Collect
  <2>8. UNCHANGED <<Tx_id, Row, WaterMark, log, exited>>
    BY <1>12 DEF Collect, Goto
  <2> QED BY <2>2, <2>4, <2>5, <2>6, <2>7, <2>8
<1>13. ASSUME Terminated \/ UNCHANGED vars PROVE TypeOK'
  BY <1>13 DEF Terminated, vars, shared, local
<1> QED
  BY <1>1, <1>2, <1>3, <1>4, <1>5, <1>6, <1>7, <1>8, <1>9, <1>10, <1>11,
     <1>12, <1>13 DEF Next, Step

\* Every variable keeps its type in every reachable state.
THEOREM TypeCorrect == Spec => []TypeOK
<1> QED BY InitTypeOK, NextTypeOK, PTL DEF Spec

-----------------------------------------------------------------------------
(* Mutual exclusion. *)

\* GiantLock is held by exactly the worker that is in the critical section.
LockInv == \A w \in Workers : pc[w] \in InLock <=> GiantLock = w

\* Every action keeps that exactly the holder of GiantLock is between its lock
\* (94) and its unlock (99, 133).
LEMMA NextLockInv == TypeOK /\ LockInv /\ [Next]_vars => LockInv'
<1> SUFFICES ASSUME TypeOK, LockInv, [Next]_vars PROVE LockInv'
  OBVIOUS
<1>1. /\ pc \in [Workers -> {"begin", "err", "done"} \cup Running \cup InLock]
      /\ GiantLock \in Workers \cup {NoWorker}
      /\ NoWorker \notin Workers
  BY DEF TypeOK, Workers
<1> USE <1>1 DEF LockInv, InLock
<1>2. ASSUME NEW w \in Workers,
             Begin(w) \/ Mark(w) \/ ReadRow(w) \/ ValidateOK(w) \/ WriteRow(w)
               \/ TakeTxId(w) \/ Register(w) \/ ScanMark(w) \/ Exit(w)
      PROVE  LockInv'
  <2>1. GiantLock' = GiantLock
    BY <1>2 DEF Begin, Mark, ReadRow, ValidateOK, WriteRow, TakeTxId, Register,
                ScanMark, Exit
  <2>2. pc' = pc \/ \E to : /\ pc' = [pc EXCEPT ![w] = to]
                            /\ pc[w] \in InLock <=> to \in InLock
    BY <1>2 DEF Begin, Mark, ReadRow, ValidateOK, WriteRow, TakeTxId, Register,
                ScanMark, Exit, Goto, local
  <2> QED BY <2>1, <2>2
<1>3. ASSUME NEW w \in Workers, LockGiant(w) PROVE LockInv'
  BY <1>3 DEF LockGiant, Goto
<1>4. ASSUME NEW w \in Workers, ValidateFail(w) PROVE LockInv'
  BY <1>4 DEF ValidateFail, Goto
<1>5. ASSUME NEW w \in Workers, Collect(w) PROVE LockInv'
  <2>1. /\ pc[w] = "scan" /\ GiantLock' = NoWorker
        /\ \E to \in {"begin", "done"} : pc' = [pc EXCEPT ![w] = to]
    BY <1>5 DEF Collect, Goto
  <2> QED BY <2>1
<1>6. ASSUME Terminated \/ UNCHANGED vars PROVE LockInv'
  BY <1>6 DEF Terminated, vars, shared, local
<1> QED
  BY <1>2, <1>3, <1>4, <1>5, <1>6 DEF Next, Step

\* Two workers are never in their validation and write phases together.
THEOREM MutualExclusion ==
    Spec => [](\A v, w \in Workers : pc[v] \in InLock /\ pc[w] \in InLock => v = w)
<1>1. Init => LockInv
  BY DEF Init, LockInv, InLock, Workers
<1>2. LockInv => \A v, w \in Workers : pc[v] \in InLock /\ pc[w] \in InLock => v = w
  BY DEF LockInv
<1> QED BY <1>1, <1>2, TypeCorrect, NextLockInv, PTL DEF Spec

-----------------------------------------------------------------------------
(* The list of committed transactions and its garbage collection. *)

\* The transactions in the list or already erased from it: all the committed
\* ones but one that has its Tx_id and is not in the list yet.
Registered == IF \E u \in Workers : pc[u] = "register" THEN Tx_id - 1 ELSE Tx_id

Collected == Registered - Len(DoneXact)

\* The list is the tail of the history, with no gap.
ListInv ==
    /\ Collected \in Nat
    /\ \A i \in DOMAIN DoneXact :
          /\ DoneXact[i].tx_id = Collected + i
          /\ DoneXact[i].writes = log[Collected + i].writes
    /\ \A w \in Workers :
          pc[w] = "register" => log[Tx_id].writes = RowsOf(target[w].writes)

\* What is collected lies below every WaterMark, and a WaterMark below the
\* start of its worker's transaction.
MarkOf(w) ==
    /\ Collected <= WaterMark[w]
    /\ WaterMark[w] <= Tx_id
    /\ tx_begin[w] <= Tx_id
    /\ pc[w] \in Running => WaterMark[w] <= tx_begin[w]

\* A scan holds a lower bound of the WaterMarks it has passed.
ScanOf(w) ==
    pc[w] = "scan" =>
        /\ WaterMark[w] = Tx_id
        /\ Len(DoneXact) > 0
        /\ pos[w] >= 1
        /\ \A u \in Workers : u < pos[w] => min_tx_id[w] <= WaterMark[u]

MarkInv == \A w \in Workers : MarkOf(w) /\ ScanOf(w)

GCInv == ListInv /\ MarkInv

\* The list and the marks are in order in the initial state.
LEMMA InitGCInv == Init => GCInv
BY DEF Init, GCInv, ListInv, MarkInv, MarkOf, ScanOf, Registered, Collected, Running

\* Steps that leave the list and its bounds alone.
LEMMA SameList ==
    ASSUME TypeOK, NEW w \in Workers,
           \/ UNCHANGED pc
           \/ \E to : pc[w] # "register" /\ to # "register"
                        /\ pc' = [pc EXCEPT ![w] = to],
           UNCHANGED <<Tx_id, DoneXact>>
    PROVE  Registered' = Registered /\ Collected' = Collected
<1>1. (\E u \in Workers : pc'[u] = "register") <=> (\E u \in Workers : pc[u] = "register")
  BY DEF TypeOK
<1> QED BY <1>1 DEF Registered, Collected

\* An index of the list before a collection and the one after it.
LEMMA ShiftedIndex ==
    ASSUME NEW n \in Nat, NEW k \in 1 .. n, NEW i \in 1 .. (n - k + 1)
    PROVE  k + i - 1 \in 1 .. n
OBVIOUS

\* The transaction ids after c that the indexes stand for.
LEMMA ShiftedTid ==
    ASSUME NEW c \in Nat, NEW k \in Nat, NEW i \in Nat
    PROVE  c + (k + i - 1) = (c + k - 1) + i
OBVIOUS

\* What an erasure of the first k - 1 entries leaves.
LEMMA CollectList ==
    ASSUME TypeOK, NEW k \in DOMAIN DoneXact,
           DoneXact' = SubSeq(DoneXact, k, Len(DoneXact))
    PROVE  /\ k \in 1 .. Len(DoneXact)
           /\ Len(DoneXact') = Len(DoneXact) - k + 1
           /\ DOMAIN DoneXact' = 1 .. (Len(DoneXact) - k + 1)
           /\ \A i \in 1 .. (Len(DoneXact) - k + 1) :
                  DoneXact'[i] = DoneXact[k + i - 1]
<1>1. DoneXact \in Seq([tx_id : Nat, writes : SUBSET Rows])
  BY DEF TypeOK
<1>2. k \in 1 .. Len(DoneXact) /\ Len(DoneXact) \in Nat
  BY <1>1
<1>3. /\ DoneXact' \in Seq([tx_id : Nat, writes : SUBSET Rows])
      /\ Len(DoneXact') = Len(DoneXact) - k + 1
      /\ \A i \in DOMAIN DoneXact' : DoneXact'[i] = DoneXact[k + i - 1]
  <2> DEFINE S == [tx_id : Nat, writes : SUBSET Rows]
  <2>1. DoneXact \in Seq(S)
    BY <1>1
  <2> HIDE DEF S
  <2>2. DoneXact' \in Seq(S)
    BY <2>1, Suffix
  <2>3. Len(DoneXact') = Len(DoneXact) - k + 1
    BY <2>1, Suffix
  <2>4. \A i \in DOMAIN DoneXact' : DoneXact'[i] = DoneXact[k + i - 1]
    <3>1. ASSUME NEW t, t = SubSeq(DoneXact, k, Len(DoneXact))
          PROVE  \A i \in DOMAIN t : t[i] = DoneXact[k + i - 1]
      BY <2>1, <3>1, Suffix
    <3> QED BY <3>1
  <2> QED BY <2>2, <2>3, <2>4 DEF S
<1>4. DOMAIN DoneXact' = 1 .. Len(DoneXact')
  BY <1>3
<1> QED BY <1>2, <1>3, <1>4

\* Every action keeps the list an unbroken run of tx_ids that reaches back to
\* every mark, and no mark goes back (kr.cc:71, 121-130).
LEMMA NextGCInv ==
    ASSUME TypeOK, LockInv, GCInv, [Next]_vars
    PROVE  GCInv' /\ \A w \in Workers : WaterMark'[w] >= WaterMark[w]
<1> DEFINE Monotone == \A u \in Workers : WaterMark'[u] >= WaterMark[u]
<1> DEFINE Goal == GCInv' /\ Monotone
<1>1. /\ pc \in [Workers -> {"begin", "err", "done"} \cup Running \cup InLock]
      /\ Tx_id \in Nat /\ DoneXact \in Seq([tx_id : Nat, writes : SUBSET Rows])
      /\ WaterMark \in [Workers -> Nat] /\ tx_begin \in [Workers -> Nat]
      /\ pos \in [Workers -> Nat] /\ min_tx_id \in [Workers -> Nat]
      /\ log \in Seq([reads : SUBSET (Rows \X Nat), writes : SUBSET Rows])
      /\ Len(log) = Tx_id /\ Workers \subseteq Nat
      /\ DOMAIN DoneXact = 1 .. Len(DoneXact)
      /\ Collected \in Nat /\ Registered \in Nat /\ Len(DoneXact) \in Nat
      /\ Registered = Collected + Len(DoneXact)
  BY DEF TypeOK, Workers, GCInv, ListInv, Registered, Collected
<1>2. \A v, w \in Workers : pc[v] \in InLock /\ pc[w] \in InLock => v = w
  BY DEF LockInv
<1>m. /\ \A u \in Workers : MarkOf(u)
      /\ \A u \in Workers : ScanOf(u)
      /\ ListInv
  BY DEF GCInv, MarkInv
<1>g. ASSUME ListInv', Monotone, \A u \in Workers : MarkOf(u)',
             \A u \in Workers : ScanOf(u)'
      PROVE  Goal
  BY <1>g DEF GCInv, MarkInv
<1> HIDE DEF Goal
<1> USE <1>1
<1>3. ASSUME NEW w \in Workers, Begin(w) PROVE Goal
  <2>1. /\ pc[w] = "begin" /\ pc' = [pc EXCEPT ![w] = "mark"]
        /\ tx_begin' = [tx_begin EXCEPT ![w] = Tx_id]
        /\ \A u \in Workers : u # w => target'[u] = target[u]
        /\ UNCHANGED <<Tx_id, DoneXact, WaterMark, log, min_tx_id>>
        /\ pos' = pos
    BY <1>3 DEF Begin, Goto, TypeOK
  <2>2. Registered' = Registered /\ Collected' = Collected
    BY <2>1, SameList
  <2>3. ListInv'
    BY <1>m, <2>1, <2>2 DEF ListInv
  <2>4. \A u \in Workers : MarkOf(u)'
    BY <1>m, <2>1, <2>2 DEF MarkOf, Running
  <2>5. \A u \in Workers : ScanOf(u)'
    BY <1>m, <2>1 DEF ScanOf
  <2> QED BY <1>g, <2>1, <2>3, <2>4, <2>5
<1>4. ASSUME NEW w \in Workers, Mark(w) PROVE Goal
  <2>1. /\ pc[w] = "mark" /\ pc' = [pc EXCEPT ![w] = "read"]
        /\ WaterMark' = [WaterMark EXCEPT ![w] = tx_begin[w]]
        /\ UNCHANGED <<Tx_id, DoneXact, tx_begin, min_tx_id, pos, log, target>>
    BY <1>4 DEF Mark, Goto
  <2>2. Registered' = Registered /\ Collected' = Collected
    BY <2>1, SameList
  <2>3. ListInv'
    BY <1>m, <2>1, <2>2 DEF ListInv
  <2>4. WaterMark[w] <= tx_begin[w]
    BY <1>m, <2>1 DEF MarkOf, Running
  <2>5. Monotone
    BY <2>1, <2>4
  <2>6. \A u \in Workers : MarkOf(u)'
    BY <1>m, <2>1, <2>2, <2>4 DEF MarkOf, Running
  <2>7. ASSUME NEW u \in Workers PROVE ScanOf(u)'
    <3>1. CASE u = w
      BY <2>1, <3>1 DEF ScanOf
    <3>2. CASE u # w
      <4>1. ScanOf(u) /\ \A v \in Workers : WaterMark'[v] \in Nat
        BY <1>m, <2>1
      <4> QED BY <2>1, <2>5, <3>2, <4>1 DEF ScanOf
    <3> QED BY <3>1, <3>2
  <2> QED BY <1>g, <2>3, <2>5, <2>6, <2>7
<1>5. ASSUME NEW w \in Workers,
             ReadRow(w) \/ LockGiant(w) \/ ValidateOK(w) \/ ValidateFail(w)
               \/ WriteRow(w) \/ Exit(w)
      PROVE  Goal
  <2>1. /\ UNCHANGED <<Tx_id, DoneXact, WaterMark, log, target, tx_begin, min_tx_id>>
        /\ \/ UNCHANGED pc
           \/ \E to \in {"read", "validate", "write", "err"} :
                 /\ pc[w] \in {"read", "validate", "write"}
                 /\ to \in Running => pc[w] \in Running
                 /\ pc' = [pc EXCEPT ![w] = to]
        /\ \A u \in Workers : pc[u] = "scan" => pos'[u] = pos[u]
    BY <1>5 DEF ReadRow, LockGiant, ValidateOK, ValidateFail, WriteRow, Exit, Goto,
                local, Running
  <2>2. Registered' = Registered /\ Collected' = Collected
    BY <2>1, SameList
  <2>3. /\ \A u \in Workers : pc'[u] = "scan" => pc[u] = "scan"
        /\ \A u \in Workers : pc'[u] = "register" => pc[u] = "register"
        /\ \A u \in Workers : pc'[u] \in Running => pc[u] \in Running
    BY <2>1
  <2>4. ListInv'
    BY <1>m, <2>1, <2>2, <2>3 DEF ListInv
  <2>5. \A u \in Workers : MarkOf(u)'
    BY <1>m, <2>1, <2>2, <2>3 DEF MarkOf
  <2>6. \A u \in Workers : ScanOf(u)'
    BY <1>m, <2>1, <2>3 DEF ScanOf
  <2> QED BY <1>g, <2>1, <2>4, <2>5, <2>6
<1>6. ASSUME NEW w \in Workers, TakeTxId(w) PROVE Goal
  <2>1. /\ Tx_id' = Tx_id + 1 /\ pc[w] = "write"
        /\ pc' = [pc EXCEPT ![w] = "register"]
        /\ log' = Append(log, [reads |-> read_set[w],
                               writes |-> RowsOf(target[w].writes)])
        /\ UNCHANGED <<DoneXact, WaterMark, target, tx_begin, min_tx_id, pos>>
    BY <1>6 DEF TakeTxId, Goto
  <2>2. \A u \in Workers : u # w => pc[u] \notin InLock
    BY <1>2, <2>1 DEF InLock
  <2>3. /\ Registered' = Registered /\ Collected' = Collected
        /\ Registered = Tx_id
    BY <2>1, <2>2 DEF Registered, Collected, InLock
  <2>4. /\ log'[Tx_id'].writes = RowsOf(target[w].writes)
        /\ \A n \in 1 .. Tx_id : log'[n] = log[n]
    BY <2>1
  <2>5. ListInv'
    <3>1. \A i \in DOMAIN DoneXact : Collected + i \in 1 .. Tx_id
      BY <2>3
    <3>2. \A u \in Workers : u # w => pc'[u] # "register"
      BY <2>1, <2>2 DEF InLock
    <3> QED BY <1>m, <2>1, <2>3, <2>4, <3>1, <3>2 DEF ListInv
  <2>6. \A u \in Workers : MarkOf(u)'
    BY <1>m, <2>1, <2>3 DEF MarkOf, Running
  <2>7. \A u \in Workers : ScanOf(u)'
    BY <2>1, <2>2 DEF InLock, ScanOf
  <2> QED BY <1>g, <2>1, <2>5, <2>6, <2>7
<1>7. ASSUME NEW w \in Workers, Register(w) PROVE Goal
  <2>1. /\ pc[w] = "register" /\ pc' = [pc EXCEPT ![w] = "scan"]
        /\ DoneXact' = Append(DoneXact, [tx_id |-> Tx_id,
                                         writes |-> RowsOf(target[w].writes)])
        /\ WaterMark' = [WaterMark EXCEPT ![w] = Tx_id]
        /\ min_tx_id' = [min_tx_id EXCEPT ![w] = WaterMark'[0]]
        /\ pos' = [pos EXCEPT ![w] = 1]
        /\ UNCHANGED <<Tx_id, log, target, tx_begin>>
    BY <1>7 DEF Register, Goto
  <2>2. \A u \in Workers : u # w => pc[u] \notin InLock
    BY <1>2, <2>1 DEF InLock
  <2>3. \A u \in Workers : pc'[u] # "register" /\ (u # w => pc'[u] # "scan")
    BY <2>1, <2>2 DEF InLock
  <2>4. /\ Registered = Tx_id - 1 /\ Registered' = Tx_id
        /\ Len(DoneXact') = Len(DoneXact) + 1 /\ Collected' = Collected
    <3>1. Registered = Tx_id - 1
      BY <2>1 DEF Registered
    <3>2. Registered' = Tx_id
      BY <2>1, <2>3 DEF Registered
    <3>3. Len(DoneXact') = Len(DoneXact) + 1
      BY <2>1
    <3> QED BY <3>1, <3>2, <3>3 DEF Collected
  <2>5. ListInv'
    <3>1. /\ \A i \in DOMAIN DoneXact : DoneXact'[i] = DoneXact[i]
          /\ DoneXact'[Len(DoneXact) + 1].tx_id = Tx_id
          /\ DoneXact'[Len(DoneXact) + 1].writes = RowsOf(target[w].writes)
          /\ DOMAIN DoneXact' = 1 .. Len(DoneXact) + 1
      <4>1. [tx_id |-> Tx_id, writes |-> RowsOf(target[w].writes)]
              \in [tx_id : Nat, writes : SUBSET Rows]
        BY TargetsType DEF TypeOK
      <4> QED BY <2>1, <4>1
    <3>2. RowsOf(target[w].writes) = log[Tx_id].writes
      BY <1>m, <2>1 DEF ListInv
    <3>3. Collected + Len(DoneXact) + 1 = Tx_id
      BY <2>4
    <3>4. ASSUME NEW i \in DOMAIN DoneXact'
          PROVE  /\ DoneXact'[i].tx_id = Collected + i
                 /\ DoneXact'[i].writes = log[Collected + i].writes
      <4>1. CASE i \in DOMAIN DoneXact
        BY <1>m, <3>1, <4>1 DEF ListInv
      <4>2. CASE i = Len(DoneXact) + 1
        BY <3>1, <3>2, <3>3, <4>2
      <4> QED BY <3>1, <4>1, <4>2
    <3> QED BY <2>1, <2>3, <2>4, <3>4 DEF ListInv
  <2>6. Monotone
    BY <1>m, <2>1 DEF MarkOf
  <2>7. \A u \in Workers : MarkOf(u)'
    <3>1. ASSUME NEW u \in Workers PROVE Collected' <= WaterMark'[u]
      BY <1>m, <2>1, <2>4 DEF MarkOf
    <3>2. ASSUME NEW u \in Workers PROVE pc'[u] \in Running => u # w /\ pc[u] \in Running
      BY <2>1 DEF Running
    <3> QED BY <1>m, <2>1, <3>1, <3>2 DEF MarkOf
  <2>8. ASSUME NEW u \in Workers PROVE ScanOf(u)'
    <3>1. CASE u = w
      <4>1. min_tx_id'[w] = WaterMark'[0] /\ \A v \in Workers : v < 1 => v = 0
        BY <2>1
      <4>2. WaterMark'[w] = Tx_id' /\ Len(DoneXact') > 0 /\ pos'[w] = 1
        BY <2>1, <2>4
      <4>3. 0 \in Workers
        BY ConstantsAssumption DEF Workers
      <4>4. WaterMark' \in [Workers -> Nat]
        BY <2>1
      <4>5. \A v \in Workers : v < pos'[w] => min_tx_id'[w] <= WaterMark'[v]
        BY <4>1, <4>2, <4>3, <4>4
      <4> QED BY <3>1, <4>2, <4>5 DEF ScanOf
    <3>2. CASE u # w
      BY <2>3, <3>2 DEF ScanOf
    <3> QED BY <3>1, <3>2
  <2> QED BY <1>g, <2>5, <2>6, <2>7, <2>8
<1>8. ASSUME NEW w \in Workers, ScanMark(w) PROVE Goal
  <2>1. /\ pc[w] = "scan" /\ pc' = pc
        /\ pos[w] \in Workers /\ pos' = [pos EXCEPT ![w] = @ + 1]
        /\ UNCHANGED <<Tx_id, DoneXact, WaterMark, log, target, tx_begin>>
        /\ min_tx_id' = [min_tx_id EXCEPT ![w] =
                            IF WaterMark[pos[w]] < @ THEN WaterMark[pos[w]] ELSE @]
    BY <1>8 DEF ScanMark, Goto, TypeOK
  <2>2. Registered' = Registered /\ Collected' = Collected
    BY <2>1, SameList
  <2>3. ListInv'
    BY <1>m, <2>1, <2>2 DEF ListInv
  <2>4. /\ min_tx_id'[w] <= min_tx_id[w]
        /\ min_tx_id'[w] <= WaterMark[pos[w]]
        /\ min_tx_id'[w] \in Nat
    BY <2>1
  <2>5. ASSUME NEW u \in Workers, u < pos[w] + 1
        PROVE  min_tx_id'[w] <= WaterMark[u]
    <3>1. CASE u < pos[w]
      <4>1. min_tx_id[w] <= WaterMark[u]
        BY <1>m, <2>1, <3>1 DEF ScanOf
      <4> QED BY <2>4, <4>1
    <3>2. CASE u = pos[w]
      BY <2>4, <3>2
    <3> QED BY <2>5, <3>1, <3>2
  <2>6. \A u \in Workers : MarkOf(u)'
    BY <1>m, <2>1, <2>2 DEF MarkOf
  <2>7. ASSUME NEW u \in Workers PROVE ScanOf(u)'
    <3>1. CASE u = w
      <4>1. ScanOf(w) /\ pos'[w] = pos[w] + 1
        BY <1>m, <2>1
      <4> QED BY <2>1, <2>5, <3>1, <4>1 DEF ScanOf
    <3>2. CASE u # w
      <4>1. ScanOf(u) /\ min_tx_id'[u] = min_tx_id[u] /\ pos'[u] = pos[u]
        BY <1>m, <2>1, <3>2
      <4> QED BY <2>1, <4>1 DEF ScanOf
    <3> QED BY <3>1, <3>2
  <2> QED BY <1>g, <2>1, <2>3, <2>6, <2>7
<1>9. ASSUME NEW w \in Workers, Collect(w) PROVE Goal
  <2>1. /\ pc[w] = "scan" /\ pos[w] \notin Workers
        /\ \E to \in {"begin", "done"} : pc' = [pc EXCEPT ![w] = to]
        /\ UNCHANGED <<Tx_id, WaterMark, log>>
        /\ tx_begin' = [tx_begin EXCEPT ![w] = 0]
    BY <1>9 DEF Collect, Goto
  <2>2. PICK k \in DOMAIN DoneXact :
              FirstKept(w, k) /\ DoneXact' = SubSeq(DoneXact, k, Len(DoneXact))
    BY <1>9 DEF Collect
  <2>3. /\ Len(DoneXact') = Len(DoneXact) - k + 1
        /\ DOMAIN DoneXact' = 1 .. (Len(DoneXact) - k + 1)
        /\ \A i \in 1 .. (Len(DoneXact) - k + 1) :
              DoneXact'[i] = DoneXact[k + i - 1]
    BY <2>2, CollectList
  <2>4. k \in 1 .. Len(DoneXact) /\ k \in Nat
    BY <2>2
  <2>5. \A u \in Workers : /\ pc[u] # "register" /\ pc'[u] # "register"
                           /\ pc'[u] # "scan"
                           /\ pc'[u] \in Running => pc[u] \in Running
    <3>1. \A u \in Workers : u # w => pc[u] \notin InLock
      BY <1>2, <2>1 DEF InLock
    <3> QED BY <2>1, <3>1 DEF InLock, Running
  <2>6. Registered' = Registered /\ Collected' = Collected + k - 1
    <3>1. Registered' = Registered
      BY <2>1, <2>5 DEF Registered
    <3> QED BY <2>3, <2>4, <3>1 DEF Collected
  <2>7. \A u \in Workers : min_tx_id[w] <= WaterMark[u]
    <3>1. ScanOf(w)
      BY <1>m
    <3>2. \A u \in Workers : u < pos[w]
      <4>1. pos[w] >= 1 /\ pos[w] \in Nat
        BY <2>1, <3>1 DEF ScanOf
      <4> QED BY <2>1, <4>1, ConstantsAssumption DEF Workers
    <3> QED BY <2>1, <3>1, <3>2 DEF ScanOf
  <2>8. \A u \in Workers : Collected' <= WaterMark[u]
    <3>1. CASE k = 1
      BY <1>m, <2>6, <3>1 DEF MarkOf
    <3>2. CASE k # 1
      <4>1. k - 1 \in 1 .. (k - 1) /\ k - 1 \in DOMAIN DoneXact
        BY <2>4, <3>2
      <4>2. DoneXact[k - 1].tx_id < min_tx_id[w]
        BY <2>2, <4>1 DEF FirstKept
      <4>3. DoneXact[k - 1].tx_id = Collected + (k - 1)
        BY <1>m, <4>1 DEF ListInv
      <4>4. Collected \in Nat /\ min_tx_id[w] \in Nat
        BY <1>m DEF TypeOK, ListInv
      <4>5. Collected' <= min_tx_id[w]
        BY <2>4, <2>6, <4>2, <4>3, <4>4
      <4>6. Collected' \in Nat
        BY <2>4, <2>6, <4>4
      <4>7. \A u \in Workers : WaterMark[u] \in Nat
        BY <1>m DEF TypeOK
      <4> QED BY <2>7, <4>4, <4>5, <4>6, <4>7
    <3> QED BY <3>1, <3>2
  <2>9. ListInv'
    <3>1. Collected' \in Nat
      BY <2>4, <2>6
    <3>2. ASSUME NEW i \in 1 .. (Len(DoneXact) - k + 1)
          PROVE  /\ DoneXact'[i].tx_id = Collected' + i
                 /\ DoneXact'[i].writes = log[Collected' + i].writes
      <4>1. k + i - 1 \in DOMAIN DoneXact
        <5>1. k + i - 1 \in 1 .. Len(DoneXact)
          BY <2>4, ShiftedIndex, Zenon
        <5> QED BY <5>1
      <4>2. Collected + (k + i - 1) = Collected' + i
        <5>1. k \in Nat /\ i \in Nat /\ Collected \in Nat
          BY <1>m, <2>4 DEF ListInv
        <5>2. Collected + (k + i - 1) = (Collected + k - 1) + i
          BY <5>1, ShiftedTid
        <5> QED BY <2>6, <5>2, Zenon
      <4>3. DoneXact'[i] = DoneXact[k + i - 1]
        BY <2>3
      <4>4. /\ DoneXact[k + i - 1].tx_id = Collected + (k + i - 1)
            /\ DoneXact[k + i - 1].writes = log[Collected + (k + i - 1)].writes
        BY <1>m, <4>1 DEF ListInv
      <4> QED BY <4>2, <4>3, <4>4
    <3> QED BY <2>1, <2>3, <2>5, <3>1, <3>2 DEF ListInv
  <2>10. \A u \in Workers : MarkOf(u)'
    <3>1. \A u \in Workers : pc'[u] \in Running => u # w
      BY <2>1 DEF Running
    <3>2. \A u \in Workers : tx_begin'[u] = IF u = w THEN 0 ELSE tx_begin[u]
      BY <2>1
    <3> QED BY <1>m, <2>1, <2>5, <2>8, <3>1, <3>2 DEF MarkOf
  <2>11. \A u \in Workers : ScanOf(u)'
    BY <2>5 DEF ScanOf
  <2> QED BY <1>g, <2>1, <2>9, <2>10, <2>11
<1>10. ASSUME Terminated \/ UNCHANGED vars PROVE Goal
  <2>1. UNCHANGED vars
    BY <1>10 DEF Terminated
  <2>2. Registered' = Registered /\ Collected' = Collected
    BY <2>1 DEF vars, shared, local, Registered, Collected
  <2>3. ListInv'
    BY <1>m, <2>1, <2>2 DEF vars, shared, local, ListInv
  <2>4. \A u \in Workers : MarkOf(u)' /\ ScanOf(u)'
    BY <1>m, <2>1, <2>2 DEF vars, shared, local, MarkOf, ScanOf
  <2> QED BY <1>g, <2>1, <2>3, <2>4 DEF vars, shared
<1>11. Goal
  BY <1>3, <1>4, <1>5, <1>6, <1>7, <1>8, <1>9, <1>10 DEF Next, Step
<1> QED BY <1>11 DEF Goal

\* The invariant the theorems below rest on.
GCSafe == TypeOK /\ LockInv /\ GCInv

\* Types, lock and list invariants hold in every reachable state.
LEMMA GCSafeInvariant == Spec => []GCSafe
<1>1. Init => LockInv
  BY DEF Init, LockInv, InLock, Workers
<1>2. GCSafe /\ [Next]_vars => GCSafe'
  BY NextTypeOK, NextLockInv, NextGCInv DEF GCSafe
<1>3. Init => GCSafe
  BY <1>1, InitTypeOK, InitGCInv DEF GCSafe
<1> QED BY <1>2, <1>3, PTL DEF Spec

\* The entry of transaction n in the list.
LEMMA EntryOf ==
    ASSUME TypeOK, ListInv, NEW n \in Nat, n > Collected, n <= Registered
    PROVE  /\ n - Collected \in DOMAIN DoneXact
           /\ DoneXact[n - Collected].tx_id = n
           /\ DoneXact[n - Collected].writes = log[n].writes
<1>1. /\ Collected \in Nat /\ Tx_id \in Nat /\ Len(DoneXact) \in Nat
      /\ DOMAIN DoneXact = 1 .. Len(DoneXact)
      /\ Registered \in Int
  BY DEF TypeOK, ListInv, Registered
<1>2. n - Collected \in 1 .. Len(DoneXact)
  BY <1>1 DEF Collected
<1>3. Collected + (n - Collected) = n
  BY <1>1
<1> QED BY <1>1, <1>2, <1>3 DEF ListInv

\* Garbage collection never erases what a running transaction has still to
\* validate against (kr.cc:121-130, 66, 71).
THEOREM CollectSafe == Spec => []CollectKeepsNeeded
<1>1. ASSUME GCSafe PROVE CollectKeepsNeeded
  <2> SUFFICES ASSUME NEW w \in Workers, pc[w] \in Running,
                      NEW n \in (tx_begin[w] + 1) .. Tx_id,
                      ~(n = Tx_id /\ \E u \in Workers : pc[u] = "register")
               PROVE  \E i \in DOMAIN DoneXact :
                         /\ DoneXact[i].tx_id = n
                         /\ DoneXact[i].writes = log[n].writes
    BY DEF CollectKeepsNeeded
  <2>1. /\ Tx_id \in Nat /\ tx_begin[w] \in Nat /\ WaterMark[w] \in Nat
        /\ Collected \in Nat /\ TypeOK /\ ListInv
    BY <1>1 DEF GCSafe, TypeOK, GCInv, ListInv
  <2>2. Collected <= WaterMark[w] /\ WaterMark[w] <= tx_begin[w]
    BY <1>1 DEF GCSafe, GCInv, MarkInv, MarkOf
  <2>3. n \in Nat /\ n > Collected
    BY <2>1, <2>2
  <2>4. n <= Registered
    BY <2>1 DEF Registered
  <2> QED BY <2>1, <2>3, <2>4, EntryOf
<1> QED BY <1>1, GCSafeInvariant, PTL

\* The erase loop (kr.cc:128) never runs off the end of the list.
THEOREM EraseSafe == Spec => []EraseStaysInList
<1>1. ASSUME GCSafe PROVE EraseStaysInList
  <2> SUFFICES ASSUME NEW w \in Workers, pc[w] = "scan", pos[w] \notin Workers
               PROVE  \E k \in DOMAIN DoneXact : FirstKept(w, k)
    BY DEF EraseStaysInList
  <2>1. /\ Tx_id \in Nat /\ pos[w] \in Nat /\ min_tx_id[w] \in Nat
        /\ Collected \in Nat /\ TypeOK /\ ListInv /\ Len(DoneXact) \in Nat
        /\ DOMAIN DoneXact = 1 .. Len(DoneXact)
    <3>1. TypeOK /\ ListInv
      BY <1>1 DEF GCSafe, GCInv
    <3>2. Tx_id \in Nat /\ pos[w] \in Nat /\ min_tx_id[w] \in Nat
      BY <3>1 DEF TypeOK
    <3>3. Len(DoneXact) \in Nat /\ DOMAIN DoneXact = 1 .. Len(DoneXact)
      BY <3>1 DEF TypeOK
    <3>4. Collected \in Nat
      BY <3>1 DEF ListInv
    <3> QED BY <3>1, <3>2, <3>3, <3>4
  <2>2. WaterMark[w] = Tx_id /\ Len(DoneXact) > 0 /\ min_tx_id[w] <= Tx_id
    <3>1. ScanOf(w)
      BY <1>1 DEF GCSafe, GCInv, MarkInv
    <3>2. w < pos[w]
      BY <2>1, <3>1, ConstantsAssumption DEF ScanOf, Workers
    <3> QED BY <3>1, <3>2 DEF ScanOf
  <2>3. Collected + Len(DoneXact) = Tx_id
    <3>1. \A u \in Workers : pc[u] # "register"
      BY <1>1 DEF GCSafe, LockInv, InLock
    <3> QED BY <2>1, <3>1 DEF Collected, Registered
  <2>4. \A j \in 1 .. Len(DoneXact) : DoneXact[j].tx_id = Collected + j
    BY <2>1 DEF ListInv
  <2>5. CASE min_tx_id[w] <= Collected
    <3>1. FirstKept(w, 1)
      BY <2>1, <2>2, <2>4, <2>5 DEF FirstKept
    <3> QED BY <3>1 DEF FirstKept
  <2>6. CASE min_tx_id[w] > Collected
    <3> DEFINE k == min_tx_id[w] - Collected
    <3>1. k \in 1 .. Len(DoneXact)
      BY <2>1, <2>2, <2>3, <2>6
    <3>2. DoneXact[k].tx_id = min_tx_id[w]
      BY <2>1, <2>4, <3>1
    <3>3. ASSUME NEW j \in 1 .. (k - 1) PROVE DoneXact[j].tx_id < min_tx_id[w]
      BY <2>1, <2>4, <3>1
    <3>4. FirstKept(w, k)
      BY <2>1, <3>1, <3>2, <3>3 DEF FirstKept
    <3> QED BY <2>1, <3>1, <3>4
  <2> QED BY <2>1, <2>5, <2>6
<1> QED BY <1>1, GCSafeInvariant, PTL

\* A WaterMark never goes back (kr.cc:71, 118).
THEOREM MarksGrow == Spec => WaterMarkMonotone
<1>1. ASSUME GCSafe, [Next]_vars
      PROVE  [\A w \in Workers : WaterMark'[w] >= WaterMark[w]]_vars
  BY <1>1, NextGCInv DEF GCSafe
<1> QED BY <1>1, GCSafeInvariant, PTL DEF Spec, WaterMarkMonotone

-----------------------------------------------------------------------------
(* Serializability. *)

\* The versions of a row before and after a run of transactions that leave it
\* alone are the same.
LEMMA VersionCarried ==
    ASSUME NEW r, NEW v, NEW b \in Nat, NEW n \in Nat, b <= n,
           \A k \in (b + 1) .. n : r \notin log[k].writes
    PROVE  IsVersion(r, v, b) <=> IsVersion(r, v, n)
<1>1. ASSUME IsVersion(r, v, b) PROVE IsVersion(r, v, n)
  <2>1. v \in Nat /\ v <= b
    BY <1>1 DEF IsVersion, VersionIn
  <2>2. ASSUME NEW k \in (v + 1) .. n PROVE r \notin log[k].writes
    <3>1. k \in (v + 1) .. b \/ k \in (b + 1) .. n
      BY <2>1
    <3> QED BY <1>1, <3>1 DEF IsVersion, VersionIn
  <2> QED BY <1>1, <2>1, <2>2 DEF IsVersion, VersionIn
<1>2. ASSUME IsVersion(r, v, n) PROVE IsVersion(r, v, b)
  <2>1. v \in Nat /\ v <= n
    BY <1>2 DEF IsVersion, VersionIn
  <2>2. v <= b
    <3>1. v # 0 => r \in log[v].writes
      BY <1>2 DEF IsVersion, VersionIn
    <3>2. v > b => v \in (b + 1) .. n
      BY <2>1
    <3> QED BY <2>1, <3>1, <3>2
  <2>3. \A k \in (v + 1) .. b : k \in (v + 1) .. n
    BY <2>1
  <2> QED BY <1>2, <2>1, <2>2, <2>3 DEF IsVersion, VersionIn
<1> QED BY <1>1, <1>2

\* A row has one version at a time.
LEMMA VersionInUnique ==
    ASSUME NEW h, NEW r, NEW u, NEW v, NEW n \in Nat,
           VersionIn(h, r, u, n), VersionIn(h, r, v, n)
    PROVE  u = v
<1>1. u \in 0 .. n /\ v \in 0 .. n
  BY DEF VersionIn
<1>2. CASE u < v
  <2>1. v # 0 /\ v \in (u + 1) .. n
    BY <1>1, <1>2
  <2> QED BY <2>1 DEF VersionIn
<1>3. CASE v < u
  <2>1. u # 0 /\ u \in (v + 1) .. n
    BY <1>1, <1>3
  <2> QED BY <2>1 DEF VersionIn
<1> QED BY <1>1, <1>2, <1>3

\* A commit leaves the versions of the past as they were, gives the rows it
\* writes its own version and carries the others over.
LEMMA VersionAfterCommit ==
    ASSUME NEW S, NEW h \in Seq(S), NEW t, NEW g, g = Append(h, t), NEW r, NEW v
    PROVE  /\ \A n \in 0 .. Len(h) : VersionIn(g, r, v, n) <=> VersionIn(h, r, v, n)
           /\ r \in t.writes => VersionIn(g, r, Len(h) + 1, Len(h) + 1)
           /\ r \notin t.writes /\ VersionIn(h, r, v, Len(h))
                => VersionIn(g, r, v, Len(h) + 1)
<1>1. /\ Len(h) \in Nat
      /\ \A k \in 1 .. Len(h) : g[k] = h[k]
      /\ g[Len(h) + 1] = t
  OBVIOUS
<1>2. ASSUME NEW n \in 0 .. Len(h)
      PROVE  VersionIn(g, r, v, n) <=> VersionIn(h, r, v, n)
  <2>1. v \in 0 .. n /\ v # 0 => v \in 1 .. Len(h)
    BY <1>1
  <2>2. v \in 0 .. n => \A k \in (v + 1) .. n : k \in 1 .. Len(h)
    BY <1>1
  <2> QED BY <1>1, <2>1, <2>2 DEF VersionIn
<1>3. ASSUME r \in t.writes PROVE VersionIn(g, r, Len(h) + 1, Len(h) + 1)
  BY <1>1, <1>3 DEF VersionIn
<1>4. ASSUME r \notin t.writes, VersionIn(h, r, v, Len(h))
      PROVE  VersionIn(g, r, v, Len(h) + 1)
  <2>1. v \in 0 .. Len(h) /\ (v # 0 => r \in g[v].writes)
    BY <1>1, <1>4 DEF VersionIn
  <2>2. ASSUME NEW k \in (v + 1) .. (Len(h) + 1) PROVE r \notin g[k].writes
    <3>1. CASE k = Len(h) + 1
      BY <1>1, <1>4, <3>1
    <3>2. CASE k # Len(h) + 1
      <4>1. k \in 1 .. Len(h) /\ k \in (v + 1) .. Len(h)
        BY <1>1, <2>1, <3>2
      <4> QED BY <1>1, <1>4, <4>1 DEF VersionIn
    <3> QED BY <3>1, <3>2
  <2>3. v \in 0 .. (Len(h) + 1)
    BY <1>1, <2>1
  <2> QED BY <2>1, <2>2, <2>3 DEF VersionIn
<1> QED BY <1>2, <1>3, <1>4

\* The rows a worker has written so far.
Written(w) == {target[w].writes[i] :
                  i \in {j \in DOMAIN target[w].writes : j < pos[w]}}

\* A row holds its committed version or the one of the transaction that is
\* writing it.
RowInv ==
    \A r \in Rows :
        \/ IsVersion(r, Row[r], Tx_id)
        \/ \E u \in Workers : /\ pc[u] = "write"
                              /\ r \in Written(u)
                              /\ Row[r] = Tx_id + 1

WriteInv ==
    \A w \in Workers : pc[w] = "write" =>
        /\ pos[w] >= 1
        /\ \A r \in Written(w) : Row[r] = Tx_id + 1

\* Row r is not what the transaction of w would have read at its start: it was
\* overwritten by a later transaction, or is being overwritten.
Stale(w, r) ==
    \/ \E k \in (tx_begin[w] + 1) .. Tx_id : r \in log[k].writes
    \/ \E u \in Workers : pc[u] = "write" /\ r \in RowsOf(target[u].writes)

ReadOf(w) ==
    /\ pc[w] \in {"begin", "mark"} => read_set[w] = {}
    /\ pc[w] \in {"read", "validate"} =>
          \A rd \in read_set[w] :
              IsVersion(rd[1], rd[2], tx_begin[w]) \/ Stale(w, rd[1])
    /\ pc[w] = "write" =>
          \A rd \in read_set[w] : IsVersion(rd[1], rd[2], Tx_id)

\* Every row has a version.
VersionInv == \A r \in Rows : \E v \in Nat : IsVersion(r, v, Tx_id)

SerialInv ==
    /\ Serializable
    /\ RowInv
    /\ WriteInv
    /\ \A w \in Workers : ReadOf(w)
    /\ VersionInv

\* The serializability invariant holds in the initial state.
LEMMA InitSerialInv == Init => SerialInv
<1> SUFFICES ASSUME Init PROVE SerialInv
  OBVIOUS
<1>1. \A r \in Rows : IsVersion(r, 0, 0)
  BY DEF IsVersion, VersionIn
<1>2. RowInv /\ VersionInv
  BY <1>1 DEF Init, RowInv, VersionInv
<1>3. Serializable
  BY DEF Init, Serializable
<1>4. WriteInv /\ \A w \in Workers : ReadOf(w)
  BY DEF Init, WriteInv, ReadOf
<1> QED BY <1>2, <1>3, <1>4 DEF SerialInv

\* A validation that succeeds shows every version read to be current.
LEMMA ValidReadsAreCurrent ==
    ASSUME GCSafe, SerialInv, NEW w \in Workers, pc[w] = "validate",
           Tx_id # 0 => Validation(w), NEW rd \in read_set[w]
    PROVE  IsVersion(rd[1], rd[2], Tx_id)
<1>1. /\ Tx_id \in Nat /\ tx_begin[w] \in Nat /\ Collected \in Nat /\ TypeOK
      /\ ListInv /\ WaterMark[w] \in Nat
  BY DEF GCSafe, TypeOK, GCInv, ListInv
<1>2. \A u \in Workers : u # w => pc[u] \notin InLock
  BY DEF GCSafe, LockInv, InLock
<1>3. Collected <= tx_begin[w] /\ tx_begin[w] <= Tx_id
  BY <1>1 DEF GCSafe, GCInv, MarkInv, MarkOf, Running
<1>4. Registered = Tx_id
  BY <1>2 DEF Registered, InLock
<1>5. ASSUME NEW k \in (tx_begin[w] + 1) .. Tx_id PROVE rd[1] \notin log[k].writes
  <2> DEFINE start == tx_begin[w] + 1 - Collected
  <2> DEFINE at == k - Collected
  <2>1. /\ start \in DOMAIN DoneXact /\ DoneXact[start].tx_id = tx_begin[w] + 1
    <3>1. /\ tx_begin[w] + 1 \in Nat /\ tx_begin[w] + 1 > Collected
          /\ tx_begin[w] + 1 <= Registered
      BY <1>1, <1>3, <1>4
    <3> QED BY <1>1, <3>1, EntryOf
  <2>2. /\ at \in DOMAIN DoneXact /\ DoneXact[at].writes = log[k].writes
    <3>1. k \in Nat /\ k > Collected /\ k <= Registered
      BY <1>1, <1>3, <1>4
    <3> QED BY <1>1, <3>1, EntryOf
  <2>3. start <= at /\ Tx_id # 0
    BY <1>1
  <2> QED BY <2>1, <2>2, <2>3 DEF Validation
<1>6. \A u \in Workers : pc[u] # "write"
  BY <1>2 DEF InLock
<1>7. IsVersion(rd[1], rd[2], tx_begin[w])
  BY <1>5, <1>6 DEF SerialInv, ReadOf, Stale
<1> QED BY <1>1, <1>3, <1>5, <1>7, VersionCarried

\* Steps that touch neither a row, nor the history, nor a write phase.
LEMMA SameSerial ==
    ASSUME SerialInv, UNCHANGED <<Tx_id, log, Row>>,
           \A u \in Workers :
              /\ pc'[u] = "write" <=> pc[u] = "write"
              /\ pc[u] = "write" => /\ target'[u] = target[u]
                                    /\ pos'[u] = pos[u]
                                    /\ read_set'[u] = read_set[u]
              /\ pc'[u] \in {"begin", "mark"} => read_set'[u] = {}
              /\ pc'[u] \in {"read", "validate"} =>
                    \/ read_set'[u] = {}
                    \/ /\ pc[u] \in {"read", "validate"}
                       /\ read_set'[u] = read_set[u]
                       /\ tx_begin'[u] = tx_begin[u]
    PROVE  SerialInv'
<1>1. \A r, v, n : IsVersion(r, v, n)' <=> IsVersion(r, v, n)
  BY DEF IsVersion, VersionIn
<1>2. Serializable' /\ VersionInv'
  BY <1>1 DEF SerialInv, Serializable, VersionInv
<1>3. \A u \in Workers : pc[u] = "write" => Written(u)' = Written(u)
  BY DEF Written
<1>4. RowInv' /\ WriteInv'
  BY <1>1, <1>3 DEF SerialInv, RowInv, WriteInv
<1>5. ASSUME NEW u \in Workers PROVE ReadOf(u)'
  <2>1. CASE read_set'[u] = {}
    BY <2>1 DEF ReadOf
  <2>2. CASE pc'[u] \in {"read", "validate"} /\ read_set'[u] # {}
    <3>1. /\ pc[u] \in {"read", "validate"} /\ read_set'[u] = read_set[u]
          /\ tx_begin'[u] = tx_begin[u]
      BY <2>2
    <3>2. \A r : Stale(u, r) => Stale(u, r)'
      BY <3>1 DEF Stale
    <3>3. \A rd \in read_set[u] :
              IsVersion(rd[1], rd[2], tx_begin[u]) \/ Stale(u, rd[1])
      BY <3>1 DEF SerialInv, ReadOf
    <3>4. \A rd \in read_set'[u] :
              (IsVersion(rd[1], rd[2], tx_begin[u]) \/ Stale(u, rd[1]))'
      BY <1>1, <3>1, <3>2, <3>3
    <3> QED BY <2>2, <3>4 DEF ReadOf
  <2>3. CASE pc'[u] = "write"
    BY <1>1, <2>3 DEF SerialInv, ReadOf
  <2> QED BY <2>1, <2>2, <2>3 DEF ReadOf
<1> QED BY <1>2, <1>4, <1>5 DEF SerialInv

\* An unlocked read (kr.cc:78) keeps the invariant: what it reads is current,
\* or will make validation fail.
LEMMA ReadRowSerial ==
    ASSUME GCSafe, SerialInv, NEW w \in Workers, ReadRow(w)
    PROVE  SerialInv'
<1> DEFINE x == target[w].reads[pos[w]]
<1>1. /\ pc[w] = "read" /\ pc' = pc /\ pos[w] \in DOMAIN target[w].reads
      /\ read_set' = [read_set EXCEPT ![w] = @ \cup {<<x, Row[x]>>}]
      /\ pos' = [pos EXCEPT ![w] = @ + 1]
      /\ UNCHANGED <<Tx_id, Row, log, target, tx_begin>>
  BY DEF ReadRow, Goto, GCSafe, TypeOK
<1>2. /\ x \in Rows /\ Tx_id \in Nat /\ \A u \in Workers : tx_begin[u] \in Nat
      /\ read_set \in [Workers -> SUBSET (Rows \X Nat)] /\ pos \in [Workers -> Nat]
  BY <1>1, TargetsType DEF GCSafe, TypeOK
<1> HIDE DEF x
<1>3. \A r, v, n : IsVersion(r, v, n)' <=> IsVersion(r, v, n)
  BY <1>1 DEF IsVersion, VersionIn
<1>4. Serializable' /\ VersionInv'
  BY <1>1, <1>3 DEF SerialInv, Serializable, VersionInv
<1>5. \A u \in Workers : pc[u] = "write" => u # w /\ Written(u)' = Written(u)
  BY <1>1, <1>2 DEF Written
<1>6. RowInv' /\ WriteInv'
  BY <1>1, <1>2, <1>3, <1>5 DEF SerialInv, RowInv, WriteInv
<1>7. \A u \in Workers : \A r : Stale(u, r)' <=> Stale(u, r)
  BY <1>1 DEF Stale
<1>8. IsVersion(x, Row[x], tx_begin[w]) \/ Stale(w, x)
  <2>1. CASE IsVersion(x, Row[x], Tx_id)
    <3>1. tx_begin[w] <= Tx_id
      BY DEF GCSafe, GCInv, MarkInv, MarkOf
    <3> QED BY <1>2, <2>1, <3>1, VersionCarried DEF Stale
  <2>2. CASE \E u \in Workers : pc[u] = "write" /\ x \in Written(u)
    BY <2>2 DEF Stale, Written, RowsOf
  <2> QED BY <1>2, <2>1, <2>2 DEF SerialInv, RowInv
<1>9. ASSUME NEW u \in Workers PROVE ReadOf(u)'
  <2>1. CASE u # w
    <3>1. read_set'[u] = read_set[u] /\ ReadOf(u)
      BY <1>1, <1>2, <2>1 DEF SerialInv
    <3> QED BY <1>1, <1>3, <1>7, <3>1 DEF ReadOf
  <2>2. CASE u = w
    <3>1. \A rd \in read_set[w] :
              IsVersion(rd[1], rd[2], tx_begin[w]) \/ Stale(w, rd[1])
      BY <1>1 DEF SerialInv, ReadOf
    <3>2. read_set'[w] = read_set[w] \cup {<<x, Row[x]>>}
      BY <1>1, <1>2
    <3>3. ASSUME NEW rd \in read_set'[w]
          PROVE  IsVersion(rd[1], rd[2], tx_begin[w]) \/ Stale(w, rd[1])
      <4>1. CASE rd \in read_set[w]
        BY <3>1, <4>1
      <4>2. CASE rd = <<x, Row[x]>>
        BY <1>8, <4>2
      <4> QED BY <3>2, <4>1, <4>2
    <3>4. \A rd \in read_set'[w] :
              (IsVersion(rd[1], rd[2], tx_begin[w]) \/ Stale(w, rd[1]))'
      BY <1>1, <1>3, <1>7, <3>3
    <3> QED BY <1>1, <2>2, <3>4 DEF ReadOf
  <2> QED BY <2>1, <2>2
<1> QED BY <1>4, <1>6, <1>9 DEF SerialInv

\* A successful validation (kr.cc:96-102): all reads are current.
LEMMA ValidateSerial ==
    ASSUME GCSafe, SerialInv, NEW w \in Workers, ValidateOK(w)
    PROVE  SerialInv'
<1>1. /\ pc[w] = "validate" /\ pc' = [pc EXCEPT ![w] = "write"]
      /\ Tx_id # 0 => Validation(w)
      /\ pos' = [pos EXCEPT ![w] = 1]
      /\ UNCHANGED <<Tx_id, Row, log, target, tx_begin, read_set>>
  BY DEF ValidateOK, Goto
<1>2. /\ Tx_id \in Nat /\ pos \in [Workers -> Nat]
      /\ pc \in [Workers -> {"begin", "err", "done"} \cup Running \cup InLock]
      /\ \E n \in Nat : DOMAIN target[w].writes = 1 .. n
  BY TargetsType DEF GCSafe, TypeOK
<1>3. \A u \in Workers : u # w => pc[u] # "write"
  BY <1>1 DEF GCSafe, LockInv, InLock
<1>4. \A r, v, n : IsVersion(r, v, n)' <=> IsVersion(r, v, n)
  BY <1>1 DEF IsVersion, VersionIn
<1>5. Serializable' /\ VersionInv'
  BY <1>1, <1>4 DEF SerialInv, Serializable, VersionInv
<1>6. \A u \in Workers : pc[u] # "write"
  BY <1>1, <1>3
<1>7. RowInv'
  BY <1>1, <1>4, <1>6 DEF SerialInv, RowInv
<1>8. WriteInv'
  <2>1. Written(w)' = {} /\ pos'[w] = 1
    BY <1>1, <1>2 DEF Written
  <2>2. \A u \in Workers : pc'[u] = "write" => u = w
    BY <1>1, <1>2, <1>3
  <2> QED BY <2>1, <2>2 DEF WriteInv
<1>9. ASSUME NEW u \in Workers PROVE ReadOf(u)'
  <2>1. CASE u = w
    BY <1>1, <1>2, <1>4, <2>1, ValidReadsAreCurrent DEF ReadOf
  <2>2. CASE u # w
    <3>1. \A r : Stale(u, r) => Stale(u, r)'
      BY <1>1, <1>6 DEF Stale
    <3>2. pc'[u] = pc[u] /\ ReadOf(u)
      BY <1>1, <1>2, <2>2 DEF SerialInv
    <3> QED BY <1>1, <1>3, <1>4, <2>2, <3>1, <3>2 DEF ReadOf
  <2> QED BY <2>1, <2>2
<1> QED BY <1>5, <1>7, <1>8, <1>9 DEF SerialInv

\* A write of the write phase (kr.cc:104-109) makes the reads of others stale,
\* in a row that is about to be committed.
LEMMA WriteRowSerial ==
    ASSUME GCSafe, SerialInv, NEW w \in Workers, WriteRow(w)
    PROVE  SerialInv'
<1> DEFINE x == target[w].writes[pos[w]]
<1>1. /\ pc[w] = "write" /\ pc' = pc /\ pos[w] \in DOMAIN target[w].writes
      /\ Row' = [Row EXCEPT ![x] = Tx_id + 1]
      /\ pos' = [pos EXCEPT ![w] = @ + 1]
      /\ UNCHANGED <<Tx_id, log, target, tx_begin, read_set>>
  BY DEF WriteRow, Goto, GCSafe, TypeOK
<1>2. /\ x \in Rows /\ Tx_id \in Nat /\ pos[w] \in Nat /\ pos'[w] = pos[w] + 1
      /\ Row \in [Rows -> Nat]
      /\ \E n \in Nat : DOMAIN target[w].writes = 1 .. n
  BY <1>1, TargetsType DEF GCSafe, TypeOK
<1>3. \A u \in Workers : u # w => pc[u] # "write"
  BY <1>1 DEF GCSafe, LockInv, InLock
<1>4. \A r, v, n : IsVersion(r, v, n)' <=> IsVersion(r, v, n)
  BY <1>1 DEF IsVersion, VersionIn
<1>5. Serializable' /\ VersionInv'
  BY <1>1, <1>4 DEF SerialInv, Serializable, VersionInv
<1>6. Written(w)' = Written(w) \cup {x}
  BY <1>1, <1>2 DEF Written
<1>7. RowInv'
  <2> SUFFICES ASSUME NEW r \in Rows, ~IsVersion(r, Row'[r], Tx_id)
               PROVE  r \in Written(w)' /\ Row'[r] = Tx_id + 1
    BY <1>1, <1>4 DEF RowInv
  <2>1. CASE r = x
    BY <1>1, <1>2, <1>6, <2>1
  <2>2. CASE r # x
    <3>1. Row'[r] = Row[r]
      BY <1>1, <1>2, <2>2
    <3> QED BY <1>3, <1>6, <3>1 DEF SerialInv, RowInv
  <2> QED BY <2>1, <2>2
<1>8. WriteInv'
  <2>1. pos[w] >= 1 /\ \A r \in Written(w) : Row[r] = Tx_id + 1
    BY <1>1 DEF SerialInv, WriteInv
  <2>2. Written(w) \subseteq Rows
    <3>1. target[w] \in Targets \cup {NoTarget}
      BY DEF GCSafe, TypeOK
    <3>2. \A i \in DOMAIN target[w].writes : target[w].writes[i] \in Rows
      BY <3>1, TargetsType
    <3> QED BY <3>2 DEF Written
  <2>3. \A r \in Written(w)' : Row'[r] = Tx_id + 1
    BY <1>1, <1>2, <1>6, <2>1, <2>2
  <2>4. pos'[w] >= 1
    BY <1>2, <2>1
  <2> QED BY <1>1, <1>3, <2>3, <2>4 DEF WriteInv
<1>9. ASSUME NEW u \in Workers PROVE ReadOf(u)'
  <2>1. ReadOf(u) /\ \A r : Stale(u, r)' <=> Stale(u, r)
    BY <1>1 DEF SerialInv, Stale
  <2> QED BY <1>1, <1>4, <2>1 DEF ReadOf
<1> QED BY <1>5, <1>7, <1>8, <1>9 DEF SerialInv

\* The commit: TakeTxId appends the transaction to the history.
LEMMA CommitSerial ==
    ASSUME GCSafe, SerialInv, NEW w \in Workers, TakeTxId(w)
    PROVE  SerialInv'
<1> DEFINE Writes == RowsOf(target[w].writes)
<1> DEFINE Entry == [reads |-> read_set[w], writes |-> Writes]
<1>1. /\ pc[w] = "write" /\ pc' = [pc EXCEPT ![w] = "register"]
      /\ pos[w] \notin DOMAIN target[w].writes
      /\ Tx_id' = Tx_id + 1
      /\ log' = Append(log, Entry)
      /\ UNCHANGED <<Row, target, tx_begin, read_set, pos>>
  BY DEF TakeTxId, Goto
<1>2. /\ Tx_id \in Nat /\ pos[w] \in Nat /\ Len(log) = Tx_id
      /\ log \in Seq([reads : SUBSET (Rows \X Nat), writes : SUBSET Rows])
      /\ pc \in [Workers -> {"begin", "err", "done"} \cup Running \cup InLock]
      /\ \A u \in Workers : tx_begin[u] \in Nat /\ tx_begin[u] <= Tx_id
      /\ \E n \in Nat : DOMAIN target[w].writes = 1 .. n
  BY TargetsType DEF GCSafe, TypeOK, GCInv, MarkInv, MarkOf
<1>3. \A u \in Workers : (u # w => pc[u] # "write") /\ pc'[u] # "write"
  BY <1>1, <1>2 DEF GCSafe, LockInv, InLock
<1>4. Entry.reads = read_set[w] /\ Entry.writes = Writes
  OBVIOUS
<1>5. Writes = Written(w)
  <2>1. \A i \in DOMAIN target[w].writes : i < pos[w]
    <3>1. pos[w] >= 1
      BY <1>1 DEF SerialInv, WriteInv
    <3> QED BY <1>1, <1>2, <3>1
  <2> QED BY <2>1 DEF RowsOf, Written
<1> HIDE DEF Entry, Writes
<1>6. /\ DOMAIN log' = 1 .. (Tx_id + 1) /\ DOMAIN log = 1 .. Tx_id
      /\ log'[Tx_id + 1] = Entry
      /\ \A k \in 1 .. Tx_id : log'[k] = log[k]
  BY <1>1, <1>2
<1>7. \A r, v :
        /\ \A n \in 0 .. Tx_id : VersionIn(log', r, v, n) <=> VersionIn(log, r, v, n)
        /\ r \in Writes => VersionIn(log', r, Tx_id + 1, Tx_id + 1)
        /\ r \notin Writes /\ VersionIn(log, r, v, Tx_id)
              => VersionIn(log', r, v, Tx_id + 1)
  BY <1>1, <1>2, <1>4, VersionAfterCommit
<1>8. Serializable'
  <2>1. ASSUME NEW n \in 1 .. (Tx_id + 1), NEW rd \in log'[n].reads
        PROVE  VersionIn(log', rd[1], rd[2], n - 1)
    <3>1. n - 1 \in 0 .. Tx_id
      BY <1>2
    <3>2. VersionIn(log, rd[1], rd[2], n - 1)
      <4>1. CASE n = Tx_id + 1
        <5>1. rd \in read_set[w] /\ n - 1 = Tx_id
          BY <1>2, <1>4, <1>6, <4>1
        <5> QED BY <1>1, <5>1 DEF SerialInv, ReadOf, IsVersion
      <4>2. CASE n # Tx_id + 1
        <5>1. n \in DOMAIN log /\ rd \in log[n].reads
          BY <1>2, <1>6, <4>2
        <5> QED BY <5>1 DEF SerialInv, Serializable, IsVersion
      <4> QED BY <4>1, <4>2
    <3> QED BY <1>7, <3>1, <3>2
  <2> QED BY <1>6, <2>1 DEF Serializable, IsVersion
<1>9. ASSUME NEW r \in Rows PROVE VersionIn(log', r, Row[r], Tx_id + 1)
  <2>1. CASE r \in Writes
    <3>1. Row[r] = Tx_id + 1
      BY <1>1, <1>5, <2>1 DEF SerialInv, WriteInv
    <3> QED BY <1>7, <2>1, <3>1
  <2>2. CASE r \notin Writes
    <3>1. VersionIn(log, r, Row[r], Tx_id)
      BY <1>3, <1>5, <2>2 DEF SerialInv, RowInv, IsVersion
    <3> QED BY <1>7, <2>2, <3>1
  <2> QED BY <2>1, <2>2
<1>10. RowInv' /\ WriteInv'
  BY <1>1, <1>3, <1>9 DEF RowInv, WriteInv, IsVersion
<1>11. VersionInv'
  <2>1. \A r \in Rows : Row[r] \in Nat
    BY DEF GCSafe, TypeOK
  <2> QED BY <1>1, <1>9, <2>1 DEF VersionInv, IsVersion
<1>12. ASSUME NEW u \in Workers PROVE ReadOf(u)'
  <2>1. CASE u = w
    BY <1>1, <1>2, <2>1 DEF ReadOf
  <2>2. CASE u # w
    <3>1. pc'[u] = pc[u] /\ ReadOf(u) /\ pc[u] # "write"
      BY <1>1, <1>2, <1>3, <2>2 DEF SerialInv
    <3>2. \A r, v : IsVersion(r, v, tx_begin[u])' <=> IsVersion(r, v, tx_begin[u])
      <4>1. tx_begin[u] \in 0 .. Tx_id /\ tx_begin'[u] = tx_begin[u]
        BY <1>1, <1>2
      <4>2. \A r, v : VersionIn(log', r, v, tx_begin[u]) <=> VersionIn(log, r, v, tx_begin[u])
        BY <1>7, <4>1
      <4> QED BY <4>1, <4>2 DEF IsVersion
    <3>3. ASSUME NEW r, Stale(u, r) PROVE Stale(u, r)'
      <4>1. CASE \E k \in (tx_begin[u] + 1) .. Tx_id : r \in log[k].writes
        <5>1. PICK k \in (tx_begin[u] + 1) .. Tx_id : r \in log[k].writes
          BY <4>1
        <5>2. k \in (tx_begin[u] + 1) .. (Tx_id + 1) /\ log'[k] = log[k]
          BY <1>2, <1>6
        <5> QED BY <1>1, <5>1, <5>2 DEF Stale
      <4>2. CASE \E x \in Workers : pc[x] = "write" /\ r \in RowsOf(target[x].writes)
        <5>1. r \in Writes
          BY <1>3, <4>2 DEF Writes
        <5>2. /\ Tx_id + 1 \in (tx_begin[u] + 1) .. (Tx_id + 1)
              /\ r \in log'[Tx_id + 1].writes
          BY <1>2, <1>4, <1>6, <5>1
        <5> QED BY <1>1, <5>2 DEF Stale
      <4> QED BY <3>3, <4>1, <4>2 DEF Stale
    <3> QED BY <1>1, <3>1, <3>2, <3>3 DEF ReadOf
  <2> QED BY <2>1, <2>2
<1> QED BY <1>8, <1>10, <1>11, <1>12 DEF SerialInv

\* Every action keeps the serializability invariant.
LEMMA NextSerialInv == GCSafe /\ SerialInv /\ [Next]_vars => SerialInv'
<1> SUFFICES ASSUME GCSafe, SerialInv, [Next]_vars PROVE SerialInv'
  OBVIOUS
<1>1. /\ pc \in [Workers -> {"begin", "err", "done"} \cup Running \cup InLock]
      /\ read_set \in [Workers -> SUBSET (Rows \X Nat)]
      /\ tx_begin \in [Workers -> Nat] /\ pos \in [Workers -> Nat]
      /\ target \in [Workers -> Targets \cup {NoTarget}]
  BY DEF GCSafe, TypeOK
<1>2. \A u \in Workers : pc[u] \in {"begin", "mark"} => read_set[u] = {}
  BY DEF SerialInv, ReadOf
<1>3. ASSUME NEW w \in Workers,
             \/ Begin(w) \/ Mark(w) \/ LockGiant(w) \/ ValidateFail(w) \/ Exit(w)
             \/ Register(w) \/ ScanMark(w) \/ Collect(w)
      PROVE  SerialInv'
  <2>1. UNCHANGED <<Tx_id, log, Row>>
    BY <1>3 DEF Begin, Mark, LockGiant, ValidateFail, Exit, Register, ScanMark,
                Collect
  <2>2. \/ UNCHANGED pc
        \/ \E from, to :
              /\ pc[w] = from /\ pc' = [pc EXCEPT ![w] = to]
              /\ <<from, to>> \in {<<"begin", "mark">>, <<"mark", "read">>,
                                   <<"read", "validate">>, <<"validate", "err">>,
                                   <<"register", "scan">>, <<"scan", "scan">>,
                                   <<"scan", "begin">>, <<"scan", "done">>}
    BY <1>3 DEF Begin, Mark, LockGiant, ValidateFail, Exit, Register, ScanMark,
                Collect, Goto, local
  <2>3. \A u \in Workers : u # w => /\ target'[u] = target[u]
                                    /\ pos'[u] = pos[u]
                                    /\ read_set'[u] = read_set[u]
                                    /\ tx_begin'[u] = tx_begin[u]
    BY <1>1, <1>3 DEF Begin, Mark, LockGiant, ValidateFail, Exit, Register,
                      ScanMark, Collect, local
  <2>4. \/ UNCHANGED <<pc, target, pos, read_set, tx_begin>>
        \/ pc'[w] = "begin" /\ read_set'[w] = {}
        \/ pc[w] \in {"begin", "mark"} /\ read_set' = read_set
        \/ pc[w] = "read" /\ read_set' = read_set /\ tx_begin' = tx_begin
        \/ pc'[w] \in {"err", "scan", "done"}
    BY <1>1, <1>3 DEF Begin, Mark, LockGiant, ValidateFail, Exit, Register,
                      ScanMark, Collect, Goto, local
  <2>5. ASSUME NEW u \in Workers
        PROVE  /\ pc'[u] = "write" <=> pc[u] = "write"
               /\ pc[u] = "write" => /\ target'[u] = target[u]
                                     /\ pos'[u] = pos[u]
                                     /\ read_set'[u] = read_set[u]
               /\ pc'[u] \in {"begin", "mark"} => read_set'[u] = {}
               /\ pc'[u] \in {"read", "validate"} =>
                     \/ read_set'[u] = {}
                     \/ /\ pc[u] \in {"read", "validate"}
                        /\ read_set'[u] = read_set[u]
                        /\ tx_begin'[u] = tx_begin[u]
    <3>1. CASE u # w
      <4>1. pc'[u] = pc[u]
        BY <1>1, <2>2, <3>1
      <4> QED BY <1>2, <2>3, <3>1, <4>1
    <3>2. CASE u = w /\ UNCHANGED <<pc, target, pos, read_set, tx_begin>>
      BY <1>2, <3>2
    <3>3. CASE u = w /\ ~UNCHANGED <<pc, target, pos, read_set, tx_begin>>
      <4>1. CASE UNCHANGED pc
        BY <1>2, <2>4, <3>3, <4>1, <1>3 DEF Begin, Mark, LockGiant, ValidateFail,
           Exit, Register, ScanMark, Collect, Goto, local
      <4>2. CASE ~UNCHANGED pc
        BY <1>1, <1>2, <2>2, <2>4, <3>3, <4>2
      <4> QED BY <4>1, <4>2
    <3> QED BY <3>1, <3>2, <3>3
  <2> QED BY <2>1, <2>5, SameSerial
<1>4. ASSUME Terminated \/ UNCHANGED vars PROVE SerialInv'
  <2>1. UNCHANGED vars
    BY <1>4 DEF Terminated
  <2> QED BY <1>2, <2>1, SameSerial DEF vars, shared, local
<1> QED
  BY <1>3, <1>4, ReadRowSerial, ValidateSerial, WriteRowSerial, CommitSerial
     DEF Next, Step

\* The serializability invariant holds in every reachable state.
LEMMA SerialInvariant == Spec => []SerialInv
<1> QED BY InitSerialInv, NextSerialInv, GCSafeInvariant, PTL DEF Spec

\* Every committed transaction read the versions that a serial execution in
\* the order of tx_id gives it (kr.cc:26-51, 66, 78, 94-112).
THEOREM CommittedTransactionsAreSerializable == Spec => []Serializable
<1>1. SerialInv => Serializable
  BY DEF SerialInv
<1> QED BY <1>1, SerialInvariant, PTL

\* Outside a write phase the rows hold what the serial execution leaves.
THEOREM RowsHoldSerialState == Spec => []RowsAreSerial
<1>1. SerialInv => RowsAreSerial
  BY DEF SerialInv, RowInv, RowsAreSerial
<1> QED BY <1>1, SerialInvariant, PTL

-----------------------------------------------------------------------------
(* Refinement of the serial store. *)

\* Committed(r) is the version of r.
LEMMA CommittedIsVersion ==
    ASSUME GCSafe, SerialInv, NEW r \in Rows
    PROVE  Committed(r) \in 0 .. Tx_id /\ IsVersion(r, Committed(r), Tx_id)
<1>1. \E v \in 0 .. Tx_id : IsVersion(r, v, Tx_id)
  BY DEF SerialInv, VersionInv, IsVersion, VersionIn
<1> QED BY <1>1 DEF Committed

\* The initial state is one of the serial store.
LEMMA RefineInit == Init => Store!Init
<1> SUFFICES ASSUME Init PROVE Store!Init
  OBVIOUS
<1>1. ASSUME NEW r \in Rows PROVE Committed(r) = 0
  <2>1. \A v \in 0 .. 0 : v = 0
    OBVIOUS
  <2>2. IsVersion(r, 0, 0)
    BY DEF IsVersion, VersionIn
  <2> QED BY <2>1, <2>2 DEF Init, Committed
<1> QED BY <1>1 DEF Init, Store!Init

\* The increment of Tx_id (kr.cc:112) is a commit of the serial store, every
\* other step a stutter.
LEMMA RefineNext ==
    GCSafe /\ SerialInv /\ GCSafe' /\ SerialInv' /\ [Next]_vars => [Store!Next]_(Store!vars)
<1> SUFFICES ASSUME GCSafe, SerialInv, GCSafe', SerialInv', [Next]_vars
             PROVE  [Store!Next]_(Store!vars)
  OBVIOUS
<1>1. ASSUME UNCHANGED <<Tx_id, log>> PROVE UNCHANGED Store!vars
  BY <1>1 DEF Store!vars, Committed, IsVersion, VersionIn
<1>2. ASSUME NEW w \in Workers, TakeTxId(w) PROVE Store!Next
  <2> DEFINE Entry == [reads |-> read_set[w], writes |-> RowsOf(target[w].writes)]
  <2>1. /\ pc[w] = "write" /\ Tx_id' = Tx_id + 1 /\ log' = Append(log, Entry)
    BY <1>2 DEF TakeTxId, Goto
  <2>2. /\ Tx_id \in Nat /\ Len(log) = Tx_id
        /\ log \in Seq([reads : SUBSET (Rows \X Nat), writes : SUBSET Rows])
        /\ read_set[w] \in SUBSET (Rows \X Nat)
        /\ RowsOf(target[w].writes) \in SUBSET Rows
    BY TargetsType DEF GCSafe, TypeOK
  <2>3. Entry.reads = read_set[w] /\ Entry.writes = RowsOf(target[w].writes)
    OBVIOUS
  <2> HIDE DEF Entry
  <2>4. Len(log') = Len(log) + 1 /\ log'[Len(log')] = Entry
    BY <2>1, <2>2
  <2>5. ASSUME NEW rd \in Entry.reads PROVE rd[2] = Committed(rd[1])
    <3>1. rd[1] \in Rows /\ IsVersion(rd[1], rd[2], Tx_id)
      BY <2>1, <2>2, <2>3 DEF SerialInv, ReadOf
    <3> QED BY <2>2, <3>1, CommittedIsVersion, VersionInUnique DEF IsVersion
  <2>6. ASSUME NEW r \in Rows
        PROVE  Committed(r)' = IF r \in Entry.writes THEN Len(log) + 1 ELSE Committed(r)
    <3>1. /\ IsVersion(r, Committed(r), Tx_id)
          /\ Committed(r)' \in 0 .. Tx_id'
          /\ VersionIn(log', r, Committed(r)', Tx_id + 1)
      <4>1. IsVersion(r, Committed(r), Tx_id)
        BY CommittedIsVersion
      <4>2. \E v \in 0 .. Tx_id' : IsVersion(r, v, Tx_id)'
        BY DEF SerialInv, VersionInv, IsVersion, VersionIn
      <4>3. Committed(r)' = CHOOSE v \in 0 .. Tx_id' : VersionIn(log', r, v, Tx_id')
        BY DEF Committed, IsVersion
      <4>4. Committed(r)' \in 0 .. Tx_id' /\ VersionIn(log', r, Committed(r)', Tx_id')
        BY <4>2, <4>3 DEF IsVersion
      <4> QED BY <2>1, <4>1, <4>4
    <3>2. VersionIn(log', r, IF r \in Entry.writes THEN Len(log) + 1 ELSE Committed(r),
                    Tx_id + 1)
      BY <2>1, <2>2, <3>1, VersionAfterCommit DEF IsVersion
    <3> QED BY <2>2, <3>1, <3>2, VersionInUnique
  <2> DEFINE db == [r \in Rows |-> Committed(r)]
  <2>7. \A rd \in Entry.reads : rd[1] \in Rows /\ rd[2] = db[rd[1]]
    BY <2>2, <2>3, <2>5
  <2>8. db' = [r \in Rows |-> IF r \in Entry.writes THEN Len(log) + 1 ELSE db[r]]
    BY <2>6, Zenon
  <2>9. log' = Append(log, [reads |-> Entry.reads, writes |-> Entry.writes])
    BY <2>1, <2>3 DEF Entry
  <2>10. Store!Commit(Entry.reads, Entry.writes)
    BY <2>7, <2>8, <2>9, Zenon DEF Store!Commit
  <2>11. Entry.reads \in SUBSET (Rows \X Nat) /\ Entry.writes \in SUBSET Rows
    BY <2>2, <2>3
  <2> QED BY <2>4, <2>10, <2>11, Zenon DEF Store!Next
<1>3. ASSUME NEW w \in Workers, Step(w), ~TakeTxId(w) PROVE UNCHANGED <<Tx_id, log>>
  BY <1>3 DEF Step, Begin, Mark, ReadRow, LockGiant, ValidateOK, ValidateFail,
              Exit, WriteRow, Register, ScanMark, Collect
<1>4. ASSUME Terminated \/ UNCHANGED vars PROVE UNCHANGED <<Tx_id, log>>
  BY <1>4 DEF Terminated, vars, shared
<1> QED BY <1>1, <1>2, <1>3, <1>4 DEF Next

\* The program implements the serial store.
THEOREM Refinement == Spec => ImplementsSerialStore
<1> QED
  BY RefineInit, RefineNext, GCSafeInvariant, SerialInvariant, PTL
     DEF Spec, ImplementsSerialStore, Store!Spec
=============================================================================
