----------------------------- MODULE SiloProofs -----------------------------
(***************************************************************************)
(* Proofs about the Silo commit protocol of 1115_silo/silo.cc, for any     *)
(* number of workers, transactions, operations and rows.                   *)
(***************************************************************************)
EXTENDS Silo, TLAPS

-----------------------------------------------------------------------------
(* Types *)

\* An update of one place of a function.
LEMMA Updated ==
    ASSUME NEW S, NEW T, NEW f \in [S -> T], NEW x, NEW v, x \in S => v \in T
    PROVE  [f EXCEPT ![x] = v] \in [S -> T]
OBVIOUS

\* The updates of a row.
LEMMA LockStored ==
    ASSUME NEW R \in [Keys -> Rows], NEW k \in Keys, NEW b \in BOOLEAN
    PROVE  [R EXCEPT ![k].lock = b] \in [Keys -> Rows]
BY DEF Rows

LEMMA ValueStored ==
    ASSUME NEW R \in [Keys -> Rows], NEW k \in Keys, NEW v \in Ids
    PROVE  [R EXCEPT ![k].value = v] \in [Keys -> Rows]
BY DEF Rows

LEMMA TidwStored ==
    ASSUME NEW R \in [Keys -> Rows], NEW k \in Keys, NEW n \in Nat
    PROVE  [R EXCEPT ![k].lock = FALSE, ![k].tid = n] \in [Keys -> Rows]
BY DEF Rows

\* A sequence with one more element.
LEMMA Appended ==
    ASSUME NEW S, NEW s \in Seq(S), NEW e \in S
    PROVE  Append(s, e) \in Seq(S)
OBVIOUS

LEMMA ElementType ==
    ASSUME NEW S, NEW s \in Seq(S), NEW j \in DOMAIN s
    PROVE  s[j] \in S
OBVIOUS

\* Keys are natural numbers.
LEMMA KeysAreNat == \A k \in Keys : k \in Nat /\ k + 1 \in Nat
  BY ConstantsAssumption DEF Keys

\* The entries of the sets.
LEMMA SetEntries ==
    ASSUME TypeOK, NEW w \in Workers
    PROVE  /\ \A j \in DOMAIN readSet[w] : /\ readSet[w][j] \in Entries
                                          /\ readSet[w][j].key \in Keys
           /\ \A j \in DOMAIN writeSet[w] : /\ writeSet[w][j].key \in Keys
                                           /\ writeSet[w][j].value \in Ids
           /\ KeysOf(writeSet[w]) \in SUBSET Keys
<1>1. readSet[w] \in Seq(Entries) /\ writeSet[w] \in Seq([key : Keys, value : Ids])
  BY DEF TypeOK
<1>2. \A j \in DOMAIN readSet[w] : readSet[w][j] \in Entries
  BY <1>1
<1>3. \A j \in DOMAIN writeSet[w] : writeSet[w][j] \in [key : Keys, value : Ids]
  BY <1>1, ElementType
<1> QED BY <1>2, <1>3 DEF Entries, KeysOf

\* The initial state (main, init_trans and init_row) has the declared types.
LEMMA InitTypeOK == Init => TypeOK
<1> SUFFICES ASSUME Init PROVE TypeOK
  OBVIOUS
<1>1. Initial \in Ids /\ NoTemp \in [lock : BOOLEAN, tid : Nat]
  BY DEF Ids, NoTemp
<1>2. Row \in [Keys -> Rows]
  BY <1>1 DEF Init, Rows
<1>3. 1 \in 1 .. MAX_TRANSACTION
  BY ConstantsAssumption
<1>4. \A S : <<>> \in Seq(S)
  OBVIOUS
<1>5. /\ op \in [Workers -> Seq(Operations)]
      /\ readSet \in [Workers -> Seq(Entries)]
      /\ writeSet \in [Workers -> Seq([key : Keys, value : Ids])]
  BY <1>4 DEF Init
<1>6. /\ pc \in [Workers -> Places] /\ i \in [Workers -> 1 .. MAX_TRANSACTION]
      /\ temp \in [Workers -> [lock : BOOLEAN, tid : Nat]]
  BY <1>1, <1>3 DEF Init, Places
<1> QED BY <1>2, <1>5, <1>6 DEF Init, TypeOK

\* Where a worker copies rows it has its operations, all of them, and its
\* index is that of one of them until it is past the last.
Copying(w) ==
    /\ pc[w] \notin {"start", "done"} => op[w] \in [1 .. MAX_OPERATION -> Operations]
    /\ pc[w] \in {"read", "readval", "validate", "write", "install"} => pos[w] >= 1
    /\ pc[w] = "readval" => pos[w] <= MAX_OPERATION
    /\ pc[w] = "install" => pos[w] \in DOMAIN writeSet[w]
    /\ pc[w] \in {"unlockstore", "abortstore"} => pos[w] \in Keys

\* The inductive invariant behind TypeOK.
TypeInv == TypeOK /\ \A w \in Workers : Copying(w)


\* What a worker that copies rows finds at its index.
LEMMA CurrentOperation ==
    ASSUME TypeInv, NEW w \in Workers, pc[w] \in {"read", "readval"},
           pos[w] <= MAX_OPERATION
    PROVE  /\ op[w][pos[w]] \in Operations
           /\ op[w][pos[w]].rowid \in Keys
<1>1. pos[w] \in 1 .. MAX_OPERATION
  BY ConstantsAssumption DEF TypeInv, TypeOK, Copying
<1>2. op[w] \in [1 .. MAX_OPERATION -> Operations]
  BY DEF TypeInv, Copying
<1> QED BY <1>1, <1>2 DEF Operations

\* What a worker keeps for itself.
Locals(u) == <<pc[u], i[u], op[u], pos[u], readSet[u], writeSet[u], lockList[u],
               temp[u], max_rset[u], maxtid[u]>>

\* A step of a worker leaves the locals of the others alone.
LEMMA OthersKeepLocals ==
    ASSUME TypeOK, NEW w \in Workers, Step(w), NEW u \in Workers, u # w
    PROVE  Locals(u)' = Locals(u)
<1> USE DEF Locals, At, Goto
<1>1. CASE StartTx(w)
  BY <1>1 DEF StartTx, TypeOK
<1>2. CASE ReadTidw(w)
  BY <1>2 DEF ReadTidw, TypeOK
<1>3. CASE ReadTuple(w)
  BY <1>3 DEF ReadTuple, TypeOK
<1>4. CASE AddWrite(w)
  BY <1>4 DEF AddWrite, TypeOK
<1>5. CASE SortLockList(w)
  BY <1>5 DEF SortLockList, TypeOK
<1>6. CASE LockRow(w)
  BY <1>6 DEF LockRow, TypeOK
<1>7. CASE EndLock(w)
  BY <1>7 DEF EndLock, TypeOK
<1>8. CASE ValidateRow(w)
  BY <1>8 DEF ValidateRow, TypeOK
<1>9. CASE Abort(w)
  BY <1>9 DEF Abort, TypeOK
<1>10. CASE ChooseTid(w)
  BY <1>10 DEF ChooseTid, TypeOK
<1>11. CASE WriteTuple(w)
  BY <1>11 DEF WriteTuple, TypeOK
<1>12. CASE InstallTidw(w)
  BY <1>12 DEF InstallTidw, TypeOK
<1>13. CASE EndWrite(w)
  BY <1>13 DEF EndWrite, TypeOK
<1>14. CASE UnlockLoad(w)
  BY <1>14 DEF UnlockLoad, TypeOK
<1>15. CASE UnlockStore(w)
  BY <1>15 DEF UnlockStore, TypeOK
<1>16. CASE Retry(w)
  BY <1>16 DEF Retry, TypeOK
<1>17. CASE EndTx(w)
  BY <1>17 DEF EndTx, TypeOK
<1> QED
  BY <1>1, <1>2, <1>3, <1>4, <1>5, <1>6, <1>7, <1>8, <1>9, <1>10, <1>11, <1>12,
     <1>13, <1>14, <1>15, <1>16, <1>17 DEF Step

\* A step keeps the types and the worker's own indices.
LEMMA StepTypes ==
    ASSUME TypeInv, NEW w \in Workers, Step(w)
    PROVE  TypeOK' /\ Copying(w)'
<1> USE DEF TypeInv, At, Goto
<1>1. TypeOK /\ Copying(w) /\ Row \in [Keys -> Rows]
  BY DEF TypeOK
<1>2. CASE StartTx(w)
  <2>1. TypeOK'
    <3>1. PICK o \in [1 .. MAX_OPERATION -> Operations] : op' = [op EXCEPT ![w] = o]
      BY <1>2 DEF StartTx
    <3>2. o \in Seq(Operations)
      BY ConstantsAssumption
    <3>3. op' \in [Workers -> Seq(Operations)]
      BY <3>1, <3>2 DEF TypeOK
    <3>4. pos' \in [Workers -> Nat] /\ pc' \in [Workers -> Places]
      BY <1>2 DEF StartTx, TypeOK, Places
    <3> QED BY <1>2, <3>3, <3>4 DEF StartTx, TypeOK
  <2>2. Copying(w)'
    BY <1>1, <1>2 DEF StartTx, TypeOK, Copying
  <2> QED BY <2>1, <2>2
<1>3. CASE ReadTidw(w)
  <2>1. TypeOK'
    <3> DEFINE r == Row[op[w][pos[w]].rowid]
    <3>1. r \in Rows
      BY <1>3, CurrentOperation DEF ReadTidw, TypeOK
    <3>2. [lock |-> r.lock, tid |-> r.tid] \in [lock : BOOLEAN, tid : Nat]
      BY <3>1 DEF Rows
    <3>3. temp' = [temp EXCEPT ![w] = [lock |-> r.lock, tid |-> r.tid]]
      BY <1>3 DEF ReadTidw
    <3>4. temp' \in [Workers -> [lock : BOOLEAN, tid : Nat]]
      BY <3>2, <3>3, Updated DEF TypeOK
    <3>5. pc' \in [Workers -> Places]
      BY <1>3 DEF ReadTidw, TypeOK, Places
    <3> QED BY <1>3, <3>4, <3>5 DEF ReadTidw, TypeOK
  <2>2. Copying(w)'
    BY <1>1, <1>3 DEF ReadTidw, TypeOK, Copying
  <2> QED BY <2>1, <2>2
<1>4. CASE ReadTuple(w)
  <2>1. TypeOK'
    <3> DEFINE k == op[w][pos[w]].rowid
               e == [key |-> k, lock |-> temp[w].lock, tid |-> temp[w].tid,
                     value |-> Row[k].value]
    <3>1. k \in Keys
      BY <1>4, CurrentOperation DEF ReadTuple, Copying
    <3>2. e \in Entries
      BY <3>1 DEF TypeOK, Rows, Entries
    <3>3. readSet' = [readSet EXCEPT ![w] = Append(readSet[w], e)]
      BY <1>4 DEF ReadTuple
    <3>4. Append(readSet[w], e) \in Seq(Entries)
      BY <3>2, Appended DEF TypeOK
    <3>5. readSet' \in [Workers -> Seq(Entries)]
      BY <3>3, <3>4, Updated DEF TypeOK
    <3>6. temp' \in [Workers -> [lock : BOOLEAN, tid : Nat]]
      <4>1. NoTemp \in [lock : BOOLEAN, tid : Nat]
        BY DEF NoTemp
      <4> QED BY <1>4, <4>1, Updated DEF ReadTuple, TypeOK
    <3>7. pos' \in [Workers -> Nat] /\ pc' \in [Workers -> Places]
      BY <1>4 DEF ReadTuple, TypeOK, Places
    <3> QED BY <1>4, <3>5, <3>6, <3>7 DEF ReadTuple, TypeOK
  <2>2. Copying(w)'
    BY <1>1, <1>4 DEF ReadTuple, TypeOK, Copying
  <2> QED BY <2>1, <2>2
<1>5. CASE AddWrite(w)
  <2>1. TypeOK'
    <3> DEFINE e == [key |-> op[w][pos[w]].rowid, value |-> Me(w)]
    <3>1. e \in [key : Keys, value : Ids]
      <4>1. Me(w) \in Ids
        BY DEF Me, Ids, TypeOK
      <4> QED BY <1>5, <4>1, CurrentOperation DEF AddWrite
    <3>2. writeSet' = [writeSet EXCEPT ![w] = Append(writeSet[w], e)]
      BY <1>5 DEF AddWrite
    <3>3. Append(writeSet[w], e) \in Seq([key : Keys, value : Ids])
      BY <3>1, Appended DEF TypeOK
    <3>4. writeSet' \in [Workers -> Seq([key : Keys, value : Ids])]
      BY <3>2, <3>3, Updated DEF TypeOK
    <3>5. pos' \in [Workers -> Nat]
      BY <1>5 DEF AddWrite, TypeOK
    <3> QED BY <1>5, <3>4, <3>5 DEF AddWrite, TypeOK
  <2>2. Copying(w)'
    BY <1>1, <1>5 DEF AddWrite, TypeOK, Copying
  <2> QED BY <2>1, <2>2
<1>6. CASE SortLockList(w)
  <2>1. TypeOK'
    <3>1. lockList[w] \cup KeysOf(writeSet[w]) \in SUBSET Keys
      BY SetEntries DEF TypeOK
    <3>2. lockList' \in [Workers -> SUBSET Keys]
      BY <1>6, <3>1, Updated DEF SortLockList, TypeOK
    <3>3. pos' \in [Workers -> Nat] /\ pc' \in [Workers -> Places]
      BY <1>6 DEF SortLockList, TypeOK, Places
    <3> QED BY <1>6, <3>2, <3>3 DEF SortLockList, TypeOK
  <2>2. Copying(w)'
    BY <1>1, <1>6 DEF SortLockList, TypeOK, Copying
  <2> QED BY <2>1, <2>2
<1>7. CASE LockRow(w)
  <2>1. TypeOK'
    <3>1. PICK k \in Keys : /\ Row' = [Row EXCEPT ![k].lock = TRUE]
                            /\ owner' = [owner EXCEPT ![k] = w]
                            /\ pos' = [pos EXCEPT ![w] = k + 1]
      BY <1>7 DEF LockRow
    <3>2. Row' \in [Keys -> Rows]
      BY <1>1, <3>1, LockStored
    <3>3. owner' \in [Keys -> Workers \cup {NoWorker}] /\ pos' \in [Workers -> Nat]
      BY <3>1, KeysAreNat, Updated DEF TypeOK
    <3> QED BY <1>7, <3>2, <3>3 DEF LockRow, TypeOK
  <2>2. Copying(w)'
    BY <1>1, <1>7 DEF LockRow, TypeOK, Copying
  <2> QED BY <2>1, <2>2
<1>8. CASE EndLock(w)
  <2>1. TypeOK'
    <3>1. pos' \in [Workers -> Nat] /\ pc' \in [Workers -> Places]
      BY <1>8 DEF EndLock, TypeOK, Places
    <3> QED BY <1>8, <3>1 DEF EndLock, TypeOK
  <2>2. Copying(w)'
    BY <1>1, <1>8 DEF EndLock, TypeOK, Copying
  <2> QED BY <2>1, <2>2
<1>9. CASE ValidateRow(w)
  <2>1. TypeOK'
    <3> DEFINE e == readSet[w][pos[w]]
    <3>1. Row[e.key].tid \in Nat
      <4>1. e.key \in Keys
        BY <1>9, SetEntries DEF ValidateRow
      <4> QED BY <4>1 DEF TypeOK, Rows
    <3>2. max_rset' = [max_rset EXCEPT ![w] = Max2(max_rset[w], Row[e.key].tid)]
      BY <1>9 DEF ValidateRow
    <3>3. max_rset' \in [Workers -> Nat]
      BY <3>1, <3>2, Updated DEF TypeOK, Max2
    <3>4. pos' \in [Workers -> Nat]
      BY <1>9 DEF ValidateRow, TypeOK
    <3> QED BY <1>9, <3>3, <3>4 DEF ValidateRow, TypeOK
  <2>2. Copying(w)'
    BY <1>1, <1>9 DEF ValidateRow, TypeOK, Copying
  <2> QED BY <2>1, <2>2
<1>10. CASE Abort(w)
  <2>1. TypeOK'
    <3>1. pos' \in [Workers -> Nat] /\ pc' \in [Workers -> Places]
      BY <1>10 DEF Abort, TypeOK, Places
    <3> QED BY <1>10, <3>1 DEF Abort, TypeOK
  <2>2. Copying(w)'
    BY <1>1, <1>10 DEF Abort, TypeOK, Copying
  <2> QED BY <2>1, <2>2
<1>11. CASE ChooseTid(w)
  <2>1. TypeOK'
    <3>1. maxtid' \in [Workers -> Nat]
      BY <1>11 DEF ChooseTid, TypeOK
    <3>2. pos' \in [Workers -> Nat] /\ pc' \in [Workers -> Places]
      BY <1>11 DEF ChooseTid, TypeOK, Places
    <3> QED BY <1>11, <3>1, <3>2 DEF ChooseTid, TypeOK
  <2>2. Copying(w)'
    BY <1>1, <1>11 DEF ChooseTid, TypeOK, Copying
  <2> QED BY <2>1, <2>2
<1>12. CASE WriteTuple(w)
  <2>1. TypeOK'
    <3> DEFINE e == writeSet[w][pos[w]]
    <3>1. e.key \in Keys /\ e.value \in Ids
      BY <1>12, SetEntries DEF WriteTuple
    <3>2. Row' = [Row EXCEPT ![e.key].value = e.value]
      BY <1>12 DEF WriteTuple
    <3>3. Row' \in [Keys -> Rows]
      BY <1>1, <3>1, <3>2, ValueStored
    <3>4. pc' \in [Workers -> Places]
      BY <1>12 DEF WriteTuple, TypeOK, Places
    <3> QED BY <1>12, <3>3, <3>4 DEF WriteTuple, TypeOK
  <2>2. Copying(w)'
    BY <1>1, <1>12 DEF WriteTuple, TypeOK, Copying
  <2> QED BY <2>1, <2>2
<1>13. CASE InstallTidw(w)
  <2>1. TypeOK'
    <3> DEFINE k == writeSet[w][pos[w]].key
    <3>1. k \in Keys /\ maxtid[w] \in Nat
      <4>1. pos[w] \in DOMAIN writeSet[w]
        BY <1>13 DEF InstallTidw, Copying
      <4> QED BY <4>1, SetEntries DEF TypeOK
    <3>2. /\ Row' = [Row EXCEPT ![k].lock = FALSE, ![k].tid = maxtid[w]]
          /\ owner' = [owner EXCEPT ![k] = NoWorker]
      BY <1>13 DEF InstallTidw
    <3>3. Row' \in [Keys -> Rows]
      BY <1>1, <3>1, <3>2, TidwStored
    <3>4. owner' \in [Keys -> Workers \cup {NoWorker}]
      BY <3>2, Updated DEF TypeOK
    <3>5. pos' \in [Workers -> Nat]
      <4>1. pos' = [pos EXCEPT ![w] = pos[w] + 1]
        BY <1>13 DEF InstallTidw
      <4>2. pos[w] + 1 \in Nat
        BY DEF TypeOK
      <4> QED BY <4>1, <4>2, Updated DEF TypeOK
    <3>6. pc' \in [Workers -> Places]
      BY <1>13 DEF InstallTidw, TypeOK, Places
    <3> QED BY <1>13, <3>3, <3>4, <3>5, <3>6 DEF InstallTidw, TypeOK
  <2>2. Copying(w)'
    BY <1>1, <1>13 DEF InstallTidw, TypeOK, Copying
  <2> QED BY <2>1, <2>2
<1>14. CASE EndWrite(w)
  <2>1. TypeOK'
    <3>1. pos' \in [Workers -> Nat] /\ pc' \in [Workers -> Places]
      BY <1>14 DEF EndWrite, TypeOK, Places
    <3> QED BY <1>14, <3>1 DEF EndWrite, TypeOK
  <2>2. Copying(w)'
    BY <1>1, <1>14 DEF EndWrite, TypeOK, Copying
  <2> QED BY <2>1, <2>2
<1>15. CASE UnlockLoad(w)
  <2>1. TypeOK'
    <3>1. PICK k \in Keys :
              /\ temp' = [temp EXCEPT ![w] = [lock |-> FALSE, tid |-> Row[k].tid]]
              /\ pos' = [pos EXCEPT ![w] = k]
      BY <1>15 DEF UnlockLoad
    <3>2. [lock |-> FALSE, tid |-> Row[k].tid] \in [lock : BOOLEAN, tid : Nat]
      BY DEF TypeOK, Rows
    <3>3. temp' \in [Workers -> [lock : BOOLEAN, tid : Nat]]
      BY <3>1, <3>2, Updated DEF TypeOK
    <3>4. pos' \in [Workers -> Nat]
      BY <3>1, KeysAreNat, Updated DEF TypeOK
    <3>5. pc' \in [Workers -> Places]
      BY <1>15, Updated DEF UnlockLoad, TypeOK, Places, StoreOf
    <3> QED BY <1>15, <3>3, <3>4, <3>5 DEF UnlockLoad, TypeOK
  <2>2. Copying(w)'
    BY <1>1, <1>15, KeysAreNat DEF UnlockLoad, TypeOK, Copying, StoreOf
  <2> QED BY <2>1, <2>2
<1>16. CASE UnlockStore(w)
  <2>1. TypeOK'
    <3> DEFINE k == pos[w]
    <3>1. k \in Keys /\ temp[w].tid \in Nat
      BY <1>16 DEF UnlockStore, TypeOK, Copying
    <3>2. /\ Row' = [Row EXCEPT ![k].lock = FALSE, ![k].tid = temp[w].tid]
          /\ owner' = [owner EXCEPT ![k] = NoWorker]
      BY <1>16 DEF UnlockStore
    <3>3. Row' \in [Keys -> Rows]
      BY <1>1, <3>1, <3>2, TidwStored
    <3>4. owner' \in [Keys -> Workers \cup {NoWorker}]
      BY <3>2, Updated DEF TypeOK
    <3>5. temp' \in [Workers -> [lock : BOOLEAN, tid : Nat]]
      <4>1. NoTemp \in [lock : BOOLEAN, tid : Nat]
        BY DEF NoTemp
      <4> QED BY <1>16, <4>1, Updated DEF UnlockStore, TypeOK
    <3>6. pos' \in [Workers -> Nat]
      BY <1>16 DEF UnlockStore, TypeOK
    <3>7. pc' \in [Workers -> Places]
      BY <1>16 DEF UnlockStore, TypeOK, Places
    <3> QED BY <1>16, <3>3, <3>4, <3>5, <3>6, <3>7 DEF UnlockStore, TypeOK
  <2>2. Copying(w)'
    BY <1>1, <1>16 DEF UnlockStore, TypeOK, Copying
  <2> QED BY <2>1, <2>2
<1>17. CASE Retry(w)
  <2>1. TypeOK'
    <3>1. <<>> \in Seq(Entries) /\ <<>> \in Seq([key : Keys, value : Ids])
      OBVIOUS
    <3>2. /\ readSet' \in [Workers -> Seq(Entries)]
          /\ writeSet' \in [Workers -> Seq([key : Keys, value : Ids])]
      BY <1>17, <3>1, Updated DEF Retry, TypeOK
    <3>3. lockList' \in [Workers -> SUBSET Keys]
      BY <1>17, Updated DEF Retry, TypeOK
    <3>4. pos' \in [Workers -> Nat] /\ pc' \in [Workers -> Places]
      BY <1>17 DEF Retry, TypeOK, Places
    <3> QED BY <1>17, <3>2, <3>3, <3>4 DEF Retry, TypeOK
  <2>2. Copying(w)'
    BY <1>1, <1>17 DEF Retry, TypeOK, Copying
  <2> QED BY <2>1, <2>2
<1>18. CASE EndTx(w)
  <2>1. TypeOK'
    <3>1. op' \in [Workers -> Seq(Operations)]
      <4>1. <<>> \in Seq(Operations)
        OBVIOUS
      <4> QED BY <1>18, <4>1, Updated DEF EndTx, TypeOK
    <3>2. i' \in [Workers -> 1 .. MAX_TRANSACTION] /\ pc' \in [Workers -> Places]
      <4>1. CASE MoreTx(w)
        <5>1. i' = [i EXCEPT ![w] = i[w] + 1] /\ pc' = [pc EXCEPT ![w] = "start"]
          BY <1>18, <4>1 DEF EndTx
        <5>2. i[w] + 1 \in 1 .. MAX_TRANSACTION
          BY <4>1, ConstantsAssumption DEF MoreTx, TypeOK
        <5> QED BY <5>1, <5>2, Updated DEF TypeOK, Places
      <4>2. CASE ~MoreTx(w)
        BY <1>18, <4>2 DEF EndTx, TypeOK, Places
      <4> QED BY <4>1, <4>2
    <3>3. pos' \in [Workers -> Nat]
      BY <1>18 DEF EndTx, TypeOK
    <3> QED BY <1>18, <3>1, <3>2, <3>3 DEF EndTx, TypeOK
  <2>2. Copying(w)'
    BY <1>1, <1>18 DEF EndTx, TypeOK, Copying
  <2> QED BY <2>1, <2>2
<1> QED
  BY <1>2, <1>3, <1>4, <1>5, <1>6, <1>7, <1>8, <1>9, <1>10, <1>11, <1>12,
     <1>13, <1>14, <1>15, <1>16, <1>17, <1>18 DEF Step

\* TypeInv is kept by every step.
LEMMA NextTypeInv == TypeInv /\ [Next]_vars => TypeInv'
<1> SUFFICES ASSUME TypeInv, [Next]_vars PROVE TypeInv'
  OBVIOUS
<1>1. ASSUME NEW w \in Workers, Step(w) PROVE TypeInv'
  <2>1. TypeOK' /\ Copying(w)'
    BY <1>1, StepTypes
  <2>2. ASSUME NEW u \in Workers, u # w PROVE Copying(u)'
    <3>1. Locals(u)' = Locals(u)
      BY <1>1, <2>2, OthersKeepLocals DEF TypeInv
    <3> QED BY <3>1 DEF TypeInv, Copying, Locals
  <2> QED BY <2>1, <2>2 DEF TypeInv
<1>2. CASE MainReturns
  BY <1>2 DEF MainReturns, TypeInv, TypeOK, Copying
<1>3. CASE UNCHANGED vars
  BY <1>3 DEF vars, TypeInv, TypeOK, Copying
<1> QED BY <1>1, <1>2, <1>3 DEF Next, Terminated

\* TypeInv holds in every reachable state.
LEMMA TypeInvariant == Spec => []TypeInv
<1>1. Init => TypeInv
  <2> SUFFICES ASSUME Init PROVE TypeInv
    OBVIOUS
  <2>1. \A w \in Workers : Copying(w)
    BY DEF Init, Copying
  <2> QED BY <2>1, InitTypeOK DEF TypeInv
<1> QED BY <1>1, NextTypeInv, PTL DEF Spec

\* Every variable keeps its type, whatever stores of other workers fall
\* between a worker's own (silo.cc:183-346).
THEOREM TypeCorrect == Spec => []TypeOK
<1>1. TypeInv => TypeOK
  BY DEF TypeInv
<1> QED BY <1>1, TypeInvariant, PTL

-----------------------------------------------------------------------------
(* Lock bits *)

\* The inductive invariant: owner names the worker that set a lock bit, as
\* long as the bit is set, and that worker has not passed the row yet.
LockInv ==
    \A k \in Keys :
        /\ Row[k].lock <=> owner[k] # NoWorker
        /\ \A w \in Workers : owner[k] = w => WillUnlock(w, k)

\* What WillUnlock says of a worker depends on its locals only.
LEMMA WillUnlockIsLocal ==
    ASSUME NEW u, Locals(u)' = Locals(u), NEW k
    PROVE  WillUnlock(u, k)' <=> WillUnlock(u, k)
BY DEF Locals, WillUnlock, Ahead

\* The steps that store no tidw.
Quiet(w) ==
    \/ StartTx(w) \/ ReadTidw(w) \/ ReadTuple(w) \/ AddWrite(w)
    \/ SortLockList(w) \/ EndLock(w) \/ ValidateRow(w) \/ Abort(w)
    \/ ChooseTid(w) \/ WriteTuple(w) \/ EndWrite(w) \/ UnlockLoad(w)
    \/ Retry(w) \/ EndTx(w)

\* A step that stores no tidw neither sets nor clears a lock bit, and what the
\* worker had to unlock it still has.
LEMMA QuietStep ==
    ASSUME TypeInv, NEW w \in Workers, Quiet(w), NEW k \in Keys
    PROVE  /\ Row'[k].lock = Row[k].lock /\ owner'[k] = owner[k]
           /\ WillUnlock(w, k) => WillUnlock(w, k)'
<1> USE KeysAreNat DEF At, Goto
<1>1. TypeOK
  BY DEF TypeInv
<1>2. CASE StartTx(w)
  BY <1>1, <1>2 DEF StartTx, TypeOK, WillUnlock, Ahead
<1>3. CASE ReadTidw(w)
  BY <1>1, <1>3 DEF ReadTidw, TypeOK, WillUnlock, Ahead
<1>4. CASE ReadTuple(w)
  BY <1>1, <1>4 DEF ReadTuple, TypeOK, WillUnlock, Ahead
<1>5. CASE AddWrite(w)
  BY <1>1, <1>5 DEF AddWrite, TypeOK, WillUnlock, Ahead
<1>6. CASE SortLockList(w)
  BY <1>1, <1>6 DEF SortLockList, TypeOK, WillUnlock, Ahead
<1>7. CASE EndLock(w)
  BY <1>1, <1>7 DEF EndLock, TypeOK, WillUnlock, Ahead
<1>8. CASE ValidateRow(w)
  BY <1>1, <1>8 DEF ValidateRow, TypeOK, WillUnlock, Ahead
<1>9. CASE Abort(w)
  BY <1>1, <1>9 DEF Abort, TypeOK, WillUnlock, Ahead
<1>10. CASE ChooseTid(w)
  BY <1>1, <1>10 DEF ChooseTid, TypeOK, WillUnlock, Ahead
<1>11. CASE WriteTuple(w)
  <2>1. Row'[k].lock = Row[k].lock /\ owner' = owner
    <3> DEFINE e == writeSet[w][pos[w]]
    <3>1. Row' = [Row EXCEPT ![e.key].value = e.value] /\ owner' = owner
      BY <1>11 DEF WriteTuple
    <3>2. Row \in [Keys -> Rows]
      BY <1>1 DEF TypeOK
    <3> QED BY <3>1, <3>2 DEF Rows
  <2>2. WillUnlock(w, k) => WillUnlock(w, k)'
    BY <1>1, <1>11 DEF WriteTuple, TypeOK, WillUnlock, Ahead
  <2> QED BY <2>1, <2>2
<1>12. CASE EndWrite(w)
  BY <1>1, <1>12 DEF EndWrite, TypeOK, WillUnlock, Ahead
<1>13. CASE UnlockLoad(w)
  BY <1>1, <1>13 DEF UnlockLoad, TypeOK, WillUnlock, Ahead, IsNext, StoreOf
<1>14. CASE Retry(w)
  BY <1>1, <1>14 DEF Retry, TypeOK, WillUnlock, Ahead
<1>15. CASE EndTx(w)
  BY <1>1, <1>15 DEF EndTx, TypeOK, WillUnlock, Ahead
<1> QED
  BY <1>2, <1>3, <1>4, <1>5, <1>6, <1>7, <1>8, <1>9, <1>10,
     <1>11, <1>12, <1>13, <1>14, <1>15 DEF Quiet

\* LockInv is kept by every step.
LEMMA NextLockInv == TypeInv /\ LockInv /\ [Next]_vars => LockInv'
<1> SUFFICES ASSUME TypeInv, LockInv, [Next]_vars PROVE LockInv'
  OBVIOUS
<1> USE DEF At, Goto
<1>t. TypeOK
  BY DEF TypeInv
<1>1. ASSUME NEW w \in Workers, Step(w), NEW u \in Workers, u # w, NEW k \in Keys
      PROVE  WillUnlock(u, k)' <=> WillUnlock(u, k)
  BY <1>t, <1>1, OthersKeepLocals, WillUnlockIsLocal
<1>2. ASSUME NEW w \in Workers, Quiet(w) PROVE LockInv'
  <2>1. Step(w)
    BY <1>2 DEF Quiet, Step
  <2> SUFFICES ASSUME NEW k \in Keys
               PROVE  /\ Row'[k].lock <=> owner'[k] # NoWorker
                      /\ \A u \in Workers : owner'[k] = u => WillUnlock(u, k)'
    BY DEF LockInv
  <2>2. Row'[k].lock = Row[k].lock /\ owner'[k] = owner[k]
    BY <1>2, QuietStep
  <2>3. ASSUME NEW u \in Workers, owner'[k] = u PROVE WillUnlock(u, k)'
    <3>1. WillUnlock(u, k)
      BY <2>2, <2>3 DEF LockInv
    <3> QED BY <1>1, <1>2, <2>1, <3>1, QuietStep
  <2> QED BY <2>2, <2>3 DEF LockInv
<1>3. ASSUME NEW w \in Workers, LockRow(w) PROVE LockInv'
  <2>1. PICK n \in Keys : /\ IsNext(w, n)
                          /\ Row' = [Row EXCEPT ![n].lock = TRUE]
                          /\ owner' = [owner EXCEPT ![n] = w]
                          /\ pos' = [pos EXCEPT ![w] = n + 1]
    BY <1>3 DEF LockRow
  <2>2. pc[w] = "lock" /\ pc' = pc /\ lockList' = lockList
    BY <1>3 DEF LockRow
  <2>3. Step(w)
    BY <1>3 DEF Step
  <2>4. /\ n \in lockList[w] /\ n >= pos[w] /\ pos'[w] = n + 1
        /\ \A m \in lockList[w] : m >= pos[w] => n <= m
    BY <1>t, <2>1 DEF IsNext, Ahead, TypeOK
  <2> SUFFICES ASSUME NEW k \in Keys
               PROVE  /\ Row'[k].lock <=> owner'[k] # NoWorker
                      /\ \A u \in Workers : owner'[k] = u => WillUnlock(u, k)'
    BY DEF LockInv
  <2>5. Row'[k].lock <=> owner'[k] # NoWorker
    <3>1. w # NoWorker
      BY ConstantsAssumption DEF Workers, NoWorker
    <3>2. /\ Row'[k].lock = IF k = n THEN TRUE ELSE Row[k].lock
          /\ owner'[k] = IF k = n THEN w ELSE owner[k]
      BY <1>t, <2>1 DEF TypeOK, Rows
    <3> QED BY <3>1, <3>2 DEF LockInv
  <2>6. ASSUME NEW u \in Workers, owner'[k] = u PROVE WillUnlock(u, k)'
    <3>1. CASE u # w
      <4>1. owner[k] = u
        BY <1>t, <2>1, <2>6, <3>1 DEF TypeOK
      <4> QED BY <1>1, <2>3, <3>1, <4>1 DEF LockInv
    <3>2. CASE u = w /\ k = n
      BY <1>t, <2>2, <2>4, <3>2, KeysAreNat DEF WillUnlock
    <3>3. CASE u = w /\ k # n
      <4>1. owner[k] = w
        BY <1>t, <2>1, <2>6, <3>3 DEF TypeOK
      <4>2. WillUnlock(w, k)
        BY <4>1 DEF LockInv
      <4>3. k \in lockList[w] /\ k < pos[w]
        BY <2>2, <4>2 DEF WillUnlock
      <4>4. k < n + 1
        <5>1. k \in Nat /\ n \in Nat /\ pos[w] \in Nat
          BY <1>t, KeysAreNat DEF TypeOK
        <5>2. pos[w] <= n
          BY <2>4, <5>1
        <5> QED BY <4>3, <5>1, <5>2
      <4> QED BY <2>2, <2>4, <3>3, <4>3, <4>4 DEF WillUnlock
    <3> QED BY <3>1, <3>2, <3>3
  <2> QED BY <2>5, <2>6
<1>4. ASSUME NEW w \in Workers, NEW n \in Keys, NEW t \in Nat,
             InstallTidw(w) \/ UnlockStore(w),
             Row' = [Row EXCEPT ![n].lock = FALSE, ![n].tid = t],
             owner' = [owner EXCEPT ![n] = NoWorker],
             \A k \in Keys \ {n} : WillUnlock(w, k) => WillUnlock(w, k)'
      PROVE  LockInv'
  <2>1. Step(w)
    BY <1>4 DEF Step
  <2> SUFFICES ASSUME NEW k \in Keys
               PROVE  /\ Row'[k].lock <=> owner'[k] # NoWorker
                      /\ \A u \in Workers : owner'[k] = u => WillUnlock(u, k)'
    BY DEF LockInv
  <2>2. CASE k = n
    <3>1. Row'[k].lock = FALSE /\ owner'[k] = NoWorker
      BY <1>t, <1>4, <2>2 DEF TypeOK, Rows
    <3>2. NoWorker \notin Workers
      BY ConstantsAssumption DEF Workers, NoWorker
    <3> QED BY <3>1, <3>2
  <2>3. CASE k # n
    <3>1. Row'[k].lock = Row[k].lock /\ owner'[k] = owner[k]
      BY <1>t, <1>4, <2>3 DEF TypeOK, Rows
    <3>2. ASSUME NEW u \in Workers, owner'[k] = u PROVE WillUnlock(u, k)'
      <4>1. WillUnlock(u, k)
        BY <3>1, <3>2 DEF LockInv
      <4> QED BY <1>1, <1>4, <2>1, <2>3, <4>1
    <3> QED BY <3>1, <3>2 DEF LockInv
  <2> QED BY <2>2, <2>3
<1>5. ASSUME NEW w \in Workers, InstallTidw(w) PROVE LockInv'
  <2> DEFINE n == writeSet[w][pos[w]].key
  <2>1. n \in Keys /\ maxtid[w] \in Nat
    <3>1. pos[w] \in DOMAIN writeSet[w]
      BY <1>5 DEF InstallTidw, TypeInv, Copying
    <3> QED BY <1>t, <3>1, SetEntries DEF TypeOK
  <2>2. /\ Row' = [Row EXCEPT ![n].lock = FALSE, ![n].tid = maxtid[w]]
        /\ owner' = [owner EXCEPT ![n] = NoWorker]
    BY <1>5 DEF InstallTidw
  <2>3. \A k \in Keys : WillUnlock(w, k) => WillUnlock(w, k)'
    BY <1>t, <1>5 DEF InstallTidw, TypeOK, WillUnlock
  <2> QED BY <1>4, <1>5, <2>1, <2>2, <2>3
<1>6. ASSUME NEW w \in Workers, UnlockStore(w) PROVE LockInv'
  <2> DEFINE n == pos[w]
  <2>1. n \in Keys /\ temp[w].tid \in Nat
    BY <1>t, <1>6 DEF UnlockStore, TypeInv, TypeOK, Copying
  <2>2. /\ Row' = [Row EXCEPT ![n].lock = FALSE, ![n].tid = temp[w].tid]
        /\ owner' = [owner EXCEPT ![n] = NoWorker]
    BY <1>6 DEF UnlockStore
  <2>3. ASSUME NEW k \in Keys, k # n, WillUnlock(w, k) PROVE WillUnlock(w, k)'
    <3>1. k \in lockList[w] /\ k >= pos[w]
      BY <1>6, <2>3 DEF UnlockStore, WillUnlock, Ahead
    <3>2. k >= pos[w] + 1
      BY <2>1, <2>3, <3>1, KeysAreNat
    <3>3. /\ pos'[w] = pos[w] + 1 /\ lockList'[w] = lockList[w]
          /\ pc'[w] \in {"unlock", "abort"}
      BY <1>t, <1>6 DEF UnlockStore, TypeOK
    <3> QED BY <3>1, <3>2, <3>3 DEF WillUnlock, Ahead
  <2> QED BY <1>4, <1>6, <2>1, <2>2, <2>3
<1>7. CASE MainReturns \/ UNCHANGED vars
  <2>1. UNCHANGED <<Row, owner, pc, pos, lockList>>
    BY <1>7 DEF MainReturns, vars
  <2> QED BY <2>1 DEF LockInv, WillUnlock, Ahead
<1> QED BY <1>2, <1>3, <1>5, <1>6, <1>7 DEF Next, Step, Quiet, Terminated

\* No lock bit is leaked: a bit that is set will be cleared by the worker that
\* set it, although unlockWriteSet clears the bits of others, too
\* (silo.cc:153-166, 340).
THEOREM LocksAreNotLeaked == Spec => []NoLeakedLock
<1>1. Init => LockInv
  <2> SUFFICES ASSUME Init PROVE LockInv
    OBVIOUS
  <2>1. NoWorker \notin Workers
    BY ConstantsAssumption DEF Workers, NoWorker
  <2> QED BY <2>1 DEF Init, LockInv
<1>2. Spec => []LockInv
  BY <1>1, TypeInvariant, NextLockInv, PTL DEF Spec
<1>3. ASSUME TypeInv, LockInv PROVE NoLeakedLock
  <2>1. \A k \in Keys : owner[k] # NoWorker => owner[k] \in Workers
    BY <1>3 DEF TypeInv, TypeOK
  <2>2. NoWorker \notin Workers
    BY ConstantsAssumption DEF Workers, NoWorker
  <2> QED BY <1>3, <2>1, <2>2 DEF LockInv, NoLeakedLock
<1> QED BY <1>2, <1>3, TypeInvariant, PTL
=============================================================================
