-------------------------------- MODULE Silo --------------------------------
(***************************************************************************)
(* The Silo commit protocol of 1115_silo/silo.cc.                          *)
(*                                                                         *)
(* A worker copies the rows of its transaction into readSet and writeSet,  *)
(* locks the rows of writeSet in key order (the lock bit of tidw), checks  *)
(* that the tid of every row it read is unchanged, stores value and new    *)
(* tidw of every row it writes (the store of tidw clears the lock bit) and *)
(* then unlocks its lockList a second time with a load and a store.        *)
(* writePhase gets copies of the sets, so after a commit (not after an     *)
(* abort) the worker's own sets keep their entries.                        *)
(*                                                                         *)
(* An action is one access to a row another worker can see.  A value is    *)
(* modelled by the transaction that writes it (the code writes back the    *)
(* copy it read).  The epoch is left out: the creation of the epocher is   *)
(* commented out (355-360) and GlobalEpoch stays 0.                        *)
(***************************************************************************)
EXTENDS Integers, Sequences, FiniteSets

CONSTANTS
    THREAD_NUM,       \* workers main creates
    MAX_TRANSACTION,  \* transactions a worker runs
    MAX_OPERATION,    \* operations of a transaction
    MAX_ROW           \* number of rows

ASSUME ConstantsAssumption ==
    /\ THREAD_NUM \in Nat \ {0}
    /\ MAX_TRANSACTION \in Nat \ {0}
    /\ MAX_OPERATION \in Nat \ {0}
    /\ MAX_ROW \in Nat \ {0}

Workers == 0 .. (THREAD_NUM - 1)
Keys    == 0 .. (MAX_ROW - 1)
NoWorker == -1

\* A transaction, and the value that stands for what it writes.
Initial == <<NoWorker, 0>>
Ids     == (Workers \X (1 .. MAX_TRANSACTION)) \cup {Initial}

Operations == [type : {"READ", "WRITE"}, rowid : Keys]

VARIABLES
    Row,       \* Row[k]: the lock bit, the tid and the value of a row
    returned,  \* main has returned
    pc,        \* pc[w]: where worker w is
    i,         \* i[w]: the transaction it runs
    op,        \* op[w]: the operations of that transaction
    pos,       \* pos[w]: the index of its current loop
    readSet, writeSet, lockList,
    temp,      \* temp[w]: the tid (and lock bit) its last load returned
    max_rset,  \* max_rset[w]: the largest tid it has validated
    maxtid,    \* maxtid[w]: the tid it chose last
    owner,     \* history: owner[k], the worker that set the lock bit of k
    committed  \* history: the transactions that ended, with what they read

vars == <<Row, returned, pc, i, op, pos, readSet, writeSet, lockList, temp,
          max_rset, maxtid, owner, committed>>

NoTemp == [lock |-> FALSE, tid |-> 0]

Init ==
    /\ Row = [k \in Keys |-> [lock |-> FALSE, tid |-> 0, value |-> Initial]]
    /\ returned = FALSE
    /\ pc = [w \in Workers |-> "start"]
    /\ i = [w \in Workers |-> 1]
    /\ op = [w \in Workers |-> <<>>]
    /\ pos = [w \in Workers |-> 1]
    /\ readSet = [w \in Workers |-> <<>>]
    /\ writeSet = [w \in Workers |-> <<>>]
    /\ lockList = [w \in Workers |-> {}]
    /\ temp = [w \in Workers |-> NoTemp]
    /\ max_rset = [w \in Workers |-> 0]
    /\ maxtid = [w \in Workers |-> 0]
    /\ owner = [k \in Keys |-> NoWorker]
    /\ committed = {}

-----------------------------------------------------------------------------
Me(w) == <<w, i[w]>>

\* When main returns (it does not join worker 0) the process ends.
At(w, place) == ~returned /\ pc[w] = place

Goto(w, to) == pc' = [pc EXCEPT ![w] = to]

Max2(a, b) == IF a > b THEN a ELSE b

\* init_trans drew the operations at random; they are read from here on.
StartTx(w) ==
    /\ At(w, "start")
    /\ \E o \in [1 .. MAX_OPERATION -> Operations] : op' = [op EXCEPT ![w] = o]
    /\ pos' = [pos EXCEPT ![w] = 1]
    /\ Goto(w, "read")
    /\ UNCHANGED <<Row, returned, i, readSet, writeSet, lockList, temp,
                   max_rset, maxtid, owner, committed>>

\* "readSet.push_back(Row[rowid])" copies tidw first ...
ReadTidw(w) ==
    /\ At(w, "read")
    /\ pos[w] <= MAX_OPERATION
    /\ op[w][pos[w]].type = "READ"
    /\ LET r == Row[op[w][pos[w]].rowid]
       IN  temp' = [temp EXCEPT ![w] = [lock |-> r.lock, tid |-> r.tid]]
    /\ Goto(w, "readval")
    /\ UNCHANGED <<Row, returned, i, op, pos, readSet, writeSet, lockList,
                   max_rset, maxtid, owner, committed>>

\* ... and then the tuple.
ReadTuple(w) ==
    /\ At(w, "readval")
    /\ LET k == op[w][pos[w]].rowid
           e == [key |-> k, lock |-> temp[w].lock, tid |-> temp[w].tid,
                 value |-> Row[k].value]
       IN  readSet' = [readSet EXCEPT ![w] = Append(@, e)]
    /\ temp' = [temp EXCEPT ![w] = NoTemp]
    /\ pos' = [pos EXCEPT ![w] = @ + 1]
    /\ Goto(w, "read")
    /\ UNCHANGED <<Row, returned, i, op, writeSet, lockList, max_rset, maxtid,
                   owner, committed>>

AddWrite(w) ==
    /\ At(w, "read")
    /\ pos[w] <= MAX_OPERATION
    /\ op[w][pos[w]].type = "WRITE"
    /\ writeSet' = [writeSet EXCEPT ![w] =
                       Append(@, [key |-> op[w][pos[w]].rowid, value |-> Me(w)])]
    /\ pos' = [pos EXCEPT ![w] = @ + 1]
    /\ UNCHANGED <<Row, returned, pc, i, op, readSet, lockList, temp, max_rset,
                   maxtid, owner, committed>>

KeysOf(s) == {s[j].key : j \in DOMAIN s}

\* Phase 1: the lock list is sorted and free of duplicates: a set of keys
\* taken in ascending order.  pos is the next key to take.
SortLockList(w) ==
    /\ At(w, "read")
    /\ pos[w] > MAX_OPERATION
    /\ lockList' = [lockList EXCEPT ![w] = @ \cup KeysOf(writeSet[w])]
    /\ pos' = [pos EXCEPT ![w] = 0]
    /\ Goto(w, "lock")
    /\ UNCHANGED <<Row, returned, i, op, readSet, writeSet, temp, max_rset,
                   maxtid, owner, committed>>

\* The keys of the lock list not yet passed, and the first of them.
Ahead(w) == {k \in lockList[w] : k >= pos[w]}
IsNext(w, k) == k \in Ahead(w) /\ \A m \in Ahead(w) : k <= m

\* Phase 2: the compare-and-swap that succeeds; the failing loads and swaps
\* before it change nothing.
LockRow(w) ==
    /\ At(w, "lock")
    /\ \E k \in Keys :
          /\ IsNext(w, k)
          /\ ~Row[k].lock
          /\ Row' = [Row EXCEPT ![k].lock = TRUE]
          /\ owner' = [owner EXCEPT ![k] = w]
          /\ pos' = [pos EXCEPT ![w] = k + 1]
    /\ UNCHANGED <<returned, pc, i, op, readSet, writeSet, lockList, temp,
                   max_rset, maxtid, committed>>

EndLock(w) ==
    /\ At(w, "lock")
    /\ Ahead(w) = {}
    /\ pos' = [pos EXCEPT ![w] = 1]
    /\ Goto(w, "validate")
    /\ UNCHANGED <<Row, returned, i, op, readSet, writeSet, lockList, temp,
                   max_rset, maxtid, owner, committed>>

\* Phase 3: the entry is rejected when the row has another tid now, or when
\* its copy (not the row) has the lock bit and the worker does not write it.
Rejected(w, e) ==
    \/ e.tid # Row[e.key].tid
    \/ e.lock /\ e.key \notin KeysOf(writeSet[w])

ValidateRow(w) ==
    /\ At(w, "validate")
    /\ pos[w] \in DOMAIN readSet[w]
    /\ LET e == readSet[w][pos[w]]
       IN  /\ ~Rejected(w, e)
           /\ max_rset' = [max_rset EXCEPT ![w] = Max2(@, Row[e.key].tid)]
    /\ pos' = [pos EXCEPT ![w] = @ + 1]
    /\ UNCHANGED <<Row, returned, pc, i, op, readSet, writeSet, lockList, temp,
                   maxtid, owner, committed>>

\* Fault: the next attempt starts with the rows still locked.
AbortWithoutUnlock(w) ==
    /\ At(w, "validate")
    /\ pos[w] \in DOMAIN readSet[w]
    /\ Rejected(w, readSet[w][pos[w]])
    /\ pos' = [pos EXCEPT ![w] = MAX_ROW]
    /\ Goto(w, "abort")
    /\ UNCHANGED <<Row, returned, i, op, readSet, writeSet, lockList, temp,
                   max_rset, maxtid, owner, committed>>

Abort(w) ==
    /\ At(w, "validate")
    /\ pos[w] \in DOMAIN readSet[w]
    /\ Rejected(w, readSet[w][pos[w]])
    /\ pos' = [pos EXCEPT ![w] = 0]
    /\ Goto(w, "abort")
    /\ UNCHANGED <<Row, returned, i, op, readSet, writeSet, lockList, temp,
                   max_rset, maxtid, owner, committed>>

\* Phase 4: max_wset is never set and mrctid is a fresh local, so only the
\* rows read count.
ChooseTid(w) ==
    /\ At(w, "validate")
    /\ pos[w] \notin DOMAIN readSet[w]
    /\ maxtid' = [maxtid EXCEPT ![w] = max_rset[w] + 1]
    /\ pos' = [pos EXCEPT ![w] = 1]
    /\ Goto(w, "write")
    /\ UNCHANGED <<Row, returned, i, op, readSet, writeSet, lockList, temp,
                   max_rset, owner, committed>>

WriteTuple(w) ==
    /\ At(w, "write")
    /\ pos[w] \in DOMAIN writeSet[w]
    /\ LET e == writeSet[w][pos[w]]
       IN  Row' = [Row EXCEPT ![e.key].value = e.value]
    /\ Goto(w, "install")
    /\ UNCHANGED <<returned, i, op, pos, readSet, writeSet, lockList, temp,
                   max_rset, maxtid, owner, committed>>

\* "update and unlock"
InstallTidw(w) ==
    /\ At(w, "install")
    /\ LET k == writeSet[w][pos[w]].key
       IN  /\ Row' = [Row EXCEPT ![k].lock = FALSE, ![k].tid = maxtid[w]]
           /\ owner' = [owner EXCEPT ![k] = NoWorker]
    /\ pos' = [pos EXCEPT ![w] = @ + 1]
    /\ Goto(w, "write")
    /\ UNCHANGED <<returned, i, op, readSet, writeSet, lockList, temp,
                   max_rset, maxtid, committed>>

EndWrite(w) ==
    /\ At(w, "write")
    /\ pos[w] \notin DOMAIN writeSet[w]
    /\ pos' = [pos EXCEPT ![w] = 0]
    /\ Goto(w, "unlock")
    /\ UNCHANGED <<Row, returned, i, op, readSet, writeSet, lockList, temp,
                   max_rset, maxtid, owner, committed>>

\* unlockWriteSet, after a commit ("unlock") or an abort: it loads tidw and
\* stores it back without the lock bit.
StoreOf(place) == IF place = "unlock" THEN "unlockstore" ELSE "abortstore"

UnlockLoad(w) ==
    /\ At(w, "unlock") \/ At(w, "abort")
    /\ \E k \in Keys :
          /\ IsNext(w, k)
          /\ temp' = [temp EXCEPT ![w] = [lock |-> FALSE, tid |-> Row[k].tid]]
          /\ pos' = [pos EXCEPT ![w] = k]
    /\ Goto(w, StoreOf(pc[w]))
    /\ UNCHANGED <<Row, returned, i, op, readSet, writeSet, lockList, max_rset,
                   maxtid, owner, committed>>

UnlockStore(w) ==
    /\ At(w, "unlockstore") \/ At(w, "abortstore")
    /\ LET k == pos[w]
       IN  /\ Row' = [Row EXCEPT ![k].lock = FALSE, ![k].tid = temp[w].tid]
           /\ owner' = [owner EXCEPT ![k] = NoWorker]
    /\ pos' = [pos EXCEPT ![w] = @ + 1]
    /\ temp' = [temp EXCEPT ![w] = NoTemp]
    /\ Goto(w, IF pc[w] = "unlockstore" THEN "unlock" ELSE "abort")
    /\ UNCHANGED <<returned, i, op, readSet, writeSet, lockList, max_rset,
                   maxtid, committed>>

\* "goto RETRY_TX", with the sets cleared.
Retry(w) ==
    /\ At(w, "abort")
    /\ Ahead(w) = {}
    /\ readSet' = [readSet EXCEPT ![w] = <<>>]
    /\ writeSet' = [writeSet EXCEPT ![w] = <<>>]
    /\ lockList' = [lockList EXCEPT ![w] = {}]
    /\ pos' = [pos EXCEPT ![w] = 1]
    /\ Goto(w, "read")
    /\ UNCHANGED <<Row, returned, i, op, temp, max_rset, maxtid, owner, committed>>

\* Fault: one transaction too many.
MoreTxOffByOne(w) == i[w] <= MAX_TRANSACTION

\* The transaction loop of the worker goes on.
MoreTx(w) == i[w] < MAX_TRANSACTION

\* The end of writePhase, which clears its copies of the sets.
EndTx(w) ==
    /\ At(w, "unlock")
    /\ Ahead(w) = {}
    /\ committed' = committed \cup
          {[id |-> Me(w),
            reads |-> {<<e.key, e.value>> :
                         e \in {readSet[w][j] : j \in DOMAIN readSet[w]}},
            writes |-> KeysOf(writeSet[w])]}
    /\ op' = [op EXCEPT ![w] = <<>>]
    /\ pos' = [pos EXCEPT ![w] = 1]
    /\ IF MoreTx(w)
       THEN i' = [i EXCEPT ![w] = @ + 1] /\ Goto(w, "start")
       ELSE i' = i /\ Goto(w, "done")
    /\ UNCHANGED <<Row, returned, readSet, writeSet, lockList, temp, max_rset,
                   maxtid, owner>>

\* main joins the workers from 1 on and returns.
MainReturns ==
    /\ ~returned
    /\ \A w \in Workers \ {0} : pc[w] = "done"
    /\ returned' = TRUE
    /\ UNCHANGED <<Row, pc, i, op, pos, readSet, writeSet, lockList, temp,
                   max_rset, maxtid, owner, committed>>

Terminated == returned /\ UNCHANGED vars

Step(w) ==
    \/ StartTx(w) \/ ReadTidw(w) \/ ReadTuple(w) \/ AddWrite(w)
    \/ SortLockList(w) \/ LockRow(w) \/ EndLock(w)
    \/ ValidateRow(w) \/ Abort(w) \/ ChooseTid(w)
    \/ WriteTuple(w) \/ InstallTidw(w) \/ EndWrite(w)
    \/ UnlockLoad(w) \/ UnlockStore(w) \/ Retry(w) \/ EndTx(w)

Next == (\E w \in Workers : Step(w)) \/ MainReturns \/ Terminated

Spec == Init /\ [][Next]_vars

-----------------------------------------------------------------------------
Places == {"start", "read", "readval", "lock", "validate", "write", "install",
           "unlock", "unlockstore", "abort", "abortstore", "done"}

Rows    == [lock : BOOLEAN, tid : Nat, value : Ids]
Entries == [key : Keys, lock : BOOLEAN, tid : Nat, value : Ids]

TypeOK ==
    /\ Row \in [Keys -> Rows]
    /\ returned \in BOOLEAN
    /\ pc \in [Workers -> Places]
    /\ i \in [Workers -> 1 .. MAX_TRANSACTION]
    /\ op \in [Workers -> Seq(Operations)]
    /\ readSet \in [Workers -> Seq(Entries)]
    /\ writeSet \in [Workers -> Seq([key : Keys, value : Ids])]
    /\ pos \in [Workers -> Nat]
    /\ lockList \in [Workers -> SUBSET Keys]
    /\ temp \in [Workers -> [lock : BOOLEAN, tid : Nat]]
    /\ max_rset \in [Workers -> Nat]
    /\ maxtid \in [Workers -> Nat]
    /\ owner \in [Keys -> Workers \cup {NoWorker}]

\* The worker will still store the tidw of row k in this attempt.
WillUnlock(w, k) ==
    \/ pc[w] = "lock" /\ k \in lockList[w] /\ k < pos[w]
    \/ pc[w] \in {"validate", "write", "install"} /\ k \in lockList[w]
    \/ pc[w] \in {"unlock", "unlockstore", "abort", "abortstore"} /\ k \in Ahead(w)

\* A lock bit is never left set: whoever set it will still clear it, in
\* spite of the stores that clear the bits of others.
NoLeakedLock ==
    \A k \in Keys :
        Row[k].lock <=> \E w \in Workers : owner[k] = w /\ WillUnlock(w, k)

\* Serial orders of the committed transactions, and the versions they give.
Orders == {f \in [1 .. Cardinality(committed) -> committed] :
              \A a, b \in DOMAIN f : f[a] = f[b] => a = b}

VersionAt(f, k, n) ==
    LET writers == {m \in 1 .. (n - 1) : k \in f[m].writes}
    IN  IF writers = {} THEN Initial
        ELSE f[CHOOSE m \in writers : \A x \in writers : x <= m].id

\* When all transactions are over there is a serial order in which each reads
\* what it did read.
Serializable ==
    (\A w \in Workers : pc[w] = "done")
        => \E f \in Orders : \A n \in DOMAIN f :
              \A rd \in f[n].reads : rd[2] = VersionAt(f, rd[1], n)
=============================================================================
