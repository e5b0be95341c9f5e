---------------------------- MODULE KungRobinson ----------------------------
(***************************************************************************)
(* The optimistic concurrency control of 1108_occ/kr.cc.                   *)
(*                                                                         *)
(* Every worker runs MAX_TRANSACTION transactions.  A transaction samples  *)
(* Tx_id, publishes it in WaterMark for the garbage collector, reads its   *)
(* rows with no lock, and then, under GiantLock, validates its reads       *)
(* against the write sets of DoneXact, writes its rows, takes the next     *)
(* Tx_id, registers itself in DoneXact and erases the entries no worker    *)
(* needs any more.  An action is one access to memory another worker can   *)
(* see; accesses that only the holder of GiantLock makes are joined.       *)
(*                                                                         *)
(* The value of a row is modelled by its version: the tx_id of the         *)
(* transaction that wrote it (0: the initial value), since the code writes *)
(* the constant 0 ("No meaning").  log is a history variable, the          *)
(* committed transactions in the order of their tx_id.                     *)
(***************************************************************************)
EXTENDS Integers, Sequences

CONSTANTS
    Nthread,          \* number of workers
    MAX_TRANSACTION,  \* transactions a worker runs
    MAX_OPERATION,    \* operations of a transaction
    Rows              \* row ids

ASSUME ConstantsAssumption ==
    /\ Nthread \in Nat \ {0}
    /\ MAX_TRANSACTION \in Nat \ {0}
    /\ MAX_OPERATION \in Nat \ {0}

Workers == 0 .. (Nthread - 1)
NoWorker == -1

VARIABLES
    Tx_id,      \* id of the last committed transaction
    Row,        \* Row[r]: version of row r
    DoneXact,   \* the list of committed transactions not yet collected
    GiantLock,  \* the worker that holds GiantLock, or NoWorker
    WaterMark,  \* WaterMark[w]: no entry above it may be collected
    exited,     \* exit(1) was called
    pc,         \* pc[w]: where worker w is
    tid,        \* tid[w]: transactions w has finished
    target,     \* target[w]: the operations of its transaction
    tx_begin,   \* tx_begin[w]: Tx_id when its transaction began
    read_set,   \* read_set[w]: the rows it read, with the version read
    pos,        \* pos[w]: the index of its current loop
    min_tx_id,  \* min_tx_id[w]: the minimum of its collection scan
    log         \* history: committed transactions, log[i] has tx_id i

shared == <<Tx_id, Row, DoneXact, GiantLock, WaterMark, exited, log>>
local  == <<pc, tid, target, tx_begin, read_set, pos, min_tx_id>>
vars   == <<shared, local>>

\* The READs and the WRITEs of a transaction in program order: its two
\* passes over target look at one type each.
Targets == UNION {[reads : [1 .. n -> Rows],
                   writes : [1 .. (MAX_OPERATION - n) -> Rows]] :
                     n \in 0 .. MAX_OPERATION}

NoTarget == [reads |-> <<>>, writes |-> <<>>]

\* Fault: the last entry of the write set is left out (nwrite too small).
RowsOfButLast(s) == {s[i] : i \in 1 .. (Len(s) - 1)}

RowsOf(s) == {s[i] : i \in DOMAIN s}

Init ==
    /\ Tx_id = 0
    /\ Row = [r \in Rows |-> 0]
    /\ DoneXact = <<>>
    /\ GiantLock = NoWorker
    /\ WaterMark = [w \in Workers |-> 0]
    /\ exited = FALSE
    /\ pc = [w \in Workers |-> "begin"]
    /\ tid = [w \in Workers |-> 0]
    /\ target = [w \in Workers |-> NoTarget]
    /\ tx_begin = [w \in Workers |-> 0]
    /\ read_set = [w \in Workers |-> {}]
    /\ pos = [w \in Workers |-> 1]
    /\ min_tx_id = [w \in Workers |-> 0]
    /\ log = <<>>

-----------------------------------------------------------------------------
\* A step of w from one place to another while the process is alive.
Goto(w, from, to) ==
    /\ ~exited
    /\ pc[w] = from
    /\ pc' = [pc EXCEPT ![w] = to]
    /\ UNCHANGED exited

Begin(w) ==
    /\ Goto(w, "begin", "mark")
    /\ \E t \in Targets : target' = [target EXCEPT ![w] = t]
    /\ tx_begin' = [tx_begin EXCEPT ![w] = Tx_id]
    /\ UNCHANGED <<Tx_id, Row, DoneXact, GiantLock, WaterMark, log,
                   tid, read_set, pos, min_tx_id>>

\* Fault: the mark is one too small.
MarkOneLess(w) ==
    /\ Goto(w, "mark", "read")
    /\ WaterMark' = [WaterMark EXCEPT ![w] = tx_begin[w] - 1]
    /\ UNCHANGED <<Tx_id, Row, DoneXact, GiantLock, log,
                   tid, target, tx_begin, read_set, pos, min_tx_id>>

\* Fault: the mark is a second read of Tx_id.
MarkReadsAgain(w) ==
    /\ Goto(w, "mark", "read")
    /\ WaterMark' = [WaterMark EXCEPT ![w] = Tx_id]
    /\ UNCHANGED <<Tx_id, Row, DoneXact, GiantLock, log,
                   tid, target, tx_begin, read_set, pos, min_tx_id>>

Mark(w) ==
    /\ Goto(w, "mark", "read")
    /\ WaterMark' = [WaterMark EXCEPT ![w] = tx_begin[w]]
    /\ UNCHANGED <<Tx_id, Row, DoneXact, GiantLock, log,
                   tid, target, tx_begin, read_set, pos, min_tx_id>>

ReadRow(w) ==
    /\ Goto(w, "read", "read")
    /\ pos[w] \in DOMAIN target[w].reads
    /\ LET r == target[w].reads[pos[w]]
       IN  read_set' = [read_set EXCEPT ![w] = @ \cup {<<r, Row[r]>>}]
    /\ pos' = [pos EXCEPT ![w] = @ + 1]
    /\ UNCHANGED <<Tx_id, Row, DoneXact, GiantLock, WaterMark, log,
                   tid, target, tx_begin, min_tx_id>>

LockGiant(w) ==
    /\ Goto(w, "read", "validate")
    /\ pos[w] \notin DOMAIN target[w].reads
    /\ GiantLock = NoWorker
    /\ GiantLock' = w
    /\ UNCHANGED <<Tx_id, Row, DoneXact, WaterMark, log,
                   tid, target, tx_begin, read_set, pos, min_tx_id>>

\* Fault: the start point is the second transaction after tx_begin.
ValidationFromSecond(w) ==
    \A i, j \in DOMAIN DoneXact :
        (DoneXact[i].tx_id = tx_begin[w] + 2 /\ i <= j)
            => \A rd \in read_set[w] : rd[1] \notin DoneXact[j].writes

\* Fault: only the start point is checked.
ValidationOfStart(w) ==
    \A i \in DOMAIN DoneXact :
        DoneXact[i].tx_id = tx_begin[w] + 1
            => \A rd \in read_set[w] : rd[1] \notin DoneXact[i].writes

\* No transaction from the start point (the entry after tx_begin, when the
\* list has one) to the end of the list wrote a row that w read.
Validation(w) ==
    \A i, j \in DOMAIN DoneXact :
        (DoneXact[i].tx_id = tx_begin[w] + 1 /\ i <= j)
            => \A rd \in read_set[w] : rd[1] \notin DoneXact[j].writes

ValidateOK(w) ==
    /\ Goto(w, "validate", "write")
    /\ Tx_id # 0 => Validation(w)
    /\ pos' = [pos EXCEPT ![w] = 1]
    /\ UNCHANGED <<Tx_id, Row, DoneXact, GiantLock, WaterMark, log,
                   tid, target, tx_begin, read_set, min_tx_id>>

\* "if (!pthread_mutex_unlock(&GiantLock)) ERR": the unlock succeeds, returns
\* 0, and the worker goes on to ERR, never to RETRY.
ValidateFail(w) ==
    /\ Goto(w, "validate", "err")
    /\ Tx_id # 0
    /\ ~Validation(w)
    /\ GiantLock' = NoWorker
    /\ UNCHANGED <<Tx_id, Row, DoneXact, WaterMark, log,
                   tid, target, tx_begin, read_set, pos, min_tx_id>>

\* ERR calls exit(1): the process ends with whatever its workers were doing.
Exit(w) ==
    /\ ~exited
    /\ pc[w] = "err"
    /\ exited' = TRUE
    /\ UNCHANGED <<Tx_id, Row, DoneXact, GiantLock, WaterMark, log, local>>

WriteRow(w) ==
    /\ Goto(w, "write", "write")
    /\ pos[w] \in DOMAIN target[w].writes
    /\ Row' = [Row EXCEPT ![target[w].writes[pos[w]]] = Tx_id + 1]
    /\ pos' = [pos EXCEPT ![w] = @ + 1]
    /\ UNCHANGED <<Tx_id, DoneXact, GiantLock, WaterMark, log,
                   tid, target, tx_begin, read_set, min_tx_id>>

TakeTxId(w) ==
    /\ Goto(w, "write", "register")
    /\ pos[w] \notin DOMAIN target[w].writes
    /\ Tx_id' = Tx_id + 1
    /\ log' = Append(log, [reads |-> read_set[w],
                           writes |-> RowsOf(target[w].writes)])
    /\ UNCHANGED <<Row, DoneXact, GiantLock, WaterMark,
                   tid, target, tx_begin, read_set, pos, min_tx_id>>

Register(w) ==
    /\ Goto(w, "register", "scan")
    /\ DoneXact' = Append(DoneXact, [tx_id |-> Tx_id,
                                     writes |-> RowsOf(target[w].writes)])
    /\ WaterMark' = [WaterMark EXCEPT ![w] = Tx_id]
    /\ min_tx_id' = [min_tx_id EXCEPT ![w] = WaterMark'[0]]
    /\ pos' = [pos EXCEPT ![w] = 1]
    /\ UNCHANGED <<Tx_id, Row, GiantLock, log,
                   tid, target, tx_begin, read_set>>

\* Other workers publish their WaterMark while the scan goes on.
ScanMark(w) ==
    /\ Goto(w, "scan", "scan")
    /\ pos[w] \in Workers
    /\ min_tx_id' = [min_tx_id EXCEPT ![w] =
                        IF WaterMark[pos[w]] < @ THEN WaterMark[pos[w]] ELSE @]
    /\ pos' = [pos EXCEPT ![w] = @ + 1]
    /\ UNCHANGED <<Tx_id, Row, DoneXact, GiantLock, WaterMark, log,
                   tid, target, tx_begin, read_set>>

\* Fault: the entry at the minimum is erased too.
FirstKeptPastMark(w, k) ==
    /\ k \in DOMAIN DoneXact
    /\ DoneXact[k].tx_id > min_tx_id[w]
    /\ \A j \in 1 .. (k - 1) : DoneXact[j].tx_id <= min_tx_id[w]

\* The erase loop stops at this entry of the list.
FirstKept(w, k) ==
    /\ k \in DOMAIN DoneXact
    /\ DoneXact[k].tx_id >= min_tx_id[w]
    /\ \A j \in 1 .. (k - 1) : DoneXact[j].tx_id < min_tx_id[w]

\* The end of transaction(): its locals are gone.
Collect(w) ==
    /\ Goto(w, "scan", IF tid[w] + 1 < MAX_TRANSACTION THEN "begin" ELSE "done")
    /\ pos[w] \notin Workers
    /\ \E k \in DOMAIN DoneXact :
          /\ FirstKept(w, k)
          /\ DoneXact' = SubSeq(DoneXact, k, Len(DoneXact))
    /\ tid' = [tid EXCEPT ![w] = @ + 1]
    /\ GiantLock' = NoWorker
    /\ target' = [target EXCEPT ![w] = NoTarget]
    /\ tx_begin' = [tx_begin EXCEPT ![w] = 0]
    /\ read_set' = [read_set EXCEPT ![w] = {}]
    /\ pos' = [pos EXCEPT ![w] = 1]
    /\ min_tx_id' = [min_tx_id EXCEPT ![w] = 0]
    /\ UNCHANGED <<Tx_id, Row, WaterMark, log>>

\* main joins every worker, or the process has ended.
Terminated ==
    /\ exited \/ \A w \in Workers : pc[w] = "done"
    /\ UNCHANGED vars

Step(w) ==
    \/ Begin(w) \/ Mark(w) \/ ReadRow(w) \/ LockGiant(w)
    \/ ValidateOK(w) \/ ValidateFail(w) \/ Exit(w)
    \/ WriteRow(w) \/ TakeTxId(w) \/ Register(w) \/ ScanMark(w) \/ Collect(w)

Next == (\E w \in Workers : Step(w)) \/ Terminated

Spec == Init /\ [][Next]_vars

\* A runnable thread is eventually scheduled.
FairSpec == Spec /\ \A w \in Workers : WF_vars(Step(w))

-----------------------------------------------------------------------------
\* Places from which the worker holds GiantLock.
InLock == {"validate", "write", "register", "scan"}

\* Places from which the transaction has begun and still has to validate.
Running == {"mark", "read", "validate"}

\* Every variable keeps its type, and the history has one entry per Tx_id.
TypeOK ==
    /\ Tx_id \in Nat
    /\ Row \in [Rows -> Nat]
    /\ DoneXact \in Seq([tx_id : Nat, writes : SUBSET Rows])
    /\ GiantLock \in Workers \cup {NoWorker}
    /\ WaterMark \in [Workers -> Nat]
    /\ exited \in BOOLEAN
    /\ pc \in [Workers -> {"begin", "err", "done"} \cup Running \cup InLock]
    /\ tid \in [Workers -> 0 .. MAX_TRANSACTION]
    /\ \A w \in Workers : pc[w] # "done" => tid[w] < MAX_TRANSACTION
    /\ target \in [Workers -> Targets \cup {NoTarget}]
    /\ tx_begin \in [Workers -> Nat]
    /\ read_set \in [Workers -> SUBSET (Rows \X Nat)]
    /\ pos \in [Workers -> Nat]
    /\ min_tx_id \in [Workers -> Nat]
    /\ log \in Seq([reads : SUBSET (Rows \X Nat), writes : SUBSET Rows])
    /\ Len(log) = Tx_id

\* v is the version of row r after the first n transactions of the history h.
VersionIn(h, r, v, n) ==
    /\ v \in 0 .. n
    /\ v # 0 => r \in h[v].writes
    /\ \A k \in (v + 1) .. n : r \notin h[k].writes

IsVersion(r, v, n) == VersionIn(log, r, v, n)

\* Serializability: every committed transaction read exactly the versions a
\* serial execution in the order of tx_id gives it, although the reads of
\* kr.cc:78 take no lock and run during the write phase of other workers.
Serializable ==
    \A n \in DOMAIN log : \A rd \in log[n].reads : IsVersion(rd[1], rd[2], n - 1)

\* Line by line the code implements the serial store: the commit of the
\* store is the increment of Tx_id (112), every other step changes nothing.
Committed(r) == CHOOSE v \in 0 .. Tx_id : IsVersion(r, v, Tx_id)

Store == INSTANCE SerialStore WITH
            db <- [r \in Rows |-> Committed(r)], history <- log

ImplementsSerialStore == Store!Spec

\* Whenever no worker is in its write phase, the rows hold what the serial
\* execution of the committed transactions leaves in them.
RowsAreSerial ==
    (\A w \in Workers : pc[w] # "write")
        => \A r \in Rows : IsVersion(r, Row[r], Tx_id)

\* Garbage collection (kr.cc:121-130) never erases the write set of a
\* transaction that a running one has still to validate against, not even
\* between its unlocked read of Tx_id (66) and its store to WaterMark (71).
CollectKeepsNeeded ==
    \A w \in Workers : pc[w] \in Running =>
        \A n \in (tx_begin[w] + 1) .. Tx_id :
            \/ \E i \in DOMAIN DoneXact : /\ DoneXact[i].tx_id = n
                                          /\ DoneXact[i].writes = log[n].writes
            \/ n = Tx_id /\ \E u \in Workers : pc[u] = "register"

\* The erase loop (128), which has no test for the end of the list, always
\* meets an entry it keeps.
EraseStaysInList ==
    \A w \in Workers : (pc[w] = "scan" /\ pos[w] \notin Workers)
        => \E k \in DOMAIN DoneXact : FirstKept(w, k)

\* A WaterMark never goes back, so a scan that reads an old one collects less.
WaterMarkMonotone ==
    [][\A w \in Workers : WaterMark'[w] >= WaterMark[w]]_vars

\* Every worker commits all its transactions, or the process has exited.
AllFinish == <>(exited \/ \A w \in Workers : pc[w] = "done")
=============================================================================
