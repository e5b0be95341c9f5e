----------------------------- MODULE SiloEpochs -----------------------------
(***************************************************************************)
(* The transactions of the Silo server (1115_silo/tmp/interactive.cc), its *)
(* epochs and its log.                                                     *)
(*                                                                         *)
(* A client thread draws its myid and runs transactions (exec_trans); each *)
(* loads GlobalEpoch into the thread's slot, queues a log entry and stores *)
(* its commit tid.  The epocher adds one to GlobalEpoch when the clients   *)
(* have loaded it; the logger writes the entries of past epochs.  What     *)
(* connects the threads to clients, and that no two draw the same myid, is *)
(* module SiloSessions; here a thread is named by its myid.                *)
(*                                                                         *)
(* The value of a row never changes (a write stores back the copy it took),*)
(* so a row is its tidw.  Writing to the log stands for the call of write: *)
(* the file is opened without a write mode and the result not looked at.   *)
(*                                                                         *)
(* ThLocalEpoch is the array interactive.cc declares (20); srv_kx.cc       *)
(* defines a pointer of that name, and what the two make when they are     *)
(* linked is not modelled.                                                 *)
(***************************************************************************)
EXTENDS Integers, Sequences, FiniteSets, SequencesExt

CONSTANTS
    MaxThreads,    \* bound: client threads that register
    Keys,          \* row numbers
    Value,         \* what rand() gave each row
    Transactions,  \* what clients send: sequences of operations
    MaxRuns,       \* bound: transactions run, by all threads together
    MaxEpoch       \* bound: of GlobalEpoch

Operations == [type : {"READ", "WRITE"}, rowid : Keys]

ASSUME EpochsAssumption ==
    /\ MaxThreads \in Nat
    /\ Keys \subseteq Nat
    /\ Value \in [Keys -> Nat]
    /\ Transactions \subseteq Seq(Operations) \ {<<>>}
    /\ MaxRuns \in Nat /\ MaxEpoch \in Nat

Threads == 0 .. MaxThreads - 1
None    == -1

VARIABLES
    ThreadNum, GlobalEpoch, ThLocalEpoch, LogList, Row,
    tx,        \* tx[t]: the locals of exec_trans
    runs,      \* runs[t]: the transactions t has begun
    ep,        \* the epocher, with i and nowEpoch of chkEpochLoaded
    curEpoch,  \* the logger's curEpoch, None before it loads it
    flushed    \* history: the entries handed to write

vars == <<ThreadNum, GlobalEpoch, ThLocalEpoch, LogList, Row, tx, runs,
          ep, curEpoch, flushed>>

ids     == <<ThreadNum, runs>>
daemons == <<ep, curEpoch, flushed>>

Zero == [epoch |-> 0, tid |-> 0]

NoTx == [pc |-> "recv",
         op |-> <<>>,
         pos |-> 1,          \* the index of its current loop
         readSet |-> <<>>, writeSet |-> <<>>,
         loaded |-> Zero,    \* what its last load returned
         max_rset |-> Zero]

Init ==
    /\ ThreadNum = 0
    /\ GlobalEpoch = 0
    /\ ThLocalEpoch = [t \in Threads |-> 0]
    /\ LogList = <<>>
    /\ Row = [k \in Keys |-> [lock |-> FALSE, epoch |-> 0, tid |-> 0]]
    /\ tx = [t \in Threads |-> NoTx]
    /\ runs = [t \in Threads |-> 0]
    /\ ep = [at |-> "wait", i |-> 1, nowEpoch |-> 0]
    /\ curEpoch = None
    /\ flushed = {}

-----------------------------------------------------------------------------
(* A client thread *)

At(t, place) == tx[t].pc = place

\* doThreadInteractive, under MutexThreadNum.
Register(t) ==
    /\ t = ThreadNum
    /\ ThreadNum' = ThreadNum + 1
    /\ UNCHANGED <<GlobalEpoch, ThLocalEpoch, LogList, Row, tx, runs, daemons>>

\* The transactions that threads have begun.
Begun == UNION {{t} \X (1 .. runs[t]) : t \in Threads}

\* It has received a transaction; exec_trans begins.
Begin(t) ==
    /\ t < ThreadNum
    /\ At(t, "recv")
    /\ Cardinality(Begun) < MaxRuns
    /\ \E op \in Transactions :
          tx' = [tx EXCEPT ![t].pc = "copy", ![t].op = op]
    /\ runs' = [runs EXCEPT ![t] = @ + 1]
    /\ UNCHANGED <<ThreadNum, GlobalEpoch, ThLocalEpoch, LogList, Row, daemons>>

LockList(t) == ToSet(tx[t].writeSet)

\* The keys of the sorted lock list it has not passed, and the first of them.
Ahead(t) == {k \in LockList(t) : k >= tx[t].pos}
IsNext(t, k) == k \in Ahead(t) /\ \A m \in Ahead(t) : k <= m

\* "readSet.push_back(Row[rowid])", or the same for writeSet.  The last one is
\* followed by the sort of the lock list.
CopyRow(t) ==
    /\ At(t, "copy")
    /\ LET op == tx[t].op[tx[t].pos]
           e  == [key |-> op.rowid, epoch |-> Row[op.rowid].epoch,
                  tid |-> Row[op.rowid].tid]
           last == tx[t].pos = Len(tx[t].op)
       IN  tx' = [tx EXCEPT
                    ![t].readSet = IF op.type = "READ" THEN Append(@, e) ELSE @,
                    ![t].writeSet = IF op.type = "WRITE" THEN Append(@, op.rowid)
                                    ELSE @,
                    ![t].pos = IF last THEN 0 ELSE @ + 1,
                    ![t].pc = IF last THEN "lock" ELSE @]
    /\ UNCHANGED <<GlobalEpoch, ThLocalEpoch, LogList, Row, ids, daemons>>

\* The compare-and-swap that succeeds.
LockRow(t) ==
    /\ At(t, "lock")
    /\ \E k \in Keys :
          /\ IsNext(t, k)
          /\ ~Row[k].lock
          /\ Row' = [Row EXCEPT ![k].lock = TRUE]
          /\ tx' = [tx EXCEPT ![t].pos = k + 1]
    /\ UNCHANGED <<GlobalEpoch, ThLocalEpoch, LogList, ids, daemons>>

\* The serialization point: a load of GlobalEpoch ...
LoadEpoch(t) ==
    /\ At(t, "lock") /\ Ahead(t) = {}
    /\ tx' = [tx EXCEPT ![t].loaded.epoch = GlobalEpoch, ![t].pc = "store"]
    /\ UNCHANGED <<GlobalEpoch, ThLocalEpoch, LogList, Row, ids, daemons>>

\* ... and a store to the thread's slot.
StoreEpoch(t) ==
    /\ At(t, "store")
    /\ ThLocalEpoch' = [ThLocalEpoch EXCEPT ![t] = tx[t].loaded.epoch]
    /\ tx' = [tx EXCEPT ![t].loaded = Zero, ![t].pos = 1, ![t].pc = "validate"]
    /\ UNCHANGED <<GlobalEpoch, LogList, Row, ids, daemons>>

\* The write set has the key, or a row with the same value.
searchWriteSet(t, k) == \E m \in LockList(t) : m = k \/ Value[m] = Value[k]

\* Fault: the epoch is not compared.
RejectedByTid(t, e) ==
    \/ e.tid # Row[e.key].tid
    \/ Row[e.key].lock /\ ~searchWriteSet(t, e.key)

Rejected(t, e) ==
    \/ e.epoch # Row[e.key].epoch \/ e.tid # Row[e.key].tid
    \/ Row[e.key].lock /\ ~searchWriteSet(t, e.key)

MaxTid(a, b) ==
    IF a.epoch > b.epoch \/ (a.epoch = b.epoch /\ a.tid > b.tid) THEN a ELSE b

ValidateRow(t) ==
    /\ At(t, "validate")
    /\ tx[t].pos \in DOMAIN tx[t].readSet
    /\ LET e     == tx[t].readSet[tx[t].pos]
           check == [epoch |-> Row[e.key].epoch, tid |-> Row[e.key].tid]
       IN  /\ ~Rejected(t, e)
           /\ tx' = [tx EXCEPT ![t].pos = @ + 1, ![t].max_rset = MaxTid(@, check)]
    /\ UNCHANGED <<GlobalEpoch, ThLocalEpoch, LogList, Row, ids, daemons>>

Abort(t) ==
    /\ At(t, "validate")
    /\ tx[t].pos \in DOMAIN tx[t].readSet
    /\ Rejected(t, tx[t].readSet[tx[t].pos])
    /\ tx' = [tx EXCEPT ![t].pos = 0, ![t].pc = "abort"]
    /\ UNCHANGED <<GlobalEpoch, ThLocalEpoch, LogList, Row, ids, daemons>>

\* The next entry of writePhase to store, or the unlocking.
WriteFrom(t, pos) ==
    tx' = IF pos \in DOMAIN tx[t].writeSet
          THEN [tx EXCEPT ![t].pos = pos, ![t].pc = "write"]
          ELSE [tx EXCEPT ![t].pos = 0, ![t].pc = "unlock"]

\* exec_logging: an entry with the epoch of the slot is queued, under
\* MutexLogList, before anything is written.
Log(t) ==
    /\ At(t, "validate")
    /\ tx[t].pos \notin DOMAIN tx[t].readSet
    /\ LogList' = Append(LogList, [epoch |-> ThLocalEpoch[t], tx |-> <<t, runs[t]>>])
    /\ WriteFrom(t, 1)
    /\ UNCHANGED <<GlobalEpoch, ThLocalEpoch, Row, ids, daemons>>

\* max_wset and mrctid are always fresh.
CommitTid(t) ==
    LET tid_a == [tx[t].max_rset EXCEPT !.tid = @ + 1]
        tid_b == [epoch |-> 0, tid |-> 1]
        tid_c == [epoch |-> ThLocalEpoch[t], tid |-> 0]
    IN  MaxTid(MaxTid(tid_a, tid_b), tid_c)

InstallTidw(t) ==
    /\ At(t, "write")
    /\ Row' = [Row EXCEPT ![tx[t].writeSet[tx[t].pos]] =
                    [lock |-> FALSE, epoch |-> CommitTid(t).epoch,
                     tid |-> CommitTid(t).tid]]
    /\ WriteFrom(t, tx[t].pos + 1)
    /\ UNCHANGED <<GlobalEpoch, ThLocalEpoch, LogList, ids, daemons>>

\* unlockWriteSet, after a commit ("unlock") or an abort: tidw is loaded and
\* stored back without the lock bit.
UnlockLoad(t) ==
    /\ At(t, "unlock") \/ At(t, "abort")
    /\ \E k \in Keys :
          /\ IsNext(t, k)
          /\ tx' = [tx EXCEPT ![t].pos = k,
                        ![t].loaded = [epoch |-> Row[k].epoch, tid |-> Row[k].tid],
                        ![t].pc = IF @ = "unlock" THEN "unlockstore" ELSE "abortstore"]
    /\ UNCHANGED <<GlobalEpoch, ThLocalEpoch, LogList, Row, ids, daemons>>

UnlockStore(t) ==
    /\ At(t, "unlockstore") \/ At(t, "abortstore")
    /\ Row' = [Row EXCEPT ![tx[t].pos] =
                    [lock |-> FALSE, epoch |-> tx[t].loaded.epoch,
                     tid |-> tx[t].loaded.tid]]
    /\ tx' = [tx EXCEPT ![t].pos = @ + 1, ![t].loaded = Zero,
                        ![t].pc = IF @ = "unlockstore" THEN "unlock" ELSE "abort"]
    /\ UNCHANGED <<GlobalEpoch, ThLocalEpoch, LogList, ids, daemons>>

\* "goto RETRY_TX", with the sets cleared; max_rset keeps its value.
Retry(t) ==
    /\ At(t, "abort") /\ Ahead(t) = {}
    /\ tx' = [tx EXCEPT ![t].pos = 1, ![t].pc = "copy",
                        ![t].readSet = <<>>, ![t].writeSet = <<>>]
    /\ UNCHANGED <<GlobalEpoch, ThLocalEpoch, LogList, Row, ids, daemons>>

\* The end of exec_trans and of its locals.
EndTx(t) ==
    /\ At(t, "unlock") /\ Ahead(t) = {}
    /\ tx' = [tx EXCEPT ![t] = NoTx]
    /\ UNCHANGED <<GlobalEpoch, ThLocalEpoch, LogList, Row, ids, daemons>>

-----------------------------------------------------------------------------
(* The epocher and the logger *)

\* Fault: the loop starts with client 2.
LoadNowEpochFrom2 ==
    /\ ep.at = "wait"
    /\ GlobalEpoch < MaxEpoch
    /\ ep' = [at |-> "check", i |-> 2, nowEpoch |-> GlobalEpoch]
    /\ UNCHANGED <<GlobalEpoch, ThLocalEpoch, LogList, Row, tx, ids, curEpoch, flushed>>

\* Fault: the loop starts with client 0.
LoadNowEpochFrom0 ==
    /\ ep.at = "wait"
    /\ GlobalEpoch < MaxEpoch
    /\ ep' = [at |-> "check", i |-> 0, nowEpoch |-> GlobalEpoch]
    /\ UNCHANGED <<GlobalEpoch, ThLocalEpoch, LogList, Row, tx, ids, curEpoch, flushed>>

\* The 40 ms are over: chkEpochLoaded loads the epoch.
LoadNowEpoch ==
    /\ ep.at = "wait"
    /\ GlobalEpoch < MaxEpoch
    /\ ep' = [at |-> "check", i |-> 1, nowEpoch |-> GlobalEpoch]
    /\ UNCHANGED <<GlobalEpoch, ThLocalEpoch, LogList, Row, tx, ids, curEpoch, flushed>>

\* One round of its loop; ThreadNum is read in each.  It starts with 1.
CheckSlot ==
    /\ ep.at = "check"
    /\ ep' = IF ep.i >= ThreadNum THEN [ep EXCEPT !.at = "add"]
             ELSE IF ThLocalEpoch[ep.i] = ep.nowEpoch THEN [ep EXCEPT !.i = @ + 1]
             ELSE [ep EXCEPT !.at = "wait"]
    /\ UNCHANGED <<GlobalEpoch, ThLocalEpoch, LogList, Row, tx, ids, curEpoch, flushed>>

\* Fault: the test is not repeated.
atomicAddGEAgain ==
    /\ ep.at = "add"
    /\ GlobalEpoch' = GlobalEpoch + 1
    /\ UNCHANGED <<ThLocalEpoch, LogList, Row, tx, ids, ep, curEpoch, flushed>>

atomicAddGE ==
    /\ ep.at = "add"
    /\ GlobalEpoch' = GlobalEpoch + 1
    /\ ep' = [ep EXCEPT !.at = "wait"]
    /\ UNCHANGED <<ThLocalEpoch, LogList, Row, tx, ids, curEpoch, flushed>>

LoadCurEpoch ==
    /\ curEpoch = None
    /\ curEpoch' = GlobalEpoch
    /\ UNCHANGED <<GlobalEpoch, ThLocalEpoch, LogList, Row, tx, ids, ep, flushed>>

\* The entries of epochs before E, and what is left when they are erased.
Old(list, E) == {e \in ToSet(list) : e.epoch < E}

NotOld(list, E) ==
    LET left[n \in 0 .. Len(list)] ==
            IF n = 0 THEN <<>>
            ELSE IF list[n].epoch < E THEN left[n - 1]
            ELSE Append(left[n - 1], list[n])
    IN  left[Len(list)]

\* Fault: what is not old is erased, too.
FlushAndClear ==
    /\ curEpoch # None
    /\ flushed' = flushed \cup Old(LogList, curEpoch)
    /\ LogList' = <<>>
    /\ curEpoch' = None
    /\ UNCHANGED <<GlobalEpoch, ThLocalEpoch, Row, tx, ids, ep>>

\* Fault: curEpoch is loaded once, before the loop.
FlushKeepEpoch ==
    /\ curEpoch # None
    /\ flushed' = flushed \cup Old(LogList, curEpoch)
    /\ LogList' = NotOld(LogList, curEpoch)
    /\ UNCHANGED <<GlobalEpoch, ThLocalEpoch, Row, tx, ids, ep, curEpoch>>

\* Under MutexLogList: the entries of earlier epochs are written and erased.
Flush ==
    /\ curEpoch # None
    /\ flushed' = flushed \cup Old(LogList, curEpoch)
    /\ LogList' = NotOld(LogList, curEpoch)
    /\ curEpoch' = None
    /\ UNCHANGED <<GlobalEpoch, ThLocalEpoch, Row, tx, ids, ep>>

-----------------------------------------------------------------------------
ThreadStep(t) ==
    \/ Register(t) \/ Begin(t)
    \/ CopyRow(t) \/ LockRow(t) \/ LoadEpoch(t) \/ StoreEpoch(t)
    \/ ValidateRow(t) \/ Abort(t) \/ Log(t) \/ InstallTidw(t)
    \/ UnlockLoad(t) \/ UnlockStore(t) \/ Retry(t) \/ EndTx(t)

Epocher == LoadNowEpoch \/ CheckSlot \/ atomicAddGE
Logger  == LoadCurEpoch \/ Flush

Next == (\E t \in Threads : ThreadStep(t)) \/ Epocher \/ Logger

Spec == Init /\ [][Next]_vars

\* Both loop for ever on threads of their own.  The client threads wait for
\* their clients.
FairSpec == Spec /\ WF_vars(Epocher) /\ WF_vars(Logger)

-----------------------------------------------------------------------------
Epochs  == 0 .. MaxEpoch
Tids    == [epoch : Epochs, tid : Nat]
LogType == [epoch : Epochs, tx : Threads \X (1 .. MaxRuns)]
Copies  == [key : Keys, epoch : Epochs, tid : Nat]

TxType ==
    [pc : {"recv", "copy", "lock", "store", "validate", "write", "unlock",
           "unlockstore", "abort", "abortstore"},
     op : Transactions \cup {<<>>},
     pos : Nat,
     readSet : Seq(Copies), writeSet : Seq(Keys),
     loaded : Tids, max_rset : Tids]

\* Every variable keeps its type.
TypeOK ==
    /\ ThreadNum \in 0 .. MaxThreads
    /\ GlobalEpoch \in Epochs
    /\ ThLocalEpoch \in [Threads -> Epochs]
    /\ LogList \in Seq(LogType)
    /\ Row \in [Keys -> [lock : BOOLEAN, epoch : Epochs, tid : Nat]]
    /\ tx \in [Threads -> TxType]
    /\ runs \in [Threads -> 0 .. MaxRuns]
    /\ ep \in [at : {"wait", "check", "add"}, i : Nat, nowEpoch : Epochs]
    /\ curEpoch \in {None} \cup Epochs
    /\ flushed \in SUBSET LogType

\* The epoch a thread is running in.
HasEpoch(t) == tx[t].pc \notin {"recv", "copy", "lock", "store"}

\* No client that chkEpochLoaded looks at falls behind by more than one epoch:
\* whenever one of them is between its serialization point and the end of its
\* transaction, its slot is the global epoch or the one before.
EpochLag ==
    \A t \in Threads :
        /\ t >= 1 /\ HasEpoch(t) => GlobalEpoch - ThLocalEpoch[t] \in {0, 1}
        /\ t >= 1 /\ At(t, "store") => GlobalEpoch - tx[t].loaded.epoch \in {0, 1}

\* Rule (c) of writePhase, "in the current global epoch": the commit tid has
\* the epoch of the slot, which is the epoch of the log entry, however late
\* the slot is and whatever the epochs of the rows that were read.
CommitEpoch ==
    \A t \in Threads : At(t, "write") => CommitTid(t).epoch = ThLocalEpoch[t]

\* The transactions that have been through exec_logging.
Logged(t) ==
    1 .. (IF tx[t].pc \in {"write", "unlock", "unlockstore", "recv"} THEN runs[t]
          ELSE runs[t] - 1)

EntryOnce ==
    \A t \in Threads : \A n \in 1 .. MaxRuns :
        Cardinality({j \in DOMAIN LogList : LogList[j].tx = <<t, n>>})
          + Cardinality({e \in flushed : e.tx = <<t, n>>})
            = IF n \in Logged(t) THEN 1 ELSE 0

FlushOrder ==
    \A e \in ToSet(LogList), f \in flushed : e.tx[1] >= 1 => e.epoch >= f.epoch

\* Retries, flushes and erasures lose no transaction's entry and double none;
\* and epochs are written in order: when the entries of an epoch have gone to
\* the file no client that chkEpochLoaded looks at has one of an earlier epoch.
LogOnceInOrder == EntryOnce /\ FlushOrder

\* An entry of a past epoch is not kept back: once the epoch has come to E the
\* logger gets rid of all that is older.
OldEntriesFlushed ==
    \A E \in 1 .. MaxEpoch :
        GlobalEpoch >= E ~> \A e \in ToSet(LogList) : e.epoch >= E

\* The epoch does not stop while all clients that are looked at have loaded it.
EpochAdvances ==
    []<>(\/ GlobalEpoch = MaxEpoch
         \/ \E t \in 1 .. ThreadNum - 1 : ThLocalEpoch[t] # GlobalEpoch)
=============================================================================
