# A verification project for software_engineering2019fall

The repository collects the programs of one term: latches, three concurrency
controls (strong two-phase locking, Kung-Robinson, Silo), a B+ tree in three
stages, a concurrent B-link tree, a draft of a networked Silo server and two
first exercises.  The programs are independent of each other, so there is one
TLA+ module per program, with abstract specifications where a program promises
one.  Line numbers below are lines of the named source file.

## 1. Inventory

| component | sources | state | operations | hard behaviour |
|---|---|---|---|---|
| Kung-Robinson OCC | `1108_occ/kr.cc` | `Row`, `Tx_id`, `DoneXact`, `WaterMark[]`, `GiantLock` | `transaction` (read, validation, write phase), garbage collection of `DoneXact` | unlocked reads during other write phases; a water mark published after the sample it stands for; a minimum over marks that move; an erase loop with no end test; the inverted test at 99 |
| Strong 2PL | `1101_s2pl/s2pl.cc`, `lib.cc` | a mutex and a value per object | draw and sort ids, growing phase, `task_alpha`, shrinking phase | lock order, ids drawn twice, work on objects that are not locked |
| Silo commit protocol | `1115_silo/silo.cc` | `Row[]` (lock bit, tid, value), per-worker sets | read phase, lock, validation, `writePhase`, `unlockWriteSet`, retry | torn copies, lock bits cleared by load and store, tids that must grow, abort and retry |
| Latches and counters | `1115_latch/*.cc` | `Counter`, the lock word or mutex | `my_lock`, `my_unlock`, `Counter++` | the window between test and swap; spinning |
| B-link tree | `1129_bltree/bltree.cc`, `lib.cc` | nodes with high key, right link, parent pointer and mutex; `Root` | `insert` with `find_leaf`, `move_right`, `insert_in_parent`; `search_core` | unlocked descent through nodes that are being changed; stale parent pointers; splits that climb; lock order |
| B+ tree | `1025/bptree.cc`, `1018-bptree-leaf_split/bptree.cc`, `1011_bptree/ass_2/bptree.cc` | nodes, `Root`, leaf chain | `insert`, splits, `search_core` | roundings of `N/2`, the leaf chain, parent pointers after a split |
| Silo server | `1115_silo/tmp/interactive.cc`, `srv_kx.cc` | `Row`, `GlobalEpoch`, `ThLocalEpoch[]`, `LogList`, `ThreadNum`, a connection and a thread per client | accept loop, client threads, `split`, `exec_trans`, `epocher`, `logger` | the address of a local handed to a thread, a limit tested without the lock, recv that returns 0, SIGPIPE, widths in `split`; epoch advance, log order |
| Client | `1115_silo/tmp/cli_kx.cc` | its connection | connect, send a query, wait for the ack, exit | a server that has ended, leaving while a transaction runs |
| Drafts | `1115_silo/tmp/s2pl.cc`, `tmp/silo.cc` | as 2PL and Silo | as 2PL and Silo | locks the distinct ids, modifies every drawn id |
| Exercises | `ass_1/binary_search.c`, `open_addr.c` | arrays | sort and search; hashing with probing | boundaries, termination of the probe sequence |
| Drivers | `tmp/search.cc`, `gendata.cc`, `rand.cc`, `read_data.cc` | none of the system's | terminal and file I/O | - |

What makes each of them correct:

* Kung-Robinson: committed transactions are serializable in the order of
  `Tx_id`; the collector keeps every write set a running transaction has still
  to be validated against; all workers finish.
* 2PL: a thread owns each of its objects from the growing to the shrinking
  phase, every mutex is released, nobody waits in a circle, no update is lost.
* Silo: a lock bit is always cleared by whoever set it, commit tids grow,
  committed transactions are serializable.
* Latches: exclusion, and the latched increment is an atomic one.
* B-link tree: a key that was inserted can always be reached, a thread is never
  to the right of where its key belongs, no deadlock.
* B+ tree: the leaves hold exactly the inserted keys in order, parent pointers
  are true between inserts, all leaves are as deep, every key is found.
* Server: an epoch advances only when the clients have loaded it, a transaction
  has one log entry and its commit tid the epoch of that entry, epochs are
  written in order; a client has a thread number of its own, its query runs
  exactly once before it sees COMMIT, and it gets an answer.

## 2. Modules

| module | models | composes |
|---|---|---|
| `KungRobinson` | `kr.cc`, all of `transaction`, the worker loop and the joins of `main` | `SerialStore` |
| `SerialStore` | abstract: transactions that commit one after the other | |
| `KungRobinsonProofs` | theorems about `KungRobinson` | `KungRobinson` |
| `S2PL` | `s2pl.cc` with `lib.cc` | |
| `Silo`, `SiloProofs` | `silo.cc`: `worker`, `writePhase`, `unlockWriteSet`, `main`; theorems | |
| `LatchCounter` | `counter_cas_lock.cc` and `counter_pthread_lock.cc` | `AtomicCounter` |
| `LockingProofs` | theorems about `S2PL` and `LatchCounter`, each for itself | `S2PL`, `LatchCounter` |
| `AtomicCounter` | `counter_fetch_and_add.cc`, also the abstract counter | |
| `BLinkTree`, `BLinkTreeProofs`, `BLinkTreeRangeProofs` | `bltree.cc` with the allocation and locks of `lib.cc`; theorems | |
| `MCBLinkTree` | the key vectors of the runs | `BLinkTree` |
| `BPlusTree`, `BPlusTreeProofs` | `1025/bptree.cc` and the two stages before it; theorems | |
| `MCBPlusTree` | the key sequences of the runs | `BPlusTree` |
| `SiloEpochs` | `interactive.cc`: `exec_trans`, `exec_logging`, `writePhase`, `epocher`, `logger` | |
| `SiloEpochsProofs` | theorems about `SiloEpochs` | `SiloEpochs` |
| `MCSiloEpochs` | the transactions of the run | `SiloEpochs` |
| `SiloSessions` | `srv_kx.cc` (accept loop), `doThreadInteractive` and `split`, `cli_kx.cc` | |
| `SiloSessionsProofs` | theorems about `SiloSessions` | `SiloSessions` |
| `MCSiloSessions` | the queries of the run | `SiloSessions` |

Conventions.  Variables and operators have the names of the source; `pc[t]` says
where thread `t` is.  An action is one access to memory another thread can
reach, together with the thread's local work; accesses that only a lock holder
can make are joined (a release joined to the step before it, an acquisition to
the step after it).  History variables (`log`, `updates`, `owner`,
`committed`, `early`, `inserted`, `flushed`, `raced`) are read by properties only, never by a guard.  Operators
with a comment "Fault:" are plausible mistakes in the definition that follows
them; each stands in for that definition once, to see that the property it is
meant for notices it.  They are used by no specification.

### KungRobinson

The value of a row is its version, the `tx_id` of its writer, because the code
writes the constant 0 (107).  `Targets` is a transaction as its two passes over
`target` see it: the READs in order, the WRITEs in order.  `Begin` is the sample
of `Tx_id` (66), `Mark` the store of `WaterMark` (71), `ReadRow` one iteration
of 73-81, `LockGiant` 94, `ValidateOK`/`ValidateFail` 96-102, `WriteRow`
104-109, `TakeTxId` 112, `Register` 113-121, `ScanMark` one iteration of
122-124, `Collect` 126-145.  At 99 the code tests the result of the unlock the
wrong way round: `ValidateFail` leads to ERR, `exit(1)`, never to RETRY; `Exit`
ends the process with the other workers wherever they are.  The stores of
`WaterMark` may be seen late by the scan (x86 store buffers); since a mark never
goes back (`WaterMarkMonotone`), a late mark only makes the scan keep more, so
the model stores them at once.

### S2PL

`Draw` is 29-37 with `my_sort`, `Lock`/`SkipDuplicate` 39-47, `TaskRead` and
`TaskWrite` the load and the store of `task_alpha`, `Unlock` 54-56.  The object
that `task_alpha` works on is the loop index (50), not the id locked.  Ids drawn
twice are locked once and unlocked twice (55): the second unlock frees a default
mutex whoever holds it.  A value is the number of modifications it reflects.

### Silo

`ReadTidw` and `ReadTuple` are the two loads of the copy at 217, `LockRow` the
swap that succeeds, `ValidateRow`/`Abort` 257-279, `ChooseTid` 80-98,
`WriteTuple` and `InstallTidw` the two stores of 103-104, `UnlockLoad` and
`UnlockStore` the load and the store of `unlockWriteSet`, `EndTx` 108-112 with
the loop of the worker, `MainReturns` the join of all workers but the first
(365).  Because `writePhase` takes its sets by value, the clears at 109-111 act
on copies: a worker's sets survive its commit, and the model keeps them.  The
epoch is constant: the creation of its thread is commented out.

### LatchCounter

The built programs (`-O0`) turn `Counter++` into a load and a store
(`LoadCounter`, `StoreCounter`).  `LoadMutex` and `CasSucceeds`/`CasFails` are
the test and the swap of `my_lock_core`, `PthreadLock` the mutex of the second
program; the initial value of `latch` chooses the program.  Its names are not
those of `S2PL` (`LatchInit`, `at`, `loop`, ...): `LockingProofs` extends both.

### BLinkTree

Nodes are records at addresses 1, 2, ... in the order of allocation, 0 is NULL.
`find_leaf` is split into its loads: `ReadRoot`, `ReadNkey`, `ReadKey`,
`ReadChild`.  Stores to memory that others can read without the lock are queued
in `stores[t]` in program order and performed by `Store`, one at a time; the
thread does nothing else until its queue is empty.  That covers the shift in an
internal node (`finalize_parent`), the copies into the left half of an internal
split, the parent pointers, and the high keys and links, which a thread can read
in a right half it has reached through a parent pointer.  What only a lock
holder reads (the entries of a leaf) changes in one step.  The slots behind the
last key keep their old contents, since `search_core` looks at one of them
(360), and behind a full array it looks at `nkey`.  `LockNull` is the call
`lock(NULL)`, which ends the process.  The search phase starts when all inserts
are joined; nothing is stored any more, so a search is one step.

### BPlusTree

`stage` chooses one of three programs at the start; they share `find_leaf` and
`insert_in_leaf`, which are the same text in each.  The program is sequential,
so what could go wrong lies between the recursive calls of an insert: an action
is one level of it.  `Typed` is the loop of `main`.  `InsertFirst` and
`InsertInLeaf` are 361-371, `SplitLeaf` 372-388, and then `up` holds the
arguments of the pending `insert_in_parent`: `GrowRoot` 333-337, `AddToParent`
339-341, `SplitParent` 342-353.  The split of 1018
(`InsertInHalves`) does not sort the new key into the temporary node, and 1011
drops a key for a full leaf (`InsertDropped`).  In 1025 `erase_entries` (382)
erases the link stored at 381, so no leaf has one; in 1018 it survives.
`search_core` looks at one slot too many: behind the last key that is a 0, behind
a full key array the next field, `nkey`; keys typed are larger than `N - 1`, so
that this slot is never taken for a key.

### SiloEpochs

A client thread is named by its `myid`; `Register` and `Begin` stand for what
`SiloSessions` has in detail.  `CopyRow` is 246-265, `LockRow` 267-284,
`LoadEpoch` and `StoreEpoch` the two accesses of the serialization point (289),
`ValidateRow`/`Abort`/`Retry` 293-314, `Log` `exec_logging` (318 comes before the
write phase), `InstallTidw` a store at 119, `UnlockLoad`/`UnlockStore` 74-84,
`EndTx` the end of `exec_trans`.  The tests of `tidw` look at the row here, not
at the copy as in `silo.cc`.  `LoadNowEpoch`, `CheckSlot` and `atomicAddGE` are
the epocher: the epoch, then one slot after the other from 1 on with `ThreadNum`
read in each round, then the addition.  `LoadCurEpoch` and `Flush` are the
logger, which loads the epoch before it takes `MutexLogList`.

Two liberties.  `interactive.cc:20` declares `ThLocalEpoch` as an array,
`srv_kx.cc:19` defines a pointer of that name: linked together, the slots lie
over the pointer and the globals next to it (with the Makefile's `-O0`, slot 1
is `ThreadNum`).  The module has the array; what a build makes of the clash is
not modelled.  And a row's value is not stored, since a write stores back what
it copied; `searchWriteSet` also matches rows by value (68), which the run does
not exercise (its rows have different values).

### SiloSessions

`cl[c]` is a client with both directions of its connection, `accepted` the
connections in the order of `accept`, `th[n]` the thread of the n-th.
`Accept` is the loop of `srvmain` with `threadInteractive`.  `Start` is 348-353:
the thread reads the descriptor through the address of `afd`, a parameter of a
call that may have returned, so it may get its own connection's, a later one's
or no descriptor at all (`Sfds`), and tests `ThreadNum` without the mutex;
`Register` is 354-357.  `Recv`, `RecvNothing` and `RecvError` are the outcomes of
363: a message, 0 because the client has left (the code does not test for it and
runs what `buf` still holds; a buffer never filled may hold anything), -1 for a
bad descriptor.  `SplitNext` is one round of `split` and of the parsing loop,
with `uint` indices cut at `UintMax` and `npos` equal to `SizeMax`; `SplitNoMemory`
is the `bad_alloc` that ends the server.  `Run` is `exec_trans` as one step,
`Send` and `SendRaisesSigpipe` 385.

The client's `SendQuery` and `RecvAck` are `execTransaction`.  `RecvEnd` and
`SendQueryToNobody` are what TCP gives it once the server has ended: a recv of
0, which it takes for the ack and prints COMMIT, then a failing send.

Liberties: a message arrives whole, also when two threads read one connection;
a client leaves with no ack unread (otherwise the connection is reset, and the
thread ends by `RecvError`'s path); a garbage buffer is run as a transaction and
does not crash.

## 3. Runs

| run | question | answer |
|---|---|---|
| `kr` | 2 workers, 3 transactions, 2 operations, 1 row: are commits serializable, do rows hold the serial state, does every step refine `SerialStore`; does the collector keep what is needed, does its loop stay in the list, do marks only grow, do all finish? | yes |
| `s2pl` | 3 threads, 3 objects, 2 ids each: ownership, release, and does everyone commit? | yes |
| `s2pl_lost_update` | is `task_alpha` protected by the locks? | no, an update is lost |
| `silo` | 2 workers, 2 transactions, 2 rows: is every lock bit cleared again, is there a deadlock? | cleared; none |
| `silo_serializable` | are committed transactions serializable? | no, the lock test looks at the copy |
| `latch` | 3 threads, 3 increments, both latches: exclusion, refinement of the atomic counter, the final value | yes |
| `bltree` | 2 threads, trees of 12 to 14 keys, N = 4: reachability, never too far right, search, parent pointers, order of keys, no deadlock | yes; reachability, search and parent pointers unless a right half is split before it is linked |
| `bltree_window` | is every inserted key found, without that condition? | no |
| `bptree` | three stages, up to 40 keys, N = 4: no key lost, parent pointers, depth and fill, every key found | yes, while no two separators are equal |
| `bptree_duplicates` | is every key found, whatever was typed? | no, not with repeated keys |
| `silo_epochs` | 3 clients, 2 transactions, epochs 0 to 2: one epoch behind at most, one epoch per commit, log complete and in order, old entries written, epochs advance | yes, for all clients but the first |
| `silo_sessions` | 2 clients, 2 queries each, limit 1: ids and limit, each query run once, what ends the server, answers | yes, with the exceptions the properties name |

Bounds and why they suffice.

* `kr`: two workers suffice for every pair of conflicting accesses; three
  transactions let one worker fill, advance and collect the list while the other
  is between 66 and 71; two operations give read-write, write-write and repeated
  reads.  One row is enough for a conflict, and more rows are covered by the
  proofs, which hold for any set of rows.
* `s2pl`: three threads and three objects are the least with a waiting cycle of
  length three; drawing with repetition includes the ids drawn twice.
* `silo`: two transactions per worker so that carried-over sets act in a second
  transaction.  The counterexample run uses the least instance that shows it.
* `latch`: three threads give a failing swap while a third thread holds the
  latch.
* `bltree`: with N = 4 the fifth leaf splits the root, the seventh an inner
  node.  The key vectors (`MCBLinkTree`) make threads alternate in the same
  leaves, insert downwards, meet in the middle, leave a remainder of the range,
  and let one thread fill the right half of an internal split that the other
  has not finished.
* `bptree`: `Inputs` bounds the keys.  Nine keys out of five in every order and
  repetition reach a second level and its splits; 40 distinct keys in ascending,
  descending, alternating and scattered order reach a fourth, so that internal
  splits climb twice; the last sequence has keys that come late.
* `silo_epochs`: `MaxThreads` = 3 is the least with two clients that
  `chkEpochLoaded` looks at (it leaves out 0); `MaxRuns` = 2 transactions in all
  give every conflict of a reader with a writer and every order of two commits
  against an epoch change; `MaxEpoch` = 2 is the least in which a client could be
  two behind.
* `silo_sessions`: `MAX_TRANSACTION` = 1 and two clients are the least with a race
  for the last place; `MaxQueries` = 2 is the least in which a stale buffer differs
  from the query that is due.  `Memory` = 2 is one operation more than a query has;
  `UintMax` = 7 and `SizeMax` = 15 are the widths of an LP64 build scaled down:
  what matters is that one is smaller and both are larger than a query.
  That a third client is let in again after the race is not seen with two.

Deadlock is checked in all passing runs but `silo_sessions`, where everything
stops when the clients have left or typed their last query.

Fairness.  `WF_vars(Step(t))` for every thread, and for `main` where it acts:
the operating system schedules a runnable thread again and again.  Nothing
stronger is assumed of mutexes: the workloads are finite, so a waiting thread is
overtaken finitely often.  `SiloEpochs` assumes it of the epocher and the logger, which loop
on threads of their own, and not of the client threads, which wait for their
clients; `SiloSessions` of each client thread and of a client whose ack has
come, not of what clients type.  Silo has no liveness property: two workers that have
each copied a row the other has locked abort, retry at once and can do so
forever.

Deviations the runs show.

* `s2pl.cc:50`: the loop index is passed instead of the locked id.
* `silo.cc:271`: the lock bit of the copy is tested, not the row's.
* `1025/bptree.cc:345`: a full parent sorts a new child in by its key, behind all
  equal separators, instead of behind the child that was split; after that the
  children are not in the order of their keys.
* `bltree.cc:275`: the children of a new right half point to it before its high
  key and link are stored.  Another inserter can fill and split it in between;
  the late stores (278-279) then overwrite that split's high key and link, and
  the overwritten high key, read again at 287, becomes a separator.  When it was
  the root that split, the half has no parent either and `lock(NULL)` follows.
  With N = 600 this needs hundreds of inserts within the window.

The pass properties of `BLinkTree` about the tree as a whole (that a reader is
not too far right, that keys are reachable and found, that there is a parent to
lock) are conditional on `~early`, a history variable set when a thread splits a
node that is `NotLinked`: the run shows that this race is the only thing that
goes wrong in these instances, and `bltree_window` that it does go wrong.  For
the parent pointers the proof shows it for all instances.  `KeysSorted`, and
`LocksAreHeld` of `BLinkTreeProofs`, hold whatever happened before.

Also seen, as behaviour of the models that no run singles out:

* `kr.cc:99` tests the unlock the wrong way round, so the first conflict ends the
  process (`ValidateFail`, `Exit`);
* `silo.cc:83`, `79`: the tids of the write set and the last chosen tid never
  enter the commit tid, so a blind write may choose the tid its row has
  (`ChooseTid`; `CommitTid` in `SiloEpochs`);
* `silo.cc:108` unlocks the rows of a commit a second time and can clear a lock
  bit another worker has set since (`UnlockStore`);
* `s2pl.cc:55` unlocks an id drawn twice a second time, so `TwoPhaseLocking` needs
  `NoDuplicates`; `silo.cc:109-111` clear copies; `silo.cc:365` does not join
  worker 0; `bltree.cc:344` drops the remainder;
* `interactive.cc:337`: where `size_t` is wider than `uint`, `last` never equals
  `npos`, so a query in the form of the comment at 367, "r:100,w:128", is split
  for ever and the server ends for lack of memory; only with a comma at the end
  does it get through (`OneOperationEach`, `SplitNoMemory`);
* `interactive.cc:353`: two threads that pass the test together exceed the limit,
  and since it tests for equality it refuses nobody from then on (`ThreadLimit`);
* `interactive.cc:363`, `385`: a client that leaves has its last query run again,
  and after the second ack SIGPIPE ends the server for all (`EndsOnlyAfter`);
* `cli_kx.cc:132`: the client prints COMMIT when the server has ended;
* `interactive.cc:143`: the loop starts with 1, so client 0 may be any number of
  epochs behind (`EpochLag` and `FlushOrder` leave it out); 154: the log file is
  opened read-only, so `write` fails unseen.

## 4. Proofs

The proofs hold for every value of the constants that satisfies the module's
`ASSUME`: positive numbers of workers, transactions and operations, any set of
rows, threads or clients, any even fan-out from 4 on, any keys (for
`NotTooFarRight`, any distinct keys).  Where a bound of a model
(`MaxRuns`, `MaxEpoch`, `MaxQueries`, `Inputs`) is a constant, the theorem is for
every value of it.  Each module proves `TypeCorrect` and, where the invariant a
run checks is not inductive, the strengthening named here.

* `KungRobinsonProofs`.  `MutualExclusion`, from `LockInv`: the
  places between lock and unlock are exactly those of the holder.
  `CollectSafe`, `EraseSafe` and `MarksGrow`, from `GCInv`: the list is an
  unbroken run of tx_ids up to the last registered one (`ListInv`); what was
  collected is below every mark, a mark is at most its worker's `tx_begin`
  while it runs, and a scan holds a lower bound of the marks it has passed
  (`MarkInv`).  The invariants the runs check are not inductive: without the
  bound on collected entries, nothing says that the entry after `tx_begin` is
  still there.  `CommittedTransactionsAreSerializable` and
  `RowsHoldSerialState`, from `SerialInv`: every version a running transaction
  has read was current when it began, or its row is `Stale`, that is, written by
  a later commit or being written now.  A validation that succeeds excludes the
  first case with the list invariant and the second with the lock.
  `Refinement`: the increment of `Tx_id` is the commit of `SerialStore`, every
  other step a stutter.
* `LockingProofs`, about `S2PL`.  `OwnersUnlock`, with the fact that a thread
  draws before it counts (`DrawsFirst`); `LocksAreTwoPhase`, with `Held`: as
  long as nobody has drawn an id twice a thread holds every id it has locked.
* `LockingProofs`, about `LatchCounter`.  `LatchTypeCorrect` and
  `LatchExcludes` from `LatchInv` (at most one thread is
  inside, the word is set exactly then, and a thread about to store has loaded
  the present value); `LatchRefinement`: the store of `Counter` is the atomic
  addition.
* `SiloProofs`.  `LocksAreNotLeaked`, from `LockInv`: a lock bit is set exactly
  when `owner` names a worker, and that worker has still to come past the row on
  its way to unlock (`WillUnlock`), from the commit's write phase or from the
  abort's `unlockWriteSet`.
* `SiloEpochsProofs`.  `CommitInOwnEpoch`, from `EpochInv`: no client stores or
  uses an epoch newer than the global one (`NotNewer`), and between the store of
  `ThLocalEpoch` and the last store of the write phase its epoch is that of its
  log entry and of its tid.  `NoClientFallsBehind`, from `LagInv`: a client the
  epocher has passed in this round (each of them when it is about to add) has
  loaded the global epoch (`Current`), the others are at most one behind
  (`Lagging`).  `LogIsCompleteAndInOrder`, from `LogInv`: a transaction is at most
  once in the list or the file, and is there exactly when it was logged
  (`OneEntry`); the epochs in the file are below the global one, and no
  entry of a client left in the list is older than one of them (`Past`).  The
  loop of the logger is a recursive function; what it leaves (`WhatIsLeft`)
  follows from the least number whose iterate would be wrong.
* `SiloSessionsProofs`.  `QueriesRunOnce`, from `SessionInv`, which is an account
  of every query of a client: what was sent is printed, an answer under way, in
  the connection or being served, and what was committed is printed, an answer
  under way, lost with a reset or being answered (`Counted`).  `RunOnce` by
  itself is not inductive: it compares the first with the last of these numbers
  and says nothing of those in between, nor of two threads that read one
  connection.  `NumbersAndLimit`, from `LimitInv`: until two threads have been
  between the test and the increment at once (`raced`), at most one thread is
  there and it has room (`Room`), and the thread numbers are those from 0 to
  `ThreadNum` - 1 (`Numbered`).  `ServerEndsOnlyAfter` needs the account of
  `SessionInv` as well.  `EachOperationOnce`, from `CountInv`: at each test of
  the loop of `split`, `first` is behind a delimiter and, if one ends the query,
  what is counted is the operations before `first`.  It holds for queries with single delimiters between their operations
  (`Delimited`) and where `npos` in a `uint` is none of a query's positions and
  not `npos` (`NarrowUint`); without either it is false.
* `BPlusTreeProofs`.  `TypeCorrect` is not only about types here: it says that
  `find_leaf` ends at a leaf, that a climb finds a parent, and that no node
  overflows.  It needs the shape of the tree, and so does `TreeIsWellFormed`.
  The inductive invariant `TreeInv` says of the third stage, also in the middle of
  a climb: there is a level for each node, 0 for leaves, one more for each
  parent, and the two halves of a split have the same (`Levels`); each child
  points to the one node that holds it (`Children`); only the root has no parent,
  and the right half of a root that is split (`Parents`); the right half is in no
  node yet and has the parent of the left (`Pending`); all but the root are half
  full (`Filled`).  `WellFormed` alone speaks of the time between two insertions
  only.  The levels also show that the recursions of `find_leaf` and of
  `AllLeavesAsDeep` each define a function (`DescentExists`, `DepthsExist`).

* `BLinkTreeProofs`.  `TypeCorrect` and `LocksHeld` from `TreeInv`, which holds
  between any two stores, also after an early split.  What a thread reads
  without the lock, in however many steps, must lead it to a node: `PlaceInv`
  says that the children up to the `nkey` it has read are there, although the
  node's own `nkey` and children have changed since; `StoreInv` that pending
  stores go to the node the thread holds or to the right half it has made, and
  that `nkey` is stored after the children it counts (`ChildrenFirst`);
  `NodeInv` that links stay on their level's kind of node and parents are
  internal.  `LocksAreHeld`, which is defined there, is part of it, since what a
  node holder alone may store is kept by everybody else.  `KeysInOrder` from
  `OrderInv`: a node is in order, or its pending stores, when all are done, leave
  it so (`Becomes`).  `NullOnlyAfterEarlySplit` from `ParentInv`, which says what
  holds before the first early split: the nodes without a parent are the root,
  its right half until the new root is made, and the new root until it is
  published (`Parentless`), which only the holder of the root does
  (`Publishing`).  The loops that adopt children (145, 268) load the child when
  they store, so a store could give the root another parent, or the new root
  one; that neither is a child of, or about to be stored in, any other node
  (`RootIsNoChild`, `NewRootIsTop`) excludes it.  A node is split only when it
  has a parent or is the root (`Climbs`): for an internal node this is what
  `~early` says, for a leaf it holds because the halves of a split are of one
  kind (`SameKind`) and nobody is beyond a root that is a leaf (`RootLeaf`).
* `BLinkTreeRangeProofs`.  `NotTooFarRight`, that is `NeverTooFarRight`, from
  `RangeInv`, which says what holds before the first early split.  The code
  keeps no lower bound of a node, and its high key is out of date while a
  separator is on its way up; so each node is given two numbers for good: its
  level, and the separator with which it was split off.  They are not variables
  of the model: `RangeInv` says that such numbers `low` and `lev` exist, and
  every step shows how to go on with them (`WithNew` for a new node).
  *Nodes.*  Every pointer goes one level up or down to a node in range, or to the
  right, and no high key is beyond the node the link names (`Pointing`); link and
  high key name the next node of the level unless a store to them is pending
  (`Linked`); the keys of a leaf are in its range (`LeafKeys`).  For an internal
  node there are the keys and children it will have when its pending stores are
  done, in range and one behind the other (`Separators`), and the queues bring
  it there in an order in which a reader without the lock goes too far left at
  worst: a child before the key in front of it, and no key counted before it is
  there (`Sets`, `Larger`, `Readable`); so the keys a reader compares with only
  fall (`KeysFall`).
  *Threads.*  The bound of the node a thread is at is below its key, and what it
  has read stays true enough (`Way`); a queue stores the high key of a node
  before its link, each for the next node (`Linking`); what takes a right half
  for its parent before it is linked is within its bounds (`Unlinked`), which is
  where the climb of another thread meets the split; and no two threads split
  one half (`Apart`).  That the keys are different is the assumption
  `DistinctKeys`, which no other proof uses: `gendata.cc:31`-`40` gives each a slot
  of its own in the file.  The strict order of the leaf's keys,
  and with it that a split's separator is above the bound of the left half,
  rests on it.

Only model-checked:

* liveness of all modules (it needs fairness and ENABLED), and that there is no
  deadlock;
* `NoKeyLost` and `KeysFound` of `BPlusTree`, which speak of the concatenated keys
  of the leaves: that needs induction over the recursion of `KeysUnder`;
* `KeysStayReachable` of `BLinkTree`: it follows the right links from node to
  node with a recursive definition, to a leaf that has the key;
* the counterexamples: they are runs, and each shows one execution.

## 5. Not modelled

The drafts `tmp/s2pl.cc` and `tmp/silo.cc` are earlier forms of `s2pl.cc` and
`silo.cc` (the silo draft stops after it sorted the lock list), and no Makefile
builds them; the exercises of `ass_1` are
sequential functions on arrays.  Of the server: `init_trans`, whose operations
nothing reads, and the clash of the declarations of `ThLocalEpoch` (above).
The line editor, data generation, printing, timing and thread affinity
have no state of the system; `MT.h`, `tsc.hpp` and the debug macros are
third-party or diagnostics (`ERR` is modelled as the end of the process).
`counter_non_lock.cc` promises nothing.  `lib.cc` of `1115_silo` has functions
nothing calls, and `task_beta` of `1101_s2pl` is never called.

## 6. Plan

1. Proofs: for `BPlusTree` that the keys of each node lie between its separators,
   as `BLinkTreeRangeProofs` does for the B-link tree.
2. The draft `tmp/s2pl.cc` as a second locking discipline in `S2PL`.
3. `OpenAddressing` and `BinarySearch`: small algorithm modules, with the probe
   sequence's boundary and the search's termination.
