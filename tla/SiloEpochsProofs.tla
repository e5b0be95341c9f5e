-------------------------- MODULE SiloEpochsProofs --------------------------
(***************************************************************************)
(* Proofs about the epochs and the log of the Silo server                  *)
(* (1115_silo/tmp/interactive.cc), for any number of threads, keys,        *)
(* transactions and epochs.                                                *)
(***************************************************************************)
EXTENDS SiloEpochs, FiniteSetTheorems, WellFoundedInduction, TLAPS

-----------------------------------------------------------------------------
(* Induction on the natural numbers, as a fact about sets *)

\* A nonempty set of natural numbers has a least element.
LEMMA LeastNat ==
    ASSUME NEW T \in SUBSET Nat, T # {}
    PROVE  \E x \in T : \A y \in T : x <= y
<1>1. PICK x \in T : \A y \in T : ~ (<<y, x>> \in OpToRel(<, Nat))
  BY WFMin, NatLessThanWellFounded
<1>2. ASSUME NEW y \in T PROVE x <= y
  <2>1. ~ (<<y, x>> \in OpToRel(<, Nat))
    BY <1>1
  <2>2. ~ (y < x)
    BY <2>1 DEF OpToRel
  <2> QED BY <2>2
<1> QED BY <1>2

\* A set with 0, and with n + 1 for each of its n, has all natural numbers.
LEMMA AllNat ==
    ASSUME NEW S, 0 \in S, \A n \in Nat : n \in S => n + 1 \in S
    PROVE  \A n \in Nat : n \in S
<1>1. SUFFICES ASSUME Nat \ S # {} PROVE FALSE
  OBVIOUS
<1>2. PICK x \in Nat \ S : \A y \in Nat \ S : x <= y
  BY <1>1, LeastNat
<1>3. x - 1 \in Nat /\ x - 1 \in S
  BY <1>2
<1> QED BY <1>2, <1>3

-----------------------------------------------------------------------------
(* What the logger leaves *)

IsLeft(f, list, E, n) ==
    f = [i \in 0 .. n |->
            IF i = 0 THEN <<>>
            ELSE IF list[i].epoch < E THEN f[i - 1]
            ELSE Append(f[i - 1], list[i])]

\* The recursion of NotOld defines a function.
LEMMA LeftExists ==
    ASSUME NEW list, NEW E
    PROVE  \A n \in Nat : \E f : IsLeft(f, list, E, n)
<1> DEFINE S == {n \in Nat : \E f : IsLeft(f, list, E, n)}
<1>1. 0 \in S
  <2>1. IsLeft([i \in 0 .. 0 |-> <<>>], list, E, 0)
    BY DEF IsLeft
  <2> QED BY <2>1
<1>2. ASSUME NEW n \in Nat, n \in S PROVE n + 1 \in S
  <2>1. PICK f : IsLeft(f, list, E, n)
    BY <1>2
  <2> DEFINE more == IF list[n + 1].epoch < E THEN f[n] ELSE Append(f[n], list[n + 1])
             g == [i \in 0 .. (n + 1) |-> IF i = n + 1 THEN more ELSE f[i]]
             rhs(i) == IF i = 0 THEN <<>>
                       ELSE IF list[i].epoch < E THEN g[i - 1]
                       ELSE Append(g[i - 1], list[i])
  <2>2. ASSUME NEW i \in 0 .. (n + 1) PROVE g[i] = rhs(i)
    <3>1. CASE i = 0
      <4>1. f[0] = <<>>
        BY <2>1 DEF IsLeft
      <4> QED BY <3>1, <4>1
    <3>2. CASE i \in 1 .. n
      <4>1. g[i] = f[i] /\ g[i - 1] = f[i - 1]
        BY <3>2
      <4>2. f[i] = IF list[i].epoch < E THEN f[i - 1] ELSE Append(f[i - 1], list[i])
        <5>1. i \in 0 .. n /\ i # 0
          BY <3>2
        <5> QED BY <2>1, <5>1 DEF IsLeft
      <4> QED BY <3>2, <4>1, <4>2
    <3>3. CASE i = n + 1
      <4>1. g[i] = more /\ g[i - 1] = f[n] /\ i # 0
        BY <3>3
      <4> QED BY <3>3, <4>1
    <3> QED BY <3>1, <3>2, <3>3
  <2>3. g = [i \in 0 .. (n + 1) |-> rhs(i)]
    BY <2>2
  <2>4. IsLeft(g, list, E, n + 1)
    BY <2>3 DEF IsLeft
  <2> QED BY <2>4
<1> HIDE DEF S
<1>3. \A n \in Nat : n \in S
  BY <1>1, <1>2, AllNat
<1> QED BY <1>3 DEF S

\* No two entries are of the same transaction.
Distinct(list) == \A j, k \in DOMAIN list : list[j].tx = list[k].tx => j = k

\* A list with one more entry.
LEMMA OneMore ==
    ASSUME NEW S, NEW s \in Seq(S), NEW e \in S
    PROVE  /\ Append(s, e) \in Seq(S)
           /\ DOMAIN Append(s, e) = DOMAIN s \cup {Len(s) + 1}
           /\ Len(s) + 1 \notin DOMAIN s
           /\ \A j \in DOMAIN s : Append(s, e)[j] = s[j]
           /\ Append(s, e)[Len(s) + 1] = e
           /\ ToSet(Append(s, e)) = ToSet(s) \cup {e}
<1>1. /\ Append(s, e) \in Seq(S)
      /\ DOMAIN Append(s, e) = DOMAIN s \cup {Len(s) + 1}
      /\ Len(s) + 1 \notin DOMAIN s
      /\ \A j \in DOMAIN s : Append(s, e)[j] = s[j]
      /\ Append(s, e)[Len(s) + 1] = e
  OBVIOUS
<1>2. ToSet(Append(s, e)) = ToSet(s) \cup {e}
  BY <1>1, Zenon DEF ToSet
<1> QED BY <1>1, <1>2

LEMMA DistinctMore ==
    ASSUME NEW S, NEW s \in Seq(S), NEW e \in S, Distinct(s),
           \A f \in ToSet(s) : f.tx # e.tx
    PROVE  Distinct(Append(s, e))
<1> DEFINE z == Append(s, e)
<1>1. ASSUME NEW j \in DOMAIN z, NEW k \in DOMAIN z, z[j].tx = z[k].tx PROVE j = k
  <2>1. \A m \in DOMAIN s : z[m] = s[m] /\ s[m].tx # e.tx
    BY OneMore DEF ToSet
  <2>2. /\ j \in DOMAIN s \/ (j = Len(s) + 1 /\ z[j] = e)
        /\ k \in DOMAIN s \/ (k = Len(s) + 1 /\ z[k] = e)
    BY OneMore
  <2> HIDE DEF z
  <2>3. CASE j \in DOMAIN s /\ k \in DOMAIN s
    BY <1>1, <2>1, <2>3 DEF Distinct
  <2> QED BY <1>1, <2>1, <2>2, <2>3
<1> QED BY <1>1 DEF Distinct

\* What the logger's loop leaves of the list (interactive.cc:158-164): the
\* entries that are not old, each as often as before.
LEMMA WhatIsLeft ==
    ASSUME NEW S, NEW list \in Seq(S), NEW E
    PROVE  /\ NotOld(list, E) \in Seq(S)
           /\ ToSet(NotOld(list, E)) = ToSet(list) \ Old(list, E)
           /\ Distinct(list) => Distinct(NotOld(list, E))
<1> DEFINE L == Len(list)
<1>0. L \in Nat /\ DOMAIN list = 1 .. L /\ \A m \in 1 .. L : list[m] \in S
  OBVIOUS
<1>1. PICK f : IsLeft(f, list, E, L) /\ NotOld(list, E) = f[L]
  <2>1. \E f : IsLeft(f, list, E, L)
    BY <1>0, LeftExists
  <2>2. IsLeft(CHOOSE f : IsLeft(f, list, E, L), list, E, L)
    BY <2>1
  <2>3. NotOld(list, E) = (CHOOSE f : IsLeft(f, list, E, L))[L]
    BY DEF NotOld, IsLeft
  <2> QED BY <2>2, <2>3
<1> DEFINE Kept(n) == {list[m] : m \in {k \in 1 .. n : ~(list[k].epoch < E)}}
           Good(n) == /\ f[n] \in Seq(S)
                      /\ ToSet(f[n]) = Kept(n)
                      /\ Distinct(list) => Distinct(f[n])
           G == {n \in Nat : n <= L => Good(n)}
<1>2. 0 \in G
  <2>1. f[0] = <<>>
    BY <1>0, <1>1 DEF IsLeft
  <2>2. Kept(0) = {}
    OBVIOUS
  <2>3. <<>> \in Seq(S) /\ ToSet(<<>>) = {} /\ Distinct(<<>>)
    BY DEF ToSet, Distinct
  <2> QED BY <2>1, <2>2, <2>3
<1>3. ASSUME NEW n \in Nat, n \in G PROVE n + 1 \in G
  <2> SUFFICES ASSUME n + 1 <= L PROVE Good(n + 1)
    OBVIOUS
  <2>1. Good(n) /\ n + 1 \in 1 .. L /\ list[n + 1] \in S
    BY <1>0, <1>3
  <2>2. f[n + 1] = IF list[n + 1].epoch < E THEN f[n] ELSE Append(f[n], list[n + 1])
    <3>1. n + 1 \in 0 .. L /\ n + 1 # 0 /\ (n + 1) - 1 = n
      BY <1>0
    <3> QED BY <1>1, <3>1 DEF IsLeft
  <2>3. CASE list[n + 1].epoch < E
    <3>1. Kept(n + 1) = Kept(n)
      BY <2>3
    <3> HIDE DEF Kept
    <3> QED BY <2>1, <2>2, <2>3, <3>1
  <2>4. CASE ~(list[n + 1].epoch < E)
    <3>1. Kept(n + 1) = Kept(n) \cup {list[n + 1]}
      <4>1. {k \in 1 .. (n + 1) : ~(list[k].epoch < E)}
              = {k \in 1 .. n : ~(list[k].epoch < E)} \cup {n + 1}
        BY <2>4
      <4> QED BY <4>1
    <3>2. f[n + 1] = Append(f[n], list[n + 1])
      BY <2>2, <2>4
    <3>3. ASSUME Distinct(list) PROVE Distinct(f[n + 1])
      <4>1. \A e \in Kept(n) : e.tx # list[n + 1].tx
        <5>1. \A m \in 1 .. n : m \in DOMAIN list /\ n + 1 \in DOMAIN list /\ m # n + 1
          BY <1>0, <2>1
        <5>2. \A m \in 1 .. n : list[m].tx # list[n + 1].tx
          BY <3>3, <5>1 DEF Distinct
        <5> QED BY <5>2
      <4> HIDE DEF Kept
      <4> QED BY <2>1, <3>2, <3>3, <4>1, DistinctMore
    <3> HIDE DEF Kept
    <3>4. f[n + 1] \in Seq(S) /\ ToSet(f[n + 1]) = Kept(n + 1)
      <4>1. f[n] \in Seq(S) /\ ToSet(f[n]) = Kept(n)
        BY <2>1
      <4>2. /\ Append(f[n], list[n + 1]) \in Seq(S)
            /\ ToSet(Append(f[n], list[n + 1])) = ToSet(f[n]) \cup {list[n + 1]}
        BY <2>1, <4>1, OneMore
      <4> QED BY <3>1, <3>2, <4>1, <4>2, Zenon
    <3> QED BY <3>3, <3>4
  <2> QED BY <2>3, <2>4
<1>4. Good(L)
  <2> HIDE DEF Good
  <2>1. \A n \in Nat : n \in G
    <3> HIDE DEF G
    <3> QED BY <1>2, <1>3, AllNat
  <2> QED BY <1>0, <2>1
<1>5. Kept(L) = ToSet(list) \ Old(list, E)
  BY <1>0 DEF ToSet, Old
<1> HIDE DEF Kept
<1> QED BY <1>1, <1>4, <1>5

-----------------------------------------------------------------------------
(* Types *)

\* An update of one place of a function.
LEMMA Updated ==
    ASSUME NEW S, NEW T, NEW f \in [S -> T], NEW x, NEW v, x \in S => v \in T
    PROVE  [f EXCEPT ![x] = v] \in [S -> T]
OBVIOUS

LEMMA ElementType ==
    ASSUME NEW S, NEW s \in Seq(S), NEW j \in DOMAIN s
    PROVE  s[j] \in S
OBVIOUS

LEMMA KeysAreNat == \A k \in Keys : k \in Nat /\ k + 1 \in Nat
  BY EpochsAssumption

\* While fewer than MaxRuns transactions have begun, none of the threads has
\* begun as many.
LEMMA FewerBegun ==
    ASSUME runs \in [Threads -> 0 .. MaxRuns], Cardinality(Begun) < MaxRuns,
           NEW t \in Threads
    PROVE  runs[t] < MaxRuns
<1> SUFFICES ASSUME runs[t] = MaxRuns PROVE FALSE
  BY EpochsAssumption
<1> DEFINE All == Threads \X (1 .. MaxRuns)
           Mine == {<<t, n>> : n \in 1 .. MaxRuns}
<1>1. IsFiniteSet(Begun)
  <2>1. IsFiniteSet(Threads) /\ IsFiniteSet(1 .. MaxRuns)
    BY EpochsAssumption, FS_Interval DEF Threads
  <2>2. IsFiniteSet(All)
    BY <2>1, FS_Product
  <2>3. Begun \subseteq All
    BY EpochsAssumption DEF Begun
  <2> QED BY <2>2, <2>3, FS_Subset
<1>2. Mine \subseteq Begun
  BY EpochsAssumption DEF Begun
<1>3. Cardinality(Mine) = MaxRuns
  <2>1. IsFiniteSet(1 .. MaxRuns) /\ Cardinality(1 .. MaxRuns) = MaxRuns
    BY EpochsAssumption, FS_Interval
  <2> DEFINE g == [n \in 1 .. MaxRuns |-> <<t, n>>]
  <2>2. g \in Bijection(1 .. MaxRuns, Mine)
    BY DEF Bijection, Injection, Surjection, IsInjective
  <2>3. ExistsBijection(1 .. MaxRuns, Mine)
    BY <2>2 DEF ExistsBijection
  <2> QED BY <2>1, <2>3, FS_Bijection
<1>4. Cardinality(Mine) <= Cardinality(Begun)
  BY <1>1, <1>2, FS_Subset
<1>5. Cardinality(Begun) \in Nat
  BY <1>1, FS_CardinalityType
<1> QED BY <1>3, <1>4, <1>5, EpochsAssumption

\* The initial state (main and init_row) has the declared types.
LEMMA InitTypeOK == Init => TypeOK
<1> SUFFICES ASSUME Init PROVE TypeOK
  OBVIOUS
<1>1. 0 \in Epochs /\ Zero \in Tids
  BY EpochsAssumption DEF Epochs, Tids, Zero
<1>2. \A S : <<>> \in Seq(S)
  OBVIOUS
<1>3. NoTx \in TxType
  BY <1>1, <1>2 DEF NoTx, TxType
<1>4. LogList \in Seq(LogType) /\ flushed \in SUBSET LogType
  BY <1>2 DEF Init
<1>5. ThreadNum \in 0 .. MaxThreads /\ runs \in [Threads -> 0 .. MaxRuns]
  BY EpochsAssumption DEF Init
<1>6. Row \in [Keys -> [lock : BOOLEAN, epoch : Epochs, tid : Nat]]
  BY <1>1 DEF Init
<1> QED BY <1>1, <1>3, <1>4, <1>5, <1>6 DEF Init, TypeOK

\* A thread in a transaction is registered and has begun it, and its index is
\* one of the list that it goes through; between two, its locals are new.
Indexed(t) ==
    /\ tx[t].pc # "recv" => t < ThreadNum /\ runs[t] >= 1 /\ tx[t].op \in Transactions
    /\ At(t, "recv") => tx[t] = NoTx
    /\ At(t, "copy") => tx[t].pos \in DOMAIN tx[t].op
    /\ At(t, "write") => tx[t].pos \in DOMAIN tx[t].writeSet
    /\ At(t, "unlockstore") \/ At(t, "abortstore") => tx[t].pos \in Keys

\* GlobalEpoch is what the epocher has loaded until it has added one to it.
Looking ==
    ep.at # "wait" => ep.nowEpoch = GlobalEpoch /\ GlobalEpoch < MaxEpoch

\* The inductive invariant behind TypeOK.
TypeInv == TypeOK /\ Looking /\ \A t \in Threads : Indexed(t)

\* The fields of a thread's locals.
LEMMA Fields ==
    ASSUME TypeOK, NEW t \in Threads
    PROVE  /\ tx[t] \in TxType
           /\ tx[t].op \in Transactions \cup {<<>>}
           /\ tx[t].pos \in Nat
           /\ tx[t].readSet \in Seq(Copies)
           /\ tx[t].writeSet \in Seq(Keys)
           /\ tx[t].loaded \in Tids
           /\ tx[t].max_rset \in Tids
<1>1. tx[t] \in TxType
  BY DEF TypeOK
<1> QED BY <1>1 DEF TxType

LEMMA RowFields ==
    ASSUME TypeOK, NEW k \in Keys
    PROVE  /\ Row[k].lock \in BOOLEAN
           /\ Row[k].epoch \in Epochs
           /\ Row[k].tid \in Nat
  BY DEF TypeOK

\* A step of a thread leaves the locals of the others alone.
LEMMA OthersKeepLocals ==
    ASSUME TypeOK, NEW t \in Threads, ThreadStep(t), NEW u \in Threads, u # t
    PROVE  tx'[u] = tx[u]
<1>1. tx \in [Threads -> TxType]
  BY DEF TypeOK
<1> QED
  BY <1>1 DEF ThreadStep, Register, Begin, CopyRow, LockRow, LoadEpoch, StoreEpoch,
     ValidateRow, Abort, Log, InstallTidw, UnlockLoad, UnlockStore, Retry, EndTx,
     WriteFrom

\* What each step makes of the thread's own locals.
LEMMA Moved ==
    ASSUME TypeOK, NEW t \in Threads, NEW r \in TxType, tx' = [tx EXCEPT ![t] = r]
    PROVE  tx' \in [Threads -> TxType] /\ tx'[t] = r
  BY Updated DEF TypeOK

LEMMA BeginLocals ==
    ASSUME TypeOK, NEW t \in Threads, Begin(t)
    PROVE  /\ tx' \in [Threads -> TxType]
           /\ tx'[t].op \in Transactions
           /\ tx'[t] = [tx[t] EXCEPT !.pc = "copy", !.op = tx'[t].op]
<1>1. PICK o \in Transactions : tx' = [tx EXCEPT ![t].pc = "copy", ![t].op = o]
  BY DEF Begin
<1> DEFINE r == [tx[t] EXCEPT !.pc = "copy", !.op = o]
<1>2. r \in TxType /\ r.op = o
  <2>1. tx[t] \in TxType
    BY Fields
  <2> QED BY <2>1 DEF TxType
<1>3. tx' = [tx EXCEPT ![t] = r]
  BY <1>1 DEF TypeOK
<1>4. tx' \in [Threads -> TxType] /\ tx'[t] = r
  BY <1>2, <1>3, Moved
<1> QED BY <1>2, <1>4

LEMMA CopyRowLocals ==
    ASSUME TypeInv, NEW t \in Threads, CopyRow(t)
    PROVE  \E k \in Keys :
             LET e == [key |-> k, epoch |-> Row[k].epoch, tid |-> Row[k].tid]
             IN  /\ tx' \in [Threads -> TxType]
                 /\ tx'[t].readSet \in {tx[t].readSet, Append(tx[t].readSet, e)}
                 /\ tx'[t].pc \in {"copy", "lock"}
                 /\ tx'[t].pc = "copy" => tx'[t].pos \in DOMAIN tx[t].op
                 /\ tx'[t].op = tx[t].op
                 /\ tx'[t].loaded = tx[t].loaded
                 /\ tx'[t].max_rset = tx[t].max_rset
                 /\ e \in Copies
<1> DEFINE op == tx[t].op[tx[t].pos]
           k == op.rowid
           e == [key |-> k, epoch |-> Row[k].epoch, tid |-> Row[k].tid]
           last == tx[t].pos = Len(tx[t].op)
           rs == IF op.type = "READ" THEN Append(tx[t].readSet, e) ELSE tx[t].readSet
           ws == IF op.type = "WRITE" THEN Append(tx[t].writeSet, k)
                 ELSE tx[t].writeSet
           pos == IF last THEN 0 ELSE tx[t].pos + 1
           pc == IF last THEN "lock" ELSE tx[t].pc
<1>1. tx[t].op \in Seq(Operations) /\ tx[t].pos \in DOMAIN tx[t].op
  <2>1. tx[t].op \in Transactions \cup {<<>>}
    BY Fields DEF TypeInv
  <2>2. tx[t].pos \in DOMAIN tx[t].op
    BY DEF CopyRow, TypeInv, Indexed
  <2>3. <<>> \in Seq(Operations)
    OBVIOUS
  <2> QED BY <2>1, <2>2, <2>3, EpochsAssumption
<1>2. k \in Keys
  <2>1. op \in Operations
    BY <1>1, ElementType
  <2> QED BY <2>1 DEF Operations
<1>3. e \in Copies
  BY <1>2, RowFields DEF TypeInv, Copies
<1>4. tx[t].pc = "copy" /\ tx \in [Threads -> TxType] /\ tx[t] \in TxType
  BY DEF CopyRow, At, TypeInv, TypeOK
<1>5. rs \in Seq(Copies) /\ ws \in Seq(Keys) /\ pos \in Nat /\ pc \in {"copy", "lock"}
  <2>1. Append(tx[t].readSet, e) \in Seq(Copies) /\ Append(tx[t].writeSet, k) \in Seq(Keys)
    BY <1>2, <1>3, Fields, OneMore DEF TypeInv
  <2>2. tx[t].readSet \in Seq(Copies) /\ tx[t].writeSet \in Seq(Keys) /\ tx[t].pos \in Nat
    BY Fields DEF TypeInv
  <2> HIDE DEF e, k, op
  <2> QED BY <2>1, <2>2, <1>4
<1>6. pc = "copy" => pos \in DOMAIN tx[t].op
  BY <1>1
<1>7. tx' = [tx EXCEPT ![t].readSet = rs, ![t].writeSet = ws, ![t].pos = pos, ![t].pc = pc]
  BY <1>4 DEF CopyRow
<1> HIDE DEF rs, ws, pos, pc
<1>8. tx'[t] = [tx[t] EXCEPT !.readSet = rs, !.writeSet = ws, !.pos = pos, !.pc = pc]
  BY <1>4, <1>7
<1>9. tx' \in [Threads -> TxType]
  BY <1>4, <1>5, <1>7 DEF TxType
<1>10. /\ tx'[t].readSet = rs /\ tx'[t].pos = pos /\ tx'[t].pc = pc
       /\ tx'[t].op = tx[t].op /\ tx'[t].loaded = tx[t].loaded
       /\ tx'[t].max_rset = tx[t].max_rset
  BY <1>4, <1>8 DEF TxType
<1>11. rs \in {tx[t].readSet, Append(tx[t].readSet, e)}
  BY DEF rs
<1> HIDE DEF e, k, op
<1>12. e = [key |-> k, epoch |-> Row[k].epoch, tid |-> Row[k].tid]
  BY DEF e
<1> QED BY <1>2, <1>3, <1>5, <1>6, <1>9, <1>10, <1>11, <1>12

LEMMA LockRowLocals ==
    ASSUME TypeOK, NEW t \in Threads, LockRow(t)
    PROVE  /\ tx' \in [Threads -> TxType]
           /\ tx'[t] = [tx[t] EXCEPT !.pos = tx'[t].pos]
<1>1. PICK k \in Keys : tx' = [tx EXCEPT ![t].pos = k + 1]
  BY DEF LockRow
<1> DEFINE n == k + 1
           r == [tx[t] EXCEPT !.pos = n]
<1>2. tx' = [tx EXCEPT ![t] = r]
  BY <1>1 DEF TypeOK
<1>3. n \in Nat
  BY KeysAreNat
<1> HIDE DEF n
<1>4. r \in TxType /\ r.pos = n
  <2>1. tx[t] \in TxType
    BY Fields
  <2> QED BY <1>3, <2>1 DEF TxType
<1>5. tx' \in [Threads -> TxType] /\ tx'[t] = r
  BY <1>2, <1>4, Moved
<1> QED BY <1>4, <1>5

LEMMA LoadEpochLocals ==
    ASSUME TypeOK, NEW t \in Threads, LoadEpoch(t)
    PROVE  /\ tx' \in [Threads -> TxType]
           /\ tx'[t] = [tx[t] EXCEPT !.loaded = tx'[t].loaded, !.pc = "store"]
           /\ tx'[t].loaded.epoch = GlobalEpoch
<1> DEFINE l == [tx[t].loaded EXCEPT !.epoch = GlobalEpoch]
<1>1. tx' = [tx EXCEPT ![t].loaded.epoch = GlobalEpoch, ![t].pc = "store"]
  BY DEF LoadEpoch
<1>2. tx \in [Threads -> TxType] /\ tx[t].loaded \in Tids /\ GlobalEpoch \in Epochs
  BY Fields DEF TypeOK
<1>3. l \in Tids /\ l.epoch = GlobalEpoch
  BY <1>2 DEF Tids
<1>4. tx' = [tx EXCEPT ![t] = [@ EXCEPT !.loaded = l, !.pc = "store"]]
  BY <1>1, <1>2 DEF TxType
<1> HIDE DEF l
<1> DEFINE r == [tx[t] EXCEPT !.loaded = l, !.pc = "store"]
<1>5. tx' = [tx EXCEPT ![t] = r]
  BY <1>4
<1>6. r \in TxType /\ r.loaded = l
  <2>1. tx[t] \in TxType
    BY <1>2
  <2> QED BY <1>3, <2>1 DEF TxType
<1>7. tx' \in [Threads -> TxType] /\ tx'[t] = r
  BY <1>5, <1>6, Moved
<1> QED BY <1>3, <1>6, <1>7

LEMMA StoreEpochLocals ==
    ASSUME TypeOK, NEW t \in Threads, StoreEpoch(t)
    PROVE  /\ tx' \in [Threads -> TxType]
           /\ tx'[t] = [tx[t] EXCEPT !.loaded = Zero, !.pos = 1, !.pc = "validate"]
<1> DEFINE r == [tx[t] EXCEPT !.loaded = Zero, !.pos = 1, !.pc = "validate"]
<1>1. Zero \in Tids
  BY EpochsAssumption DEF Zero, Tids, Epochs
<1>2. r \in TxType
  BY <1>1, Fields DEF TxType
<1>3. tx' = [tx EXCEPT ![t] = r]
  BY DEF StoreEpoch, TypeOK
<1> QED BY <1>2, <1>3, Moved

\* The row that is compared, and what there is to compare.
LEMMA Compared ==
    ASSUME TypeOK, NEW t \in Threads, tx[t].pos \in DOMAIN tx[t].readSet
    PROVE  LET e == tx[t].readSet[tx[t].pos]
           IN  /\ e \in Copies /\ e \in ToSet(tx[t].readSet)
               /\ e.key \in Keys /\ e.epoch \in Epochs
               /\ [epoch |-> Row[e.key].epoch, tid |-> Row[e.key].tid] \in Tids
<1> DEFINE e == tx[t].readSet[tx[t].pos]
<1>1. e \in Copies /\ e \in ToSet(tx[t].readSet)
  BY Fields, ElementType DEF ToSet
<1>2. e.key \in Keys /\ e.epoch \in Epochs
  BY <1>1 DEF Copies
<1> HIDE DEF e
<1>3. [epoch |-> Row[e.key].epoch, tid |-> Row[e.key].tid] \in Tids
  BY <1>2, RowFields DEF Tids
<1> QED BY <1>1, <1>2, <1>3 DEF e

LEMMA ValidateRowLocals ==
    ASSUME TypeOK, NEW t \in Threads, ValidateRow(t)
    PROVE  /\ tx' \in [Threads -> TxType]
           /\ tx'[t] = [tx[t] EXCEPT !.pos = @ + 1, !.max_rset = tx'[t].max_rset]
           /\ \/ tx'[t].max_rset = tx[t].max_rset
              \/ \E e \in ToSet(tx[t].readSet) : tx'[t].max_rset.epoch = e.epoch
<1> DEFINE e == tx[t].readSet[tx[t].pos]
           check == [epoch |-> Row[e.key].epoch, tid |-> Row[e.key].tid]
           m == MaxTid(tx[t].max_rset, check)
<1>1. /\ tx' = [tx EXCEPT ![t].pos = @ + 1, ![t].max_rset = MaxTid(@, check)]
      /\ e.epoch = Row[e.key].epoch
  BY DEF ValidateRow, Rejected
<1>2. e \in ToSet(tx[t].readSet) /\ check \in Tids
  BY Compared DEF ValidateRow
<1>3. tx \in [Threads -> TxType] /\ tx[t].max_rset \in Tids /\ tx[t].pos \in Nat
  BY Fields DEF TypeOK
<1>4. m \in Tids /\ (m = tx[t].max_rset \/ m = check)
  BY <1>2, <1>3 DEF MaxTid
<1>5. m = tx[t].max_rset \/ m.epoch = e.epoch
  <2>1. check.epoch = e.epoch
    BY <1>1
  <2> QED BY <1>4, <2>1
<1> HIDE DEF e, check
<1> DEFINE r == [tx[t] EXCEPT !.pos = @ + 1, !.max_rset = m]
<1>6. tx' = [tx EXCEPT ![t] = r]
  BY <1>1, <1>3
<1> HIDE DEF m
<1>7. r \in TxType /\ r.max_rset = m
  <2>1. tx[t] \in TxType /\ tx[t].pos + 1 \in Nat /\ m \in Tids
    BY <1>3, <1>4
  <2> QED BY <2>1 DEF TxType
<1>8. tx' \in [Threads -> TxType] /\ tx'[t] = r
  BY <1>6, <1>7, Moved
<1> QED BY <1>2, <1>5, <1>7, <1>8

LEMMA AbortLocals ==
    ASSUME TypeOK, NEW t \in Threads, Abort(t)
    PROVE  /\ tx' \in [Threads -> TxType]
           /\ tx'[t] = [tx[t] EXCEPT !.pos = 0, !.pc = "abort"]
<1> DEFINE r == [tx[t] EXCEPT !.pos = 0, !.pc = "abort"]
<1>1. r \in TxType
  <2>1. tx[t] \in TxType
    BY Fields
  <2> QED BY <2>1 DEF TxType
<1>2. tx' = [tx EXCEPT ![t] = r]
  BY DEF Abort, TypeOK
<1> QED BY <1>1, <1>2, Moved

\* The next entry of writePhase, or the unlocking.
LEMMA WriteFromLocals ==
    ASSUME TypeOK, NEW t \in Threads, NEW n \in Nat, WriteFrom(t, n)
    PROVE  /\ tx' \in [Threads -> TxType]
           /\ tx'[t] = [tx[t] EXCEPT !.pos = tx'[t].pos, !.pc = tx'[t].pc]
           /\ \/ tx'[t].pc = "write" /\ tx'[t].pos \in DOMAIN tx[t].writeSet
              \/ tx'[t].pc = "unlock"
<1> DEFINE write == n \in DOMAIN tx[t].writeSet
           pos == IF write THEN n ELSE 0
           pc == IF write THEN "write" ELSE "unlock"
           r == [tx[t] EXCEPT !.pos = pos, !.pc = pc]
<1>1. tx' = [tx EXCEPT ![t] = r]
  BY DEF WriteFrom, TypeOK
<1>2. pos \in Nat /\ pc \in {"write", "unlock"} /\ (pc = "write" => write /\ pos = n)
  OBVIOUS
<1> HIDE DEF pos, pc
<1>3. r \in TxType /\ r.pos = pos /\ r.pc = pc
  <2>1. tx[t] \in TxType
    BY Fields
  <2> QED BY <1>2, <2>1 DEF TxType
<1>4. tx' \in [Threads -> TxType] /\ tx'[t] = r
  BY <1>1, <1>3, Moved
<1> QED BY <1>2, <1>3, <1>4

LEMMA UnlockLoadLocals ==
    ASSUME TypeOK, NEW t \in Threads, UnlockLoad(t)
    PROVE  /\ tx' \in [Threads -> TxType]
           /\ tx'[t] = [tx[t] EXCEPT !.pos = tx'[t].pos, !.loaded = tx'[t].loaded,
                                     !.pc = IF @ = "unlock" THEN "unlockstore"
                                            ELSE "abortstore"]
           /\ tx'[t].pos \in Keys
           /\ tx'[t].loaded.epoch = Row[tx'[t].pos].epoch
<1>1. PICK k \in Keys :
        tx' = [tx EXCEPT ![t].pos = k,
                 ![t].loaded = [epoch |-> Row[k].epoch, tid |-> Row[k].tid],
                 ![t].pc = IF @ = "unlock" THEN "unlockstore" ELSE "abortstore"]
  BY DEF UnlockLoad
<1> DEFINE l == [epoch |-> Row[k].epoch, tid |-> Row[k].tid]
           pc == IF tx[t].pc = "unlock" THEN "unlockstore" ELSE "abortstore"
<1>2. tx \in [Threads -> TxType] /\ k \in Nat /\ pc \in {"unlockstore", "abortstore"}
  BY KeysAreNat DEF TypeOK
<1>3. l \in Tids /\ l.epoch = Row[k].epoch
  BY RowFields DEF Tids
<1>4. tx' = [tx EXCEPT ![t].pos = k, ![t].loaded = l, ![t].pc = pc]
  BY <1>1, <1>2
<1>5. pc = IF tx[t].pc = "unlock" THEN "unlockstore" ELSE "abortstore"
  OBVIOUS
<1> HIDE DEF l, pc
<1> DEFINE r == [tx[t] EXCEPT !.pos = k, !.loaded = l, !.pc = pc]
<1>6. tx' = [tx EXCEPT ![t] = r]
  BY <1>2, <1>4
<1>7. r \in TxType /\ r.pos = k /\ r.loaded = l
  BY <1>2, <1>3, Fields DEF TxType
<1>8. tx' \in [Threads -> TxType] /\ tx'[t] = r
  BY <1>6, <1>7, Moved
<1> QED BY <1>3, <1>5, <1>7, <1>8

LEMMA UnlockStoreLocals ==
    ASSUME TypeOK, NEW t \in Threads, UnlockStore(t)
    PROVE  /\ tx' \in [Threads -> TxType]
           /\ tx'[t] = [tx[t] EXCEPT !.pos = @ + 1, !.loaded = Zero,
                                     !.pc = IF @ = "unlockstore" THEN "unlock"
                                            ELSE "abort"]
<1> DEFINE r == [tx[t] EXCEPT !.pos = @ + 1, !.loaded = Zero,
                              !.pc = IF @ = "unlockstore" THEN "unlock"
                                     ELSE "abort"]
<1>1. Zero \in Tids
  BY EpochsAssumption DEF Zero, Tids, Epochs
<1>2. r \in TxType
  <2>1. tx[t] \in TxType /\ tx[t].pos + 1 \in Nat
    BY Fields
  <2> QED BY <1>1, <2>1 DEF TxType
<1>3. tx' = [tx EXCEPT ![t] = r]
  BY DEF UnlockStore, TypeOK
<1> QED BY <1>2, <1>3, Moved

LEMMA RetryLocals ==
    ASSUME TypeOK, NEW t \in Threads, Retry(t)
    PROVE  /\ tx' \in [Threads -> TxType]
           /\ tx'[t] = [tx[t] EXCEPT !.pos = 1, !.pc = "copy", !.readSet = <<>>,
                                     !.writeSet = <<>>]
<1> DEFINE r == [tx[t] EXCEPT !.pos = 1, !.pc = "copy", !.readSet = <<>>,
                              !.writeSet = <<>>]
<1>1. \A S : <<>> \in Seq(S)
  OBVIOUS
<1>2. r \in TxType
  BY <1>1, Fields DEF TxType
<1>3. tx' = [tx EXCEPT ![t] = r]
  BY DEF Retry, TypeOK
<1> QED BY <1>2, <1>3, Moved

LEMMA EndTxLocals ==
    ASSUME TypeOK, NEW t \in Threads, EndTx(t)
    PROVE  tx' \in [Threads -> TxType] /\ tx'[t] = NoTx
<1>1. 0 \in Epochs /\ Zero \in Tids /\ \A S : <<>> \in Seq(S)
  BY EpochsAssumption DEF Epochs, Tids, Zero
<1>2. NoTx \in TxType
  BY <1>1 DEF NoTx, TxType
<1> QED BY <1>2, Updated DEF EndTx, TypeOK

\* A row's tidw is replaced.
LEMMA TidwStored ==
    ASSUME TypeOK, NEW k, NEW l \in BOOLEAN, NEW d \in Epochs, NEW n \in Nat,
           Row' = [Row EXCEPT ![k] = [lock |-> l, epoch |-> d, tid |-> n]]
    PROVE  Row' \in [Keys -> [lock : BOOLEAN, epoch : Epochs, tid : Nat]]
<1>1. [lock |-> l, epoch |-> d, tid |-> n] \in [lock : BOOLEAN, epoch : Epochs, tid : Nat]
  OBVIOUS
<1> HIDE DEF Epochs
<1> QED BY <1>1, Updated DEF TypeOK

\* A commit tid has the type of a tid.
LEMMA CommitTidType ==
    ASSUME TypeOK, NEW t \in Threads
    PROVE  CommitTid(t) \in Tids
<1>1. tx[t].max_rset \in Tids /\ ThLocalEpoch[t] \in Epochs /\ 0 \in Epochs
  BY Fields, EpochsAssumption DEF TypeOK, Epochs
<1>2. [tx[t].max_rset EXCEPT !.tid = @ + 1] \in Tids
  BY <1>1 DEF Tids
<1>3. [epoch |-> 0, tid |-> 1] \in Tids /\ [epoch |-> ThLocalEpoch[t], tid |-> 0] \in Tids
  BY <1>1 DEF Tids
<1> QED BY <1>2, <1>3 DEF CommitTid, MaxTid

\* A step of a client thread keeps the types and the thread's own indices.
LEMMA ThreadTypes ==
    ASSUME TypeInv, NEW t \in Threads, ThreadStep(t)
    PROVE  TypeOK' /\ Indexed(t)'
<1>t. TypeOK /\ Indexed(t)
  BY DEF TypeInv
<1>f. /\ tx[t] \in TxType /\ ThreadNum \in Nat /\ t \in Nat /\ runs[t] \in Nat
      /\ ThreadNum <= MaxThreads /\ MaxThreads \in Nat
  BY <1>t, Fields, EpochsAssumption DEF TypeOK, Threads
<1>1. CASE Register(t)
  <2>1. ThreadNum' \in 0 .. MaxThreads /\ t < ThreadNum' /\ ThreadNum' \in Nat
    BY <1>f, <1>1 DEF Register, Threads
  <2>2. TypeOK'
    BY <1>t, <1>1, <2>1 DEF Register, TypeOK, daemons
  <2>3. Indexed(t)'
    BY <1>t, <1>1, <2>1 DEF Register, Indexed, At
  <2> QED BY <2>2, <2>3
<1>2. CASE Begin(t)
  <2>1. tx' \in [Threads -> TxType] /\ tx'[t].op \in Transactions
    BY <1>t, <1>2, BeginLocals
  <2>2. runs' = [runs EXCEPT ![t] = @ + 1] /\ runs[t] + 1 \in 0 .. MaxRuns
    <3>1. runs[t] < MaxRuns
      BY <1>t, <1>2, FewerBegun DEF Begin, TypeOK
    <3> QED BY <1>f, <1>2, <3>1, EpochsAssumption DEF Begin
  <2>3. runs' \in [Threads -> 0 .. MaxRuns] /\ runs'[t] = runs[t] + 1
    BY <1>t, <2>2, Updated DEF TypeOK
  <2>4. TypeOK'
    BY <1>t, <1>2, <2>1, <2>3 DEF Begin, TypeOK, daemons
  <2>5. tx'[t].pc = "copy" /\ tx'[t].pos = 1
    <3>1. tx[t].pos = 1
      BY <1>t, <1>2 DEF Begin, Indexed, At, NoTx
    <3> QED BY <1>t, <1>2, <1>f, <3>1, BeginLocals DEF TxType
  <2>6. 1 \in DOMAIN tx'[t].op
    BY <2>1, EpochsAssumption
  <2>7. runs'[t] >= 1
    BY <1>f, <2>3
  <2> QED BY <1>2, <2>1, <2>4, <2>5, <2>6, <2>7 DEF Begin, Indexed, At
<1>3. CASE CopyRow(t)
  <2>1. /\ tx' \in [Threads -> TxType] /\ tx'[t].pc \in {"copy", "lock"}
        /\ tx'[t].pc = "copy" => tx'[t].pos \in DOMAIN tx[t].op
        /\ tx'[t].op = tx[t].op
    BY <1>3, CopyRowLocals
  <2>2. TypeOK'
    BY <1>t, <1>3, <2>1 DEF CopyRow, TypeOK, ids, daemons
  <2> QED BY <1>t, <1>3, <2>1, <2>2 DEF CopyRow, Indexed, At, ids
<1>4. CASE LockRow(t)
  <2>1. tx' \in [Threads -> TxType] /\ tx'[t] = [tx[t] EXCEPT !.pos = tx'[t].pos]
    BY <1>t, <1>4, LockRowLocals
  <2>2. Row' \in [Keys -> [lock : BOOLEAN, epoch : Epochs, tid : Nat]]
    <3>1. PICK k \in Keys : Row' = [Row EXCEPT ![k].lock = TRUE]
      BY <1>4 DEF LockRow
    <3> HIDE DEF Epochs
    <3> QED BY <1>t, <3>1 DEF TypeOK
  <2>3. TypeOK'
    BY <1>t, <1>4, <2>1, <2>2 DEF LockRow, TypeOK, ids, daemons
  <2>4. tx'[t].pc = "lock" /\ tx'[t].op = tx[t].op
    BY <1>4, <1>f, <2>1 DEF TxType, LockRow, At
  <2> QED BY <1>t, <1>4, <2>3, <2>4 DEF LockRow, Indexed, At, ids
<1>5. CASE LoadEpoch(t)
  <2>1. tx' \in [Threads -> TxType] /\ tx'[t].pc = "store" /\ tx'[t].op = tx[t].op
    BY <1>t, <1>5, <1>f, LoadEpochLocals DEF TxType
  <2>2. TypeOK'
    BY <1>t, <1>5, <2>1 DEF LoadEpoch, TypeOK, ids, daemons
  <2> QED BY <1>t, <1>5, <2>1, <2>2 DEF LoadEpoch, Indexed, At, ids
<1>6. CASE StoreEpoch(t)
  <2>1. tx' \in [Threads -> TxType] /\ tx'[t].pc = "validate" /\ tx'[t].op = tx[t].op
    BY <1>t, <1>6, <1>f, StoreEpochLocals DEF TxType
  <2>2. ThLocalEpoch' \in [Threads -> Epochs]
    <3>1. tx[t].loaded.epoch \in Epochs
      BY <1>t, Fields DEF Tids
    <3> QED BY <1>t, <1>6, <3>1, Updated DEF StoreEpoch, TypeOK
  <2>3. TypeOK'
    BY <1>t, <1>6, <2>1, <2>2 DEF StoreEpoch, TypeOK, ids, daemons
  <2> QED BY <1>t, <1>6, <2>1, <2>3 DEF StoreEpoch, Indexed, At, ids
<1>7. CASE ValidateRow(t)
  <2>1. /\ tx' \in [Threads -> TxType]
        /\ tx'[t] = [tx[t] EXCEPT !.pos = @ + 1, !.max_rset = tx'[t].max_rset]
    BY <1>t, <1>7, ValidateRowLocals
  <2>2. tx'[t].pc = "validate" /\ tx'[t].op = tx[t].op
    BY <1>7, <1>f, <2>1 DEF TxType, ValidateRow, At
  <2>3. TypeOK'
    BY <1>t, <1>7, <2>1 DEF ValidateRow, TypeOK, ids, daemons
  <2> QED BY <1>t, <1>7, <2>2, <2>3 DEF ValidateRow, Indexed, At, ids
<1>8. CASE Abort(t)
  <2>1. tx' \in [Threads -> TxType] /\ tx'[t].pc = "abort" /\ tx'[t].op = tx[t].op
    BY <1>t, <1>8, <1>f, AbortLocals DEF TxType
  <2>2. TypeOK'
    BY <1>t, <1>8, <2>1 DEF Abort, TypeOK, ids, daemons
  <2> QED BY <1>t, <1>8, <2>1, <2>2 DEF Abort, Indexed, At, ids
<1>9. CASE Log(t)
  <2>1. /\ tx' \in [Threads -> TxType]
        /\ tx'[t] = [tx[t] EXCEPT !.pos = tx'[t].pos, !.pc = tx'[t].pc]
        /\ \/ tx'[t].pc = "write" /\ tx'[t].pos \in DOMAIN tx[t].writeSet
           \/ tx'[t].pc = "unlock"
    BY <1>t, <1>9, WriteFromLocals DEF Log
  <2>2. tx'[t].writeSet = tx[t].writeSet /\ tx'[t].op = tx[t].op
    BY <1>f, <2>1 DEF TxType
  <2>3. LogList' \in Seq(LogType)
    <3> DEFINE e == [epoch |-> ThLocalEpoch[t], tx |-> <<t, runs[t]>>]
    <3>1. runs[t] \in 1 .. MaxRuns
      BY <1>t, <1>f, <1>9 DEF Log, Indexed, At, TypeOK
    <3>2. e \in LogType
      BY <1>t, <3>1 DEF LogType, TypeOK
    <3>3. LogList' = Append(LogList, e)
      BY <1>9 DEF Log
    <3> HIDE DEF e
    <3> QED BY <1>t, <3>2, <3>3, OneMore DEF TypeOK
  <2>4. TypeOK'
    BY <1>t, <1>9, <2>1, <2>3 DEF Log, TypeOK, ids, daemons
  <2> QED BY <1>t, <1>9, <2>1, <2>2, <2>4 DEF Log, Indexed, At, ids
<1>10. CASE InstallTidw(t)
  <2>0. tx[t].pos + 1 \in Nat
    BY <1>t, Fields
  <2>1. /\ tx' \in [Threads -> TxType]
        /\ tx'[t] = [tx[t] EXCEPT !.pos = tx'[t].pos, !.pc = tx'[t].pc]
        /\ \/ tx'[t].pc = "write" /\ tx'[t].pos \in DOMAIN tx[t].writeSet
           \/ tx'[t].pc = "unlock"
    BY <1>t, <1>10, <2>0, WriteFromLocals DEF InstallTidw
  <2>2. tx'[t].writeSet = tx[t].writeSet /\ tx'[t].op = tx[t].op
    BY <1>f, <2>1 DEF TxType
  <2>3. Row' \in [Keys -> [lock : BOOLEAN, epoch : Epochs, tid : Nat]]
    <3>1. CommitTid(t).epoch \in Epochs /\ CommitTid(t).tid \in Nat
      BY <1>t, CommitTidType DEF Tids
    <3> QED BY <1>t, <1>10, <3>1, TidwStored DEF InstallTidw
  <2>4. TypeOK'
    BY <1>t, <1>10, <2>1, <2>3 DEF InstallTidw, TypeOK, ids, daemons
  <2> QED BY <1>t, <1>10, <2>1, <2>2, <2>4 DEF InstallTidw, Indexed, At, ids
<1>11. CASE UnlockLoad(t)
  <2>1. /\ tx' \in [Threads -> TxType] /\ tx'[t].pos \in Keys
        /\ tx'[t].pc \in {"unlockstore", "abortstore"} /\ tx'[t].op = tx[t].op
    BY <1>t, <1>11, <1>f, UnlockLoadLocals DEF TxType
  <2>2. TypeOK'
    BY <1>t, <1>11, <2>1 DEF UnlockLoad, TypeOK, ids, daemons
  <2> QED BY <1>t, <1>11, <2>1, <2>2 DEF UnlockLoad, Indexed, At, ids
<1>12. CASE UnlockStore(t)
  <2>1. /\ tx' \in [Threads -> TxType] /\ tx'[t].pc \in {"unlock", "abort"}
        /\ tx'[t].op = tx[t].op
    BY <1>t, <1>12, <1>f, UnlockStoreLocals DEF TxType
  <2>2. Row' \in [Keys -> [lock : BOOLEAN, epoch : Epochs, tid : Nat]]
    <3>1. tx[t].loaded.epoch \in Epochs /\ tx[t].loaded.tid \in Nat
      BY <1>t, Fields DEF Tids
    <3> QED BY <1>t, <1>12, <3>1, TidwStored DEF UnlockStore
  <2>3. TypeOK'
    BY <1>t, <1>12, <2>1, <2>2 DEF UnlockStore, TypeOK, ids, daemons
  <2> QED BY <1>t, <1>12, <2>1, <2>3 DEF UnlockStore, Indexed, At, ids
<1>13. CASE Retry(t)
  <2>1. /\ tx' \in [Threads -> TxType] /\ tx'[t].pc = "copy" /\ tx'[t].pos = 1
        /\ tx'[t].op = tx[t].op
    BY <1>t, <1>13, <1>f, RetryLocals DEF TxType
  <2>2. TypeOK'
    BY <1>t, <1>13, <2>1 DEF Retry, TypeOK, ids, daemons
  <2>3. 1 \in DOMAIN tx[t].op
    <3>1. tx[t].op \in Transactions
      BY <1>t, <1>13 DEF Retry, Indexed, At
    <3> QED BY <3>1, EpochsAssumption
  <2> QED BY <1>t, <1>13, <2>1, <2>2, <2>3 DEF Retry, Indexed, At, ids
<1>14. CASE EndTx(t)
  <2>1. tx' \in [Threads -> TxType] /\ tx'[t].pc = "recv" /\ tx'[t] = NoTx
    BY <1>t, <1>14, EndTxLocals DEF NoTx
  <2>2. TypeOK'
    BY <1>t, <1>14, <2>1 DEF EndTx, TypeOK, ids, daemons
  <2> QED BY <1>t, <1>14, <2>1, <2>2 DEF EndTx, Indexed, At, ids
<1> QED
  BY <1>1, <1>2, <1>3, <1>4, <1>5, <1>6, <1>7, <1>8, <1>9, <1>10, <1>11, <1>12,
     <1>13, <1>14 DEF ThreadStep

\* What the epocher loads, checks and adds keeps the types.
LEMMA DaemonTypes ==
    ASSUME TypeInv, Epocher \/ Logger
    PROVE  TypeOK' /\ Looking'
<1>t. TypeOK /\ Looking
  BY DEF TypeInv
<1>f. /\ ep \in [at : {"wait", "check", "add"}, i : Nat, nowEpoch : Epochs]
      /\ GlobalEpoch \in Epochs /\ MaxEpoch \in Nat
  BY <1>t, EpochsAssumption DEF TypeOK
<1>1. CASE LoadNowEpoch
  <2>1. ep' \in [at : {"wait", "check", "add"}, i : Nat, nowEpoch : Epochs]
    BY <1>f, <1>1 DEF LoadNowEpoch
  <2>2. Looking'
    BY <1>1 DEF LoadNowEpoch, Looking
  <2> QED BY <1>t, <1>1, <2>1, <2>2 DEF LoadNowEpoch, TypeOK, ids
<1>2. CASE CheckSlot
  <2>1. /\ ep' \in [at : {"wait", "check", "add"}, i : Nat, nowEpoch : Epochs]
        /\ ep'.nowEpoch = ep.nowEpoch
    BY <1>f, <1>2 DEF CheckSlot
  <2>2. Looking'
    BY <1>t, <1>2, <2>1 DEF CheckSlot, Looking
  <2> QED BY <1>t, <1>2, <2>1, <2>2 DEF CheckSlot, TypeOK, ids
<1>3. CASE atomicAddGE
  <2>1. ep' \in [at : {"wait", "check", "add"}, i : Nat, nowEpoch : Epochs] /\ ep'.at = "wait"
    BY <1>f, <1>3 DEF atomicAddGE
  <2>2. GlobalEpoch' \in Epochs
    BY <1>t, <1>f, <1>3 DEF atomicAddGE, Looking, Epochs
  <2> QED BY <1>t, <1>3, <2>1, <2>2 DEF atomicAddGE, TypeOK, Looking, ids
<1>4. CASE LoadCurEpoch
  BY <1>t, <1>4 DEF LoadCurEpoch, TypeOK, Looking, ids
<1>5. CASE Flush
  <2>1. LogList' \in Seq(LogType)
    BY <1>t, <1>5, WhatIsLeft DEF Flush, TypeOK
  <2>2. flushed' \in SUBSET LogType
    <3>1. ToSet(LogList) \subseteq LogType
      BY <1>t, ElementType DEF TypeOK, ToSet
    <3> QED BY <1>t, <1>5, <3>1 DEF Flush, Old, TypeOK
  <2> QED BY <1>t, <1>5, <2>1, <2>2 DEF Flush, TypeOK, Looking, ids
<1> QED BY <1>1, <1>2, <1>3, <1>4, <1>5 DEF Epocher, Logger

\* The other threads' indices do not depend on a thread's step.
LEMMA OthersStayIndexed ==
    ASSUME TypeInv, NEW t \in Threads, ThreadStep(t), NEW u \in Threads, u # t
    PROVE  Indexed(u)'
<1>1. tx'[u] = tx[u]
  BY OthersKeepLocals DEF TypeInv
<1>2. runs'[u] = runs[u] /\ (u < ThreadNum => u < ThreadNum')
  <2>1. runs \in [Threads -> 0 .. MaxRuns] /\ ThreadNum \in Nat /\ u \in Nat
    BY EpochsAssumption DEF TypeInv, TypeOK, Threads
  <2>2. CASE Register(t)
    BY <2>1, <2>2 DEF Register
  <2>3. CASE Begin(t)
    BY <2>1, <2>3 DEF Begin
  <2> QED
    BY <2>2, <2>3 DEF ThreadStep, CopyRow, LockRow, LoadEpoch, StoreEpoch, ValidateRow,
       Abort, Log, InstallTidw, UnlockLoad, UnlockStore, Retry, EndTx, ids
<1>3. Indexed(u)
  BY DEF TypeInv
<1> QED BY <1>1, <1>2, <1>3 DEF Indexed, At

\* A thread does nothing to the epocher, the logger and the global epoch.
LEMMA ThreadKeepsDaemons ==
    ASSUME NEW t \in Threads, ThreadStep(t)
    PROVE  /\ GlobalEpoch' = GlobalEpoch /\ ep' = ep
           /\ curEpoch' = curEpoch /\ flushed' = flushed
  BY DEF ThreadStep, Register, Begin, CopyRow, LockRow, LoadEpoch, StoreEpoch,
     ValidateRow, Abort, Log, InstallTidw, UnlockLoad, UnlockStore, Retry, EndTx,
     daemons

\* The epocher and the logger do nothing to the threads and the rows.
LEMMA DaemonsKeepThreads ==
    ASSUME Epocher \/ Logger
    PROVE  /\ ThreadNum' = ThreadNum /\ runs' = runs /\ tx' = tx
           /\ Row' = Row /\ ThLocalEpoch' = ThLocalEpoch
  BY DEF Epocher, Logger, LoadNowEpoch, CheckSlot, atomicAddGE, LoadCurEpoch, Flush, ids

LEMMA TypeInvariant == Spec => []TypeInv
<1>1. Init => TypeInv
  <2> SUFFICES ASSUME Init PROVE TypeInv
    OBVIOUS
  <2>1. TypeOK /\ Looking
    BY InitTypeOK DEF Init, Looking
  <2>2. \A t \in Threads : Indexed(t)
    BY DEF Init, Indexed, At, NoTx
  <2> QED BY <2>1, <2>2 DEF TypeInv
<1>2. TypeInv /\ [Next]_vars => TypeInv'
  <2> SUFFICES ASSUME TypeInv, [Next]_vars PROVE TypeInv'
    OBVIOUS
  <2>1. CASE \E t \in Threads : ThreadStep(t)
    <3>1. PICK t \in Threads : ThreadStep(t)
      BY <2>1
    <3>2. TypeOK' /\ Indexed(t)'
      BY <3>1, ThreadTypes
    <3>3. \A u \in Threads : Indexed(u)'
      BY <3>1, <3>2, OthersStayIndexed
    <3>4. Looking'
      BY <3>1, ThreadKeepsDaemons DEF TypeInv, Looking
    <3> QED BY <3>2, <3>3, <3>4 DEF TypeInv
  <2>2. CASE Epocher \/ Logger
    <3>1. TypeOK' /\ Looking'
      BY <2>2, DaemonTypes
    <3>2. \A u \in Threads : Indexed(u)'
      BY <2>2, DaemonsKeepThreads DEF TypeInv, Indexed, At
    <3> QED BY <3>1, <3>2 DEF TypeInv
  <2>3. CASE UNCHANGED vars
    BY <2>3 DEF vars, TypeInv, TypeOK, Looking, Indexed, At
  <2> QED BY <2>1, <2>2, <2>3 DEF Next
<1> QED BY <1>1, <1>2, PTL DEF Spec

\* Every variable of the server, of its threads and of its two loops keeps its
\* type, in all interleavings of interactive.cc's threads.
THEOREM TypeCorrect == Spec => []TypeOK
<1>1. TypeInv => TypeOK
  BY DEF TypeInv
<1> QED BY <1>1, TypeInvariant, PTL

-----------------------------------------------------------------------------
(* Epochs *)

\* No epoch is newer than the global one; and what a transaction has read by
\* its serialization point is not newer than the epoch it stores there.
NotNewer(t) ==
    /\ ThLocalEpoch[t] <= GlobalEpoch
    /\ tx[t].loaded.epoch <= GlobalEpoch
    /\ At(t, "store") => ThLocalEpoch[t] <= tx[t].loaded.epoch
    /\ tx[t].max_rset.epoch <= ThLocalEpoch[t]
    /\ \A e \in ToSet(tx[t].readSet) :
         /\ e.epoch <= GlobalEpoch
         /\ At(t, "store") => e.epoch <= tx[t].loaded.epoch
         /\ At(t, "validate") => e.epoch <= ThLocalEpoch[t]

\* The inductive invariant behind CommitEpoch.
EpochInv ==
    /\ \A k \in Keys : Row[k].epoch <= GlobalEpoch
    /\ \A t \in Threads : NotNewer(t)

\* Epochs are natural numbers.
LEMMA EpochsAreNat ==
    ASSUME TypeOK
    PROVE  /\ GlobalEpoch \in Nat
           /\ \A t \in Threads : /\ ThLocalEpoch[t] \in Nat
                                 /\ tx[t].loaded.epoch \in Nat
                                 /\ tx[t].max_rset.epoch \in Nat
                                 /\ ToSet(tx[t].readSet) \subseteq Copies
                                 /\ \A e \in ToSet(tx[t].readSet) : e.epoch \in Nat
           /\ \A k \in Keys : Row[k].epoch \in Nat
<1>1. Epochs \subseteq Nat
  BY EpochsAssumption DEF Epochs
<1>2. ASSUME NEW t \in Threads
      PROVE  /\ ThLocalEpoch[t] \in Epochs
             /\ tx[t].loaded.epoch \in Epochs
             /\ tx[t].max_rset.epoch \in Epochs
  BY Fields DEF TypeOK, Tids
<1>3. ASSUME NEW t \in Threads
      PROVE  ToSet(tx[t].readSet) \subseteq Copies
  BY Fields, ElementType DEF ToSet
<1>4. \A e \in Copies : e.epoch \in Epochs
  BY DEF Copies
<1> QED BY <1>1, <1>2, <1>3, <1>4, RowFields DEF TypeOK

\* Rule (c): the commit tid has the epoch of the slot.
LEMMA CommitTidEpoch ==
    ASSUME TypeOK, NEW t \in Threads, tx[t].max_rset.epoch <= ThLocalEpoch[t]
    PROVE  CommitTid(t).epoch = ThLocalEpoch[t]
<1> DEFINE m == tx[t].max_rset
           a == [m EXCEPT !.tid = @ + 1]
           b == [epoch |-> 0, tid |-> 1]
           c == [epoch |-> ThLocalEpoch[t], tid |-> 0]
<1>1. m.epoch \in Nat /\ m.tid \in Nat /\ ThLocalEpoch[t] \in Nat /\ m \in Tids
  BY EpochsAreNat, Fields DEF Tids
<1>2. a.epoch = m.epoch /\ a.tid \in Nat
  BY <1>1 DEF Tids
<1> HIDE DEF m, a
<1>3. MaxTid(a, b).epoch \in Nat /\ MaxTid(a, b).epoch <= ThLocalEpoch[t]
  BY <1>1, <1>2 DEF MaxTid, m
<1> HIDE DEF b
<1>4. MaxTid(MaxTid(a, b), c).epoch = ThLocalEpoch[t]
  BY <1>1, <1>3 DEF MaxTid
<1>5. CommitTid(t) = MaxTid(MaxTid(a, b), c)
  BY DEF CommitTid, m, a, b, c
<1> QED BY <1>4, <1>5

\* Only the thread itself stores to its slot.
LEMMA OthersKeepSlot ==
    ASSUME TypeOK, NEW t \in Threads, ThreadStep(t), NEW u \in Threads, u # t
    PROVE  ThLocalEpoch'[u] = ThLocalEpoch[u]
<1>1. ThLocalEpoch \in [Threads -> Epochs]
  BY DEF TypeOK
<1> QED
  BY <1>1 DEF ThreadStep, Register, Begin, CopyRow, LockRow, LoadEpoch, StoreEpoch,
     ValidateRow, Abort, Log, InstallTidw, UnlockLoad, UnlockStore, Retry, EndTx

\* What is stored to a row is not newer than the global epoch.
LEMMA RowsStayNotNewer ==
    ASSUME TypeInv, EpochInv, NEW t \in Threads, ThreadStep(t)
    PROVE  \A k \in Keys : Row'[k].epoch <= GlobalEpoch
<1>t. TypeOK
  BY DEF TypeInv
<1>f. /\ Row \in [Keys -> [lock : BOOLEAN, epoch : Epochs, tid : Nat]]
      /\ \A k \in Keys : Row[k].epoch <= GlobalEpoch
  BY <1>t DEF TypeOK, EpochInv
<1>1. CASE LockRow(t)
  <2>1. PICK k \in Keys : Row' = [Row EXCEPT ![k].lock = TRUE]
    BY <1>1 DEF LockRow
  <2>2. \A j \in Keys : Row'[j].epoch = Row[j].epoch
    BY <1>f, <2>1
  <2> QED BY <1>f, <2>2
<1>2. CASE InstallTidw(t)
  <2> DEFINE j == tx[t].writeSet[tx[t].pos]
  <2>1. CommitTid(t).epoch <= GlobalEpoch
    BY <1>t, CommitTidEpoch DEF EpochInv, NotNewer
  <2>2. Row' = [Row EXCEPT ![j] = [lock |-> FALSE, epoch |-> CommitTid(t).epoch,
                                   tid |-> CommitTid(t).tid]]
    BY <1>2 DEF InstallTidw
  <2> HIDE DEF j
  <2>3. \A k \in Keys : Row'[k].epoch = Row[k].epoch \/ Row'[k].epoch = CommitTid(t).epoch
    BY <1>f, <2>2
  <2> QED BY <1>f, <2>1, <2>3
<1>3. CASE UnlockStore(t)
  <2> DEFINE j == tx[t].pos
  <2>1. tx[t].loaded.epoch <= GlobalEpoch
    BY DEF EpochInv, NotNewer
  <2>2. Row' = [Row EXCEPT ![j] = [lock |-> FALSE, epoch |-> tx[t].loaded.epoch,
                                   tid |-> tx[t].loaded.tid]]
    BY <1>3 DEF UnlockStore
  <2> HIDE DEF j
  <2>3. \A k \in Keys : Row'[k].epoch = Row[k].epoch \/ Row'[k].epoch = tx[t].loaded.epoch
    BY <1>f, <2>2
  <2> QED BY <1>f, <2>1, <2>3
<1> QED
  BY <1>1, <1>2, <1>3, <1>f DEF ThreadStep, Register, Begin, CopyRow, LoadEpoch,
     StoreEpoch, ValidateRow, Abort, Log, UnlockLoad, Retry, EndTx

\* A step that does not come to the slot's store or to the validation.
LEMMA StaysNotNewer ==
    ASSUME TypeOK, NEW t \in Threads, NotNewer(t),
           GlobalEpoch' = GlobalEpoch, ThLocalEpoch'[t] = ThLocalEpoch[t],
           tx'[t].pc \notin {"store", "validate"},
           tx'[t].max_rset = tx[t].max_rset,
           tx'[t].loaded.epoch <= GlobalEpoch,
           \A e \in ToSet(tx'[t].readSet) :
              e \in ToSet(tx[t].readSet) \/ e.epoch <= GlobalEpoch
    PROVE  NotNewer(t)'
<1>1. \A e \in ToSet(tx'[t].readSet) : e.epoch <= GlobalEpoch
  BY DEF NotNewer
<1> QED BY <1>1 DEF NotNewer, At

\* A step of a thread keeps NotNewer for the thread.
LEMMA OwnNotNewer ==
    ASSUME TypeInv, EpochInv, NEW t \in Threads, ThreadStep(t)
    PROVE  NotNewer(t)'
<1>t. TypeOK /\ NotNewer(t) /\ tx[t] \in TxType
  BY Fields DEF TypeInv, EpochInv
<1>g. GlobalEpoch' = GlobalEpoch
  BY ThreadKeepsDaemons
<1>z. 0 <= GlobalEpoch /\ Zero.epoch = 0 /\ ToSet(<<>>) = {}
  BY <1>t, EpochsAreNat DEF Zero, ToSet
<1>1. CASE Register(t)
  BY <1>t, <1>1 DEF Register, NotNewer, At
<1>2. CASE Begin(t)
  <2>0. tx'[t] = [tx[t] EXCEPT !.pc = "copy", !.op = tx'[t].op]
    BY <1>t, <1>2, BeginLocals
  <2>1. /\ tx'[t].pc = "copy" /\ tx'[t].max_rset = tx[t].max_rset
        /\ tx'[t].loaded = tx[t].loaded /\ tx'[t].readSet = tx[t].readSet
    BY <1>t, <2>0 DEF TxType
  <2> QED BY <1>t, <1>g, <1>2, <2>1, StaysNotNewer DEF Begin, NotNewer
<1>3. CASE CopyRow(t)
  <2>1. PICK k \in Keys :
          LET e == [key |-> k, epoch |-> Row[k].epoch, tid |-> Row[k].tid]
          IN  /\ tx'[t].readSet \in {tx[t].readSet, Append(tx[t].readSet, e)}
              /\ tx'[t].pc \in {"copy", "lock"}
              /\ tx'[t].loaded = tx[t].loaded
              /\ tx'[t].max_rset = tx[t].max_rset
              /\ e \in Copies
    BY <1>3, CopyRowLocals
  <2> DEFINE e == [key |-> k, epoch |-> Row[k].epoch, tid |-> Row[k].tid]
  <2>2. e.epoch <= GlobalEpoch
    BY DEF EpochInv
  <2>3. ToSet(Append(tx[t].readSet, e)) = ToSet(tx[t].readSet) \cup {e}
    BY <1>t, <2>1, Fields, OneMore
  <2>4. tx'[t].readSet = tx[t].readSet \/ tx'[t].readSet = Append(tx[t].readSet, e)
    BY <2>1
  <2> HIDE DEF e
  <2>5. \A c \in ToSet(tx'[t].readSet) : c \in ToSet(tx[t].readSet) \/ c.epoch <= GlobalEpoch
    BY <2>2, <2>3, <2>4
  <2> QED BY <1>t, <1>g, <1>3, <2>1, <2>5, StaysNotNewer DEF CopyRow, NotNewer
<1>4. CASE LockRow(t)
  <2>1. /\ tx'[t].pc = "lock" /\ tx'[t].max_rset = tx[t].max_rset
        /\ tx'[t].loaded = tx[t].loaded /\ tx'[t].readSet = tx[t].readSet
    BY <1>t, <1>4, LockRowLocals DEF TxType, LockRow, At
  <2> QED BY <1>t, <1>g, <1>4, <2>1, StaysNotNewer DEF LockRow, NotNewer
<1>5. CASE LoadEpoch(t)
  <2>1. /\ tx'[t].pc = "store" /\ tx'[t].max_rset = tx[t].max_rset
        /\ tx'[t].loaded.epoch = GlobalEpoch /\ tx'[t].readSet = tx[t].readSet
    BY <1>t, <1>5, LoadEpochLocals DEF TxType
  <2>2. ThLocalEpoch' = ThLocalEpoch /\ GlobalEpoch <= GlobalEpoch
    BY <1>t, <1>5, EpochsAreNat DEF LoadEpoch
  <2> QED BY <1>t, <1>g, <2>1, <2>2 DEF NotNewer, At
<1>6. CASE StoreEpoch(t)
  <2>1. /\ tx'[t].pc = "validate" /\ tx'[t].max_rset = tx[t].max_rset
        /\ tx'[t].loaded = Zero /\ tx'[t].readSet = tx[t].readSet
    BY <1>t, <1>6, StoreEpochLocals DEF TxType
  <2>2. ThLocalEpoch'[t] = tx[t].loaded.epoch /\ At(t, "store")
    BY <1>t, <1>6 DEF StoreEpoch, TypeOK
  <2>3. tx[t].max_rset.epoch <= tx[t].loaded.epoch
    <3>1. tx[t].max_rset.epoch <= ThLocalEpoch[t] /\ ThLocalEpoch[t] <= tx[t].loaded.epoch
      BY <1>t, <2>2 DEF NotNewer
    <3> QED BY <1>t, <3>1, EpochsAreNat
  <2> QED BY <1>t, <1>g, <1>z, <2>1, <2>2, <2>3 DEF NotNewer, At
<1>7. CASE ValidateRow(t)
  <2>1. /\ tx'[t].pc = "validate" /\ tx'[t].loaded = tx[t].loaded
        /\ tx'[t].readSet = tx[t].readSet
    BY <1>t, <1>7, ValidateRowLocals DEF TxType, ValidateRow, At
  <2>2. tx'[t].max_rset.epoch <= ThLocalEpoch[t]
    <3>1. \/ tx'[t].max_rset = tx[t].max_rset
          \/ \E e \in ToSet(tx[t].readSet) : tx'[t].max_rset.epoch = e.epoch
      BY <1>t, <1>7, ValidateRowLocals
    <3> QED BY <1>t, <1>7, <3>1 DEF NotNewer, ValidateRow
  <2> QED BY <1>t, <1>g, <1>7, <2>1, <2>2 DEF NotNewer, At, ValidateRow
<1>8. CASE Abort(t)
  <2>1. /\ tx'[t].pc = "abort" /\ tx'[t].max_rset = tx[t].max_rset
        /\ tx'[t].loaded = tx[t].loaded /\ tx'[t].readSet = tx[t].readSet
    BY <1>t, <1>8, AbortLocals DEF TxType
  <2> QED BY <1>t, <1>g, <1>8, <2>1, StaysNotNewer DEF Abort, NotNewer
<1>9. CASE \E n \in Nat : WriteFrom(t, n) /\ ThLocalEpoch' = ThLocalEpoch
  <2>1. /\ tx'[t] = [tx[t] EXCEPT !.pos = tx'[t].pos, !.pc = tx'[t].pc]
        /\ tx'[t].pc \in {"write", "unlock"}
    BY <1>t, <1>9, WriteFromLocals
  <2>2. /\ tx'[t].max_rset = tx[t].max_rset
        /\ tx'[t].loaded = tx[t].loaded /\ tx'[t].readSet = tx[t].readSet
    BY <1>t, <2>1 DEF TxType
  <2> QED BY <1>t, <1>g, <1>9, <2>1, <2>2, StaysNotNewer DEF NotNewer
<1>10. CASE Log(t)
  BY <1>9, <1>10 DEF Log
<1>11. CASE InstallTidw(t)
  <2>1. tx[t].pos + 1 \in Nat
    BY <1>t, Fields
  <2> QED BY <1>9, <1>11, <2>1 DEF InstallTidw
<1>12. CASE UnlockLoad(t)
  <2>1. /\ tx'[t].pc \in {"unlockstore", "abortstore"}
        /\ tx'[t].max_rset = tx[t].max_rset /\ tx'[t].readSet = tx[t].readSet
    BY <1>t, <1>12, UnlockLoadLocals DEF TxType
  <2>2. tx'[t].loaded.epoch <= GlobalEpoch
    BY <1>t, <1>12, UnlockLoadLocals DEF EpochInv
  <2> QED BY <1>t, <1>g, <1>12, <2>1, <2>2, StaysNotNewer DEF UnlockLoad, NotNewer
<1>13. CASE UnlockStore(t)
  <2>1. /\ tx'[t].pc \in {"unlock", "abort"} /\ tx'[t].loaded = Zero
        /\ tx'[t].max_rset = tx[t].max_rset /\ tx'[t].readSet = tx[t].readSet
    BY <1>t, <1>13, UnlockStoreLocals DEF TxType
  <2> QED BY <1>t, <1>g, <1>z, <1>13, <2>1, StaysNotNewer DEF UnlockStore, NotNewer
<1>14. CASE Retry(t)
  <2>1. /\ tx'[t].pc = "copy" /\ tx'[t].max_rset = tx[t].max_rset
        /\ tx'[t].loaded = tx[t].loaded /\ tx'[t].readSet = <<>>
    BY <1>t, <1>14, RetryLocals DEF TxType
  <2> QED BY <1>t, <1>g, <1>z, <1>14, <2>1, StaysNotNewer DEF Retry, NotNewer
<1>15. CASE EndTx(t)
  <2>1. tx'[t] = NoTx /\ ThLocalEpoch' = ThLocalEpoch
    BY <1>t, <1>15, EndTxLocals DEF EndTx
  <2>2. /\ tx'[t].pc = "recv" /\ tx'[t].max_rset.epoch = 0
        /\ tx'[t].loaded.epoch = 0 /\ ToSet(tx'[t].readSet) = {}
    BY <1>z, <2>1 DEF NoTx
  <2>3. 0 <= ThLocalEpoch[t] /\ 0 <= GlobalEpoch
    BY <1>t, EpochsAreNat
  <2> QED BY <1>t, <1>g, <2>1, <2>2, <2>3 DEF NotNewer, At
<1> QED
  BY <1>1, <1>2, <1>3, <1>4, <1>5, <1>6, <1>7, <1>8, <1>10, <1>11, <1>12, <1>13,
     <1>14, <1>15 DEF ThreadStep

\* The global epoch only grows.
LEMMA EpochGrows ==
    ASSUME TypeOK, Epocher \/ Logger
    PROVE  GlobalEpoch <= GlobalEpoch' /\ GlobalEpoch' \in Nat
<1>1. GlobalEpoch \in Nat
  BY EpochsAreNat
<1>2. GlobalEpoch' = GlobalEpoch \/ GlobalEpoch' = GlobalEpoch + 1
  BY DEF Epocher, Logger, LoadNowEpoch, CheckSlot, atomicAddGE, LoadCurEpoch, Flush
<1> QED BY <1>1, <1>2

LEMMA EpochInvariant == Spec => [](TypeInv /\ EpochInv)
<1>1. Init => EpochInv
  <2> SUFFICES ASSUME Init PROVE EpochInv
    OBVIOUS
  <2>1. ToSet(<<>>) = {}
    BY DEF ToSet
  <2> QED BY <2>1 DEF Init, EpochInv, NotNewer, At, NoTx, Zero
<1>2. TypeInv /\ EpochInv /\ [Next]_vars => EpochInv'
  <2> SUFFICES ASSUME TypeInv, EpochInv, [Next]_vars PROVE EpochInv'
    OBVIOUS
  <2>t. TypeOK
    BY DEF TypeInv
  <2>1. CASE \E t \in Threads : ThreadStep(t)
    <3>1. PICK t \in Threads : ThreadStep(t)
      BY <2>1
    <3>2. GlobalEpoch' = GlobalEpoch
      BY <3>1, ThreadKeepsDaemons
    <3>3. \A k \in Keys : Row'[k].epoch <= GlobalEpoch
      BY <3>1, RowsStayNotNewer
    <3>4. ASSUME NEW u \in Threads, u # t PROVE NotNewer(u)'
      <4>1. tx'[u] = tx[u] /\ ThLocalEpoch'[u] = ThLocalEpoch[u] /\ NotNewer(u)
        BY <2>t, <3>1, <3>4, OthersKeepLocals, OthersKeepSlot DEF EpochInv
      <4> QED BY <3>2, <4>1 DEF NotNewer, At
    <3>5. NotNewer(t)'
      BY <3>1, OwnNotNewer
    <3> QED BY <3>2, <3>3, <3>4, <3>5 DEF EpochInv
  <2>2. CASE Epocher \/ Logger
    <3> DEFINE G == GlobalEpoch
               H == GlobalEpoch'
    <3>1. /\ G \in Nat /\ H \in Nat /\ G <= H
          /\ tx' = tx /\ Row' = Row /\ ThLocalEpoch' = ThLocalEpoch
      BY <2>t, <2>2, EpochGrows, EpochsAreNat, DaemonsKeepThreads
    <3> HIDE DEF G, H
    <3>2. \A n \in Nat : n <= G => n <= H
      BY <3>1
    <3>3. \A k \in Keys : Row[k].epoch <= H
      BY <2>t, <3>2, EpochsAreNat DEF EpochInv, G
    <3>4. ASSUME NEW u \in Threads PROVE NotNewer(u)'
      <4>1. NotNewer(u)
        BY DEF EpochInv
      <4>2. ThLocalEpoch[u] <= H /\ tx[u].loaded.epoch <= H
        BY <2>t, <3>2, <4>1, EpochsAreNat DEF NotNewer, G
      <4>3. \A e \in ToSet(tx[u].readSet) : e.epoch <= H
        BY <2>t, <3>2, <4>1, EpochsAreNat DEF NotNewer, G
      <4> QED BY <3>1, <4>1, <4>2, <4>3 DEF NotNewer, At, H
    <3> QED BY <3>1, <3>3, <3>4 DEF EpochInv, H
  <2>3. CASE UNCHANGED vars
    BY <2>3 DEF vars, EpochInv, NotNewer, At
  <2> QED BY <2>1, <2>2, <2>3 DEF Next
<1> QED BY <1>1, <1>2, TypeInvariant, PTL DEF Spec

\* Rule (c) of writePhase: every commit tid is of the epoch in the thread's
\* slot, the epoch of its log entry, however often the transaction was
\* aborted and whatever it has read.
THEOREM CommitInOwnEpoch == Spec => []CommitEpoch
<1>1. TypeInv /\ EpochInv => CommitEpoch
  BY CommitTidEpoch DEF TypeInv, EpochInv, NotNewer, CommitEpoch
<1> QED BY <1>1, EpochInvariant, PTL

-----------------------------------------------------------------------------
(* The epocher *)

\* The thread is running in the global epoch, or in none.
Current(t) ==
    /\ At(t, "store") => tx[t].loaded.epoch = GlobalEpoch
    /\ HasEpoch(t) => ThLocalEpoch[t] = GlobalEpoch

\* A thread that has an epoch is in the global one or the one before it.
Lagging(t) ==
    /\ HasEpoch(t) => GlobalEpoch - ThLocalEpoch[t] \in {0, 1}
    /\ At(t, "store") => GlobalEpoch - tx[t].loaded.epoch \in {0, 1}

\* The inductive invariant behind EpochLag: the clients that the epocher has
\* passed in this round, all of them when it is about to add one, have loaded
\* the global epoch, whatever they did since it looked at them.
LagInv ==
    /\ \A t \in Threads : t >= 1 => Lagging(t)
    /\ ep.at = "check" => ep.i >= 1
    /\ ep.at = "check" => \A t \in Threads : t \in 1 .. ep.i - 1 => Current(t)
    /\ ep.at = "add" => \A t \in Threads : t >= 1 => Current(t)

\* What a step of a thread does to its epoch: nothing, or it loads the global
\* epoch, or it stores what it loaded, or it has none.
LEMMA EpochOfStep ==
    ASSUME TypeInv, NEW t \in Threads, ThreadStep(t)
    PROVE  \/ /\ At(t, "store")' <=> At(t, "store")
              /\ HasEpoch(t)' <=> HasEpoch(t)
              /\ At(t, "store") => tx'[t].loaded = tx[t].loaded
              /\ ThLocalEpoch'[t] = ThLocalEpoch[t]
           \/ At(t, "store")' /\ ~HasEpoch(t)' /\ tx'[t].loaded.epoch = GlobalEpoch
           \/ /\ At(t, "store") /\ ~At(t, "store")'
              /\ ThLocalEpoch'[t] = tx[t].loaded.epoch
           \/ ~At(t, "store")' /\ ~HasEpoch(t)'
<1>t. TypeOK /\ tx[t] \in TxType
  BY Fields DEF TypeInv
<1> USE DEF At, HasEpoch
<1>1. CASE Register(t)
  BY <1>1 DEF Register
<1>2. CASE Begin(t)
  <2>1. tx'[t].pc = "copy"
    BY <1>t, <1>2, BeginLocals DEF TxType
  <2> QED BY <2>1
<1>3. CASE CopyRow(t)
  <2>1. tx'[t].pc \in {"copy", "lock"}
    BY <1>3, CopyRowLocals
  <2> QED BY <2>1
<1>4. CASE LockRow(t)
  <2>1. tx'[t].pc = "lock"
    BY <1>t, <1>4, LockRowLocals DEF TxType, LockRow
  <2> QED BY <2>1
<1>5. CASE LoadEpoch(t)
  <2>1. tx'[t].pc = "store" /\ tx'[t].loaded.epoch = GlobalEpoch
    BY <1>t, <1>5, LoadEpochLocals DEF TxType
  <2> QED BY <2>1
<1>6. CASE StoreEpoch(t)
  <2>1. tx'[t].pc = "validate"
    BY <1>t, <1>6, StoreEpochLocals DEF TxType
  <2>2. ThLocalEpoch'[t] = tx[t].loaded.epoch /\ tx[t].pc = "store"
    BY <1>t, <1>6 DEF StoreEpoch, TypeOK
  <2> QED BY <2>1, <2>2
<1>7. CASE ValidateRow(t)
  <2>1. tx'[t].pc = "validate" /\ tx[t].pc = "validate"
    BY <1>t, <1>7, ValidateRowLocals DEF TxType, ValidateRow
  <2> QED BY <1>7, <2>1 DEF ValidateRow
<1>8. CASE Abort(t)
  <2>1. tx'[t].pc = "abort" /\ tx[t].pc = "validate"
    BY <1>t, <1>8, AbortLocals DEF TxType, Abort
  <2> QED BY <1>8, <2>1 DEF Abort
<1>9. CASE Log(t)
  <2>1. tx'[t].pc \in {"write", "unlock"} /\ tx[t].pc = "validate"
    BY <1>t, <1>9, WriteFromLocals DEF Log
  <2> QED BY <1>9, <2>1 DEF Log
<1>10. CASE InstallTidw(t)
  <2>1. tx[t].pos + 1 \in Nat
    BY <1>t, Fields
  <2>2. tx'[t].pc \in {"write", "unlock"} /\ tx[t].pc = "write"
    BY <1>t, <1>10, <2>1, WriteFromLocals DEF InstallTidw
  <2> QED BY <1>10, <2>2 DEF InstallTidw
<1>11. CASE UnlockLoad(t)
  <2>1. tx'[t].pc \in {"unlockstore", "abortstore"}
    BY <1>t, <1>11, UnlockLoadLocals DEF TxType
  <2>2. tx[t].pc \in {"unlock", "abort"}
    BY <1>11 DEF UnlockLoad
  <2> QED BY <1>11, <2>1, <2>2 DEF UnlockLoad
<1>12. CASE UnlockStore(t)
  <2>1. tx'[t].pc \in {"unlock", "abort"} /\ tx[t].pc \in {"unlockstore", "abortstore"}
    BY <1>t, <1>12, UnlockStoreLocals DEF TxType, UnlockStore
  <2> QED BY <1>12, <2>1 DEF UnlockStore
<1>13. CASE Retry(t)
  <2>1. tx'[t].pc = "copy"
    BY <1>t, <1>13, RetryLocals DEF TxType
  <2> QED BY <2>1
<1>14. CASE EndTx(t)
  <2>1. tx'[t].pc = "recv"
    BY <1>t, <1>14, EndTxLocals DEF NoTx
  <2> QED BY <2>1
<1> QED
  BY <1>1, <1>2, <1>3, <1>4, <1>5, <1>6, <1>7, <1>8, <1>9, <1>10, <1>11, <1>12,
     <1>13, <1>14 DEF ThreadStep

LEMMA ThreadKeepsCurrent ==
    ASSUME TypeInv, EpochInv, LagInv, NEW t \in Threads, ThreadStep(t),
           NEW u \in Threads
    PROVE  /\ Current(u) => Current(u)'
           /\ Lagging(u) => Lagging(u)'
<1>1. GlobalEpoch' = GlobalEpoch /\ GlobalEpoch - GlobalEpoch = 0
  BY ThreadKeepsDaemons, EpochsAreNat DEF TypeInv
<1>2. CASE u # t
  <2>1. tx'[u] = tx[u] /\ ThLocalEpoch'[u] = ThLocalEpoch[u]
    BY <1>2, OthersKeepLocals, OthersKeepSlot DEF TypeInv
  <2> QED BY <1>1, <2>1 DEF Current, Lagging, HasEpoch, At
<1>3. CASE u = t
  <2>1. ~(At(t, "store") /\ HasEpoch(t)) /\ ~(At(t, "store")' /\ HasEpoch(t)')
    BY DEF At, HasEpoch
  <2> QED BY <1>1, <1>3, <2>1, EpochOfStep DEF Current, Lagging
<1> QED BY <1>2, <1>3

LEMMA LagInvariant == Spec => [](TypeInv /\ EpochInv /\ LagInv)
<1>1. Init => LagInv
  BY DEF Init, LagInv, Lagging, HasEpoch, At, NoTx
<1>2. TypeInv /\ EpochInv /\ LagInv /\ [Next]_vars => LagInv'
  <2> SUFFICES ASSUME TypeInv, EpochInv, LagInv, [Next]_vars PROVE LagInv'
    OBVIOUS
  <2>t. TypeOK
    BY DEF TypeInv
  <2>f. /\ ep \in [at : {"wait", "check", "add"}, i : Nat, nowEpoch : Epochs]
        /\ GlobalEpoch \in Nat /\ ThreadNum \in Nat
    BY <2>t, EpochsAreNat DEF TypeOK
  <2>1. CASE \E t \in Threads : ThreadStep(t)
    <3>1. PICK t \in Threads : ThreadStep(t)
      BY <2>1
    <3>2. ep' = ep
      BY <3>1, ThreadKeepsDaemons
    <3>3. \A u \in Threads : (Current(u) => Current(u)') /\ (Lagging(u) => Lagging(u)')
      BY <3>1, ThreadKeepsCurrent
    <3> QED BY <3>2, <3>3 DEF LagInv
  <2>2. CASE LoadNowEpoch
    <3>1. /\ tx' = tx /\ ThLocalEpoch' = ThLocalEpoch /\ GlobalEpoch' = GlobalEpoch
          /\ ep'.at = "check" /\ ep'.i = 1
      BY <2>2 DEF LoadNowEpoch
    <3> QED BY <3>1 DEF LagInv, Lagging, Current, HasEpoch, At
  <2>3. CASE CheckSlot
    <3>1. tx' = tx /\ ThLocalEpoch' = ThLocalEpoch /\ GlobalEpoch' = GlobalEpoch
      BY <2>3 DEF CheckSlot
    <3>2. \A u \in Threads : (Current(u) => Current(u)') /\ (Lagging(u) => Lagging(u)')
      BY <3>1 DEF Lagging, Current, HasEpoch, At
    <3>3. ep.at = "check" /\ ep.i >= 1 /\ ep.i \in Nat
      BY <2>f, <2>3 DEF CheckSlot, LagInv
    <3>4. CASE ep.i >= ThreadNum
      <4>1. ep'.at = "add"
        BY <2>f, <2>3, <3>4 DEF CheckSlot
      <4>2. ASSUME NEW u \in Threads, u >= 1 PROVE Current(u)
        <5>1. u \in Nat
          BY EpochsAssumption DEF Threads
        <5>2. CASE u < ThreadNum
          BY <2>f, <3>3, <3>4, <4>2, <5>1, <5>2 DEF LagInv
        <5>3. CASE ~(u < ThreadNum)
          <6>1. tx[u].pc = "recv"
            BY <5>3 DEF TypeInv, Indexed
          <6> QED BY <6>1 DEF Current, HasEpoch, At
        <5> QED BY <5>2, <5>3
      <4> QED BY <3>2, <4>1, <4>2 DEF LagInv
    <3>5. CASE ~(ep.i >= ThreadNum) /\ ThLocalEpoch[ep.i] = ep.nowEpoch
      <4>1. ep'.at = "check" /\ ep'.i = ep.i + 1
        BY <2>f, <2>3, <3>3, <3>5 DEF CheckSlot
      <4>2. ASSUME NEW u \in Threads, u = ep.i PROVE Current(u)
        <5>1. ThLocalEpoch[u] = GlobalEpoch
          BY <3>3, <3>5, <4>2 DEF TypeInv, Looking
        <5>2. At(u, "store") =>
                ThLocalEpoch[u] <= tx[u].loaded.epoch /\ tx[u].loaded.epoch <= GlobalEpoch
          BY DEF EpochInv, NotNewer
        <5>3. At(u, "store") => tx[u].loaded.epoch = GlobalEpoch
          BY <2>t, <5>1, <5>2, EpochsAreNat
        <5> QED BY <5>1, <5>3 DEF Current
      <4>3. ASSUME NEW u \in Threads, u \in 1 .. ep'.i - 1 PROVE Current(u)
        <5>1. u = ep.i \/ u \in 1 .. ep.i - 1
          BY <3>3, <4>1, <4>3
        <5> QED BY <3>3, <4>2, <5>1 DEF LagInv
      <4>4. ep'.i >= 1
        BY <3>3, <4>1
      <4> QED BY <3>2, <4>1, <4>3, <4>4 DEF LagInv
    <3>6. CASE ~(ep.i >= ThreadNum) /\ ThLocalEpoch[ep.i] # ep.nowEpoch
      <4>1. ep'.at = "wait"
        BY <2>f, <2>3, <3>6 DEF CheckSlot
      <4> QED BY <3>2, <4>1 DEF LagInv
    <3> QED BY <3>4, <3>5, <3>6
  <2>4. CASE atomicAddGE
    <3>1. /\ tx' = tx /\ ThLocalEpoch' = ThLocalEpoch /\ GlobalEpoch' = GlobalEpoch + 1
          /\ ep.at = "add" /\ ep'.at = "wait"
      BY <2>f, <2>4 DEF atomicAddGE
    <3>2. ASSUME NEW u \in Threads, u >= 1 PROVE Lagging(u)'
      <4>1. Current(u)
        BY <3>1, <3>2 DEF LagInv
      <4>2. (GlobalEpoch + 1) - GlobalEpoch = 1
        BY <2>f
      <4> QED BY <3>1, <4>1, <4>2 DEF Current, Lagging, HasEpoch, At
    <3> QED BY <3>1, <3>2 DEF LagInv
  <2>5. CASE Logger \/ UNCHANGED vars
    <3>1. tx' = tx /\ ThLocalEpoch' = ThLocalEpoch /\ GlobalEpoch' = GlobalEpoch /\ ep' = ep
      BY <2>5 DEF Logger, LoadCurEpoch, Flush, vars
    <3> QED BY <3>1 DEF LagInv, Lagging, Current, HasEpoch, At
  <2> QED BY <2>1, <2>2, <2>3, <2>4, <2>5 DEF Next, Epocher
<1> QED BY <1>1, <1>2, EpochInvariant, PTL DEF Spec

\* No client that chkEpochLoaded looks at falls behind by more than one epoch,
\* with any number of threads that register at any time: between the epocher's
\* look at a slot and its addition the thread can go on to no other epoch.
THEOREM NoClientFallsBehind == Spec => []EpochLag
<1>1. TypeInv /\ EpochInv /\ LagInv => EpochLag
  BY DEF LagInv, Lagging, EpochLag
<1> QED BY <1>1, LagInvariant, PTL

-----------------------------------------------------------------------------
(* The log *)

Entries == ToSet(LogList) \cup flushed

\* No transaction has two entries, in the list or in the file, and those that
\* have been through exec_logging have one.
OneEntry ==
    /\ Distinct(LogList)
    /\ \A e \in ToSet(LogList), f \in flushed : e.tx # f.tx
    /\ \A e, f \in flushed : e.tx = f.tx => e = f
    /\ \A t \in Threads : \A n \in 1 .. MaxRuns :
          n \in Logged(t) <=> \E e \in Entries : e.tx = <<t, n>>

\* What has been written is of past epochs.
Past ==
    /\ \A f \in flushed : f.epoch < GlobalEpoch
    /\ curEpoch <= GlobalEpoch
    /\ FlushOrder

\* The inductive invariant behind LogOnceInOrder.
LogInv == OneEntry /\ Past

\* The types of the entries.
LEMMA EntryTypes ==
    ASSUME TypeOK
    PROVE  /\ ToSet(LogList) \subseteq LogType /\ flushed \subseteq LogType
           /\ \A e \in Entries : /\ e \in LogType /\ e.epoch \in Nat
                                 /\ e.tx[1] \in Threads /\ e.tx[1] \in Nat
<1>1. ToSet(LogList) \subseteq LogType /\ flushed \subseteq LogType
  BY ElementType DEF TypeOK, ToSet
<1>2. Epochs \subseteq Nat /\ Threads \subseteq Nat
  BY EpochsAssumption DEF Epochs, Threads
<1>3. \A e \in LogType : e.epoch \in Epochs /\ e.tx[1] \in Threads
  BY DEF LogType
<1> QED BY <1>1, <1>2, <1>3 DEF Entries

\* Only exec_logging makes a transaction one that has logged.
LEMMA LoggedKept ==
    ASSUME TypeInv, NEW t \in Threads, ThreadStep(t), ~Log(t), NEW u \in Threads
    PROVE  Logged(u)' = Logged(u)
<1>t. TypeOK /\ tx[t] \in TxType /\ runs[t] \in Nat
  BY Fields DEF TypeInv, TypeOK
<1> DEFINE In(place) == place \in {"write", "unlock", "unlockstore", "recv"}
<1>0. ASSUME runs'[u] = runs[u], In(tx'[u].pc) <=> In(tx[u].pc) PROVE Logged(u)' = Logged(u)
  BY <1>0 DEF Logged
<1>1. CASE u # t
  <2>1. tx'[u] = tx[u]
    BY <1>t, <1>1, OthersKeepLocals
  <2>2. runs'[u] = runs[u]
    <3>1. CASE Begin(t)
      BY <1>t, <1>1, <3>1 DEF Begin, TypeOK
    <3> QED
      BY <3>1 DEF ThreadStep, Register, CopyRow, LockRow, LoadEpoch, StoreEpoch,
         ValidateRow, Abort, Log, InstallTidw, UnlockLoad, UnlockStore, Retry, EndTx, ids
  <2> HIDE DEF In
  <2> QED BY <1>0, <2>1, <2>2
<1> SUFFICES ASSUME u = t PROVE Logged(u)' = Logged(u)
  BY <1>1
<1>2. CASE Register(t)
  BY <1>0, <1>2 DEF Register
<1>3. CASE Begin(t)
  <2>0. tx[t].pc = "recv"
    BY <1>3 DEF Begin, At
  <2>1. tx'[t].pc = "copy"
    BY <1>t, <1>3, BeginLocals DEF TxType
  <2>2. runs'[t] = runs[t] + 1
    BY <1>t, <1>3 DEF Begin, TypeOK
  <2>3. runs'[t] - 1 = runs[t]
    BY <1>t, <2>2
  <2> QED BY <2>0, <2>1, <2>3 DEF Logged
<1>4. CASE CopyRow(t)
  <2>1. tx'[t].pc \in {"copy", "lock"} /\ tx[t].pc = "copy"
    BY <1>4, CopyRowLocals DEF CopyRow, At
  <2> QED BY <1>0, <1>4, <2>1 DEF CopyRow, ids
<1>5. CASE LockRow(t)
  <2>1. tx'[t].pc = "lock" /\ tx[t].pc = "lock"
    BY <1>t, <1>5, LockRowLocals DEF TxType, LockRow, At
  <2> QED BY <1>0, <1>5, <2>1 DEF LockRow, ids
<1>6. CASE LoadEpoch(t)
  <2>1. tx'[t].pc = "store" /\ tx[t].pc = "lock"
    BY <1>t, <1>6, LoadEpochLocals DEF TxType, LoadEpoch, At
  <2> QED BY <1>0, <1>6, <2>1 DEF LoadEpoch, ids
<1>7. CASE StoreEpoch(t)
  <2>1. tx'[t].pc = "validate" /\ tx[t].pc = "store"
    BY <1>t, <1>7, StoreEpochLocals DEF TxType, StoreEpoch, At
  <2> QED BY <1>0, <1>7, <2>1 DEF StoreEpoch, ids
<1>8. CASE ValidateRow(t)
  <2>1. tx'[t].pc = "validate" /\ tx[t].pc = "validate"
    BY <1>t, <1>8, ValidateRowLocals DEF TxType, ValidateRow, At
  <2> QED BY <1>0, <1>8, <2>1 DEF ValidateRow, ids
<1>9. CASE Abort(t)
  <2>1. tx'[t].pc = "abort" /\ tx[t].pc = "validate"
    BY <1>t, <1>9, AbortLocals DEF TxType, Abort, At
  <2> QED BY <1>0, <1>9, <2>1 DEF Abort, ids
<1>10. CASE InstallTidw(t)
  <2>1. tx[t].pos + 1 \in Nat
    BY <1>t, Fields
  <2>2. tx'[t].pc \in {"write", "unlock"} /\ tx[t].pc = "write"
    BY <1>t, <1>10, <2>1, WriteFromLocals DEF InstallTidw, At
  <2> QED BY <1>0, <1>10, <2>2 DEF InstallTidw, ids
<1>11. CASE UnlockLoad(t)
  <2>1. tx'[t].pc = IF tx[t].pc = "unlock" THEN "unlockstore" ELSE "abortstore"
    BY <1>t, <1>11, UnlockLoadLocals DEF TxType
  <2>2. tx[t].pc \in {"unlock", "abort"}
    BY <1>11 DEF UnlockLoad, At
  <2> QED BY <1>0, <1>11, <2>1, <2>2 DEF UnlockLoad, ids
<1>12. CASE UnlockStore(t)
  <2>1. tx'[t].pc = IF tx[t].pc = "unlockstore" THEN "unlock" ELSE "abort"
    BY <1>t, <1>12, UnlockStoreLocals DEF TxType
  <2>2. tx[t].pc \in {"unlockstore", "abortstore"}
    BY <1>12 DEF UnlockStore, At
  <2> QED BY <1>0, <1>12, <2>1, <2>2 DEF UnlockStore, ids
<1>13. CASE Retry(t)
  <2>1. tx'[t].pc = "copy" /\ tx[t].pc = "abort"
    BY <1>t, <1>13, RetryLocals DEF TxType, Retry, At
  <2> QED BY <1>0, <1>13, <2>1 DEF Retry, ids
<1>14. CASE EndTx(t)
  <2>1. tx'[t].pc = "recv" /\ tx[t].pc = "unlock"
    BY <1>t, <1>14, EndTxLocals DEF NoTx, EndTx, At
  <2> QED BY <1>0, <1>14, <2>1 DEF EndTx, ids
<1> QED
  BY <1>2, <1>3, <1>4, <1>5, <1>6, <1>7, <1>8, <1>9, <1>10, <1>11, <1>12, <1>13,
     <1>14 DEF ThreadStep

\* All steps of threads but exec_logging leave the log alone.
LEMMA OthersKeepLog ==
    ASSUME NEW t \in Threads, ThreadStep(t), ~Log(t)
    PROVE  LogList' = LogList
  BY DEF ThreadStep, Register, Begin, CopyRow, LockRow, LoadEpoch, StoreEpoch,
     ValidateRow, Abort, InstallTidw, UnlockLoad, UnlockStore, Retry, EndTx

\* exec_logging adds the one entry of its transaction.
LEMMA LogAddsEntry ==
    ASSUME TypeInv, EpochInv, LagInv, LogInv, NEW t \in Threads, Log(t)
    PROVE  LogInv'
<1>t. TypeOK /\ tx[t] \in TxType /\ At(t, "validate")
  BY Fields DEF TypeInv, Log
<1> DEFINE e == [epoch |-> ThLocalEpoch[t], tx |-> <<t, runs[t]>>]
<1>1. /\ runs[t] \in 1 .. MaxRuns /\ runs[t] \in Nat
      /\ ThLocalEpoch[t] \in Epochs
  BY <1>t, EpochsAssumption DEF TypeInv, TypeOK, Indexed, At
<1>2. e \in LogType /\ e.tx = <<t, runs[t]>> /\ e.epoch = ThLocalEpoch[t]
  BY <1>1 DEF LogType
<1>3. LogList' = Append(LogList, e) /\ LogList \in Seq(LogType)
  BY <1>t DEF Log, TypeOK
<1>4. /\ flushed' = flushed /\ curEpoch' = curEpoch /\ GlobalEpoch' = GlobalEpoch
      /\ runs' = runs
  BY DEF Log, ids, daemons
<1> HIDE DEF e
<1>5. ToSet(LogList') = ToSet(LogList) \cup {e}
  BY <1>2, <1>3, OneMore
<1>6. Entries' = Entries \cup {e}
  BY <1>4, <1>5 DEF Entries
<1>7. Logged(t) = 1 .. runs[t] - 1
  BY <1>t DEF Logged, At
<1>8. Logged(t)' = 1 .. runs[t]
  <2>1. tx'[t].pc \in {"write", "unlock"}
    BY <1>t, WriteFromLocals DEF Log
  <2> QED BY <1>4, <2>1 DEF Logged
<1>9. ASSUME NEW u \in Threads, u # t PROVE Logged(u)' = Logged(u)
  <2>1. tx'[u] = tx[u]
    BY <1>t, <1>9, OthersKeepLocals DEF ThreadStep
  <2> QED BY <1>4, <2>1 DEF Logged
<1>10. \A f \in Entries : f.tx # e.tx
  <2>1. runs[t] \notin Logged(t)
    BY <1>1, <1>7
  <2> QED BY <1>1, <1>2, <2>1 DEF LogInv, OneEntry
<1>11. OneEntry'
  <2>1. Distinct(LogList')
    BY <1>2, <1>3, <1>10, DistinctMore DEF LogInv, OneEntry, Entries
  <2>2. \A g \in ToSet(LogList'), f \in flushed' : g.tx # f.tx
    BY <1>4, <1>5, <1>10 DEF LogInv, OneEntry, Entries
  <2>3. \A g, f \in flushed' : g.tx = f.tx => g = f
    BY <1>4 DEF LogInv, OneEntry
  <2>4. ASSUME NEW u \in Threads, NEW n \in 1 .. MaxRuns
        PROVE  n \in Logged(u)' <=> \E g \in Entries' : g.tx = <<u, n>>
    <3>1. n \in Logged(u) <=> \E g \in Entries : g.tx = <<u, n>>
      BY DEF LogInv, OneEntry
    <3>2. CASE u = t
      <4>1. n \in Logged(t)' <=> n \in Logged(t) \/ n = runs[t]
        BY <1>1, <1>7, <1>8
      <4>2. e.tx = <<u, n>> <=> n = runs[t]
        BY <1>2, <3>2
      <4> QED BY <1>6, <3>1, <3>2, <4>1, <4>2
    <3>3. CASE u # t
      <4>1. e.tx # <<u, n>>
        BY <1>2, <3>3
      <4> QED BY <1>6, <1>9, <3>1, <3>3, <4>1
    <3> QED BY <3>2, <3>3
  <2> QED BY <2>1, <2>2, <2>3, <2>4 DEF OneEntry
<1>12. Past'
  <2>1. ASSUME NEW f \in flushed, t >= 1 PROVE e.epoch >= f.epoch
    <3>1. f.epoch < GlobalEpoch /\ f.epoch \in Nat
      BY <1>t, EntryTypes DEF LogInv, Past, Entries
    <3>2. GlobalEpoch - ThLocalEpoch[t] \in {0, 1}
      BY <1>t, <2>1 DEF LagInv, Lagging, HasEpoch, At
    <3>3. GlobalEpoch \in Nat /\ ThLocalEpoch[t] \in Nat
      BY <1>t, EpochsAreNat
    <3> QED BY <1>2, <3>1, <3>2, <3>3
  <2>2. e.tx[1] = t
    BY <1>2
  <2>3. FlushOrder'
    BY <1>4, <1>5, <2>1, <2>2 DEF FlushOrder, LogInv, Past
  <2> QED BY <1>4, <2>3 DEF LogInv, Past
<1> QED BY <1>11, <1>12 DEF LogInv

\* The logger moves what is old from the list to the file.
LEMMA FlushMovesEntries ==
    ASSUME TypeInv, LogInv, Flush
    PROVE  LogInv'
<1>t. TypeOK
  BY DEF TypeInv
<1> DEFINE old == Old(LogList, curEpoch)
<1>1. /\ ToSet(LogList') = ToSet(LogList) \ old
      /\ Distinct(LogList')
  BY <1>t, WhatIsLeft DEF TypeOK, LogInv, OneEntry, Flush
<1>2. old \subseteq ToSet(LogList) /\ flushed' = flushed \cup old
  BY DEF Flush, Old
<1>3. /\ tx' = tx /\ runs' = runs /\ GlobalEpoch' = GlobalEpoch /\ curEpoch' = None
      /\ curEpoch # None
  BY DEF Flush, ids
<1>4. Entries' = Entries
  BY <1>1, <1>2 DEF Entries
<1>5. \A e, f \in ToSet(LogList) : e.tx = f.tx => e = f
  BY DEF LogInv, OneEntry, Distinct, ToSet
<1>o. \A f \in old : f.epoch < curEpoch
  BY DEF Old
<1>p. \A e \in ToSet(LogList) \ old : ~(e.epoch < curEpoch)
  BY DEF Old
<1> HIDE DEF old
<1>6. OneEntry'
  <2>1. \A e \in ToSet(LogList'), f \in flushed' : e.tx # f.tx
    BY <1>1, <1>2, <1>5 DEF LogInv, OneEntry
  <2>2. \A e, f \in flushed' : e.tx = f.tx => e = f
    BY <1>2, <1>5 DEF LogInv, OneEntry
  <2>3. \A t \in Threads : Logged(t)' = Logged(t)
    BY <1>3 DEF Logged
  <2> QED BY <1>1, <1>4, <2>1, <2>2, <2>3 DEF LogInv, OneEntry
<1>7. Past'
  <2>1. curEpoch \in Nat /\ curEpoch <= GlobalEpoch /\ GlobalEpoch \in Nat
    BY <1>t, <1>3, EpochsAssumption DEF TypeOK, LogInv, Past, Epochs
  <2>2. \A f \in Entries : f.epoch \in Nat
    BY <1>t, EntryTypes
  <2>3. \A f \in flushed' : f.epoch < GlobalEpoch
    <3>1. ASSUME NEW f \in old PROVE f.epoch < GlobalEpoch
      <4>1. f.epoch \in Nat
        BY <1>2, <2>2 DEF Entries
      <4> QED BY <1>o, <2>1, <4>1
    <3> QED BY <1>2, <3>1 DEF LogInv, Past
  <2>4. ASSUME NEW e \in ToSet(LogList'), NEW f \in flushed', e.tx[1] >= 1
        PROVE  e.epoch >= f.epoch
    <3>1. CASE f \in flushed
      BY <1>1, <2>4, <3>1 DEF LogInv, Past, FlushOrder
    <3>2. CASE f \in old
      <4>1. e.epoch \in Nat /\ f.epoch \in Nat
        BY <1>1, <1>2, <2>2, <3>2 DEF Entries
      <4>2. ~(e.epoch < curEpoch) /\ f.epoch < curEpoch
        BY <1>1, <1>o, <1>p, <3>2
      <4> QED BY <2>1, <4>1, <4>2
    <3> QED BY <1>2, <3>1, <3>2
  <2>5. None <= GlobalEpoch
    BY <2>1 DEF None
  <2> QED BY <1>3, <2>3, <2>4, <2>5 DEF Past, FlushOrder
<1> QED BY <1>6, <1>7 DEF LogInv

LEMMA LogInvariant == Spec => [](TypeInv /\ LogInv)
<1>1. Init => LogInv
  <2> SUFFICES ASSUME Init PROVE LogInv
    OBVIOUS
  <2>1. ToSet(LogList) = {} /\ DOMAIN LogList = {}
    BY DEF Init, ToSet
  <2>2. Entries = {}
    BY <2>1 DEF Init, Entries
  <2>3. \A t \in Threads : Logged(t) = {}
    BY DEF Init, Logged, NoTx
  <2>4. OneEntry
    BY <2>1, <2>2, <2>3 DEF Init, OneEntry, Distinct
  <2>5. Past
    BY <2>1 DEF Init, Past, FlushOrder, None
  <2> QED BY <2>4, <2>5 DEF LogInv
<1>2. TypeInv /\ EpochInv /\ LagInv /\ LogInv /\ [Next]_vars => LogInv'
  <2> SUFFICES ASSUME TypeInv, EpochInv, LagInv, LogInv, [Next]_vars PROVE LogInv'
    OBVIOUS
  <2>t. TypeOK
    BY DEF TypeInv
  <2> DEFINE SameLog == /\ LogList' = LogList /\ flushed' = flushed
                        /\ \A u \in Threads : Logged(u)' = Logged(u)
             G == GlobalEpoch
             H == GlobalEpoch'
  <2>1. ASSUME SameLog PROVE OneEntry'
    <3>1. Entries' = Entries
      BY <2>1 DEF Entries
    <3> QED BY <2>1, <3>1 DEF LogInv, OneEntry
  <2>2. ASSUME SameLog, G <= H, H \in Nat, curEpoch' \in {curEpoch, G} PROVE Past'
    <3>1. G \in Nat /\ curEpoch \in Int /\ curEpoch <= G /\ \A f \in flushed : f.epoch \in Nat
      BY <2>t, EpochsAreNat, EntryTypes, EpochsAssumption
         DEF TypeOK, LogInv, Past, Entries, None, Epochs
    <3>2. ASSUME NEW f \in flushed PROVE f.epoch < H
      <4>1. f.epoch < G /\ f.epoch \in Nat
        BY <3>1 DEF LogInv, Past
      <4> HIDE DEF G, H
      <4> QED BY <2>2, <3>1, <4>1
    <3>3. curEpoch' <= H
      <4> HIDE DEF G, H
      <4> QED BY <2>2, <3>1
    <3>4. FlushOrder'
      BY <2>2 DEF LogInv, Past, FlushOrder
    <3> QED BY <2>2, <3>2, <3>3, <3>4 DEF Past
  <2>g. G \in Nat /\ G <= G
    BY <2>t, EpochsAreNat
  <2>3. CASE \E t \in Threads : ThreadStep(t)
    <3>1. PICK t \in Threads : ThreadStep(t)
      BY <2>3
    <3>2. CASE Log(t)
      BY <3>2, LogAddsEntry
    <3>3. CASE ~Log(t)
      <4>1. /\ H = G /\ curEpoch' = curEpoch
            /\ flushed' = flushed /\ LogList' = LogList
        BY <3>1, <3>3, ThreadKeepsDaemons, OthersKeepLog
      <4>2. \A u \in Threads : Logged(u)' = Logged(u)
        BY <3>1, <3>3, LoggedKept
      <4> QED BY <2>1, <2>2, <2>g, <4>1, <4>2 DEF LogInv
    <3> QED BY <3>2, <3>3
  <2>4. CASE Epocher \/ LoadCurEpoch
    <3>1. G <= H /\ H \in Nat
      BY <2>t, <2>4, EpochGrows DEF Logger
    <3>2. /\ LogList' = LogList /\ flushed' = flushed /\ curEpoch' \in {curEpoch, G}
          /\ tx' = tx /\ runs' = runs
      BY <2>4 DEF Epocher, LoadNowEpoch, CheckSlot, atomicAddGE, LoadCurEpoch, ids
    <3>3. \A u \in Threads : Logged(u)' = Logged(u)
      BY <3>2 DEF Logged
    <3> QED BY <2>1, <2>2, <3>1, <3>2, <3>3 DEF LogInv
  <2>5. CASE Flush
    BY <2>5, FlushMovesEntries
  <2>6. CASE UNCHANGED vars
    <3>1. \A u \in Threads : Logged(u)' = Logged(u)
      BY <2>6 DEF vars, Logged
    <3> QED BY <2>1, <2>2, <2>6, <2>g, <3>1 DEF LogInv, vars
  <2> QED BY <2>3, <2>4, <2>5, <2>6 DEF Next, Logger
<1> QED BY <1>1, <1>2, LagInvariant, PTL DEF Spec

\* Retries, flushes and erasures lose no transaction's entry and double none;
\* and epochs are written in order, for the clients that chkEpochLoaded looks
\* at: exec_logging and the logger share nothing but the list and its mutex,
\* and the epoch is loaded by each at a moment of its own.
THEOREM LogIsCompleteAndInOrder == Spec => []LogOnceInOrder
<1>1. TypeInv /\ LogInv => LogOnceInOrder
  <2> SUFFICES ASSUME TypeInv, LogInv PROVE LogOnceInOrder
    OBVIOUS
  <2>1. ASSUME NEW t \in Threads, NEW n \in 1 .. MaxRuns
        PROVE  Cardinality({j \in DOMAIN LogList : LogList[j].tx = <<t, n>>})
                 + Cardinality({e \in flushed : e.tx = <<t, n>>})
                   = IF n \in Logged(t) THEN 1 ELSE 0
    <3> DEFINE J == {j \in DOMAIN LogList : LogList[j].tx = <<t, n>>}
               F == {e \in flushed : e.tx = <<t, n>>}
    <3>1. n \in Logged(t) <=> \E e \in Entries : e.tx = <<t, n>>
      BY DEF LogInv, OneEntry
    <3>2. Cardinality({}) = 0 /\ \A x : Cardinality({x}) = 1
      BY FS_EmptySet, FS_Singleton
    <3>3. J # {} => F = {}
      BY DEF LogInv, OneEntry, ToSet
    <3>4. J = {} \/ \E j : J = {j}
      <4>1. \A j, k \in J : j = k
        BY DEF LogInv, OneEntry, Distinct
      <4> QED BY <4>1, Zenon
    <3>5. F = {} \/ \E e : F = {e}
      <4>1. \A e, f \in F : e = f
        BY DEF LogInv, OneEntry
      <4> QED BY <4>1, Zenon
    <3>6. n \in Logged(t) <=> J # {} \/ F # {}
      BY <3>1 DEF Entries, ToSet
    <3> SUFFICES Cardinality(J) + Cardinality(F) = IF n \in Logged(t) THEN 1 ELSE 0
      OBVIOUS
    <3> HIDE DEF J, F
    <3>7. CASE J # {}
      <4>1. Cardinality(J) = 1 /\ Cardinality(F) = 0
        BY <3>2, <3>3, <3>4, <3>7
      <4> QED BY <3>6, <3>7, <4>1
    <3>8. CASE J = {} /\ F # {}
      <4>1. Cardinality(J) = 0 /\ Cardinality(F) = 1
        BY <3>2, <3>5, <3>8
      <4> QED BY <3>6, <3>8, <4>1
    <3>9. CASE J = {} /\ F = {}
      <4>1. Cardinality(J) = 0 /\ Cardinality(F) = 0
        BY <3>2, <3>9
      <4> QED BY <3>6, <3>9, <4>1
    <3> QED BY <3>7, <3>8, <3>9
  <2> QED BY <2>1 DEF LogOnceInOrder, EntryOnce, LogInv, Past
<1> QED BY <1>1, LogInvariant, PTL
=============================================================================
