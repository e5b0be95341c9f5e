--------------------------- MODULE BLinkTreeProofs ---------------------------
(***************************************************************************)
(* Proofs about the concurrent B-link tree, for any fan-out, any number of *)
(* threads and any keys.                                                   *)
(***************************************************************************)
EXTENDS BLinkTree, SequenceTheorems, WellFoundedInduction, TLAPS

-----------------------------------------------------------------------------
(* Numbers and arrays *)

LEMMA Halves ==
    /\ N \in Nat /\ N >= 4 /\ H \in Nat /\ H >= 2 /\ N = H + H /\ N - H = H
    /\ Slots = 0 .. N - 2 /\ ChiSlots = 0 .. N - 1
    /\ NULL = 0 /\ Nobody = -1
    /\ Size_thread \in Nat \ {0} /\ Threads = 0 .. Size_thread - 1
    /\ Threads \subseteq Nat /\ Nobody \notin Threads
  BY ConstantsAssumption DEF H, Slots, ChiSlots, NULL, Nobody, Threads

\* A nonempty set of natural numbers has a least element.
LEMMA LeastNat ==
    ASSUME NEW T \in SUBSET Nat, T # {}
    PROVE  \E x \in T : \A y \in T : x <= y
<1>1. PICK x \in T : \A y \in T : ~ (<<y, x>> \in OpToRel(<, Nat))
  BY WFMin, NatLessThanWellFounded
<1>2. ASSUME NEW y \in T PROVE x <= y
  <2>1. ~ (<<y, x>> \in OpToRel(<, Nat))
    BY <1>1
  <2>2. ~ (y < x)
    BY <2>1 DEF OpToRel
  <2> QED BY <2>2
<1> QED BY <1>2

\* What SlotOf looks for.
IsSlotOf(p, x, k) ==
    /\ p \in 0 .. x.nkey
    /\ \A s \in 0 .. (p - 1) : x.key[s] <= k
    /\ p < x.nkey => x.key[p] > k

\* There is such a slot: the least one with a larger key, or the one behind all.
LEMMA SlotOfIs ==
    ASSUME NEW x, x.nkey \in 0 .. N - 1, x.key \in [Slots -> Nat], NEW k \in Nat
    PROVE  IsSlotOf(SlotOf(x, k), x, k)
<1> DEFINE larger == {s \in 0 .. x.nkey - 1 : x.key[s] > k}
<1>0. x.nkey \in Nat /\ x.nkey <= N - 1 /\ \A s \in 0 .. x.nkey - 1 : x.key[s] \in Nat
  BY Halves
<1>1. \E p : IsSlotOf(p, x, k)
  <2>1. CASE larger = {}
    <3>1. \A s \in 0 .. x.nkey - 1 : x.key[s] <= k
      BY <1>0, <2>1
    <3> QED BY <1>0, <3>1 DEF IsSlotOf
  <2>2. CASE larger # {}
    <3>1. PICK p \in larger : \A y \in larger : p <= y
      <4>1. larger \in SUBSET Nat
        BY <1>0
      <4> HIDE DEF larger
      <4> QED BY <2>2, <4>1, LeastNat
    <3>2. p \in 0 .. x.nkey - 1 /\ x.key[p] > k
      OBVIOUS
    <3>3. ASSUME NEW s \in 0 .. p - 1 PROVE x.key[s] <= k
      <4>1. s \in 0 .. x.nkey - 1 /\ ~(p <= s)
        BY <1>0, <3>2
      <4>2. s \notin larger
        BY <3>1, <4>1
      <4> QED BY <1>0, <4>1, <4>2
    <3> QED BY <1>0, <3>2, <3>3 DEF IsSlotOf
  <2> QED BY <2>1, <2>2
<1>2. SlotOf(x, k) = CHOOSE p \in 0 .. x.nkey : IsSlotOf(p, x, k)
  BY DEF SlotOf, IsSlotOf
<1>3. \E p \in 0 .. x.nkey : IsSlotOf(p, x, k)
  BY <1>1 DEF IsSlotOf
<1> HIDE DEF larger
<1> QED BY <1>2, <1>3, Zenon

\* What InsertAt returns, its CASE in three equations.
LEMMA InsertAtIs ==
    ASSUME NEW dom \in SUBSET Nat, NEW f, NEW n \in Nat, NEW p \in Nat, NEW v,
           NEW s \in dom
    PROVE  /\ s < p => InsertAt(f, dom, n, p, v)[s] = f[s]
           /\ s = p => InsertAt(f, dom, n, p, v)[s] = v
           /\ s > p /\ s <= n => InsertAt(f, dom, n, p, v)[s] = f[s - 1]
           /\ s > p /\ s > n => InsertAt(f, dom, n, p, v)[s] = f[s]
  BY DEF InsertAt

\* It stays in a set that contains the values of f and v.
LEMMA InsertAtType ==
    ASSUME NEW S, NEW m \in Nat, NEW d \in Nat, NEW f \in [0 .. m -> S],
           NEW n \in Nat, NEW p \in Nat, NEW v \in S, d <= m \/ (d = m + 1 /\ n = d /\ p <= d)
    PROVE  InsertAt(f, 0 .. d, n, p, v) \in [0 .. d -> S]
<1> DEFINE g == InsertAt(f, 0 .. d, n, p, v)
<1>1. ASSUME NEW s \in 0 .. d PROVE g[s] \in S
  <2>0. s \in Nat /\ 0 .. d \in SUBSET Nat
    OBVIOUS
  <2>1. /\ s < p => g[s] = f[s]
        /\ s = p => g[s] = v
        /\ s > p /\ s <= n => g[s] = f[s - 1]
        /\ s > p /\ s > n => g[s] = f[s]
    BY <2>0, InsertAtIs
  <2> HIDE DEF g
  <2>2. s <= m => f[s] \in S
    BY <2>0
  <2>3. s >= 1 /\ s - 1 <= m => f[s - 1] \in S
    BY <2>0
  <2> QED BY <2>0, <2>1, <2>2, <2>3
<1>2. g = [s \in 0 .. d |-> g[s]]
  BY DEF InsertAt
<1> HIDE DEF g
<1>3. g \in [0 .. d -> S]
  BY <1>1, <1>2
<1> QED BY <1>3 DEF g

-----------------------------------------------------------------------------
(* Who holds which lock *)

\* t is to unlock the node p: the leaf or parent it works at (261, 300-302),
\* or the child it has come from (235, 265, 266, 286).
Holds(t, p) ==
    \/ pc[t] \in {"leaf", "parent", "added", "split"} /\ p = cur[t]
    \/ /\ pc[t] \in {"up", "publish", "lockparent", "parent", "added", "split"}
       /\ p = lc[t]

\* On every way through move_right, insert_in_parent and its recursion, a mutex
\* is locked exactly as long as its holder has still to unlock it, and no thread
\* unlocks a node of another.
LocksAreHeld ==
    \A p \in DOMAIN node : \A t \in Threads : locked[p] = t <=> Holds(t, p)

-----------------------------------------------------------------------------
(* The invariant of nodes, locals and pending stores *)

Internal(p) == p \in DOMAIN node /\ ~node[p].isLeaf

Leaf(p) == p \in DOMAIN node /\ node[p].isLeaf

\* Right links keep to the kind of the node, parents are internal, and behind
\* each key of an internal node, and before the first, there is a child.
NodeOK(p) ==
    /\ node[p].right_link # NULL =>
          (node[node[p].right_link].isLeaf <=> node[p].isLeaf)
    /\ node[p].parent # NULL => Internal(node[p].parent)
    /\ ~node[p].isLeaf => \A s \in 0 .. node[p].nkey : node[p].chi[s] # NULL

NodeInv == \A p \in DOMAIN node : NodeOK(p)

\* In insert_in_parent.
Climbing == {"up", "publish", "lockparent", "parent", "added", "split"}

\* Where the locals of t point to; no child that it may still read is missing,
\* although nkey[t] may be older or newer than the children.
PlaceInv(t) ==
    /\ pc[t] \notin {"insert", "search"} => i[t] <= range
    /\ pc[t] = "descend" => cur[t] \in DOMAIN node
    /\ pc[t] \in {"scan", "child"} =>
          /\ Internal(cur[t])
          /\ kid[t] <= nkey[t]
          /\ \A s \in 0 .. nkey[t] : node[cur[t]].chi[s] # NULL
    /\ pc[t] = "leaf" => Leaf(cur[t])
    /\ pc[t] \in Climbing => lc[t] \in DOMAIN node /\ rc[t] \in DOMAIN node
    /\ pc[t] = "publish" => node[lc[t]].parent # NULL
    /\ pc[t] = "lockparent" => cur[t] = NULL \/ Internal(cur[t])
    /\ pc[t] \in {"parent", "added", "split"} => Internal(cur[t]) /\ cur[t] # lc[t]
    /\ pc[t] \notin {"added", "split"} => stores[t] = <<>>
    /\ pc[t] = "split" => Internal(rc[t])

\* The entries of a node are stored by the thread that holds it; only links
\* and parents are also stored in its right half.
GoodStore(t, st) ==
    /\ st.to = cur[t] \/ (st.to = rc[t] /\ pc[t] = "split")
    /\ st.field \in {"key", "chi", "nkey"} => st.to = cur[t]
    /\ st.field = "key" => st.slot \in Slots
    /\ st.field = "chi" => st.value \in DOMAIN node
    /\ st.field = "nkey" => st.value \in 0 .. (N - 1)
    /\ st.field = "parent" => st.value = st.to /\ node[st.to].chi[st.slot] # NULL
    /\ st.field = "right_link" => st.value = NULL \/ Internal(st.value)

\* The children that a new nkey counts are there, or are stored before it.
ChildrenFirst(q) ==
    \A j \in DOMAIN q : q[j].field = "nkey" =>
        \A s \in 0 .. q[j].value :
            \/ node[q[j].to].chi[s] # NULL
            \/ \E m \in 1 .. j - 1 : q[m].field = "chi" /\ q[m].slot = s

StoreInv(t) ==
    /\ \A j \in DOMAIN stores[t] : GoodStore(t, stores[t][j])
    /\ ChildrenFirst(stores[t])

TreeInv ==
    /\ TypeOK
    /\ LocksAreHeld
    /\ NodeInv
    /\ \A t \in Threads : PlaceInv(t) /\ StoreInv(t)

-----------------------------------------------------------------------------
(* What every step keeps of the nodes *)

LEMMA NodeFields ==
    ASSUME TypeOK, NEW p \in DOMAIN node
    PROVE  /\ p \in 1 .. Len(node) /\ Len(node) \in Nat
           /\ node[p] \in NodeType
           /\ node[p].isLeaf \in BOOLEAN /\ node[p].nkey \in 0 .. N - 1
           /\ node[p].key \in [Slots -> Nat] /\ node[p].chi \in [ChiSlots -> Pointers]
           /\ node[p].high_key \in Nat
           /\ node[p].right_link \in Pointers /\ node[p].parent \in Pointers
<1>1. node \in Seq(NodeType)
  BY DEF TypeOK
<1>2. p \in 1 .. Len(node) /\ Len(node) \in Nat /\ node[p] \in NodeType
  BY <1>1
<1> QED BY <1>2 DEF NodeType

\* Pointers other than NULL are the addresses.
LEMMA Addresses ==
    ASSUME TypeOK
    PROVE  /\ Len(node) \in Nat /\ DOMAIN node = 1 .. Len(node)
           /\ Pointers = DOMAIN node \cup {NULL} /\ NULL \notin DOMAIN node
           /\ Pointers \subseteq Nat
           /\ DOMAIN locked = DOMAIN node
<1>1. node \in Seq(NodeType) /\ locked \in Seq(Threads \cup {Nobody}) /\ Len(locked) = Len(node)
  BY DEF TypeOK
<1>2. Len(node) \in Nat /\ DOMAIN node = 1 .. Len(node) /\ DOMAIN locked = 1 .. Len(locked)
  BY <1>1
<1> HIDE <1>1
<1> QED BY <1>1, <1>2, Halves DEF Pointers

\* No node disappears or changes its kind, no child and no parent is lost.
Grows ==
    \A p \in DOMAIN node :
        /\ p \in DOMAIN node'
        /\ node'[p].isLeaf <=> node[p].isLeaf
        /\ node[p].parent # NULL => node'[p].parent # NULL
        /\ \A s \in ChiSlots : node[p].chi[s] # NULL => node'[p].chi[s] # NULL

Locals(u) == <<pc[u], i[u], cur[u], nkey[u], kid[u], lc[u], rc[u], stores[u]>>

LEMMA LocalsSame ==
    ASSUME NEW u, Locals(u)' = Locals(u)
    PROVE  /\ pc'[u] = pc[u] /\ i'[u] = i[u] /\ cur'[u] = cur[u] /\ nkey'[u] = nkey[u]
           /\ kid'[u] = kid[u] /\ lc'[u] = lc[u] /\ rc'[u] = rc[u] /\ stores'[u] = stores[u]
  BY DEF Locals

LEMMA PlaceKept ==
    ASSUME TypeOK, Grows, Key_vector' = Key_vector, NEW u \in Threads,
           Locals(u)' = Locals(u), PlaceInv(u)
    PROVE  PlaceInv(u)'
<1>1. range' = range
  BY DEF range
<1>2. nkey[u] \in 0 .. N - 1 /\ \A s \in 0 .. nkey[u] : s \in ChiSlots
  <2>1. nkey[u] \in 0 .. N - 1
    BY DEF TypeOK
  <2> QED BY <2>1, Halves
<1> USE LocalsSame
<1>3. (pc[u] \notin {"insert", "search"} => i[u] <= range)'
  BY <1>1 DEF PlaceInv
<1>4. (pc[u] = "descend" => cur[u] \in DOMAIN node)'
  BY DEF PlaceInv, Grows
<1>5. (pc[u] \in {"scan", "child"} =>
          /\ Internal(cur[u])
          /\ kid[u] <= nkey[u]
          /\ \A s \in 0 .. nkey[u] : node[cur[u]].chi[s] # NULL)'
  BY <1>2 DEF PlaceInv, Grows, Internal
<1>6. (pc[u] = "leaf" => Leaf(cur[u]))'
  BY DEF PlaceInv, Grows, Leaf
<1>7. (pc[u] \in Climbing => lc[u] \in DOMAIN node /\ rc[u] \in DOMAIN node)'
  BY DEF PlaceInv, Grows
<1>8. (pc[u] = "publish" => node[lc[u]].parent # NULL)'
  BY DEF PlaceInv, Grows, Climbing
<1>9. (pc[u] = "lockparent" => cur[u] = NULL \/ Internal(cur[u]))'
  BY DEF PlaceInv, Grows, Internal
<1>10. (pc[u] \in {"parent", "added", "split"} => Internal(cur[u]) /\ cur[u] # lc[u])'
  BY DEF PlaceInv, Grows, Internal
<1>11. (pc[u] \notin {"added", "split"} => stores[u] = <<>>)'
  BY DEF PlaceInv
<1>12. (pc[u] = "split" => Internal(rc[u]))'
  BY DEF PlaceInv, Grows, Internal
<1> QED BY <1>3, <1>4, <1>5, <1>6, <1>7, <1>8, <1>9, <1>10, <1>11, <1>12 DEF PlaceInv

\* Where t's stores go.
LEMMA StoreTargets ==
    ASSUME TypeOK, NEW t \in Threads, PlaceInv(t), NEW st, GoodStore(t, st),
           pc[t] \in {"added", "split"}
    PROVE  st.to \in DOMAIN node /\ ~node[st.to].isLeaf
  BY DEF PlaceInv, GoodStore, Internal

LEMMA GoodStoreKept ==
    ASSUME TypeOK, Grows, NEW u \in Threads, NEW v, NEW st \in StoreType, PlaceInv(u),
           pc[u] \in {"added", "split"}, GoodStore(u, st),
           pc'[u] = pc[u], cur'[u] = cur[u], rc'[u] = rc[u]
    PROVE  GoodStore(u, st)'
<1>1. st.to \in DOMAIN node /\ st.slot \in ChiSlots
  BY StoreTargets DEF StoreType
<1> QED BY <1>1 DEF GoodStore, Grows, Internal

LEMMA StoresAre ==
    ASSUME TypeOK, NEW t \in Threads
    PROVE  /\ stores[t] \in Seq(StoreType)
           /\ Len(stores[t]) \in Nat /\ DOMAIN stores[t] = 1 .. Len(stores[t])
           /\ \A j \in DOMAIN stores[t] : stores[t][j] \in StoreType
<1>1. stores[t] \in Seq(StoreType)
  BY DEF TypeOK
<1> QED BY <1>1

LEMMA StoresKept ==
    ASSUME TypeOK, Grows, NEW u \in Threads, Locals(u)' = Locals(u),
           PlaceInv(u), StoreInv(u)
    PROVE  StoreInv(u)'
<1> USE LocalsSame
<1>0. stores[u] # <<>> => pc[u] \in {"added", "split"}
  BY DEF PlaceInv
<1>1. ASSUME NEW j \in DOMAIN stores[u] PROVE GoodStore(u, stores[u][j])'
  <2>1. stores[u] # <<>> /\ stores[u][j] \in StoreType
    BY StoresAre
  <2>2. GoodStore(u, stores[u][j])
    BY DEF StoreInv
  <2>3. PICK st \in StoreType : st = stores[u][j]
    BY <2>1
  <2>4. GoodStore(u, st)'
    BY <1>0, <2>1, <2>2, <2>3, GoodStoreKept
  <2> QED BY <2>3, <2>4
<1>2. ASSUME NEW j \in DOMAIN stores[u], stores[u][j].field = "nkey",
             NEW s \in 0 .. stores[u][j].value
      PROVE  \/ node'[stores[u][j].to].chi[s] # NULL
             \/ \E m \in 1 .. j - 1 : stores[u][m].field = "chi" /\ stores[u][m].slot = s
  <2>1. stores[u] # <<>>
    BY StoresAre
  <2>2. GoodStore(u, stores[u][j])
    BY DEF StoreInv
  <2>3. stores[u][j].to \in DOMAIN node /\ s \in ChiSlots
    BY <1>0, <1>2, <2>1, <2>2, StoreTargets, Halves DEF GoodStore
  <2>4. \/ node[stores[u][j].to].chi[s] # NULL
        \/ \E m \in 1 .. j - 1 : stores[u][m].field = "chi" /\ stores[u][m].slot = s
    BY <1>2 DEF StoreInv, ChildrenFirst
  <2> QED BY <2>3, <2>4 DEF Grows
<1>3. ChildrenFirst(stores[u])'
  BY <1>2 DEF ChildrenFirst
<1> QED BY <1>1, <1>3 DEF StoreInv

-----------------------------------------------------------------------------
(* Steps that store nothing to a node *)

LEMMA SameNodesGrow ==
    ASSUME UNCHANGED node
    PROVE  Grows
  BY DEF Grows

LEMMA RangeType ==
    ASSUME TypeOK
    PROVE  /\ range \in Nat /\ range * Size_thread <= Len(Key_vector)
           /\ Len(Key_vector) \in Nat
           /\ \A m \in 1 .. Len(Key_vector) : Key_vector[m] \in Nat
<1>1. Key_vector \in Seq(Nat \ {0})
  BY ConstantsAssumption DEF TypeOK
<1> DEFINE n == Len(Key_vector)
<1>2. n \in Nat /\ \A m \in 1 .. n : Key_vector[m] \in Nat
  BY <1>1
<1>3. range = n \div Size_thread
  BY DEF range
<1> HIDE DEF n
<1>4. range \in Nat /\ range * Size_thread <= n
  BY <1>2, <1>3, Halves
<1> QED BY <1>2, <1>4 DEF n

\* range is the quotient, so each thread's range lies in Key_vector.
LEMMA KeyType ==
    ASSUME TypeOK, NEW t \in Threads, NEW j \in 1 .. range
    PROVE  KeyOf(t, j) \in Nat /\ range * t + j \in 1 .. Len(Key_vector)
<1> DEFINE n == Len(Key_vector)
<1>2. n \in Nat /\ \A m \in 1 .. n : Key_vector[m] \in Nat
  BY RangeType
<1>4. range \in Nat /\ range * Size_thread <= n
  BY RangeType
<1> HIDE DEF n
<1>5. t \in Nat /\ t + 1 <= Size_thread
  BY Halves
<1>6. PICK r \in Nat : r = range
  BY <1>4
<1>7. PICK z \in Nat : z = Size_thread
  BY Halves
<1>8. r * t + r <= r * z
  <2>1. r * (t + 1) <= r * z
    BY <1>5, <1>7
  <2>2. r * (t + 1) = r * t + r
    BY <1>5
  <2> QED BY <2>1, <2>2
<1>9. r * t \in Nat /\ r * z <= n
  BY <1>4, <1>5, <1>6, <1>7
<1>10. r * t + j \in 1 .. n
  BY <1>2, <1>6, <1>8, <1>9
<1> QED BY <1>2, <1>6, <1>10 DEF KeyOf, n

LEMMA InsertsAKey ==
    ASSUME TypeOK, NEW t \in Threads, PlaceInv(t), pc[t] \notin {"insert", "search"}
    PROVE  Key(t) \in Nat /\ i[t] \in 1 .. range
<1>1. i[t] \in 1 .. range + 1 /\ i[t] <= range
  BY DEF TypeOK, PlaceInv
<1>2. range \in Nat
  BY RangeType
<1>3. i[t] \in 1 .. range
  BY <1>1, <1>2
<1> QED BY <1>3, KeyType DEF Key

LEMMA QuietKeeps ==
    ASSUME TreeInv, NEW t \in Threads, UNCHANGED <<Key_vector, node, stores>>,
           stores[t] = <<>>, TypeOK', LocksAreHeld', PlaceInv(t)',
           \A u \in Threads \ {t} : Locals(u)' = Locals(u)
    PROVE  TreeInv'
<1>1. Grows
  BY SameNodesGrow
<1>2. ASSUME NEW u \in Threads PROVE PlaceInv(u)'
  BY <1>1, PlaceKept DEF TreeInv
<1>3. ASSUME NEW u \in Threads PROVE StoreInv(u)'
  <2>1. CASE u = t
    BY <2>1 DEF StoreInv, ChildrenFirst
  <2>2. CASE u # t
    BY <1>1, <2>2, StoresKept DEF TreeInv
  <2> QED BY <2>1, <2>2
<1>4. NodeInv'
  BY DEF TreeInv, NodeInv, NodeOK, Internal
<1> QED BY <1>2, <1>3, <1>4 DEF TreeInv

\* Nobody's locks change.
LEMMA LocksSame ==
    ASSUME LocksAreHeld, NEW t \in Threads, UNCHANGED <<node, locked>>,
           \A p \in DOMAIN node : Holds(t, p)' <=> Holds(t, p),
           \A u \in Threads \ {t} : Locals(u)' = Locals(u)
    PROVE  LocksAreHeld'
<1>1. ASSUME NEW u \in Threads, NEW p \in DOMAIN node PROVE Holds(u, p)' <=> Holds(u, p)
  <2>1. CASE u = t
    BY <2>1
  <2>2. CASE u # t
    BY <2>2, LocalsSame DEF Holds
  <2> QED BY <2>1, <2>2
<1> QED BY <1>1 DEF LocksAreHeld

LEMMA ReadRootKeeps ==
    ASSUME TreeInv, NEW t \in Threads, ReadRoot(t)
    PROVE  TreeInv'
<1> USE DEF ReadRoot, At, Goto
<1>1. TypeOK'
  BY Addresses DEF TreeInv, TypeOK, Places, Pointers, NodeType, StoreType, range
<1>2. \A u \in Threads \ {t} : Locals(u)' = Locals(u)
  BY DEF TreeInv, TypeOK, Locals
<1>3. pc'[t] = "descend" /\ cur'[t] = Root
  BY DEF TreeInv, TypeOK
<1>4. LocksAreHeld'
  <2>1. \A p \in DOMAIN node : Holds(t, p)' <=> Holds(t, p)
    BY <1>3 DEF Holds
  <2> QED BY <1>2, <2>1, LocksSame DEF TreeInv
<1>5. PlaceInv(t)'
  BY <1>3 DEF TreeInv, TypeOK, PlaceInv, Climbing, range
<1> QED BY <1>1, <1>2, <1>4, <1>5, QuietKeeps

LEMMA ReadNkeyKeeps ==
    ASSUME TreeInv, NEW t \in Threads, ReadNkey(t)
    PROVE  TreeInv'
<1> USE DEF ReadNkey, At, Goto
<1>0. cur[t] \in DOMAIN node
  BY DEF TreeInv, PlaceInv
<1>1. TypeOK'
  <2>1. node[cur[t]].nkey \in 0 .. N - 1 /\ 0 \in 0 .. N - 1
    BY <1>0, NodeFields, Halves DEF TreeInv
  <2> QED BY <2>1 DEF TreeInv, TypeOK, Places, Pointers, NodeType, StoreType, range
<1>2. \A u \in Threads \ {t} : Locals(u)' = Locals(u)
  BY DEF TreeInv, TypeOK, Locals
<1>3. pc'[t] = "scan" /\ nkey'[t] = node[cur[t]].nkey /\ kid'[t] = 0
  BY DEF TreeInv, TypeOK
<1>4. LocksAreHeld'
  <2>1. \A p \in DOMAIN node : Holds(t, p)' <=> Holds(t, p)
    BY <1>3 DEF Holds
  <2> QED BY <1>2, <2>1, LocksSame DEF TreeInv
<1>5. PlaceInv(t)'
  <2>1. nkey'[t] >= 0
    BY <1>0, <1>3, NodeFields DEF TreeInv
  <2>2. \A s \in 0 .. node[cur[t]].nkey : node[cur[t]].chi[s] # NULL
    BY <1>0 DEF TreeInv, NodeInv, NodeOK
  <2>3. i[t] <= range
    BY DEF TreeInv, PlaceInv
  <2>4. range' = range
    BY DEF range
  <2> QED BY <1>0, <1>3, <2>1, <2>2, <2>3, <2>4 DEF TreeInv, PlaceInv, Climbing, Internal
<1> QED BY <1>1, <1>2, <1>4, <1>5, QuietKeeps

LEMMA ReadKeyKeeps ==
    ASSUME TreeInv, NEW t \in Threads, ReadKey(t)
    PROVE  TreeInv'
<1> USE DEF ReadKey, At, Goto
<1>0. nkey[t] \in 0 .. N - 1 /\ kid[t] \in 0 .. N - 1 /\ kid[t] < nkey[t] /\ kid[t] + 1 \in 0 .. N - 1
  <2>1. nkey[t] \in 0 .. N - 1 /\ kid[t] \in 0 .. N - 1
    BY DEF TreeInv, TypeOK
  <2> QED BY <2>1, Halves
<1>1. TypeOK'
  BY <1>0 DEF TreeInv, TypeOK, Places, Pointers, NodeType, StoreType, range
<1>2. \A u \in Threads \ {t} : Locals(u)' = Locals(u)
  BY DEF TreeInv, TypeOK, Locals
<1>3. pc'[t] \in {"scan", "child"} /\ kid'[t] <= nkey[t]
  BY <1>0 DEF TreeInv, TypeOK
<1>4. LocksAreHeld'
  <2>1. \A p \in DOMAIN node : Holds(t, p)' <=> Holds(t, p)
    BY <1>3 DEF Holds
  <2> QED BY <1>2, <2>1, LocksSame DEF TreeInv
<1>5. PlaceInv(t)'
  BY <1>3 DEF TreeInv, PlaceInv, Climbing, range, Internal
<1> QED BY <1>1, <1>2, <1>4, <1>5, QuietKeeps

LEMMA ReadChildKeeps ==
    ASSUME TreeInv, NEW t \in Threads, ReadChild(t)
    PROVE  TreeInv'
<1> USE DEF ReadChild, At, Goto
<1>0. node[cur[t]].chi[kid[t]] \in DOMAIN node
  <2>1. nkey[t] \in 0 .. N - 1 /\ kid[t] \in 0 .. N - 1
    BY DEF TreeInv, TypeOK
  <2>2. cur[t] \in DOMAIN node /\ kid[t] \in 0 .. nkey[t] /\ kid[t] \in ChiSlots
    BY <2>1, Halves DEF TreeInv, PlaceInv, Internal
  <2>3. node[cur[t]].chi[kid[t]] # NULL
    BY <2>2 DEF TreeInv, PlaceInv
  <2>4. node[cur[t]].chi[kid[t]] \in Pointers
    BY <2>2, NodeFields DEF TreeInv
  <2> QED BY <2>3, <2>4, Addresses DEF TreeInv
<1>1. TypeOK'
  <2>1. node[cur[t]].chi[kid[t]] \in Pointers /\ 0 \in 0 .. N - 1
    BY <1>0, Addresses, Halves DEF TreeInv
  <2> QED BY <2>1 DEF TreeInv, TypeOK, Places, Pointers, NodeType, StoreType, range
<1>2. \A u \in Threads \ {t} : Locals(u)' = Locals(u)
  BY DEF TreeInv, TypeOK, Locals
<1>3. pc'[t] = "descend" /\ cur'[t] \in DOMAIN node
  BY <1>0 DEF TreeInv, TypeOK
<1>4. LocksAreHeld'
  <2>1. \A p \in DOMAIN node : Holds(t, p)' <=> Holds(t, p)
    BY <1>3 DEF Holds
  <2> QED BY <1>2, <2>1, LocksSame DEF TreeInv
<1>5. PlaceInv(t)'
  BY <1>3 DEF TreeInv, PlaceInv, Climbing, range
<1> QED BY <1>1, <1>2, <1>4, <1>5, QuietKeeps

\* t locks and unlocks.
LEMMA LocksChange ==
    ASSUME LocksAreHeld, NEW t \in Threads, DOMAIN node' = DOMAIN node,
           \A p \in DOMAIN node : Holds(t, p)' <=> locked'[p] = t,
           \A p \in DOMAIN node : \A u \in Threads \ {t} :
               locked'[p] = u <=> locked[p] = u,
           \A u \in Threads \ {t} : Locals(u)' = Locals(u)
    PROVE  LocksAreHeld'
<1>1. ASSUME NEW u \in Threads, NEW p \in DOMAIN node
      PROVE  locked'[p] = u <=> Holds(u, p)'
  <2>1. CASE u = t
    BY <2>1
  <2>2. CASE u # t
    BY <2>2, LocalsSame DEF Holds, LocksAreHeld
  <2> QED BY <2>1, <2>2
<1> QED BY <1>1 DEF LocksAreHeld

LEMMA LocksAre ==
    ASSUME TypeOK
    PROVE  /\ locked \in Seq(Threads \cup {Nobody}) /\ DOMAIN locked = DOMAIN node
           /\ locked \in [DOMAIN node -> Threads \cup {Nobody}]
<1>1. locked \in Seq(Threads \cup {Nobody})
  BY DEF TypeOK
<1>2. locked \in [1 .. Len(locked) -> Threads \cup {Nobody}] /\ DOMAIN locked = 1 .. Len(locked)
  BY <1>1
<1> QED BY <1>1, <1>2, Addresses

LEMMA LockLeafKeeps ==
    ASSUME TreeInv, NEW t \in Threads, LockLeaf(t)
    PROVE  TreeInv'
<1> USE DEF LockLeaf, At, Goto
<1>0. cur[t] \in DOMAIN node
  BY DEF TreeInv, PlaceInv
<1>1. TypeOK'
  <2>1. locked' \in Seq(Threads \cup {Nobody}) /\ Len(locked') = Len(locked)
    BY <1>0, LocksAre DEF TreeInv
  <2> QED BY <2>1 DEF TreeInv, TypeOK, Places, Pointers, NodeType, StoreType, range
<1>2. \A u \in Threads \ {t} : Locals(u)' = Locals(u)
  BY DEF TreeInv, TypeOK, Locals
<1>3. pc'[t] = "leaf" /\ cur'[t] = cur[t]
  BY DEF TreeInv, TypeOK
<1>4. LocksAreHeld'
  <2>0. /\ \A p \in DOMAIN node : locked'[p] = IF p = cur[t] THEN t ELSE locked[p]
        /\ Nobody \notin Threads
    BY <1>0, LocksAre, Halves DEF TreeInv
  <2>1. ASSUME NEW p \in DOMAIN node PROVE Holds(t, p)' <=> locked'[p] = t
    <3>1. Holds(t, p)' <=> p = cur[t]
      BY <1>3 DEF Holds
    <3>2. locked[p] = t <=> Holds(t, p)
      BY DEF TreeInv, LocksAreHeld
    <3>3. ~Holds(t, p)
      BY DEF Holds
    <3> QED BY <2>0, <3>1, <3>2, <3>3
  <2>2. \A p \in DOMAIN node : \A u \in Threads \ {t} : locked'[p] = u <=> locked[p] = u
    BY <2>0
  <2> QED BY <1>2, <2>1, <2>2, LocksChange DEF TreeInv
<1>5. PlaceInv(t)'
  BY <1>0, <1>3 DEF TreeInv, PlaceInv, Climbing, range, Leaf
<1> QED BY <1>1, <1>2, <1>4, <1>5, QuietKeeps

\* To the right there is a node of the same kind, and t does not hold it yet.
LEMMA MoveRightKeeps ==
    ASSUME TreeInv, NEW t \in Threads, MoveRight(t)
    PROVE  TreeInv'
<1> USE DEF MoveRight, At, Goto
<1> DEFINE next == node[cur[t]].right_link
<1>0. /\ pc[t] \in {"leaf", "parent"} /\ stores[t] = <<>>
      /\ cur[t] \in DOMAIN node /\ next \in DOMAIN node
      /\ (node[next].isLeaf <=> node[cur[t]].isLeaf)
      /\ locked[next] = Nobody
      /\ locked' = [locked EXCEPT ![next] = t, ![cur[t]] = Nobody]
      /\ cur' = [cur EXCEPT ![t] = next]
  <2>1. pc[t] \in {"leaf", "parent"} /\ next # NULL
    BY DEF MustGoRight
  <2>2. cur[t] \in DOMAIN node
    BY <2>1 DEF TreeInv, PlaceInv, Leaf, Internal
  <2>3. next \in DOMAIN node
    BY <2>1, <2>2, NodeFields, Addresses DEF TreeInv
  <2>4. node[next].isLeaf <=> node[cur[t]].isLeaf
    BY <2>1, <2>2 DEF TreeInv, NodeInv, NodeOK
  <2> QED BY <2>1, <2>2, <2>3, <2>4
<1>u. UNCHANGED <<Key_vector, Root, node, ended, pc, i, nkey, kid, lc, rc, lm_key, stores, early>>
  OBVIOUS
<1> HIDE DEF next, MoveRight
<1> USE <1>u
<1>1. TypeOK'
  <2>1. locked' \in Seq(Threads \cup {Nobody}) /\ Len(locked') = Len(locked)
    <3> DEFINE held == [locked EXCEPT ![next] = t]
    <3>1. held \in Seq(Threads \cup {Nobody}) /\ Len(held) = Len(locked) /\ DOMAIN held = DOMAIN locked
      BY <1>0, LocksAre DEF TreeInv
    <3>2. locked' = [held EXCEPT ![cur[t]] = Nobody]
      BY <1>0
    <3>3. cur[t] \in 1 .. Len(held)
      BY <1>0, <3>1, Addresses DEF TreeInv, TypeOK
    <3> HIDE DEF held
    <3>4. [held EXCEPT ![cur[t]] = Nobody] \in Seq(Threads \cup {Nobody})
      BY <3>1, <3>3, ExceptSeq
    <3>5. Len([held EXCEPT ![cur[t]] = Nobody]) = Len(held)
      BY <3>1, <3>3, ExceptSeq
    <3> QED BY <3>1, <3>2, <3>4, <3>5
  <2>2. next \in Pointers
    BY <1>0, Addresses DEF TreeInv
  <2>3. cur' \in [Threads -> Pointers]
    BY <1>0, <2>2 DEF TreeInv, TypeOK
  <2> QED BY <2>1, <2>3 DEF TreeInv, TypeOK, Pointers, NodeType, StoreType, range
<1>2. \A u \in Threads \ {t} : Locals(u)' = Locals(u)
  BY <1>0 DEF TreeInv, TypeOK, Locals
<1>3. pc'[t] = pc[t] /\ cur'[t] = next /\ lc'[t] = lc[t] /\ rc'[t] = rc[t] /\ stores'[t] = stores[t]
  BY <1>0 DEF TreeInv, TypeOK
<1>n. Nobody \notin Threads
  BY Halves
<1>l. \A p \in DOMAIN node : \A u \in Threads : locked[p] = u <=> Holds(u, p)
  BY DEF TreeInv, LocksAreHeld
<1>c. Holds(t, cur[t]) /\ next # cur[t] /\ (pc[t] = "parent" => lc[t] # next /\ lc[t] # cur[t])
  <2>1. Holds(t, cur[t])
    BY <1>0 DEF Holds
  <2>2. ~Holds(t, next)
    BY <1>0, <1>n, <1>l
  <2>3. pc[t] = "parent" => lc[t] # cur[t]
    BY DEF TreeInv, PlaceInv
  <2>4. pc[t] = "parent" => Holds(t, lc[t])
    BY DEF Holds
  <2> QED BY <2>1, <2>2, <2>3, <2>4
<1>4. LocksAreHeld'
  <2>0. \A p \in DOMAIN node : locked'[p] = IF p = cur[t] THEN Nobody ELSE IF p = next THEN t ELSE locked[p]
    BY <1>0, <1>c, LocksAre DEF TreeInv
  <2>1. ASSUME NEW p \in DOMAIN node PROVE Holds(t, p)' <=> locked'[p] = t
    <3>1. locked[p] = t <=> Holds(t, p)
      BY <1>l
    <3>2. CASE pc[t] = "leaf"
      <4>1. (Holds(t, p)' <=> p = next) /\ (Holds(t, p) <=> p = cur[t])
        BY <1>3, <3>2 DEF Holds
      <4> QED BY <2>0, <3>1, <4>1, <1>n, <1>c
    <3>3. CASE pc[t] = "parent"
      <4>1. (Holds(t, p)' <=> p = next \/ p = lc[t]) /\ (Holds(t, p) <=> p = cur[t] \/ p = lc[t])
        BY <1>3, <3>3 DEF Holds
      <4> QED BY <2>0, <3>1, <4>1, <1>n, <1>c, <3>3
    <3> QED BY <1>0, <3>2, <3>3
  <2>2. ASSUME NEW p \in DOMAIN node, NEW u \in Threads \ {t}
        PROVE  locked'[p] = u <=> locked[p] = u
    <3>1. locked[cur[t]] = t /\ u # t /\ u # Nobody
      BY <1>0, <1>c, <1>l, <1>n
    <3>2. CASE p = cur[t] \/ p = next
      BY <1>0, <1>c, <2>0, <3>1, <3>2
    <3>3. CASE p # cur[t] /\ p # next
      BY <2>0, <3>3
    <3> QED BY <3>2, <3>3
  <2> QED BY <1>2, <2>1, <2>2, LocksChange DEF TreeInv
<1>5. PlaceInv(t)'
  <2>1. i'[t] = i[t] /\ range' = range /\ i[t] <= range
    BY <1>0 DEF TreeInv, PlaceInv, range
  <2> QED BY <1>0, <1>3, <1>c, <2>1 DEF TreeInv, PlaceInv, Climbing, Leaf, Internal
<1> QED BY <1>0, <1>1, <1>2, <1>4, <1>5, QuietKeeps

LEMMA EndInsertIs ==
    ASSUME TypeOK, NEW t \in Threads, EndInsert(t), UNCHANGED <<nkey, kid, stores, Key_vector>>,
           pc[t] \notin {"insert", "search"}, PlaceInv(t)
    PROVE  /\ i' \in [Threads -> 1 .. range' + 1] /\ cur' \in [Threads -> Pointers]
           /\ lc' \in [Threads -> Pointers] /\ rc' \in [Threads -> Pointers]
           /\ lm_key' \in [Threads -> Nat] /\ pc' \in [Threads -> Places]
           /\ pc'[t] = "insert" /\ cur'[t] = NULL /\ lc'[t] = NULL /\ rc'[t] = NULL
           /\ \A u \in Threads \ {t} : Locals(u)' = Locals(u)
           /\ \A p : ~Holds(t, p)'
           /\ stores[t] = <<>> => PlaceInv(t)'
<1> USE DEF EndInsert, Goto
<1>1. range' = range /\ range \in Nat /\ i[t] \in 1 .. range
  BY InsertsAKey, RangeType DEF range
<1>2. i' \in [Threads -> 1 .. range' + 1]
  <2>1. i \in [Threads -> 1 .. range + 1]
    BY DEF TypeOK
  <2>2. i[t] + 1 \in 1 .. range + 1
    BY <1>1
  <2> QED BY <1>1, <2>1, <2>2
<1>3. NULL \in Pointers /\ 0 \in Nat
  BY Addresses
<1>4. /\ cur' \in [Threads -> Pointers]
      /\ lc' \in [Threads -> Pointers] /\ rc' \in [Threads -> Pointers]
      /\ lm_key' \in [Threads -> Nat] /\ pc' \in [Threads -> Places]
  BY <1>3 DEF TypeOK, Places
<1>5. /\ pc'[t] = "insert" /\ cur'[t] = NULL /\ lc'[t] = NULL /\ rc'[t] = NULL
      /\ \A u \in Threads \ {t} : Locals(u)' = Locals(u)
  BY DEF TypeOK, Locals
<1>6. \A p : ~Holds(t, p)'
  BY <1>5 DEF Holds
<1>7. stores[t] = <<>> => PlaceInv(t)'
  BY <1>5 DEF PlaceInv, Climbing
<1> QED BY <1>2, <1>4, <1>5, <1>6, <1>7

LEMMA PublishRootKeeps ==
    ASSUME TreeInv, NEW t \in Threads, PublishRoot(t)
    PROVE  TreeInv'
<1>0. /\ pc[t] = "publish" /\ stores[t] = <<>>
      /\ lc[t] \in DOMAIN node /\ Root' = node[lc[t]].parent /\ Root' \in DOMAIN node
      /\ locked' = [locked EXCEPT ![lc[t]] = Nobody]
      /\ UNCHANGED <<Key_vector, node, ended, nkey, kid, stores, early>>
      /\ EndInsert(t)
  <2>1. pc[t] = "publish" /\ lc[t] \in DOMAIN node /\ node[lc[t]].parent # NULL
    BY DEF TreeInv, PlaceInv, PublishRoot, At, Climbing
  <2>2. node[lc[t]].parent \in DOMAIN node
    BY <2>1, NodeFields, Addresses DEF TreeInv
  <2> QED BY <2>1, <2>2 DEF PublishRoot, At
<1>e. /\ i' \in [Threads -> 1 .. range' + 1] /\ cur' \in [Threads -> Pointers]
      /\ lc' \in [Threads -> Pointers] /\ rc' \in [Threads -> Pointers]
      /\ lm_key' \in [Threads -> Nat] /\ pc' \in [Threads -> Places]
      /\ \A u \in Threads \ {t} : Locals(u)' = Locals(u)
      /\ \A p : ~Holds(t, p)'
      /\ PlaceInv(t)'
  BY <1>0, EndInsertIs DEF TreeInv
<1>1. TypeOK'
  <2>1. locked' \in Seq(Threads \cup {Nobody}) /\ Len(locked') = Len(locked)
    BY <1>0, LocksAre DEF TreeInv
  <2> QED BY <1>0, <1>e, <2>1 DEF TreeInv, TypeOK, Pointers, NodeType, StoreType
<1>4. LocksAreHeld'
  <2>0. /\ \A p \in DOMAIN node : locked'[p] = IF p = lc[t] THEN Nobody ELSE locked[p]
        /\ Nobody \notin Threads
    BY <1>0, LocksAre, Halves DEF TreeInv
  <2>1. \A p \in DOMAIN node : locked[p] = t <=> p = lc[t]
    BY <1>0 DEF TreeInv, LocksAreHeld, Holds
  <2>2. \A p \in DOMAIN node : Holds(t, p)' <=> locked'[p] = t
    BY <1>e, <2>0, <2>1
  <2>3. \A p \in DOMAIN node : \A u \in Threads \ {t} : locked'[p] = u <=> locked[p] = u
    BY <1>0, <2>0, <2>1
  <2> QED BY <1>0, <1>e, <2>2, <2>3, LocksChange DEF TreeInv
<1> QED BY <1>0, <1>1, <1>4, <1>e, QuietKeeps

LEMMA ReadParentKeeps ==
    ASSUME TreeInv, NEW t \in Threads, ReadParent(t)
    PROVE  TreeInv'
<1> USE DEF ReadParent, At, Goto
<1>0. /\ lc[t] \in DOMAIN node /\ rc[t] \in DOMAIN node
      /\ node[lc[t]].parent = NULL \/ Internal(node[lc[t]].parent)
      /\ node[lc[t]].parent \in Pointers
  <2>1. lc[t] \in DOMAIN node /\ rc[t] \in DOMAIN node
    BY DEF TreeInv, PlaceInv, Climbing
  <2> QED BY <2>1, NodeFields DEF TreeInv, NodeInv, NodeOK
<1>1. TypeOK'
  BY <1>0 DEF TreeInv, TypeOK, Places, Pointers, NodeType, StoreType, range
<1>2. \A u \in Threads \ {t} : Locals(u)' = Locals(u)
  BY DEF TreeInv, TypeOK, Locals
<1>3. pc'[t] = "lockparent" /\ cur'[t] = node[lc[t]].parent
  BY DEF TreeInv, TypeOK
<1>4. LocksAreHeld'
  <2>1. \A p \in DOMAIN node : Holds(t, p)' <=> Holds(t, p)
    BY <1>3 DEF Holds
  <2> QED BY <1>2, <2>1, LocksSame DEF TreeInv
<1>5. PlaceInv(t)'
  BY <1>0, <1>3 DEF TreeInv, PlaceInv, Climbing, range, Internal
<1> QED BY <1>1, <1>2, <1>4, <1>5, QuietKeeps

LEMMA LockParentKeeps ==
    ASSUME TreeInv, NEW t \in Threads, LockParent(t)
    PROVE  TreeInv'
<1> USE DEF LockParent, At, Goto
<1>0. Internal(cur[t]) /\ cur[t] \in DOMAIN node
  BY DEF TreeInv, PlaceInv, Internal
<1>1. TypeOK'
  <2>1. locked' \in Seq(Threads \cup {Nobody}) /\ Len(locked') = Len(locked)
    BY <1>0, LocksAre DEF TreeInv
  <2> QED BY <2>1 DEF TreeInv, TypeOK, Places, Pointers, NodeType, StoreType, range
<1>2. \A u \in Threads \ {t} : Locals(u)' = Locals(u)
  BY DEF TreeInv, TypeOK, Locals
<1>3. pc'[t] = "parent" /\ cur'[t] = cur[t] /\ lc'[t] = lc[t]
  BY DEF TreeInv, TypeOK
<1>l. \A p \in DOMAIN node : locked[p] = t <=> p = lc[t]
  BY DEF TreeInv, LocksAreHeld, Holds
<1>c. cur[t] # lc[t]
  BY <1>0, <1>l, Halves
<1>4. LocksAreHeld'
  <2>0. /\ \A p \in DOMAIN node : locked'[p] = IF p = cur[t] THEN t ELSE locked[p]
        /\ Nobody \notin Threads
    BY <1>0, LocksAre, Halves DEF TreeInv
  <2>1. \A p \in DOMAIN node : Holds(t, p)' <=> locked'[p] = t
    BY <2>0, <1>l, <1>3 DEF Holds
  <2>2. \A p \in DOMAIN node : \A u \in Threads \ {t} : locked'[p] = u <=> locked[p] = u
    BY <2>0
  <2> QED BY <1>2, <2>1, <2>2, LocksChange DEF TreeInv
<1>5. PlaceInv(t)'
  BY <1>0, <1>3, <1>c DEF TreeInv, PlaceInv, Climbing, range, Internal
<1> QED BY <1>1, <1>2, <1>4, <1>5, QuietKeeps

LEMMA UnlockBothKeeps ==
    ASSUME TreeInv, NEW t \in Threads, UnlockBoth(t)
    PROVE  TreeInv'
<1>0. /\ pc[t] = "added" /\ stores[t] = <<>>
      /\ lc[t] \in DOMAIN node /\ cur[t] \in DOMAIN node
      /\ locked' = [locked EXCEPT ![lc[t]] = Nobody, ![cur[t]] = Nobody]
      /\ UNCHANGED <<Key_vector, Root, node, ended, nkey, kid, stores, early>>
      /\ EndInsert(t)
  BY DEF TreeInv, PlaceInv, UnlockBoth, At, Climbing, Internal
<1>e. /\ i' \in [Threads -> 1 .. range' + 1] /\ cur' \in [Threads -> Pointers]
      /\ lc' \in [Threads -> Pointers] /\ rc' \in [Threads -> Pointers]
      /\ lm_key' \in [Threads -> Nat] /\ pc' \in [Threads -> Places]
      /\ \A u \in Threads \ {t} : Locals(u)' = Locals(u)
      /\ \A p : ~Holds(t, p)'
      /\ PlaceInv(t)'
  BY <1>0, EndInsertIs DEF TreeInv
<1>n. Nobody \notin Threads
  BY Halves
<1> DEFINE once == [locked EXCEPT ![lc[t]] = Nobody]
<1>o. /\ once \in Seq(Threads \cup {Nobody}) /\ Len(once) = Len(locked)
      /\ \A p \in DOMAIN node : once[p] = IF p = lc[t] THEN Nobody ELSE locked[p]
  BY <1>0, LocksAre DEF TreeInv
<1>c. locked' = [once EXCEPT ![cur[t]] = Nobody] /\ cur[t] \in 1 .. Len(once)
  BY <1>0, <1>o, Addresses DEF TreeInv, TypeOK
<1> HIDE DEF once
<1>l. /\ locked' \in Seq(Threads \cup {Nobody}) /\ Len(locked') = Len(locked)
      /\ \A p \in DOMAIN node : locked'[p] = IF p \in {lc[t], cur[t]} THEN Nobody ELSE locked[p]
  <2>1. /\ locked' \in Seq(Threads \cup {Nobody}) /\ Len(locked') = Len(once)
        /\ \A p \in 1 .. Len(once) : locked'[p] = IF p = cur[t] THEN Nobody ELSE once[p]
    BY <1>o, <1>c, ExceptSeq
  <2>2. DOMAIN node = 1 .. Len(once)
    BY <1>o, Addresses DEF TreeInv, TypeOK
  <2> QED BY <1>o, <2>1, <2>2
<1>1. TypeOK'
  BY <1>0, <1>e, <1>l DEF TreeInv, TypeOK, Pointers, NodeType, StoreType
<1>4. LocksAreHeld'
  <2>1. \A p \in DOMAIN node : locked[p] = t <=> p \in {lc[t], cur[t]}
    BY <1>0 DEF TreeInv, LocksAreHeld, Holds
  <2>2. \A p \in DOMAIN node : Holds(t, p)' <=> locked'[p] = t
    BY <1>e, <1>l, <1>n, <2>1
  <2>3. \A p \in DOMAIN node : \A u \in Threads \ {t} : locked'[p] = u <=> locked[p] = u
    BY <1>l, <1>n, <2>1
  <2> QED BY <1>0, <1>e, <2>2, <2>3, LocksChange DEF TreeInv
<1> QED BY <1>0, <1>1, <1>4, <1>e, QuietKeeps

LEMMA AscendKeeps ==
    ASSUME TreeInv, NEW t \in Threads, Ascend(t)
    PROVE  TreeInv'
<1> USE DEF Ascend, At, Goto
<1>0. /\ lc[t] \in DOMAIN node /\ cur[t] \in DOMAIN node /\ Internal(cur[t])
      /\ rc[t] \in DOMAIN node /\ cur[t] # lc[t]
  BY DEF TreeInv, PlaceInv, Climbing, Internal
<1>1. TypeOK'
  <2>1. locked' \in Seq(Threads \cup {Nobody}) /\ Len(locked') = Len(locked)
    BY <1>0, LocksAre DEF TreeInv
  <2>2. node[cur[t]].high_key \in Nat /\ cur[t] \in Pointers
    BY <1>0, NodeFields, Addresses DEF TreeInv
  <2> QED BY <2>1, <2>2 DEF TreeInv, TypeOK, Places, Pointers, NodeType, StoreType, range
<1>2. \A u \in Threads \ {t} : Locals(u)' = Locals(u)
  BY DEF TreeInv, TypeOK, Locals
<1>3. pc'[t] = "up" /\ lc'[t] = cur[t]
  BY DEF TreeInv, TypeOK
<1>4. LocksAreHeld'
  <2>0. /\ \A p \in DOMAIN node : locked'[p] = IF p = lc[t] THEN Nobody ELSE locked[p]
        /\ Nobody \notin Threads
    BY <1>0, LocksAre, Halves DEF TreeInv
  <2>l. \A p \in DOMAIN node : locked[p] = t <=> p \in {lc[t], cur[t]}
    BY <1>0 DEF TreeInv, LocksAreHeld, Holds
  <2>1. \A p \in DOMAIN node : Holds(t, p)' <=> locked'[p] = t
    BY <1>0, <2>0, <2>l, <1>3 DEF Holds
  <2>2. \A p \in DOMAIN node : \A u \in Threads \ {t} : locked'[p] = u <=> locked[p] = u
    BY <2>0, <2>l
  <2> QED BY <1>2, <2>1, <2>2, LocksChange DEF TreeInv
<1>5. PlaceInv(t)'
  BY <1>0, <1>3 DEF TreeInv, PlaceInv, Climbing, range, Internal
<1> QED BY <1>1, <1>2, <1>4, <1>5, QuietKeeps

LEMMA LockNullKeeps ==
    ASSUME TreeInv, NEW t \in Threads, LockNull(t)
    PROVE  TreeInv'
<1> USE DEF LockNull, At
<1>1. TypeOK'
  BY DEF TreeInv, TypeOK, Pointers, NodeType, StoreType, range
<1>2. \A u \in Threads : Locals(u)' = Locals(u)
  BY DEF Locals
<1>4. LocksAreHeld'
  BY DEF TreeInv, LocksAreHeld, Holds
<1>5. PlaceInv(t)'
  BY <1>2, SameNodesGrow, PlaceKept DEF TreeInv
<1> QED BY <1>1, <1>2, <1>4, <1>5, QuietKeeps

LEMMA SearchCoreKeeps ==
    ASSUME TreeInv, NEW t \in Threads, SearchCore(t)
    PROVE  TreeInv'
<1>u. /\ UNCHANGED <<Key_vector, Root, node, locked, pc, cur, nkey, kid, lc,
                       rc, lm_key, stores, early>>
      /\ pc[t] = "search" /\ stores[t] = <<>> /\ i[t] <= range
      /\ i' = i \/ i' = [i EXCEPT ![t] = @ + 1]
      /\ ended' \in {ended, "not found"}
  BY DEF SearchCore, At
<1> USE <1>u
<1>1. TypeOK'
  <2>1. range' = range /\ range \in Nat
    BY RangeType DEF TreeInv, range
  <2>2. i \in [Threads -> 1 .. range + 1]
    BY DEF TreeInv, TypeOK
  <2>3. i[t] + 1 \in 1 .. range + 1
    <3>1. i[t] \in 1 .. range + 1 /\ i[t] <= range
      BY <2>2
    <3> HIDE <1>u
    <3> QED BY <2>1, <3>1
  <2>4. i' \in [Threads -> 1 .. range' + 1]
    BY <2>1, <2>2, <2>3
  <2> QED BY <2>4 DEF TreeInv, TypeOK, Pointers, NodeType, StoreType
<1>2. \A u \in Threads \ {t} : Locals(u)' = Locals(u)
  BY DEF TreeInv, TypeOK, Locals
<1>4. LocksAreHeld'
  <2>1. \A p \in DOMAIN node : Holds(t, p)' <=> Holds(t, p)
    BY DEF Holds
  <2> QED BY <1>2, <2>1, LocksSame DEF TreeInv
<1>5. PlaceInv(t)'
  BY DEF TreeInv, PlaceInv, Climbing
<1> QED BY <1>1, <1>2, <1>4, <1>5, QuietKeeps

LEMMA StartSearchKeeps ==
    ASSUME TreeInv, StartSearch
    PROVE  TreeInv'
<1> USE DEF StartSearch
<1>1. TypeOK'
  <2>1. range' = range /\ range \in Nat
    BY RangeType DEF TreeInv, range
  <2>2. 1 \in 1 .. range' + 1
    BY <2>1
  <2>3. i' \in [Threads -> 1 .. range' + 1] /\ pc' \in [Threads -> Places]
    BY <2>2 DEF Places
  <2> QED BY <2>3 DEF TreeInv, TypeOK, Pointers, NodeType, StoreType
<1>2. LocksAreHeld'
  BY DEF TreeInv, LocksAreHeld, Holds
<1>3. ASSUME NEW t \in Threads PROVE PlaceInv(t)' /\ StoreInv(t)'
  <2>1. pc[t] = "insert" /\ pc'[t] = "search" /\ stores[t] = <<>>
    BY DEF TreeInv, PlaceInv
  <2> QED BY <2>1 DEF PlaceInv, StoreInv, ChildrenFirst, Climbing
<1>4. NodeInv'
  BY DEF TreeInv, NodeInv, NodeOK, Internal
<1> QED BY <1>1, <1>2, <1>3, <1>4 DEF TreeInv

LEMMA StutterKeeps ==
    ASSUME TreeInv, UNCHANGED vars
    PROVE  TreeInv'
<1> USE DEF vars
<1>1. TypeOK'
  BY DEF TreeInv, TypeOK, Pointers, NodeType, StoreType, range
<1>2. LocksAreHeld'
  BY DEF TreeInv, LocksAreHeld, Holds
<1>3. ASSUME NEW t \in Threads PROVE PlaceInv(t)' /\ StoreInv(t)'
  <2>1. Locals(t)' = Locals(t)
    BY DEF Locals
  <2> QED BY <2>1, SameNodesGrow, PlaceKept, StoresKept DEF TreeInv
<1>4. NodeInv'
  BY DEF TreeInv, NodeInv, NodeOK, Internal
<1> QED BY <1>1, <1>2, <1>3, <1>4 DEF TreeInv

-----------------------------------------------------------------------------
(* Steps that store to nodes *)

\* Types stay when the nodes become more.
LEMMA MorePointers ==
    ASSUME TypeOK, Len(node') \in Nat, Len(node) <= Len(node')
    PROVE  /\ Pointers \subseteq Pointers' /\ NodeType \subseteq NodeType'
           /\ StoreType \subseteq StoreType'
<1>1. Pointers \subseteq Pointers'
  BY Addresses DEF Pointers
<1>2. NodeType \subseteq NodeType'
  <2>1. SUFFICES ASSUME NEW x \in NodeType PROVE x \in NodeType'
    OBVIOUS
  <2>2. x.chi \in [ChiSlots -> Pointers']
    BY <1>1 DEF NodeType
  <2> QED BY <1>1, <2>2 DEF NodeType
<1>3. StoreType \subseteq StoreType'
  BY <1>1, Addresses DEF StoreType
<1> QED BY <1>1, <1>2, <1>3

\* The entries of a node change, or a node is added: what the others know
\* stays true.
LEMMA StoringKeeps ==
    ASSUME TreeInv, NEW t \in Threads, Grows, UNCHANGED Key_vector,
           TypeOK', LocksAreHeld', NodeInv', PlaceInv(t)', StoreInv(t)',
           \A u \in Threads \ {t} : Locals(u)' = Locals(u)
    PROVE  TreeInv'
<1>1. ASSUME NEW u \in Threads PROVE PlaceInv(u)' /\ StoreInv(u)'
  <2>1. CASE u = t
    BY <2>1
  <2>2. CASE u # t
    BY <2>2, PlaceKept, StoresKept DEF TreeInv
  <2> QED BY <2>1, <2>2
<1> QED BY <1>1 DEF TreeInv

LEMMA NodeTypeIs ==
    ASSUME NEW x \in NodeType
    PROVE  /\ x.isLeaf \in BOOLEAN /\ x.nkey \in 0 .. N - 1 /\ x.nkey \in Nat
           /\ x.key \in [Slots -> Nat] /\ x.chi \in [ChiSlots -> Pointers]
           /\ x.high_key \in Nat /\ x.right_link \in Pointers /\ x.parent \in Pointers
           /\ x = [isLeaf |-> x.isLeaf, nkey |-> x.nkey, key |-> x.key, chi |-> x.chi,
                   high_key |-> x.high_key, right_link |-> x.right_link, parent |-> x.parent]
  BY Halves DEF NodeType

\* The slot for k, which is in the array unless that is full.
LEMMA SlotOfType ==
    ASSUME TypeOK, NEW x \in NodeType, NEW k \in Nat
    PROVE  SlotOf(x, k) \in 0 .. x.nkey /\ IsSlotOf(SlotOf(x, k), x, k)
<1>1. IsSlotOf(SlotOf(x, k), x, k)
  BY NodeTypeIs, SlotOfIs
<1> QED BY <1>1 DEF IsSlotOf

LEMMA KeyInsertType ==
    ASSUME TypeOK, NEW x \in NodeType, NEW k \in Nat
    PROVE  /\ InsertAt(x.key, Slots, x.nkey, SlotOf(x, k), k) \in [Slots -> Nat]
           /\ TempKey(x, k) \in [0 .. N - 1 -> Nat] \/ x.nkey # N - 1
<1>1. SlotOf(x, k) \in Nat /\ SlotOf(x, k) <= x.nkey /\ x.nkey \in 0 .. N - 1
  BY SlotOfType, NodeTypeIs
<1>m. PICK m \in Nat : m = N - 2
  BY Halves
<1>d. PICK d \in Nat : d = N - 1 /\ d = m + 1
  BY Halves, <1>m
<1>s. Slots = 0 .. m
  BY Halves, <1>m
<1>2. x.key \in [0 .. m -> Nat] /\ x.nkey \in Nat
  BY <1>s, NodeTypeIs
<1>3. PICK p \in Nat : p = SlotOf(x, k) /\ p <= x.nkey
  BY <1>1
<1>4. InsertAt(x.key, 0 .. m, x.nkey, p, k) \in [0 .. m -> Nat]
  <2>1. m <= m
    OBVIOUS
  <2> QED BY <1>2, <2>1, InsertAtType
<1>5. x.nkey = d => InsertAt(x.key, 0 .. d, d, p, k) \in [0 .. d -> Nat]
  <2>1. SUFFICES ASSUME x.nkey = d PROVE InsertAt(x.key, 0 .. d, d, p, k) \in [0 .. d -> Nat]
    OBVIOUS
  <2>2. p <= d /\ d <= m + 1
    BY <1>3, <1>d, <2>1
  <2>3. x.key \in [0 .. m -> Nat] /\ d = m + 1 /\ d \in Nat
    BY <1>2, <1>d
  <2>4. InsertAt(x.key, 0 .. d, d, p, k) \in [0 .. d -> Nat]
    <3> HIDE <1>3, <2>1
    <3> QED BY <2>2, <2>3, InsertAtType
  <2> QED BY <2>4
<1>6. TempKey(x, k) = InsertAt(x.key, 0 .. d, d, p, k)
  BY <1>3, <1>d DEF TempKey
<1>7. InsertAt(x.key, Slots, x.nkey, SlotOf(x, k), k) \in [Slots -> Nat]
  BY <1>3, <1>4, <1>s, Zenon
<1>8. x.nkey # N - 1 \/ TempKey(x, k) \in [0 .. N - 1 -> Nat]
  BY <1>5, <1>6, <1>d, Zenon
<1> QED BY <1>7, <1>8, Zenon

LEMMA InsertInLeafIs ==
    ASSUME TypeOK, NEW x \in NodeType, NEW k \in Nat, x.nkey < N - 1
    PROVE  LET y == InsertInLeaf(x, k)
           IN  /\ y \in NodeType /\ y.isLeaf = x.isLeaf /\ y.chi = x.chi
               /\ y.right_link = x.right_link /\ y.parent = x.parent
               /\ y.nkey = x.nkey + 1
               /\ y.key = InsertAt(x.key, Slots, x.nkey, SlotOf(x, k), k)
                /\ y.high_key = IF x.high_key < k THEN k ELSE x.high_key
<1> DEFINE key == InsertAt(x.key, Slots, x.nkey, SlotOf(x, k), k)
           high == IF x.high_key < k THEN k ELSE x.high_key
<1>1. key \in [Slots -> Nat] /\ high \in Nat /\ x.nkey + 1 \in 0 .. N - 1
  <2>1. key \in [Slots -> Nat]
    BY KeyInsertType
  <2>2. x.nkey \in Nat /\ x.high_key \in Nat
    BY NodeTypeIs
  <2> QED BY <2>1, <2>2, Halves
<1>2. InsertInLeaf(x, k) = [x EXCEPT !.key = key, !.nkey = x.nkey + 1, !.high_key = high]
  BY NodeTypeIs DEF InsertInLeaf
<1> HIDE DEF key, high
<1>3. InsertInLeaf(x, k) =
        [isLeaf |-> x.isLeaf, nkey |-> x.nkey + 1, key |-> key, chi |-> x.chi,
         high_key |-> high, right_link |-> x.right_link, parent |-> x.parent]
  <2>1. PICK n : n = x.nkey + 1
    OBVIOUS
  <2>2. x = [isLeaf |-> x.isLeaf, nkey |-> x.nkey, key |-> x.key, chi |-> x.chi,
             high_key |-> x.high_key, right_link |-> x.right_link, parent |-> x.parent]
    BY NodeTypeIs, Zenon
  <2>3. [x EXCEPT !.key = key, !.nkey = n, !.high_key = high] =
          [isLeaf |-> x.isLeaf, nkey |-> n, key |-> key, chi |-> x.chi,
           high_key |-> high, right_link |-> x.right_link, parent |-> x.parent]
    <3>1. PICK f1, f2, f3, f4, f5, f6, f7 :
            x = [isLeaf |-> f1, nkey |-> f2, key |-> f3, chi |-> f4, high_key |-> f5,
                 right_link |-> f6, parent |-> f7]
      BY <2>2, Zenon
    <3>2. x.isLeaf = f1 /\ x.chi = f4 /\ x.right_link = f6 /\ x.parent = f7
      BY <3>1
    <3>3. ASSUME NEW y, y = [x EXCEPT !.key = key, !.nkey = n, !.high_key = high]
          PROVE  y = [isLeaf |-> f1, nkey |-> n, key |-> key, chi |-> f4, high_key |-> high,
                      right_link |-> f6, parent |-> f7]
      BY <3>1, <3>3
    <3> QED BY <3>1, <3>2, <3>3, Zenon
  <2> QED BY <1>2, <2>1, <2>3, Zenon
<1>4. InsertInLeaf(x, k) \in NodeType
  BY <1>1, <1>3, NodeTypeIs DEF NodeType
<1> QED BY <1>3, <1>4 DEF key, high

LEMMA AddToLeafKeeps ==
    ASSUME TreeInv, NEW t \in Threads, AddToLeaf(t)
    PROVE  TreeInv'
<1>0. /\ pc[t] = "leaf" /\ stores[t] = <<>> /\ cur[t] \in DOMAIN node
      /\ locked' = [locked EXCEPT ![cur[t]] = Nobody]
      /\ UNCHANGED <<Key_vector, Root, ended, nkey, kid, stores, early>>
      /\ EndInsert(t)
  BY DEF TreeInv, PlaceInv, AddToLeaf, At, Leaf
<1>x. PICK x \in NodeType : x = node[cur[t]]
  BY <1>0, NodeFields DEF TreeInv
<1>y. PICK y \in NodeType : /\ y = InsertInLeaf(x, Key(t))
                            /\ y.isLeaf = x.isLeaf /\ y.chi = x.chi
                            /\ y.right_link = x.right_link /\ y.parent = x.parent
                            /\ node' = [node EXCEPT ![cur[t]] = y]
  <2>1. Key(t) \in Nat /\ x.nkey < N - 1 /\ TypeOK
    BY <1>0, <1>x, InsertsAKey DEF TreeInv, AddToLeaf
  <2>2. node' = [node EXCEPT ![cur[t]] = InsertInLeaf(x, Key(t))]
    BY <1>x DEF AddToLeaf
  <2> QED BY <2>1, <2>2, InsertInLeafIs
<1>l. x.isLeaf
  BY <1>0, <1>x DEF TreeInv, PlaceInv, Leaf
<1>n. /\ node' \in Seq(NodeType) /\ Len(node') = Len(node) /\ DOMAIN node' = DOMAIN node
      /\ \A p \in DOMAIN node : node'[p] = IF p = cur[t] THEN y ELSE node[p]
  <2>1. node \in Seq(NodeType) /\ cur[t] \in 1 .. Len(node)
    BY <1>0, Addresses DEF TreeInv, TypeOK
  <2> QED BY <1>y, <2>1
<1>g. Grows
  BY <1>x, <1>y, <1>n DEF Grows
<1>e. /\ i' \in [Threads -> 1 .. range' + 1] /\ cur' \in [Threads -> Pointers]
      /\ lc' \in [Threads -> Pointers] /\ rc' \in [Threads -> Pointers]
      /\ lm_key' \in [Threads -> Nat] /\ pc' \in [Threads -> Places]
      /\ \A u \in Threads \ {t} : Locals(u)' = Locals(u)
      /\ \A p : ~Holds(t, p)'
      /\ PlaceInv(t)'
  BY <1>0, EndInsertIs DEF TreeInv
<1>1. TypeOK'
  <2>1. locked' \in Seq(Threads \cup {Nobody}) /\ Len(locked') = Len(locked)
    BY <1>0, LocksAre DEF TreeInv
  <2> QED BY <1>0, <1>e, <1>n, <2>1 DEF TreeInv, TypeOK, Pointers, NodeType, StoreType
<1>4. LocksAreHeld'
  <2>0. /\ \A p \in DOMAIN node : locked'[p] = IF p = cur[t] THEN Nobody ELSE locked[p]
        /\ Nobody \notin Threads
    BY <1>0, LocksAre, Halves DEF TreeInv
  <2>1. \A p \in DOMAIN node : locked[p] = t <=> p = cur[t]
    BY <1>0 DEF TreeInv, LocksAreHeld, Holds
  <2>2. \A p \in DOMAIN node : Holds(t, p)' <=> locked'[p] = t
    BY <1>e, <2>0, <2>1
  <2>3. \A p \in DOMAIN node : \A u \in Threads \ {t} : locked'[p] = u <=> locked[p] = u
    BY <1>0, <2>0, <2>1
  <2> QED BY <1>e, <1>n, <2>2, <2>3, LocksChange DEF TreeInv
<1>5. NodeInv'
  <2>1. ASSUME NEW p \in DOMAIN node
        PROVE  /\ node'[p].right_link = node[p].right_link /\ node'[p].parent = node[p].parent
               /\ (node'[p].isLeaf <=> node[p].isLeaf)
               /\ ~node'[p].isLeaf => node'[p] = node[p]
    BY <1>l, <1>x, <1>y, <1>n
  <2>2. ASSUME NEW p \in DOMAIN node
        PROVE  /\ node[p].right_link # NULL => node[p].right_link \in DOMAIN node
    BY NodeFields, Addresses DEF TreeInv
  <2> QED BY <1>n, <2>1, <2>2 DEF TreeInv, NodeInv, NodeOK, Internal
<1>6. StoreInv(t)'
  BY <1>0 DEF StoreInv, ChildrenFirst
<1> QED BY <1>0, <1>1, <1>4, <1>5, <1>6, <1>e, <1>g, StoringKeeps

LEMMA AllocIs ==
    ASSUME NEW leaf, NEW parent
    PROVE  Alloc(leaf, parent) =
             [isLeaf |-> leaf, nkey |-> 0, key |-> [s \in Slots |-> 0],
              chi |-> [s \in ChiSlots |-> NULL], high_key |-> 0, right_link |-> NULL,
              parent |-> parent]
  BY DEF Alloc

\* The halves of a full leaf.
AreHalves(left, new, x, k, right) ==
    \E low, high \in [Slots -> Nat] :
        /\ low = [s \in Slots |-> IF s < H THEN TempKey(x, k)[s] ELSE x.key[s]]
        /\ high = [s \in Slots |-> IF s < N - H THEN TempKey(x, k)[s + H] ELSE 0]
        /\ left = [isLeaf |-> x.isLeaf, nkey |-> H, key |-> low, chi |-> x.chi,
                   high_key |-> TempKey(x, k)[H - 1], right_link |-> right,
                   parent |-> x.parent]
        /\ new = [isLeaf |-> TRUE, nkey |-> N - H, key |-> high,
                  chi |-> [s \in ChiSlots |-> NULL], high_key |-> x.high_key,
                  right_link |-> x.right_link, parent |-> x.parent]
        /\ TempKey(x, k)[H - 1] \in Nat

LEMMA LeafHalves ==
    ASSUME TypeOK, NEW x \in NodeType, x.nkey = N - 1, NEW k \in Nat, NEW right
    PROVE  AreHalves(LeftLeaf(x, k, right), RightLeaf(x, k), x, k, right)
<1> DEFINE low == [s \in Slots |-> IF s < H THEN TempKey(x, k)[s] ELSE x.key[s]]
           high == [s \in Slots |-> IF s < N - H THEN TempKey(x, k)[s + H] ELSE 0]
<1>1. TempKey(x, k) \in [0 .. N - 1 -> Nat]
  BY KeyInsertType
<1>2. \A s \in 0 .. N - 1 : TempKey(x, k)[s] \in Nat
  BY <1>1
<1>3. \A s \in Slots : x.key[s] \in Nat
  BY NodeTypeIs
<1>4. low \in [Slots -> Nat]
  <2>1. ASSUME NEW s \in Slots, s < H PROVE TempKey(x, k)[s] \in Nat
    BY <1>2, <2>1, Halves
  <2> QED BY <1>3, <2>1
<1>5. high \in [Slots -> Nat]
  <2>1. ASSUME NEW s \in Slots, s < N - H PROVE TempKey(x, k)[s + H] \in Nat
    <3>1. s + H \in 0 .. N - 1
      BY <2>1, Halves
    <3> QED BY <1>2, <3>1
  <2> QED BY <2>1
<1>6. TempKey(x, k)[H - 1] \in Nat
  BY <1>2, Halves
<1>7. LeftLeaf(x, k, right) =
         [x EXCEPT !.key = low, !.nkey = H, !.high_key = TempKey(x, k)[H - 1],
                   !.right_link = right]
  BY DEF LeftLeaf
<1>8. RightLeaf(x, k) =
         [Alloc(TRUE, x.parent) EXCEPT !.key = high, !.nkey = N - H,
                   !.high_key = x.high_key, !.right_link = x.right_link]
  BY DEF RightLeaf
<1>d. /\ low = [s \in Slots |-> IF s < H THEN TempKey(x, k)[s] ELSE x.key[s]]
      /\ high = [s \in Slots |-> IF s < N - H THEN TempKey(x, k)[s + H] ELSE 0]
  OBVIOUS
<1> HIDE DEF low, high
<1>9. LeftLeaf(x, k, right) =
         [isLeaf |-> x.isLeaf, nkey |-> H, key |-> low, chi |-> x.chi,
          high_key |-> TempKey(x, k)[H - 1], right_link |-> right, parent |-> x.parent]
  <2>1. PICK m, top : m = H /\ top = TempKey(x, k)[H - 1]
    OBVIOUS
  <2>2. x = [isLeaf |-> x.isLeaf, nkey |-> x.nkey, key |-> x.key, chi |-> x.chi,
             high_key |-> x.high_key, right_link |-> x.right_link, parent |-> x.parent]
    BY NodeTypeIs, Zenon
  <2>3. [x EXCEPT !.key = low, !.nkey = m, !.high_key = top, !.right_link = right] =
          [isLeaf |-> x.isLeaf, nkey |-> m, key |-> low, chi |-> x.chi,
           high_key |-> top, right_link |-> right, parent |-> x.parent]
    <3>1. PICK f1, f2, f3, f4, f5, f6, f7 :
            x = [isLeaf |-> f1, nkey |-> f2, key |-> f3, chi |-> f4, high_key |-> f5,
                 right_link |-> f6, parent |-> f7]
      BY <2>2, Zenon
    <3>2. x.isLeaf = f1 /\ x.chi = f4 /\ x.right_link = f6 /\ x.parent = f7
      BY <3>1
    <3>3. ASSUME NEW y, y = [x EXCEPT !.key = low, !.nkey = m, !.high_key = top, !.right_link = right]
          PROVE  y = [isLeaf |-> f1, nkey |-> m, key |-> low, chi |-> f4, high_key |-> top,
                      right_link |-> right, parent |-> f7]
      BY <3>1, <3>3
    <3> QED BY <3>1, <3>2, <3>3, Zenon
  <2> QED BY <1>7, <2>1, <2>3, Zenon
<1>10. RightLeaf(x, k) =
         [isLeaf |-> TRUE, nkey |-> N - H, key |-> high,
          chi |-> [s \in ChiSlots |-> NULL], high_key |-> x.high_key,
          right_link |-> x.right_link, parent |-> x.parent]
  <2>1. PICK m, none : m = N - H /\ none = [s \in ChiSlots |-> NULL]
    OBVIOUS
  <2>2. RightLeaf(x, k) =
          [[isLeaf |-> TRUE, nkey |-> 0, key |-> [s \in Slots |-> 0], chi |-> none,
            high_key |-> 0, right_link |-> NULL, parent |-> x.parent]
             EXCEPT !.key = high, !.nkey = m,
                    !.high_key = x.high_key, !.right_link = x.right_link]
    BY <1>8, <2>1, AllocIs, Zenon
  <2>3. RightLeaf(x, k) =
          [isLeaf |-> TRUE, nkey |-> m, key |-> high, chi |-> none,
           high_key |-> x.high_key, right_link |-> x.right_link, parent |-> x.parent]
    BY <2>2
  <2> QED BY <2>1, <2>3, Zenon
<1> QED BY <1>4, <1>5, <1>6, <1>9, <1>10, <1>d, Zenon DEF AreHalves

\* A node is stored to and another one added behind.
LEMMA AppendIs ==
    ASSUME TypeOK, NEW c \in DOMAIN node, NEW y, NEW z,
           node' = Append([node EXCEPT ![c] = y], z)
    PROVE  /\ node' \in Seq(NodeType \cup {y, z})
           /\ Len(node) \in Nat /\ Len(node') = Len(node) + 1
           /\ Len(node) + 1 \in DOMAIN node' /\ Len(node) + 1 \notin DOMAIN node
           /\ DOMAIN node' = DOMAIN node \cup {Len(node) + 1}
           /\ node'[Len(node) + 1] = z
           /\ \A p \in DOMAIN node : node'[p] = IF p = c THEN y ELSE node[p]
<1> DEFINE S == NodeType \cup {y, z}
           first == [node EXCEPT ![c] = y]
<1>1. node \in Seq(NodeType) /\ c \in 1 .. Len(node) /\ Len(node) \in Nat /\ DOMAIN node = 1 .. Len(node)
  BY Addresses DEF TypeOK
<1>2. node \in Seq(S) /\ z \in S /\ y \in S
  BY <1>1
<1> HIDE DEF S
<1>3. /\ first \in Seq(S) /\ Len(first) = Len(node)
      /\ \A p \in 1 .. Len(node) : first[p] = IF p = c THEN y ELSE node[p]
  BY <1>1, <1>2, ExceptSeq
<1> HIDE DEF first
<1>4. node' = Append(first, z)
  BY DEF first
<1>5. /\ node' \in Seq(S) /\ Len(node') = Len(node) + 1
      /\ \A p \in 1 .. Len(node) : node'[p] = first[p]
      /\ node'[Len(node) + 1] = z
  BY <1>1, <1>2, <1>3, <1>4
<1>6. DOMAIN node' = 1 .. Len(node) + 1
  BY <1>5
<1>7. \A p \in DOMAIN node : node'[p] = IF p = c THEN y ELSE node[p]
  BY <1>1, <1>3, <1>5
<1>8. node' \in Seq(NodeType \cup {y, z})
  BY <1>5 DEF S
<1> QED BY <1>1, <1>5, <1>6, <1>7, <1>8

LEMMA Appended ==
    ASSUME TypeOK, NEW c \in DOMAIN node, NEW y, NEW z,
           node' = Append([node EXCEPT ![c] = y], z), y \in NodeType', z \in NodeType'
    PROVE  /\ node' \in Seq(NodeType') /\ Len(node') = Len(node) + 1
           /\ Len(node) + 1 \in DOMAIN node' /\ Len(node) + 1 \notin DOMAIN node
           /\ DOMAIN node' = DOMAIN node \cup {Len(node) + 1}
           /\ node'[Len(node) + 1] = z
           /\ \A p \in DOMAIN node : node'[p] = IF p = c THEN y ELSE node[p]
<1>1. /\ node' \in Seq(NodeType \cup {y, z})
      /\ Len(node) \in Nat /\ Len(node') = Len(node) + 1
      /\ Len(node) + 1 \in DOMAIN node' /\ Len(node) + 1 \notin DOMAIN node
      /\ DOMAIN node' = DOMAIN node \cup {Len(node) + 1}
      /\ node'[Len(node) + 1] = z
      /\ \A p \in DOMAIN node : node'[p] = IF p = c THEN y ELSE node[p]
  BY AppendIs
<1>2. NodeType \subseteq NodeType'
  BY <1>1, MorePointers
<1>3. node' \in Seq(NodeType')
  BY <1>1, <1>2, SeqMonotonic
<1> QED BY <1>1, <1>3

LEMMA HeldAre ==
    ASSUME TreeInv, NEW u \in Threads, NEW p, Holds(u, p)
    PROVE  p \in DOMAIN node
  BY DEF TreeInv, PlaceInv, Holds, Leaf, Internal, Climbing

\* The new node is not locked.
LEMMA LocksMore ==
    ASSUME TreeInv, NEW t \in Threads, locked' = Append(locked, Nobody),
           DOMAIN node' = DOMAIN node \cup {Len(node) + 1},
           \A p \in DOMAIN node' : Holds(t, p)' <=> Holds(t, p),
           \A u \in Threads \ {t} : Locals(u)' = Locals(u)
    PROVE  /\ LocksAreHeld'
           /\ locked' \in Seq(Threads \cup {Nobody}) /\ Len(locked') = Len(locked) + 1
<1>1. /\ locked' \in Seq(Threads \cup {Nobody}) /\ Len(locked') = Len(locked) + 1
      /\ \A p \in DOMAIN node : locked'[p] = locked[p]
      /\ locked'[Len(node) + 1] = Nobody
      /\ Len(node) + 1 \notin DOMAIN node
  <2>1. /\ locked \in Seq(Threads \cup {Nobody}) /\ Len(locked) = Len(node)
        /\ DOMAIN node = 1 .. Len(node)
    BY Addresses DEF TreeInv, TypeOK
  <2> QED BY <2>1
<1>2. ASSUME NEW u \in Threads, NEW p \in DOMAIN node'
      PROVE  locked'[p] = u <=> Holds(u, p)'
  <2>1. Holds(u, p)' <=> Holds(u, p)
    <3>1. CASE u = t
      BY <3>1
    <3>2. CASE u # t
      BY <3>2, LocalsSame DEF Holds
    <3> QED BY <3>1, <3>2
  <2>2. CASE p \in DOMAIN node
    BY <1>1, <2>1, <2>2 DEF TreeInv, LocksAreHeld
  <2>3. CASE p = Len(node) + 1
    <3>1. ~Holds(u, p)
      BY <1>1, <2>3, HeldAre
    <3> QED BY <1>1, <2>1, <2>3, <3>1, Halves
  <2> QED BY <2>2, <2>3
<1> QED BY <1>1, <1>2 DEF LocksAreHeld

LEMMA SplitLeafKeeps ==
    ASSUME TreeInv, NEW t \in Threads, SplitLeaf(t)
    PROVE  TreeInv'
<1> DEFINE right == Len(node) + 1
<1>0. /\ pc[t] = "leaf" /\ stores[t] = <<>> /\ cur[t] \in DOMAIN node
      /\ locked' = Append(locked, Nobody)
      /\ lc' = [lc EXCEPT ![t] = cur[t]] /\ rc' = [rc EXCEPT ![t] = right]
      /\ pc' = [pc EXCEPT ![t] = "up"]
      /\ UNCHANGED <<Key_vector, Root, ended, i, cur, nkey, kid, stores, early>>
  BY DEF TreeInv, PlaceInv, SplitLeaf, At, Leaf, Goto
<1>x. PICK x \in NodeType : x = node[cur[t]]
  BY <1>0, NodeFields DEF TreeInv
<1>k. PICK k \in Nat : k = Key(t)
  BY <1>0, InsertsAKey DEF TreeInv
<1>l. x.isLeaf /\ x.isLeaf = TRUE
  BY <1>0, <1>x, NodeTypeIs DEF TreeInv, PlaceInv, Leaf
<1>y. PICK y, z : y = LeftLeaf(x, k, right) /\ z = RightLeaf(x, k)
  OBVIOUS
<1>s. /\ node' = Append([node EXCEPT ![cur[t]] = y], z)
      /\ lm_key' = [lm_key EXCEPT ![t] = TempKey(x, k)[H - 1]]
      /\ x.nkey = N - 1
  BY <1>x, <1>k, <1>y DEF SplitLeaf
<1>p. Len(node) \in Nat /\ right \in 1 .. right /\ Len(node) <= right
  BY Addresses DEF TreeInv
<1>h. PICK low, high \in [Slots -> Nat] :
        /\ y = [isLeaf |-> x.isLeaf, nkey |-> H, key |-> low, chi |-> x.chi,
                high_key |-> TempKey(x, k)[H - 1], right_link |-> right, parent |-> x.parent]
        /\ z = [isLeaf |-> TRUE, nkey |-> N - H, key |-> high,
                chi |-> [s \in ChiSlots |-> NULL], high_key |-> x.high_key,
                right_link |-> x.right_link, parent |-> x.parent]
        /\ TempKey(x, k)[H - 1] \in Nat
  <2>1. AreHalves(LeftLeaf(x, k, right), RightLeaf(x, k), x, k, right)
    <3> HIDE DEF right
    <3> QED BY <1>s, LeafHalves DEF TreeInv
  <2>2. AreHalves(y, z, x, k, right)
    BY <1>y, <2>1
  <2> QED BY <2>2, Zenon DEF AreHalves
<1>len. Len(node') = right
  <2>1. node \in Seq(NodeType)
    BY DEF TreeInv, TypeOK
  <2>2. PICK S : S = NodeType \cup {y, z}
    OBVIOUS
  <2>3. [node EXCEPT ![cur[t]] = y] \in Seq(S) /\ Len([node EXCEPT ![cur[t]] = y]) = Len(node)
    BY <1>0, <2>1, <2>2
  <2> QED BY <1>s, <2>2, <2>3
<1> HIDE DEF right
<1>ty. y \in NodeType' /\ z \in NodeType'
  <2>1. Pointers \subseteq Pointers' /\ right \in Pointers' /\ NULL \in Pointers
    BY <1>p, <1>len, Addresses, MorePointers, Halves DEF TreeInv, Pointers
  <2>2. H \in 0 .. N - 1 /\ N - H \in 0 .. N - 1
    BY Halves
  <2>3. x.chi \in [ChiSlots -> Pointers'] /\ [s \in ChiSlots |-> NULL] \in [ChiSlots -> Pointers']
    BY <2>1, NodeTypeIs
  <2>4. x.isLeaf \in BOOLEAN /\ x.high_key \in Nat /\ x.right_link \in Pointers' /\ x.parent \in Pointers'
    BY <2>1, NodeTypeIs
  <2>5. y \in NodeType'
    BY <1>h, <2>1, <2>2, <2>3, <2>4 DEF NodeType
  <2>6. z \in NodeType'
    BY <1>h, <2>1, <2>2, <2>3, <2>4 DEF NodeType
  <2> QED BY <2>5, <2>6
<1>n. /\ node' \in Seq(NodeType') /\ right \in DOMAIN node' /\ right \notin DOMAIN node
      /\ DOMAIN node' = DOMAIN node \cup {right}
      /\ node'[right] = z
      /\ \A p \in DOMAIN node : node'[p] = IF p = cur[t] THEN y ELSE node[p]
  <2>1. PICK c \in DOMAIN node : c = cur[t]
    BY <1>0
  <2>2. TypeOK /\ node' = Append([node EXCEPT ![c] = y], z)
    BY <1>s, <2>1, Zenon DEF TreeInv
  <2>3. /\ node' \in Seq(NodeType') /\ Len(node) + 1 \in DOMAIN node'
        /\ Len(node) + 1 \notin DOMAIN node
        /\ DOMAIN node' = DOMAIN node \cup {Len(node) + 1}
        /\ node'[Len(node) + 1] = z
        /\ \A p \in DOMAIN node : node'[p] = IF p = c THEN y ELSE node[p]
    BY <1>ty, <2>2, Appended, Zenon
  <2> QED BY <2>1, <2>3, Zenon DEF right
<1>f. /\ y.isLeaf /\ z.isLeaf /\ y.chi = x.chi /\ y.parent = x.parent /\ z.parent = x.parent
      /\ y.right_link = right /\ z.right_link = x.right_link
  <2>1. y.isLeaf /\ y.chi = x.chi /\ y.parent = x.parent /\ y.right_link = right
    BY <1>h, <1>l
  <2>2. z.isLeaf /\ z.parent = x.parent /\ z.right_link = x.right_link
    BY <1>h
  <2> QED BY <2>1, <2>2
<1>g. Grows
  BY <1>x, <1>f, <1>n, <1>l DEF Grows
<1>2. \A u \in Threads \ {t} : Locals(u)' = Locals(u)
  BY <1>0 DEF TreeInv, TypeOK, Locals
<1>3. pc'[t] = "up" /\ lc'[t] = cur[t] /\ rc'[t] = right /\ cur'[t] = cur[t] /\ stores'[t] = <<>>
  BY <1>0 DEF TreeInv, TypeOK
<1>4. LocksAreHeld' /\ locked' \in Seq(Threads \cup {Nobody}) /\ Len(locked') = Len(locked) + 1
  <2>1. \A p \in DOMAIN node' : Holds(t, p)' <=> Holds(t, p)
    BY <1>0, <1>3 DEF Holds
  <2> QED BY <1>0, <1>2, <1>n, <2>1, LocksMore DEF right
<1>1. TypeOK'
  <2>1. Pointers \subseteq Pointers' /\ StoreType \subseteq StoreType'
    BY <1>len, <1>p, MorePointers DEF TreeInv
  <2>2. cur[t] \in Pointers' /\ right \in Pointers'
    BY <1>0, <1>p, <1>len, <2>1, Addresses, Halves DEF TreeInv, Pointers
  <2>3. cur' \in [Threads -> Pointers'] /\ lc' \in [Threads -> Pointers'] /\ rc' \in [Threads -> Pointers']
    BY <1>0, <2>1, <2>2 DEF TreeInv, TypeOK
  <2>4. lm_key' \in [Threads -> Nat] /\ pc' \in [Threads -> Places]
    BY <1>0, <1>s, <1>h DEF TreeInv, TypeOK, Places
  <2>5. stores' \in [Threads -> Seq(StoreType')]
    <3>1. \A u \in Threads : stores[u] \in Seq(StoreType')
      BY <2>1, StoresAre, SeqMonotonic DEF TreeInv
    <3>2. stores' = [u \in Threads |-> stores[u]]
      BY <1>0 DEF TreeInv, TypeOK
    <3> QED BY <3>1, <3>2
  <2>6. Root' \in DOMAIN node' /\ Len(locked') = Len(node')
    BY <1>0, <1>n, <1>len, <1>4 DEF TreeInv, TypeOK, right
  <2> QED BY <1>0, <1>n, <1>4, <2>3, <2>4, <2>5, <2>6 DEF TreeInv, TypeOK, range
<1>5. NodeInv'
  <2>1. ASSUME NEW p \in DOMAIN node
        PROVE  /\ node[p].right_link # NULL => node[p].right_link \in DOMAIN node
    BY NodeFields, Addresses DEF TreeInv
  <2>2. ASSUME NEW p \in DOMAIN node, Internal(p) PROVE Internal(p)'
    BY <1>g, <2>2 DEF Internal, Grows
  <2>3. ASSUME NEW p \in DOMAIN node, p # cur[t] PROVE NodeOK(p)'
    <3>1. node'[p] = node[p]
      BY <1>n, <2>3
    <3>2. NodeOK(p)
      BY DEF TreeInv, NodeInv
    <3>3. node[p].right_link # NULL =>
             (node'[node[p].right_link].isLeaf <=> node[p].isLeaf)
      BY <1>g, <2>1, <3>2 DEF Grows, NodeOK
    <3>4. PICK q : q = node[p].parent
      OBVIOUS
    <3>5. q # NULL => Internal(q)'
      BY <2>2, <3>2, <3>4 DEF NodeOK, Internal
    <3> QED BY <3>1, <3>2, <3>3, <3>4, <3>5 DEF NodeOK, Internal
  <2>4. /\ x.right_link # NULL => x.right_link \in DOMAIN node /\ node[x.right_link].isLeaf
        /\ x.parent # NULL => Internal(x.parent)'
    BY <1>0, <1>x, <1>l, <2>1, <2>2 DEF TreeInv, NodeInv, NodeOK, Internal
  <2>5. \A p \in {cur[t], right} :
           /\ node'[p].isLeaf /\ node'[p].parent = x.parent
           /\ node'[p].right_link = right \/ node'[p].right_link = x.right_link
    BY <1>0, <1>n, <1>f
  <2>6. ASSUME NEW p \in {cur[t], right}
        PROVE  node'[p].right_link # NULL => node'[node'[p].right_link].isLeaf
    BY <1>f, <1>g, <1>n, <2>4, <2>5 DEF Grows
  <2>7. ASSUME NEW p \in {cur[t], right} PROVE NodeOK(p)'
    BY <2>4, <2>5, <2>6 DEF NodeOK, Internal
  <2> QED BY <1>n, <2>3, <2>7 DEF NodeInv
<1>6. PlaceInv(t)'
  <2>1. i'[t] <= range'
    BY <1>0 DEF TreeInv, PlaceInv, range
  <2>2. lc'[t] \in DOMAIN node' /\ rc'[t] \in DOMAIN node'
    BY <1>0, <1>3, <1>n
  <2> QED BY <1>3, <2>1, <2>2 DEF PlaceInv
<1>7. StoreInv(t)'
  BY <1>3 DEF StoreInv, ChildrenFirst
<1> QED BY <1>0, <1>1, <1>2, <1>4, <1>5, <1>6, <1>7, <1>g, StoringKeeps

\* An old node with the same link, parent, entries and kind is still in order.
LEMMA NodeStaysOK ==
    ASSUME TypeOK, NodeInv, Grows, NEW p \in DOMAIN node,
           node'[p].right_link = node[p].right_link, node'[p].parent = node[p].parent,
           node'[p].chi = node[p].chi, node'[p].nkey = node[p].nkey
    PROVE  NodeOK(p)'
<1>1. PICK q, r : q = node[p].parent /\ r = node[p].right_link
  OBVIOUS
<1>2. NodeOK(p)
  BY DEF NodeInv
<1>3. r # NULL => r \in DOMAIN node
  BY <1>1, NodeFields, Addresses
<1>4. q # NULL => Internal(q)'
  BY <1>1, <1>2 DEF NodeOK, Internal, Grows
<1>5. r # NULL => (node'[r].isLeaf <=> node'[p].isLeaf)
  BY <1>1, <1>2, <1>3 DEF NodeOK, Grows
<1>6. ~node'[p].isLeaf => \A s \in 0 .. node'[p].nkey : node'[p].chi[s] # NULL
  BY <1>2 DEF NodeOK, Grows
<1> QED BY <1>1, <1>4, <1>5, <1>6 DEF NodeOK, Internal

\* A record with one component changed, or one entry of an array in it.
LEMMA StoredField ==
    ASSUME NEW isLeaf, NEW n, NEW key, NEW chi, NEW high, NEW link, NEW parent, NEW r,
           r = [isLeaf |-> isLeaf, nkey |-> n, key |-> key, chi |-> chi,
                high_key |-> high, right_link |-> link, parent |-> parent],
           NEW s, NEW v
    PROVE  /\ [r EXCEPT !.nkey = v] =
                [isLeaf |-> isLeaf, nkey |-> v, key |-> key, chi |-> chi,
                 high_key |-> high, right_link |-> link, parent |-> parent]
           /\ [r EXCEPT !.key[s] = v] =
                [isLeaf |-> isLeaf, nkey |-> n, key |-> [key EXCEPT ![s] = v], chi |-> chi,
                 high_key |-> high, right_link |-> link, parent |-> parent]
           /\ [r EXCEPT !.chi[s] = v] =
                [isLeaf |-> isLeaf, nkey |-> n, key |-> key, chi |-> [chi EXCEPT ![s] = v],
                 high_key |-> high, right_link |-> link, parent |-> parent]
           /\ [r EXCEPT !.high_key = v] =
                [isLeaf |-> isLeaf, nkey |-> n, key |-> key, chi |-> chi,
                 high_key |-> v, right_link |-> link, parent |-> parent]
           /\ [r EXCEPT !.right_link = v] =
                [isLeaf |-> isLeaf, nkey |-> n, key |-> key, chi |-> chi,
                 high_key |-> high, right_link |-> v, parent |-> parent]
           /\ [r EXCEPT !.parent = v] =
                [isLeaf |-> isLeaf, nkey |-> n, key |-> key, chi |-> chi,
                 high_key |-> high, right_link |-> link, parent |-> v]
  OBVIOUS

\* new_root
IsNewRoot(z, k, left, right) ==
    \E key, chi :
        /\ z = [isLeaf |-> FALSE, nkey |-> 1, key |-> key, chi |-> chi,
                high_key |-> 0, right_link |-> NULL, parent |-> NULL]
        /\ key = [s \in Slots |-> IF s = 0 THEN k ELSE 0]
        /\ chi = [s \in ChiSlots |-> IF s = 0 THEN left ELSE IF s = 1 THEN right ELSE NULL]
        /\ 0 \in Slots /\ 0 \in ChiSlots /\ 1 \in ChiSlots

LEMMA NewRootIs ==
    ASSUME NEW k \in Nat, NEW left, NEW right, NEW z,
           z = [Alloc(FALSE, NULL) EXCEPT
                   !.key[0] = k, !.chi[0] = left, !.chi[1] = right, !.nkey = 1]
    PROVE  IsNewRoot(z, k, left, right)
<1>1. 0 \in Slots /\ 0 \in ChiSlots /\ 1 \in ChiSlots
  BY ConstantsAssumption DEF Slots, ChiSlots
<1>2. PICK a, b, leaf, n, one : /\ a = [s \in Slots |-> 0] /\ b = [s \in ChiSlots |-> NULL]
                                /\ leaf = FALSE /\ n = 0 /\ one = 1
  OBVIOUS
<1>3. PICK key, chi :
          /\ key = [s \in Slots |-> IF s = 0 THEN k ELSE 0]
          /\ chi = [s \in ChiSlots |-> IF s = 0 THEN left ELSE IF s = 1 THEN right ELSE NULL]
  OBVIOUS
<1>4. [a EXCEPT ![0] = k] = key
  BY <1>1, <1>2, <1>3
<1>5. [[b EXCEPT ![0] = left] EXCEPT ![1] = right] = chi
  BY <1>1, <1>2, <1>3
<1>6. PICK r0, r1, r2, r3, c1 :
         /\ r0 = Alloc(leaf, NULL)
         /\ r1 = [r0 EXCEPT !.key[0] = k]
         /\ r2 = [r1 EXCEPT !.chi[0] = left]
         /\ r3 = [r2 EXCEPT !.chi[1] = right]
         /\ c1 = [b EXCEPT ![0] = left]
  OBVIOUS
<1>7. r0 = [isLeaf |-> leaf, nkey |-> n, key |-> a, chi |-> b, high_key |-> n,
            right_link |-> NULL, parent |-> NULL]
  BY <1>2, <1>6, AllocIs, Zenon
<1>8. r1 = [isLeaf |-> leaf, nkey |-> n, key |-> key, chi |-> b, high_key |-> n,
            right_link |-> NULL, parent |-> NULL]
  <2>1. r1 = [r0 EXCEPT !.key[0] = k]
    BY <1>6
  <2> QED BY <1>4, <1>7, <2>1
<1>9. r2 = [isLeaf |-> leaf, nkey |-> n, key |-> key, chi |-> c1, high_key |-> n,
            right_link |-> NULL, parent |-> NULL]
  <2>1. r2 = [r1 EXCEPT !.chi[0] = left] /\ c1 = [b EXCEPT ![0] = left]
    BY <1>6
  <2> QED BY <1>8, <2>1
<1>10. r3 = [isLeaf |-> leaf, nkey |-> n, key |-> key, chi |-> chi, high_key |-> n,
             right_link |-> NULL, parent |-> NULL]
  <2>1. r3 = [r2 EXCEPT !.chi[1] = right] /\ c1 = [b EXCEPT ![0] = left]
    BY <1>6
  <2>2. [c1 EXCEPT ![1] = right] = chi
    BY <1>5, <2>1
  <2> QED BY <1>9, <2>1, <2>2
<1>11. [r3 EXCEPT !.nkey = one]
          = [isLeaf |-> leaf, nkey |-> one, key |-> key, chi |-> chi, high_key |-> n,
             right_link |-> NULL, parent |-> NULL]
  BY <1>10, StoredField
<1>12. z = [r3 EXCEPT !.nkey = one]
  BY <1>2, <1>6, Zenon
<1>13. z = [isLeaf |-> FALSE, nkey |-> 1, key |-> key, chi |-> chi, high_key |-> 0,
             right_link |-> NULL, parent |-> NULL]
  BY <1>2, <1>11, <1>12, Zenon
<1> QED BY <1>1, <1>3, <1>13, Zenon DEF IsNewRoot

\* Both halves get the new root as their parent.
IsGrown(t, new, z) ==
    /\ new = Len(node) + 1 /\ new \in Nat /\ new # NULL
    /\ DOMAIN node' = DOMAIN node \cup {new} /\ new \notin DOMAIN node
    /\ Len(node') = new
    /\ node'[new] = z
    /\ IsNewRoot(z, lm_key[t], lc[t], rc[t])
    /\ \A p \in DOMAIN node :
         node'[p] = IF p \in {lc[t], rc[t]} THEN [node[p] EXCEPT !.parent = new] ELSE node[p]
    /\ node' \in [1 .. new -> {node'[p] : p \in DOMAIN node'}]

LEMMA GrowRootIs ==
    ASSUME TreeInv, NEW t \in Threads, GrowRoot(t)
    PROVE  \E new, z : IsGrown(t, new, z)
<1>w. PICK new : new = Len(node) + 1
  OBVIOUS
<1>0. /\ pc[t] = "up" /\ stores[t] = <<>> /\ lc[t] \in DOMAIN node /\ rc[t] \in DOMAIN node
      /\ locked' = Append(locked, Nobody)
      /\ pc' = [pc EXCEPT ![t] = "publish"]
      /\ UNCHANGED <<Key_vector, Root, ended, i, cur, nkey, kid, lc, rc, lm_key,
                     stores, early>>
  BY DEF TreeInv, PlaceInv, GrowRoot, At, Goto, Climbing
<1>k. lm_key[t] \in Nat
  BY DEF TreeInv, TypeOK
<1>z. PICK z : /\ IsNewRoot(z, lm_key[t], lc[t], rc[t])
               /\ node' = Append([node EXCEPT ![lc[t]].parent = new, ![rc[t]].parent = new], z)
  <2>1. PICK z : /\ z = [Alloc(FALSE, NULL) EXCEPT
                            !.key[0] = lm_key[t], !.chi[0] = lc[t], !.chi[1] = rc[t],
                            !.nkey = 1]
                 /\ node' = Append([node EXCEPT ![lc[t]].parent = new,
                                                ![rc[t]].parent = new], z)
    BY <1>w DEF GrowRoot
  <2>2. IsNewRoot(z, lm_key[t], lc[t], rc[t])
    <3>1. PICK k, left, right : k = lm_key[t] /\ left = lc[t] /\ right = rc[t]
      OBVIOUS
    <3>2. z = [Alloc(FALSE, NULL) EXCEPT
                  !.key[0] = k, !.chi[0] = left, !.chi[1] = right, !.nkey = 1]
      BY <2>1, <3>1, Zenon
    <3>3. IsNewRoot(z, k, left, right)
      BY <1>k, <3>1, <3>2, NewRootIs, Zenon
    <3> QED BY <3>1, <3>3, Zenon
  <2> QED BY <2>1, <2>2
<1>p. Len(node) \in Nat /\ new \in Nat /\ Len(node) <= new /\ new # NULL /\ DOMAIN node = 1 .. Len(node)
  BY <1>w, Addresses, Halves DEF TreeInv
<1> DEFINE one == [node EXCEPT ![lc[t]].parent = new]
           two == [one EXCEPT ![rc[t]].parent = new]
<1>t. two = [node EXCEPT ![lc[t]].parent = new, ![rc[t]].parent = new]
  OBVIOUS
<1>m. /\ DOMAIN two = DOMAIN node
      /\ \A p \in DOMAIN node :
           two[p] = IF p \in {lc[t], rc[t]} THEN [node[p] EXCEPT !.parent = new] ELSE node[p]
  <2>1. \A p \in DOMAIN node : node[p] \in NodeType
    BY NodeFields DEF TreeInv
  <2>2. /\ DOMAIN one = DOMAIN node
        /\ \A p \in DOMAIN node :
              one[p] = IF p = lc[t] THEN [node[p] EXCEPT !.parent = new] ELSE node[p]
    BY <1>0
  <2> HIDE DEF one
  <2>3. /\ DOMAIN two = DOMAIN node
        /\ \A p \in DOMAIN node :
              two[p] = IF p = rc[t] THEN [one[p] EXCEPT !.parent = new] ELSE one[p]
    BY <1>0, <2>2
  <2>4. \A p \in DOMAIN node : [[node[p] EXCEPT !.parent = new] EXCEPT !.parent = new]
                                 = [node[p] EXCEPT !.parent = new]
    BY <2>1 DEF NodeType
  <2> QED BY <2>2, <2>3, <2>4
<1> HIDE DEF two, one
<1>sq. /\ two \in [1 .. Len(node) -> {two[p] : p \in DOMAIN node}] /\ two \in Seq({two[p] : p \in DOMAIN node})
       /\ Len(two) = Len(node)
  <2>1. two = [p \in DOMAIN node |-> two[p]]
    <3> QED BY <1>m, <1>p DEF two
  <2>2. two \in [1 .. Len(node) -> {two[p] : p \in DOMAIN node}]
    BY <1>p, <2>1
  <2> QED BY <1>p, <2>2
<1>n. /\ DOMAIN node' = DOMAIN node \cup {new} /\ new \in DOMAIN node' /\ new \notin DOMAIN node
      /\ Len(node') = new
      /\ node'[new] = z
      /\ \A p \in DOMAIN node :
           node'[p] = IF p \in {lc[t], rc[t]} THEN [node[p] EXCEPT !.parent = new] ELSE node[p]
      /\ node' \in [1 .. new -> {node'[p] : p \in DOMAIN node'}]
  <2>1. node' = Append(two, z)
    BY <1>z, <1>t
  <2>2. PICK S : S = {two[p] : p \in DOMAIN node} \cup {z}
    OBVIOUS
  <2>3. two \in Seq(S) /\ z \in S
    BY <1>sq, <2>2, SeqMonotonic
  <2>4. /\ Len(node') = new /\ node' \in Seq(S) /\ DOMAIN node' = 1 .. new
        /\ node'[new] = z /\ \A p \in 1 .. Len(node) : node'[p] = two[p]
    BY <1>p, <1>w, <1>sq, <2>1, <2>3
  <2>5. DOMAIN node' = DOMAIN node \cup {new} /\ new \in DOMAIN node' /\ new \notin DOMAIN node
    BY <1>p, <1>w, <2>4
  <2>6. node' \in [1 .. new -> {node'[p] : p \in DOMAIN node'}]
    BY <2>4
  <2> QED BY <1>m, <1>p, <2>4, <2>5, <2>6
<1>8. IsGrown(t, new, z)
  BY <1>w, <1>z, <1>n, <1>p DEF IsGrown
<1> QED BY <1>8

LEMMA GrowRootKeeps ==
    ASSUME TreeInv, NEW t \in Threads, GrowRoot(t)
    PROVE  TreeInv'
<1>0. /\ pc[t] = "up" /\ stores[t] = <<>> /\ lc[t] \in DOMAIN node /\ rc[t] \in DOMAIN node
      /\ locked' = Append(locked, Nobody)
      /\ pc' = [pc EXCEPT ![t] = "publish"]
      /\ UNCHANGED <<Key_vector, Root, ended, i, cur, nkey, kid, lc, rc, lm_key,
                     stores, early>>
  BY DEF TreeInv, PlaceInv, GrowRoot, At, Goto, Climbing
<1>k. lm_key[t] \in Nat
  BY DEF TreeInv, TypeOK
<1>w. PICK new, z : IsGrown(t, new, z) /\ new = Len(node) + 1
  BY GrowRootIs DEF IsGrown
<1>z. PICK key, chi :
        /\ z = [isLeaf |-> FALSE, nkey |-> 1, key |-> key, chi |-> chi,
                high_key |-> 0, right_link |-> NULL, parent |-> NULL]
        /\ key = [s \in Slots |-> IF s = 0 THEN lm_key[t] ELSE 0]
        /\ chi = [s \in ChiSlots |-> IF s = 0 THEN lc[t] ELSE IF s = 1 THEN rc[t] ELSE NULL]
        /\ 0 \in ChiSlots /\ 1 \in ChiSlots
  <2>1. IsNewRoot(z, lm_key[t], lc[t], rc[t])
    BY <1>w DEF IsGrown
  <2> QED BY <2>1, Zenon DEF IsNewRoot
<1>p. Len(node) \in Nat /\ new \in Nat /\ Len(node) <= new /\ new # NULL /\ DOMAIN node = 1 .. Len(node)
  BY <1>w, Addresses, Halves DEF TreeInv
<1>n. /\ DOMAIN node' = DOMAIN node \cup {new} /\ new \in DOMAIN node' /\ new \notin DOMAIN node
      /\ Len(node') = new
      /\ node'[new] = z
      /\ \A p \in DOMAIN node :
           node'[p] = IF p \in {lc[t], rc[t]} THEN [node[p] EXCEPT !.parent = new] ELSE node[p]
      /\ node' \in [1 .. new -> {node'[p] : p \in DOMAIN node'}]
  BY <1>w DEF IsGrown
<1>ptr. Pointers \subseteq Pointers' /\ new \in Pointers' /\ NULL \in Pointers' /\ NodeType \subseteq NodeType'
        /\ StoreType \subseteq StoreType'
  <2>1. /\ Pointers \subseteq Pointers' /\ NodeType \subseteq NodeType'
        /\ StoreType \subseteq StoreType'
    BY <1>n, <1>p, MorePointers DEF TreeInv
  <2>2. Pointers' = 0 .. new
    BY <1>n, Halves DEF Pointers
  <2> QED BY <1>p, <2>1, <2>2, Halves
<1>ty. node' \in Seq(NodeType')
  <2>1. z \in NodeType'
    <3>1. key \in [Slots -> Nat]
      BY <1>z, <1>k
    <3>2. chi \in [ChiSlots -> Pointers']
      BY <1>0, <1>z, <1>ptr, Addresses DEF TreeInv
    <3>3. 1 \in 0 .. N - 1
      BY Halves
    <3> QED BY <1>z, <1>ptr, <3>1, <3>2, <3>3 DEF NodeType
  <2>2. ASSUME NEW p \in DOMAIN node PROVE node'[p] \in NodeType'
    <3>1. node[p] \in NodeType'
      BY <1>ptr, NodeFields DEF TreeInv
    <3>2. [node[p] EXCEPT !.parent = new] \in NodeType'
      BY <1>ptr, <3>1 DEF NodeType
    <3> QED BY <1>n, <3>1, <3>2
  <2>3. \A p \in DOMAIN node' : node'[p] \in NodeType'
    BY <1>n, <2>1, <2>2
  <2>4. node' \in [1 .. new -> NodeType'] /\ new \in Nat
    BY <1>n, <1>p, <2>3
  <2> QED BY <2>4
<1>f. \A p \in DOMAIN node :
         /\ node'[p].isLeaf = node[p].isLeaf /\ node'[p].chi = node[p].chi
         /\ node'[p].nkey = node[p].nkey /\ node'[p].right_link = node[p].right_link
         /\ node'[p].parent = IF p \in {lc[t], rc[t]} THEN new ELSE node[p].parent
  <2>1. ASSUME NEW p \in DOMAIN node
        PROVE  LET y == [node[p] EXCEPT !.parent = new]
               IN  /\ y.isLeaf = node[p].isLeaf /\ y.chi = node[p].chi
                   /\ y.nkey = node[p].nkey /\ y.right_link = node[p].right_link
                   /\ y.parent = new
    <3>1. node[p] \in NodeType
      BY NodeFields DEF TreeInv
    <3> QED BY <3>1 DEF NodeType
  <2>2. ASSUME NEW p \in DOMAIN node, p \in {lc[t], rc[t]}
        PROVE  node'[p] = [node[p] EXCEPT !.parent = new]
    BY <1>n, <2>2
  <2>3. ASSUME NEW p \in DOMAIN node, p \notin {lc[t], rc[t]}
        PROVE  node'[p] = node[p]
    BY <1>n, <2>3
  <2> QED BY <2>1, <2>2, <2>3
<1>g. Grows
  BY <1>f, <1>n, <1>p DEF Grows
<1>2. \A u \in Threads \ {t} : Locals(u)' = Locals(u)
  BY <1>0 DEF TreeInv, TypeOK, Locals
<1>3. pc'[t] = "publish" /\ lc'[t] = lc[t] /\ rc'[t] = rc[t] /\ cur'[t] = cur[t] /\ stores'[t] = <<>>
  BY <1>0 DEF TreeInv, TypeOK
<1>4. LocksAreHeld' /\ locked' \in Seq(Threads \cup {Nobody}) /\ Len(locked') = Len(locked) + 1
  <2>1. \A p \in DOMAIN node' : Holds(t, p)' <=> Holds(t, p)
    BY <1>0, <1>3 DEF Holds
  <2> QED BY <1>0, <1>2, <1>n, <2>1, <1>w, LocksMore
<1>1. TypeOK'
  <2>1. pc' \in [Threads -> Places]
    BY <1>0 DEF TreeInv, TypeOK, Places
  <2>2. /\ cur' \in [Threads -> Pointers'] /\ lc' \in [Threads -> Pointers']
        /\ rc' \in [Threads -> Pointers']
    BY <1>0, <1>ptr DEF TreeInv, TypeOK
  <2>5. stores' \in [Threads -> Seq(StoreType')]
    <3>1. \A u \in Threads : stores[u] \in Seq(StoreType')
      BY <1>ptr, StoresAre, SeqMonotonic DEF TreeInv
    <3>2. stores' = [u \in Threads |-> stores[u]]
      BY <1>0 DEF TreeInv, TypeOK
    <3> QED BY <3>1, <3>2
  <2>6. Root' \in DOMAIN node' /\ Len(locked') = Len(node')
    BY <1>0, <1>n, <1>w, <1>4 DEF TreeInv, TypeOK
  <2> QED BY <1>0, <1>ty, <1>4, <2>1, <2>2, <2>5, <2>6 DEF TreeInv, TypeOK, range
<1>5. NodeInv'
  <2>1. Internal(new)'
    BY <1>n, <1>z DEF Internal
  <2>2. ASSUME NEW p \in DOMAIN node, p \notin {lc[t], rc[t]} PROVE NodeOK(p)'
    BY <1>f, <1>g, <2>2, NodeStaysOK DEF TreeInv
  <2>3. ASSUME NEW p \in {lc[t], rc[t]} PROVE NodeOK(p)'
    <3>1. PICK r : r = node[p].right_link
      OBVIOUS
    <3>2. NodeOK(p) /\ p \in DOMAIN node
      BY <1>0 DEF TreeInv, NodeInv
    <3>3. r # NULL => r \in DOMAIN node
      BY <3>1, <3>2, NodeFields, Addresses DEF TreeInv
    <3>4. r # NULL => (node'[r].isLeaf <=> node'[p].isLeaf)
      BY <1>g, <3>1, <3>2, <3>3 DEF NodeOK, Grows
    <3>5. ~node'[p].isLeaf => \A s \in 0 .. node'[p].nkey : node'[p].chi[s] # NULL
      BY <1>f, <1>g, <3>2 DEF NodeOK, Grows
    <3>6. node'[p].parent = new /\ node'[p].right_link = r
      BY <1>f, <3>1, <3>2
    <3> QED BY <2>1, <3>4, <3>5, <3>6 DEF NodeOK
  <2>4. NodeOK(new)'
    <3>1. chi[0] # NULL /\ chi[1] # NULL
      BY <1>0, <1>z, Addresses DEF TreeInv
    <3> QED BY <1>n, <1>z, <3>1 DEF NodeOK
  <2> QED BY <1>n, <2>2, <2>3, <2>4 DEF NodeInv
<1>6. PlaceInv(t)'
  <2>1. i'[t] <= range'
    BY <1>0 DEF TreeInv, PlaceInv, range
  <2>2. lc'[t] \in DOMAIN node' /\ rc'[t] \in DOMAIN node' /\ node'[lc'[t]].parent # NULL
    BY <1>0, <1>3, <1>n, <1>f, <1>p
  <2> QED BY <1>3, <2>1, <2>2 DEF PlaceInv
<1>7. StoreInv(t)'
  BY <1>3 DEF StoreInv, ChildrenFirst
<1> QED BY <1>0, <1>1, <1>2, <1>4, <1>5, <1>6, <1>7, <1>g, StoringKeeps

-----------------------------------------------------------------------------
(* The queues of stores *)

\* The stores of a shift: each slot from low to top, its child behind it.
Copies(p, top, low, chi, key) ==
    {PutAt(p, "chi", s + 1, chi[s + 1]) : s \in low .. top}
        \cup {PutAt(p, "key", s, key[s]) : s \in low .. top}

Has(q, st) == \E j \in DOMAIN q : q[j] = st

IsCopyDown(q, p, top, low, chi, key) ==
    /\ q \in Seq(Copies(p, top, low, chi, key))
    /\ low <= top => Len(q) >= 1 /\ q[1] = PutAt(p, "chi", top + 1, chi[top + 1])
    /\ low > top => Len(q) = 0
    /\ \A s \in low .. top : Has(q, PutAt(p, "key", s, key[s]))

LEMMA CopyDownIs ==
    ASSUME NEW p, NEW top \in Int, NEW low \in Nat, low <= top + 1, NEW chi, NEW key
    PROVE  IsCopyDown(CopyDown(p, top, low, chi, key), p, top, low, chi, key)
<1> DEFINE n == 2 * (top - low + 1)
           at(j) == top - ((j - 1) \div 2)
           store(j) == IF j % 2 = 1 THEN PutAt(p, "chi", at(j) + 1, chi[at(j) + 1])
                                    ELSE PutAt(p, "key", at(j), key[at(j)])
           S == Copies(p, top, low, chi, key)
<1>0. PICK q : q = CopyDown(p, top, low, chi, key)
  OBVIOUS
<1>1. n \in Nat /\ (low <= top <=> n >= 1) /\ (low > top <=> n = 0)
  OBVIOUS
<1>2. q = [j \in 1 .. n |-> store(j)]
  BY <1>0 DEF CopyDown
<1>3. ASSUME NEW j \in 1 .. n PROVE at(j) \in low .. top
  <2>1. j \in Nat /\ 1 <= j /\ j <= 2 * (top - low + 1)
    BY <1>1
  <2>2. PICK h \in Int : h = (j - 1) \div 2
    BY <2>1
  <2>3. 2 * h <= j - 1 /\ j - 1 < 2 * h + 2
    BY <2>1, <2>2
  <2> QED BY <2>1, <2>2, <2>3
<1>4. ASSUME NEW j \in 1 .. n PROVE store(j) \in S
  BY <1>3 DEF Copies
<1>5. at(1) = top /\ 1 % 2 = 1
  OBVIOUS
<1>6. ASSUME NEW s \in low .. top
      PROVE  \E j \in 1 .. n : store(j) = PutAt(p, "key", s, key[s])
  <2>1. PICK j \in Int : j = 2 * (top - s) + 2
    OBVIOUS
  <2>2. j \in 1 .. n /\ j % 2 = 0 /\ ~(j % 2 = 1)
    BY <2>1
  <2>3. (j - 1) \div 2 = top - s
    BY <2>1
  <2>4. at(j) = s
    BY <2>3
  <2> HIDE DEF at, n
  <2> QED BY <2>2, <2>4
<1>7. store(1) = PutAt(p, "chi", top + 1, chi[top + 1])
  BY <1>5
<1> HIDE DEF n, store, S
<1>8. DOMAIN q = 1 .. n /\ \A j \in 1 .. n : q[j] = store(j)
  BY <1>2
<1>9. q \in [1 .. n -> S]
  BY <1>2, <1>4
<1>10. q \in Seq(S) /\ Len(q) = n
  BY <1>1, <1>9
<1>11. low <= top => Len(q) >= 1 /\ q[1] = PutAt(p, "chi", top + 1, chi[top + 1])
  BY <1>1, <1>7, <1>8, <1>10
<1>12. \A s \in low .. top : Has(q, PutAt(p, "key", s, key[s]))
  BY <1>6, <1>8 DEF Has
<1>13. IsCopyDown(q, p, top, low, chi, key)
  BY <1>1, <1>10, <1>11, <1>12 DEF S, IsCopyDown
<1> QED BY <1>0, <1>13

LEMMA HasConcat ==
    ASSUME NEW S, NEW q \in Seq(S), NEW r \in Seq(S), NEW st, Has(q, st) \/ Has(r, st)
    PROVE  Has(q \o r, st)
<1>1. /\ Len(q) \in Nat /\ Len(r) \in Nat /\ DOMAIN q = 1 .. Len(q) /\ DOMAIN r = 1 .. Len(r)
      /\ DOMAIN (q \o r) = 1 .. Len(q) + Len(r)
  OBVIOUS
<1>2. CASE Has(q, st)
  <2>1. PICK j \in 1 .. Len(q) : q[j] = st
    BY <1>1, <1>2 DEF Has
  <2>2. j \in DOMAIN (q \o r) /\ (q \o r)[j] = st
    BY <1>1, <2>1
  <2> QED BY <2>2 DEF Has
<1>3. CASE Has(r, st)
  <2>1. PICK j \in 1 .. Len(r) : r[j] = st
    BY <1>1, <1>3 DEF Has
  <2>2. Len(q) + j \in DOMAIN (q \o r) /\ (q \o r)[Len(q) + j] = st
    BY <1>1, <2>1
  <2> QED BY <2>2 DEF Has
<1> QED BY <1>2, <1>3

\* What finalize_parent and the split of a parent put in the arrays.
NewKeys(x, k) == InsertAt(x.key, Slots, x.nkey, SlotOf(x, k), k)
NewChildren(x, k, c) == InsertAt(x.chi, ChiSlots, x.nkey + 1, SlotOf(x, k) + 1, c)

\* The stores of finalize_parent: the new keys and children from the slot of
\* the separator on, the last child first, and at the end nkey.
IsAdding(q, p, n, s, chi, key) ==
    /\ q \in Seq(Copies(p, n, s, chi, key) \cup {Put(p, "nkey", n + 1)})
    /\ Len(q) >= 3
    /\ q[1] = PutAt(p, "chi", n + 1, chi[n + 1])
    /\ \A j \in 1 .. Len(q) - 1 : q[j] \in Copies(p, n, s, chi, key)
    /\ q[Len(q)] = Put(p, "nkey", n + 1)
    /\ \A m \in s .. n : Has(q, PutAt(p, "key", m, key[m]))

LEMMA FinalizeParentIs ==
    ASSUME TypeOK, NEW p \in DOMAIN node, NEW x \in NodeType, x = node[p],
           x.nkey < N - 1, NEW c, NEW k \in Nat
    PROVE  IsAdding(FinalizeParent(p, c, k), p, x.nkey, SlotOf(x, k),
                    NewChildren(x, k, c), NewKeys(x, k))
<1>1. PICK n, s, key, chi :
          /\ n \in Nat /\ s \in Nat /\ n = x.nkey /\ s = SlotOf(x, k)
          /\ key = NewKeys(x, k) /\ chi = NewChildren(x, k, c)
          /\ s <= n /\ n <= N - 2
  <2>1. x.nkey \in Nat /\ x.nkey \in 0 .. N - 1 /\ SlotOf(x, k) \in 0 .. x.nkey
    BY NodeTypeIs, SlotOfType
  <2>2. x.nkey <= N - 2
    BY <2>1, Halves
  <2> QED BY <2>1, <2>2
<1>2. PICK A, B1, b2, Q, q :
          /\ A = CopyDown(p, n, s + 1, chi, key)
          /\ B1 = <<PutAt(p, "chi", s + 1, c), PutAt(p, "key", s, k)>>
          /\ b2 = Put(p, "nkey", n + 1)
          /\ Q = A \o B1
          /\ q = A \o <<PutAt(p, "chi", s + 1, c), PutAt(p, "key", s, k), b2>>
  OBVIOUS
<1>3. q = FinalizeParent(p, c, k)
  BY <1>1, <1>2 DEF FinalizeParent, NewKeys, NewChildren
<1>4. chi[s + 1] = c /\ key[s] = k
  <2>1. s \in Slots /\ s + 1 \in ChiSlots /\ s \in Nat /\ s + 1 \in Nat /\ n + 1 \in Nat
        /\ Slots \in SUBSET Nat /\ ChiSlots \in SUBSET Nat
    BY <1>1, Halves
  <2>2. chi = InsertAt(x.chi, ChiSlots, n + 1, s + 1, c)
    BY <1>1 DEF NewChildren
  <2>3. key = InsertAt(x.key, Slots, n, s, k)
    BY <1>1 DEF NewKeys
  <2>4. chi[s + 1] = c
    <3>1. PICK a, b \in Nat : a = s + 1 /\ b = n + 1
      BY <2>1
    <3>2. chi = InsertAt(x.chi, ChiSlots, b, a, c)
      BY <2>2, <3>1, Zenon
    <3>3. InsertAt(x.chi, ChiSlots, b, a, c)[a] = c
      BY <2>1, <3>1 DEF InsertAt
    <3> QED BY <3>1, <3>2, <3>3
  <2>5. key[s] = k
    BY <2>1, <2>3 DEF InsertAt
  <2> QED BY <2>4, <2>5
<1> DEFINE C == Copies(p, n, s, chi, key)
<1>5. /\ A \in Seq(Copies(p, n, s + 1, chi, key))
      /\ s + 1 <= n => Len(A) >= 1 /\ A[1] = PutAt(p, "chi", n + 1, chi[n + 1])
      /\ s + 1 > n => Len(A) = 0
      /\ \A m \in s + 1 .. n : Has(A, PutAt(p, "key", m, key[m]))
  <2>1. PICK low \in Nat : low = s + 1 /\ n \in Int /\ low <= n + 1
    BY <1>1
  <2>2. A = CopyDown(p, n, low, chi, key)
    BY <1>2, <2>1, Zenon
  <2>3. IsCopyDown(A, p, n, low, chi, key)
    BY <2>1, <2>2, CopyDownIs
  <2> QED BY <2>1, <2>3, Zenon DEF IsCopyDown
<1>6. Copies(p, n, s + 1, chi, key) \subseteq C
  BY <1>1 DEF Copies
<1>7. A \in Seq(C)
  BY <1>5, <1>6, SeqMonotonic
<1>8. PutAt(p, "chi", s + 1, c) \in C /\ PutAt(p, "key", s, k) \in C
  <2>1. s \in s .. n
    BY <1>1
  <2> QED BY <1>4, <2>1 DEF Copies
<1> HIDE DEF C
<1>9. B1 \in Seq(C) /\ Len(B1) = 2 /\ B1[1] = PutAt(p, "chi", s + 1, c) /\ B1[2] = PutAt(p, "key", s, k)
  BY <1>2, <1>8
<1>10. /\ Q \in Seq(C) /\ Len(A) \in Nat /\ Len(Q) = Len(A) + 2
       /\ \A j \in 1 .. Len(A) : Q[j] = A[j]
       /\ Q[Len(A) + 1] = B1[1]
  BY <1>2, <1>7, <1>9
<1>11. q = Append(Q, b2)
  BY <1>2, <1>7, <1>10
<1>12. /\ Len(q) = Len(A) + 3 /\ DOMAIN q = 1 .. Len(A) + 3
       /\ \A j \in 1 .. Len(A) + 2 : q[j] = Q[j]
       /\ q[Len(q)] = b2
  BY <1>10, <1>11
<1>13. q[1] = PutAt(p, "chi", n + 1, chi[n + 1])
  <2>1. CASE s + 1 <= n
    BY <1>5, <1>10, <1>12, <2>1
  <2>2. CASE s + 1 > n
    <3>1. Len(A) = 0 /\ s = n
      BY <1>1, <1>5, <2>2
    <3> QED BY <1>4, <1>9, <1>10, <1>12, <3>1
  <2> QED BY <1>1, <2>1, <2>2
<1>14. \A j \in 1 .. Len(q) - 1 : q[j] \in C
  BY <1>10, <1>12
<1>S. PICK S : S = C \cup {b2}
  OBVIOUS
<1>T. Q \in Seq(S) /\ <<b2>> \in Seq(S) /\ q = Q \o <<b2>> /\ q \in Seq(S)
  <2>1. Q \in Seq(S)
    BY <1>10, <1>S, SeqMonotonic
  <2>2. q = Q \o <<b2>>
    BY <1>10, <1>11
  <2> QED BY <1>S, <2>1, <2>2
<1>15. ASSUME NEW m \in s .. n PROVE Has(q, PutAt(p, "key", m, key[m]))
  <2>3. Has(Q, PutAt(p, "key", m, key[m]))
    <3>1. CASE m = s
      <4>1. Has(B1, PutAt(p, "key", m, key[m]))
        BY <1>4, <1>9, <3>1 DEF Has
      <4>2. Q = A \o B1
        BY <1>2
      <4> QED BY <1>7, <1>9, <4>1, <4>2, HasConcat, Zenon
    <3>2. CASE m # s
      <4>1. m \in s + 1 .. n
        BY <1>1, <3>2
      <4>2. Has(A, PutAt(p, "key", m, key[m]))
        BY <1>5, <4>1
      <4>3. Q = A \o B1
        BY <1>2
      <4> QED BY <1>7, <1>9, <4>2, <4>3, HasConcat, Zenon
    <3> QED BY <3>1, <3>2
  <2> QED BY <1>T, <2>3, HasConcat
<1>16. IsAdding(q, p, n, s, chi, key)
  <2>1. q \in Seq(C \cup {Put(p, "nkey", n + 1)}) /\ Len(q) >= 3
    BY <1>2, <1>10, <1>12, <1>S, <1>T
  <2>2. q[Len(q)] = Put(p, "nkey", n + 1)
    BY <1>2, <1>12
  <2> QED BY <1>13, <1>14, <1>15, <2>1, <2>2 DEF IsAdding, C
<1> QED BY <1>1, <1>3, <1>16

LEMMA CopiesAre ==
    ASSUME TypeOK, NEW p \in DOMAIN node, NEW low \in Nat, NEW top \in Int, top <= N - 2,
           NEW chi, NEW key,
           \A m \in low .. top : chi[m + 1] \in DOMAIN node /\ key[m] \in Nat,
           NEW st \in Copies(p, top, low, chi, key)
    PROVE  /\ st \in StoreType /\ st.to = p
           /\ \/ st.field = "chi" /\ st.value \in DOMAIN node
              \/ st.field = "key" /\ st.slot \in Slots
<1>1. PICK m \in low .. top : \/ st = PutAt(p, "chi", m + 1, chi[m + 1])
                              \/ st = PutAt(p, "key", m, key[m])
  BY DEF Copies
<1>2. m \in Slots /\ m \in ChiSlots /\ m + 1 \in ChiSlots
  BY Halves
<1>3. chi[m + 1] \in DOMAIN node /\ key[m] \in Nat /\ chi[m + 1] \in Nat
  BY Addresses
<1>4. p \in Pointers \ {NULL}
  BY Addresses
<1>5. CASE st = PutAt(p, "chi", m + 1, chi[m + 1])
  BY <1>2, <1>3, <1>4, <1>5 DEF PutAt, StoreType
<1>6. CASE st = PutAt(p, "key", m, key[m])
  BY <1>2, <1>3, <1>4, <1>6 DEF PutAt, StoreType
<1> QED BY <1>1, <1>5, <1>6

\* The children of a node with room, with one inserted.
LEMMA NewChildrenAre ==
    ASSUME TypeOK, NEW x \in NodeType, x.nkey < N - 1, NEW c \in DOMAIN node, NEW k \in Nat,
           \A s \in 0 .. x.nkey : x.chi[s] # NULL
    PROVE  \A s \in 0 .. x.nkey + 1 : NewChildren(x, k, c)[s] \in DOMAIN node
<1>1. x.nkey \in Nat /\ x.nkey + 1 \in Nat /\ SlotOf(x, k) + 1 \in Nat /\ x.nkey <= N - 2
  <2>1. x.nkey \in 0 .. N - 1 /\ SlotOf(x, k) \in 0 .. x.nkey
    BY NodeTypeIs, SlotOfType
  <2> QED BY <2>1, Halves
<1>2. \A s \in 0 .. x.nkey : x.chi[s] \in DOMAIN node
  <2>1. \A s \in 0 .. x.nkey : s \in ChiSlots
    BY <1>1, Halves
  <2> QED BY <2>1, NodeTypeIs, Addresses
<1>3. ChiSlots \in SUBSET Nat
  BY Halves
<1>4. ASSUME NEW s \in 0 .. x.nkey + 1 PROVE NewChildren(x, k, c)[s] \in DOMAIN node
  <2>1. s \in ChiSlots /\ s \in Nat /\ s <= x.nkey + 1
    BY <1>1, Halves
  <2>2. PICK p \in Nat, n \in Nat : p = SlotOf(x, k) + 1 /\ n = x.nkey + 1
    BY <1>1
  <2>3. NewChildren(x, k, c) = InsertAt(x.chi, ChiSlots, n, p, c)
    BY <2>2 DEF NewChildren
  <2>4. SlotOf(x, k) \in 0 .. x.nkey
    BY SlotOfType
  <2>5. CASE s < p
    BY <1>1, <1>2, <1>3, <2>1, <2>2, <2>3, <2>4, <2>5, InsertAtIs
  <2>6. CASE s = p
    BY <1>3, <2>1, <2>3, <2>6, InsertAtIs
  <2>7. CASE s > p
    <3>1. s - 1 \in 0 .. x.nkey
      BY <1>1, <2>1, <2>2, <2>7
    <3>2. NewChildren(x, k, c)[s] = x.chi[s - 1]
      BY <1>3, <2>1, <2>2, <2>3, <2>7, InsertAtIs
    <3> QED BY <1>2, <3>1, <3>2
  <2> QED BY <2>1, <2>2, <2>5, <2>6, <2>7
<1> QED BY <1>4

LEMMA NewKeysAre ==
    ASSUME TypeOK, NEW x \in NodeType, NEW k \in Nat
    PROVE  NewKeys(x, k) \in [Slots -> Nat]
  BY KeyInsertType DEF NewKeys

LEMMA AddToParentKeeps ==
    ASSUME TreeInv, NEW t \in Threads, AddToParent(t)
    PROVE  TreeInv'
<1>0. /\ pc[t] = "parent" /\ Internal(cur[t]) /\ cur[t] \in DOMAIN node
      /\ rc[t] \in DOMAIN node /\ lc[t] \in DOMAIN node /\ cur[t] # lc[t]
      /\ i[t] <= range
      /\ node[cur[t]].nkey < N - 1
      /\ stores' = [stores EXCEPT ![t] = FinalizeParent(cur[t], rc[t], lm_key[t])]
      /\ pc' = [pc EXCEPT ![t] = "added"]
      /\ UNCHANGED <<Key_vector, Root, node, locked, ended, i, cur, nkey, kid,
                     lc, rc, lm_key, early>>
  BY DEF TreeInv, PlaceInv, AddToParent, At, Goto, Climbing, Internal
<1>1. PICK p \in DOMAIN node, x \in NodeType, k \in Nat, c \in DOMAIN node :
          p = cur[t] /\ x = node[p] /\ k = lm_key[t] /\ c = rc[t] /\ x.nkey < N - 1
  BY <1>0, NodeFields DEF TreeInv, TypeOK
<1>2. PICK n, s, chi, key, q :
          /\ n \in Nat /\ s \in Nat /\ n = x.nkey /\ s = SlotOf(x, k) /\ s <= n /\ n <= N - 2
          /\ chi = NewChildren(x, k, c) /\ key = NewKeys(x, k)
          /\ q = FinalizeParent(p, c, k)
  <2>1. x.nkey \in Nat /\ x.nkey \in 0 .. N - 1 /\ SlotOf(x, k) \in 0 .. x.nkey
    BY NodeTypeIs, SlotOfType DEF TreeInv
  <2>2. x.nkey <= N - 2
    BY <1>1, <2>1, Halves
  <2> QED BY <2>1, <2>2
<1>3. IsAdding(q, p, n, s, chi, key)
  BY <1>1, <1>2, FinalizeParentIs DEF TreeInv
<1>4. \A m \in 0 .. n : x.chi[m] # NULL
  BY <1>0, <1>1, <1>2 DEF TreeInv, NodeInv, NodeOK, Internal
<1>5. \A m \in 0 .. n + 1 : chi[m] \in DOMAIN node
  BY <1>1, <1>2, <1>4, NewChildrenAre DEF TreeInv
<1>6. \A m \in s .. n : chi[m + 1] \in DOMAIN node /\ key[m] \in Nat
  <2>1. key \in [Slots -> Nat]
    BY <1>2, NewKeysAre DEF TreeInv
  <2>2. ASSUME NEW m \in s .. n PROVE m + 1 \in 0 .. n + 1 /\ m \in Slots
    BY <1>2, Halves
  <2> QED BY <1>5, <2>1, <2>2
<1>7. ASSUME NEW st \in Copies(p, n, s, chi, key)
      PROVE  /\ st \in StoreType /\ st.to = p
             /\ \/ st.field = "chi" /\ st.value \in DOMAIN node
                \/ st.field = "key" /\ st.slot \in Slots
  BY <1>2, <1>6, CopiesAre DEF TreeInv
<1>8. PICK last : last = Put(p, "nkey", n + 1)
  OBVIOUS
<1>9. /\ last \in StoreType /\ last.to = p /\ last.field = "nkey" /\ last.value = n + 1
      /\ last.value \in 0 .. N - 1
  <2>1. p \in Pointers \ {NULL} /\ NULL \in ChiSlots /\ n + 1 \in Nat /\ n + 1 \in 0 .. N - 1
    BY <1>2, Addresses, Halves DEF TreeInv
  <2> QED BY <1>8, <2>1 DEF Put, StoreType
<1>10. /\ Len(q) \in Nat /\ Len(q) >= 3 /\ DOMAIN q = 1 .. Len(q)
       /\ \A j \in 1 .. Len(q) - 1 : q[j] \in Copies(p, n, s, chi, key)
       /\ q[Len(q)] = last /\ q[1] = PutAt(p, "chi", n + 1, chi[n + 1])
       /\ q \in Seq(Copies(p, n, s, chi, key) \cup {last})
  <2>1. q \in Seq(Copies(p, n, s, chi, key) \cup {last})
    BY <1>3, <1>8 DEF IsAdding
  <2>2. Len(q) \in Nat /\ DOMAIN q = 1 .. Len(q)
    BY <2>1
  <2> QED BY <1>3, <1>8, <2>1, <2>2 DEF IsAdding
<1>11. ASSUME NEW j \in DOMAIN q
       PROVE  q[j] \in Copies(p, n, s, chi, key) \/ q[j] = last
  <2>1. CASE j = Len(q)
    BY <1>10, <2>1
  <2>2. CASE j # Len(q)
    BY <1>10, <2>2
  <2> QED BY <2>1, <2>2
<1>12. q \in Seq(StoreType)
  <2>1. Copies(p, n, s, chi, key) \cup {last} \subseteq StoreType
    BY <1>7, <1>9
  <2> QED BY <1>10, <2>1, SeqMonotonic
<1>13. Grows
  BY <1>0, SameNodesGrow
<1>14. \A u \in Threads \ {t} : Locals(u)' = Locals(u)
  BY <1>0 DEF TreeInv, TypeOK, Locals
<1>15. pc'[t] = "added" /\ lc'[t] = lc[t] /\ rc'[t] = c /\ cur'[t] = p /\ stores'[t] = q
       /\ i'[t] = i[t] /\ range' = range
  BY <1>0, <1>1, <1>2 DEF TreeInv, TypeOK, range
<1>16. TypeOK'
  <2>1. pc' \in [Threads -> Places]
    BY <1>0 DEF TreeInv, TypeOK, Places
  <2>2. Pointers' = Pointers /\ StoreType' = StoreType /\ NodeType' = NodeType
    BY <1>0 DEF Pointers, StoreType, NodeType
  <2>3. stores' \in [Threads -> Seq(StoreType)]
    <3>1. stores' = [stores EXCEPT ![t] = q]
      BY <1>0, <1>1, <1>2
    <3> QED BY <1>12, <3>1 DEF TreeInv, TypeOK
  <2> QED BY <1>0, <1>15, <2>1, <2>2, <2>3 DEF TreeInv, TypeOK
<1>17. LocksAreHeld'
  <2>1. \A r \in DOMAIN node : Holds(t, r)' <=> Holds(t, r)
    BY <1>0, <1>1, <1>15 DEF Holds
  <2> QED BY <1>0, <1>14, <2>1, LocksSame DEF TreeInv
<1>18. NodeInv'
  BY <1>0 DEF TreeInv, NodeInv, NodeOK, Internal
<1>19. PlaceInv(t)'
  BY <1>0, <1>1, <1>15 DEF PlaceInv, Climbing, Internal
<1>20. StoreInv(t)'
  <2>1. ASSUME NEW j \in DOMAIN q PROVE GoodStore(t, q[j])'
    <3>1. CASE q[j] \in Copies(p, n, s, chi, key)
      <4>1. /\ q[j].to = p
            /\ \/ q[j].field = "chi" /\ q[j].value \in DOMAIN node
               \/ q[j].field = "key" /\ q[j].slot \in Slots
        BY <1>7, <3>1
      <4> QED BY <1>0, <1>15, <4>1 DEF GoodStore
    <3>2. CASE q[j] = last
      BY <1>9, <1>15, <3>2 DEF GoodStore
    <3> QED BY <1>11, <3>1, <3>2
  <2>2. ASSUME NEW j \in DOMAIN q, q[j].field = "nkey", NEW m \in 0 .. q[j].value
        PROVE  \/ node[q[j].to].chi[m] # NULL
               \/ \E h \in 1 .. j - 1 : q[h].field = "chi" /\ q[h].slot = m
    <3>1. q[j] = last
      BY <1>7, <1>11, <2>2
    <3>2. j = Len(q) \/ j < Len(q)
      BY <1>10
    <3>3. j = Len(q)
      <4>1. j < Len(q) => q[j] \in Copies(p, n, s, chi, key)
        BY <1>10
      <4> QED BY <1>7, <2>2, <3>2, <4>1
    <3>4. m \in 0 .. n \/ m = n + 1
      BY <1>2, <1>9, <3>1
    <3>5. CASE m \in 0 .. n
      BY <1>1, <1>4, <1>9, <3>1, <3>5
    <3>6. CASE m = n + 1
      <4>1. q[1].field = "chi" /\ q[1].slot = n + 1
        BY <1>10 DEF PutAt
      <4>2. 1 \in 1 .. j - 1
        <5>1. Len(q) >= 3
          BY <1>3 DEF IsAdding
        <5> QED BY <1>10, <3>3, <5>1
      <4> QED BY <3>6, <4>1, <4>2
    <3> QED BY <3>4, <3>5, <3>6
  <2>3. ChildrenFirst(q)'
    BY <1>0, <2>2 DEF ChildrenFirst
  <2> QED BY <1>15, <2>1, <2>3 DEF StoreInv, ChildrenFirst
<1> QED BY <1>0, <1>13, <1>14, <1>16, <1>17, <1>18, <1>19, <1>20, StoringKeeps

\* The stores of the split of the node p with the high key h and the right link
\* r, and those of them on which the keys of p depend.
SplitStores(p, right, chi, key, h, r) ==
    {Adopt(right, a) : a \in 0 .. N - H} \cup {Adopt(p, a) : a \in 0 .. H - 1}
        \cup Copies(p, H - 2, 0, chi, key)
        \cup {PutAt(p, "chi", 0, chi[0]), Put(p, "nkey", H - 1),
              Put(right, "high_key", h), Put(right, "right_link", r),
              Put(p, "high_key", key[H - 1]), Put(p, "right_link", right)}

IsSplitting(q, p, right, chi, key, h, r) ==
    /\ q \in Seq(SplitStores(p, right, chi, key, h, r))
    /\ \A m \in 0 .. H - 2 : Has(q, PutAt(p, "key", m, key[m]))
    /\ Has(q, Put(p, "nkey", H - 1))

LEMMA SplitParentIs ==
    ASSUME NEW p, NEW c, NEW k, NEW right, NEW x, x = node[p]
    PROVE  IsSplitting(SplitParent(p, c, k, right), p, right, TempChi(x, k, c),
                       TempKey(x, k), x.high_key, x.right_link)
<1>1. PICK chi, key, h, r :
          /\ chi = TempChi(x, k, c) /\ key = TempKey(x, k)
          /\ h = x.high_key /\ r = x.right_link
  OBVIOUS
<1>2. PICK S : S = SplitStores(p, right, chi, key, h, r)
  OBVIOUS
<1>3. PICK A, B, C, D, F, G :
          /\ A = [s \in 1 .. (N - H + 1) |-> Adopt(right, s - 1)]
          /\ B = <<Put(p, "nkey", H - 1)>>
          /\ C = CopyDown(p, H - 2, 0, chi, key)
          /\ D = <<PutAt(p, "chi", 0, chi[0])>>
          /\ F = [s \in 1 .. H |-> Adopt(p, s - 1)]
          /\ G = <<Put(right, "high_key", h), Put(right, "right_link", r),
                   Put(p, "high_key", key[H - 1]), Put(p, "right_link", right)>>
  OBVIOUS
<1>4. SplitParent(p, c, k, right) = A \o B \o C \o D \o F \o G
  BY <1>1, <1>3 DEF SplitParent
<1>5. A \in Seq(S)
  <2>1. PICK n \in Nat : n = N - H + 1
    BY Halves
  <2>2. ASSUME NEW s \in 1 .. n PROVE Adopt(right, s - 1) \in S
    <3>1. s - 1 \in 0 .. N - H
      BY <2>1, Halves
    <3> QED BY <1>2, <3>1 DEF SplitStores
  <2>3. A = [s \in 1 .. n |-> Adopt(right, s - 1)]
    BY <1>3, <2>1
  <2> QED BY <2>2, <2>3
<1>6. B \in Seq(S) /\ D \in Seq(S) /\ G \in Seq(S)
  BY <1>2, <1>3 DEF SplitStores
<1>7. C \in Seq(S) /\ \A m \in 0 .. H - 2 : Has(C, PutAt(p, "key", m, key[m]))
  <2>1. PICK top \in Int, low \in Nat : top = H - 2 /\ low = 0 /\ low <= top + 1
    BY Halves
  <2>2. C = CopyDown(p, top, low, chi, key)
    BY <1>3, <2>1
  <2>3. IsCopyDown(C, p, top, low, chi, key)
    BY <2>1, <2>2, CopyDownIs
  <2>4. C \in Seq(Copies(p, H - 2, 0, chi, key))
    BY <2>1, <2>3 DEF IsCopyDown
  <2>5. C \in Seq(S)
    BY <1>2, <2>4, SeqMonotonic DEF SplitStores
  <2> QED BY <2>1, <2>3, <2>5 DEF IsCopyDown
<1>8. F \in Seq(S)
  <2>1. H \in Nat
    BY Halves
  <2>2. ASSUME NEW s \in 1 .. H PROVE Adopt(p, s - 1) \in S
    <3>1. s - 1 \in 0 .. H - 1
      BY <2>1
    <3> QED BY <1>2, <3>1 DEF SplitStores
  <2> QED BY <1>3, <2>1, <2>2
<1>9. PICK q1, q2, q3, q4, q5 : /\ q1 = A \o B /\ q2 = q1 \o C /\ q3 = q2 \o D
                                /\ q4 = q3 \o F /\ q5 = q4 \o G
  OBVIOUS
<1>10. /\ q1 \in Seq(S) /\ q2 \in Seq(S) /\ q3 \in Seq(S) /\ q4 \in Seq(S) /\ q5 \in Seq(S)
  <2>1. q1 \in Seq(S)
    BY <1>5, <1>6, <1>9
  <2>2. q2 \in Seq(S)
    BY <1>7, <1>9, <2>1
  <2>3. q3 \in Seq(S)
    BY <1>6, <1>9, <2>2
  <2>4. q4 \in Seq(S)
    BY <1>8, <1>9, <2>3
  <2>5. q5 \in Seq(S)
    BY <1>6, <1>9, <2>4
  <2> QED BY <2>1, <2>2, <2>3, <2>4, <2>5
<1>11. ASSUME NEW st, Has(q2, st) PROVE Has(q5, st)
  <2>1. Has(q3, st)
    BY <1>6, <1>9, <1>10, <1>11, HasConcat
  <2>2. Has(q4, st)
    BY <1>8, <1>9, <1>10, <2>1, HasConcat
  <2> QED BY <1>6, <1>9, <1>10, <2>2, HasConcat
<1>12. ASSUME NEW m \in 0 .. H - 2 PROVE Has(q5, PutAt(p, "key", m, key[m]))
  <2>1. Has(q2, PutAt(p, "key", m, key[m]))
    <3>1. PICK st : st = PutAt(p, "key", m, key[m])
      OBVIOUS
    <3>2. Has(C, st) /\ q2 = q1 \o C /\ q1 \in Seq(S) /\ C \in Seq(S)
      BY <1>7, <1>9, <1>10, <3>1
    <3> QED BY <3>1, <3>2, HasConcat
  <2> QED BY <1>11, <2>1
<1>13. Has(q5, Put(p, "nkey", H - 1))
  <2>1. Has(B, Put(p, "nkey", H - 1))
    BY <1>3 DEF Has
  <2>2. Has(q1, Put(p, "nkey", H - 1))
    BY <1>5, <1>6, <1>9, <2>1, HasConcat
  <2>3. Has(q2, Put(p, "nkey", H - 1))
    <3>1. q2 = q1 \o C /\ q1 \in Seq(S) /\ C \in Seq(S)
      BY <1>7, <1>9, <1>10
    <3> QED BY <2>2, <3>1, HasConcat
  <2> QED BY <1>11, <2>3
<1>14. SplitParent(p, c, k, right) = q5
  BY <1>4, <1>9
<1> QED BY <1>1, <1>2, <1>10, <1>12, <1>13, <1>14 DEF IsSplitting

\* The children of a full node, with one inserted.
LEMMA TempChiType ==
    ASSUME TypeOK, NEW x \in NodeType, x.nkey = N - 1, NEW c \in DOMAIN node, NEW k \in Nat,
           \A s \in 0 .. x.nkey : x.chi[s] # NULL
    PROVE  TempChi(x, k, c) \in [0 .. N -> DOMAIN node]
<1>1. PICK m \in Nat, d \in Nat : m = N - 1 /\ d = N /\ d = m + 1 /\ ChiSlots = 0 .. m
  BY Halves
<1>2. x.chi \in [0 .. m -> DOMAIN node]
  <2>1. x.chi \in [0 .. m -> Pointers] /\ x.nkey = m
    BY <1>1, NodeTypeIs
  <2> QED BY <1>1, <2>1, Addresses
<1>3. SlotOf(x, k) \in 0 .. m
  BY <1>1, SlotOfType
<1>4. PICK p \in Nat : p = SlotOf(x, k) + 1 /\ p <= d
  BY <1>1, <1>3
<1>5. InsertAt(x.chi, 0 .. d, d, p, c) \in [0 .. d -> DOMAIN node]
  BY <1>1, <1>2, <1>4, InsertAtType
<1>6. TempChi(x, k, c) = InsertAt(x.chi, 0 .. d, d, p, c)
  BY <1>1, <1>4 DEF TempChi
<1> QED BY <1>1, <1>5, <1>6

\* The right half of a full internal node, with its keys and children.
IsRightHalf(z, x, k, c, key, chi) ==
    /\ key \in [Slots -> Nat] /\ chi \in [ChiSlots -> Pointers]
    /\ key = [s \in Slots |-> IF s < N - H THEN TempKey(x, k)[s + H] ELSE 0]
    /\ chi = [s \in ChiSlots |-> IF s <= N - H THEN TempChi(x, k, c)[s + H] ELSE NULL]
    /\ \A s \in 0 .. N - H : s \in ChiSlots /\ chi[s] \in DOMAIN node
    /\ z = [isLeaf |-> FALSE, nkey |-> N - H, key |-> key, chi |-> chi,
            high_key |-> 0, right_link |-> NULL, parent |-> x.parent]

LEMMA RightInternalIs ==
    ASSUME TypeOK, NEW x \in NodeType, x.nkey = N - 1, NEW c \in DOMAIN node, NEW k \in Nat,
           \A s \in 0 .. x.nkey : x.chi[s] # NULL
    PROVE  \E key, chi : IsRightHalf(RightInternal(x, k, c), x, k, c, key, chi)
<1> DEFINE key == [s \in Slots |-> IF s < N - H THEN TempKey(x, k)[s + H] ELSE 0]
           chi == [s \in ChiSlots |-> IF s <= N - H THEN TempChi(x, k, c)[s + H] ELSE NULL]
<1>1. TempKey(x, k) \in [0 .. N - 1 -> Nat]
  BY KeyInsertType
<1>2. TempChi(x, k, c) \in [0 .. N -> DOMAIN node]
  BY TempChiType
<1>3. key \in [Slots -> Nat]
  <2>1. ASSUME NEW s \in Slots, s < N - H PROVE TempKey(x, k)[s + H] \in Nat
    <3>1. s + H \in 0 .. N - 1
      BY <2>1, Halves
    <3> QED BY <1>1, <3>1
  <2> QED BY <2>1
<1>4. ASSUME NEW s \in ChiSlots, s <= N - H PROVE TempChi(x, k, c)[s + H] \in DOMAIN node
  <2>1. s + H \in 0 .. N
    BY <1>4, Halves
  <2> QED BY <1>2, <2>1
<1>5. chi \in [ChiSlots -> Pointers] /\ \A s \in 0 .. N - H : s \in ChiSlots /\ chi[s] \in DOMAIN node
  <2>1. chi \in [ChiSlots -> Pointers]
    BY <1>4, Addresses
  <2>2. \A s \in 0 .. N - H : s \in ChiSlots /\ s <= N - H
    BY Halves
  <2>3. \A s \in 0 .. N - H : chi[s] = TempChi(x, k, c)[s + H]
    BY <2>2
  <2> QED BY <1>4, <2>1, <2>2, <2>3
<1>d. /\ key = [s \in Slots |-> IF s < N - H THEN TempKey(x, k)[s + H] ELSE 0]
      /\ chi = [s \in ChiSlots |-> IF s <= N - H THEN TempChi(x, k, c)[s + H] ELSE NULL]
  OBVIOUS
<1>6. PICK leaf, zero, n : leaf = FALSE /\ zero = 0 /\ n = N - H
  OBVIOUS
<1>7. RightInternal(x, k, c)
        = [Alloc(leaf, x.parent) EXCEPT !.key = key, !.chi = chi, !.nkey = n]
  BY <1>6 DEF RightInternal
<1>8. PICK a, b : a = [s \in Slots |-> 0] /\ b = [s \in ChiSlots |-> NULL]
  OBVIOUS
<1>9. Alloc(leaf, x.parent) =
         [isLeaf |-> leaf, nkey |-> zero, key |-> a, chi |-> b,
          high_key |-> zero, right_link |-> NULL, parent |-> x.parent]
  BY <1>6, <1>8, AllocIs, Zenon
<1> HIDE DEF key, chi
<1>10. RightInternal(x, k, c) =
          [isLeaf |-> leaf, nkey |-> n, key |-> key, chi |-> chi,
           high_key |-> zero, right_link |-> NULL, parent |-> x.parent]
  <2>1. PICK r0, r1, r2, r3 :
           /\ r0 = Alloc(leaf, x.parent)
           /\ r1 = [r0 EXCEPT !.key = key]
           /\ r2 = [r1 EXCEPT !.chi = chi]
           /\ r3 = [r2 EXCEPT !.nkey = n]
    OBVIOUS
  <2>2. RightInternal(x, k, c) = r3
    BY <1>7, <2>1, Zenon
  <2>3. r0 = [isLeaf |-> leaf, nkey |-> zero, key |-> a, chi |-> b,
              high_key |-> zero, right_link |-> NULL, parent |-> x.parent]
    BY <1>9, <2>1, Zenon
  <2>4. r1 = [isLeaf |-> leaf, nkey |-> zero, key |-> key, chi |-> b,
              high_key |-> zero, right_link |-> NULL, parent |-> x.parent]
    <3>1. r1 = [r0 EXCEPT !.key = key]
      BY <2>1
    <3> QED BY <2>3, <3>1
  <2>5. r2 = [isLeaf |-> leaf, nkey |-> zero, key |-> key, chi |-> chi,
              high_key |-> zero, right_link |-> NULL, parent |-> x.parent]
    <3>1. r2 = [r1 EXCEPT !.chi = chi]
      BY <2>1
    <3> QED BY <2>4, <3>1
  <2>6. r3 = [isLeaf |-> leaf, nkey |-> n, key |-> key, chi |-> chi,
              high_key |-> zero, right_link |-> NULL, parent |-> x.parent]
    <3>1. r3 = [r2 EXCEPT !.nkey = n]
      BY <2>1
    <3> QED BY <2>5, <3>1
  <2> QED BY <2>2, <2>6
<1>11. RightInternal(x, k, c) =
          [isLeaf |-> FALSE, nkey |-> N - H, key |-> key, chi |-> chi,
           high_key |-> 0, right_link |-> NULL, parent |-> x.parent]
  BY <1>6, <1>10, Zenon
<1>12. IsRightHalf(RightInternal(x, k, c), x, k, c, key, chi)
  BY <1>3, <1>5, <1>11, <1>d DEF IsRightHalf
<1> QED BY <1>12

LEMMA SplitInternalKeeps ==
    ASSUME TreeInv, NEW t \in Threads, SplitInternal(t)
    PROVE  TreeInv'
<1>0. /\ pc[t] = "parent" /\ Internal(cur[t]) /\ cur[t] \in DOMAIN node
      /\ rc[t] \in DOMAIN node /\ lc[t] \in DOMAIN node /\ cur[t] # lc[t]
      /\ i[t] <= range /\ stores[t] = <<>>
      /\ node[cur[t]].nkey = N - 1
      /\ node' = Append(node, RightInternal(node[cur[t]], lm_key[t], rc[t]))
      /\ locked' = Append(locked, Nobody)
      /\ stores' = [stores EXCEPT ![t] =
                       SplitParent(cur[t], rc[t], lm_key[t], Len(node) + 1)]
      /\ rc' = [rc EXCEPT ![t] = Len(node) + 1]
      /\ early' = (early \/ NotLinked(cur[t]))
      /\ pc' = [pc EXCEPT ![t] = "split"]
      /\ UNCHANGED <<Key_vector, Root, ended, i, cur, nkey, kid, lc, lm_key>>
  BY DEF TreeInv, PlaceInv, SplitInternal, At, Goto, Climbing, Internal
<1>1. PICK p \in DOMAIN node, x \in NodeType, k \in Nat, c \in DOMAIN node :
          p = cur[t] /\ x = node[p] /\ k = lm_key[t] /\ c = rc[t] /\ x.nkey = N - 1
  BY <1>0, NodeFields DEF TreeInv, TypeOK
<1>2. PICK right, q, z, h, r, chi, key :
          /\ right = Len(node) + 1
          /\ q = SplitParent(p, c, k, right)
          /\ z = RightInternal(x, k, c)
          /\ h = x.high_key /\ r = x.right_link
          /\ chi = TempChi(x, k, c) /\ key = TempKey(x, k)
  OBVIOUS
<1>3. IsSplitting(q, p, right, chi, key, h, r)
  BY <1>1, <1>2, SplitParentIs
<1>4. \A s \in 0 .. x.nkey : x.chi[s] # NULL
  BY <1>0, <1>1 DEF TreeInv, NodeInv, NodeOK, Internal
<1>5. /\ key \in [0 .. N - 1 -> Nat]
      /\ chi \in [0 .. N -> DOMAIN node]
      /\ h \in Nat /\ r \in Pointers
  BY <1>1, <1>2, <1>4, KeyInsertType, TempChiType, NodeTypeIs DEF TreeInv
<1>6. PICK zkey \in [Slots -> Nat], zchi \in [ChiSlots -> Pointers] :
         /\ \A s \in 0 .. N - H : s \in ChiSlots /\ zchi[s] \in DOMAIN node
         /\ z = [isLeaf |-> FALSE, nkey |-> N - H, key |-> zkey, chi |-> zchi,
                 high_key |-> 0, right_link |-> NULL, parent |-> x.parent]
  <2>1. TypeOK /\ x \in NodeType /\ k \in Nat /\ c \in DOMAIN node /\ x.nkey = N - 1
    BY <1>1 DEF TreeInv
  <2>2. PICK zkey, zchi : IsRightHalf(RightInternal(x, k, c), x, k, c, zkey, zchi)
    BY <1>4, <2>1, RightInternalIs
  <2> QED BY <1>2, <2>2 DEF IsRightHalf
<1>7. /\ node' = Append([node EXCEPT ![p] = x], z)
      /\ Len(node) \in Nat /\ Len(node') = Len(node) + 1
  <2>1. node \in Seq(NodeType) /\ node \in [1 .. Len(node) -> NodeType] /\ Len(node) \in Nat
    <3>1. node \in Seq(NodeType)
      BY DEF TreeInv, TypeOK
    <3> QED BY <3>1
  <2>3. [node EXCEPT ![p] = node[p]] = node
    <3> HIDE DEF TreeInv, TypeOK
    <3> QED BY <2>1
  <2>2. node' = Append(node, z)
    BY <1>0, <1>1, <1>2
  <2> QED BY <1>1, <2>1, <2>2, <2>3
<1>8. /\ Pointers \subseteq Pointers' /\ NodeType \subseteq NodeType'
      /\ StoreType \subseteq StoreType'
  BY <1>7, MorePointers DEF TreeInv
<1>9. z \in NodeType'
  <2>1. N - H \in 0 .. N - 1 /\ 0 \in Nat
    BY Halves
  <2>2. NULL \in Pointers /\ x.parent \in Pointers
    BY Addresses, NodeTypeIs DEF TreeInv
  <2> QED BY <1>6, <1>8, <2>1, <2>2 DEF NodeType
<1>10. /\ node' \in Seq(NodeType')
       /\ right \in DOMAIN node' /\ right \notin DOMAIN node
       /\ DOMAIN node' = DOMAIN node \cup {right}
       /\ node'[right] = z
       /\ \A a \in DOMAIN node : node'[a] = node[a]
  <2>1. x \in NodeType'
    BY <1>8
  <2>2. /\ node' \in Seq(NodeType') /\ Len(node) + 1 \in DOMAIN node'
        /\ Len(node) + 1 \notin DOMAIN node
        /\ DOMAIN node' = DOMAIN node \cup {Len(node) + 1}
        /\ node'[Len(node) + 1] = z
        /\ \A a \in DOMAIN node : node'[a] = IF a = p THEN x ELSE node[a]
    <3>1. TypeOK /\ node' = Append([node EXCEPT ![p] = x], z)
      BY <1>7 DEF TreeInv
    <3> QED BY <1>9, <2>1, <3>1, Appended
  <2> QED BY <1>1, <1>2, <2>2
<1>11. Grows
  BY <1>10 DEF Grows
<1>12. \A u \in Threads \ {t} : Locals(u)' = Locals(u)
  BY <1>0 DEF TreeInv, TypeOK, Locals
<1>13. pc'[t] = "split" /\ lc'[t] = lc[t] /\ rc'[t] = right /\ cur'[t] = p /\ stores'[t] = q
       /\ i'[t] = i[t] /\ range' = range
  BY <1>0, <1>1, <1>2 DEF TreeInv, TypeOK, range
<1>14. LocksAreHeld' /\ locked' \in Seq(Threads \cup {Nobody}) /\ Len(locked') = Len(locked) + 1
  <2>1. \A a \in DOMAIN node' : Holds(t, a)' <=> Holds(t, a)
    BY <1>0, <1>1, <1>13 DEF Holds
  <2> QED BY <1>0, <1>2, <1>10, <1>12, <2>1, LocksMore
<1>15. Internal(right)' /\ Internal(p)'
  BY <1>0, <1>1, <1>6, <1>10 DEF Internal
<1>16. right \in Pointers' /\ right # NULL /\ p \in Pointers' /\ p # NULL /\ p \in Nat /\ right \in Nat
  <2>1. Pointers' = 0 .. Len(node) + 1
    BY <1>7, Halves DEF Pointers
  <2>2. p \in 1 .. Len(node) /\ Len(node) \in Nat
    BY NodeFields DEF TreeInv
  <2> QED BY <1>2, <2>1, <2>2, Halves
<1>17. r = NULL \/ Internal(r)'
  <2>1. r # NULL => r \in DOMAIN node
    BY <1>5, Addresses DEF TreeInv
  <2>2. r # NULL => ~node[r].isLeaf
    BY <1>0, <1>1, <1>2, <2>1 DEF TreeInv, NodeInv, NodeOK, Internal
  <2> QED BY <1>10, <2>1, <2>2 DEF Internal
<1>18. ASSUME NEW st \in SplitStores(p, right, chi, key, h, r)
       PROVE  /\ st \in StoreType' /\ GoodStore(t, st)'
              /\ st.field = "nkey" => st.to = p /\ st.value = H - 1
  <2>1. CASE st \in {Adopt(right, a) : a \in 0 .. N - H}
    <3>1. PICK a \in 0 .. N - H : st = Adopt(right, a)
      BY <2>1
    <3>2. st = [to |-> right, field |-> "parent", slot |-> a, value |-> right] /\ a \in ChiSlots
      BY <1>6, <3>1 DEF Adopt
    <3>3. node'[right].chi[a] # NULL
      BY <1>6, <1>10, Addresses DEF TreeInv
    <3> QED BY <1>13, <1>16, <3>2, <3>3 DEF StoreType, GoodStore
  <2>2. CASE st \in {Adopt(p, a) : a \in 0 .. H - 1}
    <3>1. PICK a \in 0 .. H - 1 : st = Adopt(p, a)
      BY <2>2
    <3>2. a \in ChiSlots /\ a \in 0 .. x.nkey
      BY <1>1, Halves
    <3>3. st = [to |-> p, field |-> "parent", slot |-> a, value |-> p]
      BY <3>1 DEF Adopt
    <3>4. node'[p].chi[a] # NULL
      BY <1>1, <1>4, <1>10, <3>2
    <3> QED BY <1>13, <1>16, <3>2, <3>3, <3>4 DEF StoreType, GoodStore
  <2>3. CASE st \in Copies(p, H - 2, 0, chi, key)
    <3>1. PICK top \in Int, low \in Nat : top = H - 2 /\ low = 0 /\ top <= N - 2
      BY Halves
    <3>2. ASSUME NEW m \in low .. top PROVE chi[m + 1] \in DOMAIN node /\ key[m] \in Nat
      <4>1. m + 1 \in 0 .. N /\ m \in 0 .. N - 1
        BY <3>1, Halves
      <4> QED BY <1>5, <4>1
    <3>3. st \in Copies(p, top, low, chi, key)
      BY <2>3, <3>1
    <3>4. /\ st \in StoreType /\ st.to = p
          /\ \/ st.field = "chi" /\ st.value \in DOMAIN node
             \/ st.field = "key" /\ st.slot \in Slots
      BY <3>1, <3>2, <3>3, CopiesAre DEF TreeInv
    <3> QED BY <1>8, <1>10, <1>13, <3>4 DEF GoodStore
  <2>4. CASE st = PutAt(p, "chi", 0, chi[0])
    <3>1. chi[0] \in DOMAIN node /\ chi[0] \in Nat /\ 0 \in ChiSlots
      <4>1. 0 \in 0 .. N /\ 0 \in ChiSlots
        BY Halves
      <4>2. chi[0] \in DOMAIN node
        BY <1>5, <4>1
      <4> QED BY <4>1, <4>2, Addresses DEF TreeInv
    <3>2. st = [to |-> p, field |-> "chi", slot |-> 0, value |-> chi[0]]
      BY <2>4 DEF PutAt
    <3> QED BY <1>10, <1>13, <1>16, <3>1, <3>2 DEF StoreType, GoodStore
  <2>5. CASE st = Put(p, "nkey", H - 1)
    <3>1. H - 1 \in Nat /\ H - 1 \in 0 .. N - 1 /\ NULL \in ChiSlots
      BY Halves
    <3>2. st = [to |-> p, field |-> "nkey", slot |-> NULL, value |-> H - 1]
      BY <2>5 DEF Put
    <3> QED BY <1>13, <1>16, <3>1, <3>2 DEF StoreType, GoodStore
  <2>6. CASE st \in {Put(right, "high_key", h), Put(p, "high_key", key[H - 1])}
    <3>1. h \in Nat /\ key[H - 1] \in Nat /\ NULL \in ChiSlots
      <4>1. H - 1 \in 0 .. N - 1 /\ NULL \in ChiSlots
        BY Halves
      <4> QED BY <1>5, <4>1
    <3>2. \/ st = [to |-> right, field |-> "high_key", slot |-> NULL, value |-> h]
          \/ st = [to |-> p, field |-> "high_key", slot |-> NULL, value |-> key[H - 1]]
      BY <2>6 DEF Put
    <3> QED BY <1>13, <1>16, <3>1, <3>2 DEF StoreType, GoodStore
  <2>7. CASE st = Put(right, "right_link", r)
    <3>1. r \in Nat /\ NULL \in ChiSlots
      BY <1>5, Addresses, Halves DEF TreeInv
    <3>2. st = [to |-> right, field |-> "right_link", slot |-> NULL, value |-> r]
      BY <2>7 DEF Put
    <3>3. st \in StoreType'
      BY <1>16, <3>1, <3>2 DEF StoreType
    <3>4. st.to = right /\ st.field = "right_link" /\ st.value = r
      BY <3>2
    <3> QED BY <1>13, <1>17, <3>3, <3>4 DEF GoodStore
  <2>8. CASE st = Put(p, "right_link", right)
    <3>1. NULL \in ChiSlots
      BY Halves
    <3>2. st = [to |-> p, field |-> "right_link", slot |-> NULL, value |-> right]
      BY <2>8 DEF Put
    <3>3. st \in StoreType'
      BY <1>16, <3>1, <3>2 DEF StoreType
    <3>4. st.to = p /\ st.field = "right_link" /\ st.value = right
      BY <3>2
    <3> QED BY <1>13, <1>15, <3>3, <3>4 DEF GoodStore
  <2> QED BY <2>1, <2>2, <2>3, <2>4, <2>5, <2>6, <2>7, <2>8 DEF SplitStores
<1>19. q \in Seq(StoreType') /\ \A j \in DOMAIN q : q[j] \in SplitStores(p, right, chi, key, h, r)
  <2>1. q \in Seq(SplitStores(p, right, chi, key, h, r))
    BY <1>3 DEF IsSplitting
  <2>2. SplitStores(p, right, chi, key, h, r) \subseteq StoreType'
    BY <1>18
  <2> QED BY <2>1, <2>2, SeqMonotonic
<1>20. TypeOK'
  <2>1. pc' \in [Threads -> Places] /\ early' \in BOOLEAN
    BY <1>0 DEF TreeInv, TypeOK, Places, NotLinked
  <2>2. /\ cur' \in [Threads -> Pointers'] /\ lc' \in [Threads -> Pointers']
        /\ rc' \in [Threads -> Pointers']
    BY <1>0, <1>2, <1>8, <1>16 DEF TreeInv, TypeOK
  <2>5. stores' \in [Threads -> Seq(StoreType')]
    <3>1. \A u \in Threads : stores[u] \in Seq(StoreType')
      BY <1>8, StoresAre, SeqMonotonic DEF TreeInv
    <3>2. stores' = [u \in Threads |-> IF u = t THEN q ELSE stores[u]]
      BY <1>0, <1>1, <1>2 DEF TreeInv, TypeOK
    <3> QED BY <1>19, <3>1, <3>2
  <2>6. Root' \in DOMAIN node' /\ Len(locked') = Len(node')
    BY <1>0, <1>7, <1>10, <1>14 DEF TreeInv, TypeOK
  <2> QED BY <1>0, <1>10, <1>13, <1>14, <2>1, <2>2, <2>5, <2>6 DEF TreeInv, TypeOK
<1>21. NodeInv'
  <2>1. ASSUME NEW a \in DOMAIN node PROVE NodeOK(a)'
    BY <1>10, <1>11, NodeStaysOK DEF TreeInv
  <2>2. NodeOK(right)'
    <3>1. PICK up : up = x.parent
      OBVIOUS
    <3>2. up # NULL => Internal(up)
      BY <1>1, <3>1 DEF TreeInv, NodeInv, NodeOK
    <3>3. up # NULL => Internal(up)'
      BY <1>10, <3>2 DEF Internal
    <3>4. \A s \in 0 .. N - H : zchi[s] # NULL
      BY <1>6, Addresses DEF TreeInv
    <3>5. /\ node'[right].right_link = NULL /\ node'[right].parent = up
          /\ node'[right].nkey = N - H /\ node'[right].chi = zchi
      BY <1>6, <1>10, <3>1
    <3> QED BY <3>3, <3>4, <3>5 DEF NodeOK
  <2> QED BY <1>10, <2>1, <2>2 DEF NodeInv
<1>22. PlaceInv(t)'
  BY <1>0, <1>1, <1>10, <1>13, <1>15 DEF PlaceInv, Climbing
<1>23. StoreInv(t)'
  <2>1. ASSUME NEW j \in DOMAIN q PROVE GoodStore(t, q[j])'
    <3>1. PICK st : st = q[j] /\ st \in SplitStores(p, right, chi, key, h, r)
      BY <1>19
    <3>2. GoodStore(t, st)'
      BY <1>18, <3>1
    <3> QED BY <3>1, <3>2
  <2>2. ASSUME NEW j \in DOMAIN q, q[j].field = "nkey", NEW m \in 0 .. q[j].value
        PROVE  node'[q[j].to].chi[m] # NULL
    <3>1. q[j].to = p /\ q[j].value = H - 1
      BY <1>18, <1>19, <2>2
    <3>2. m \in 0 .. x.nkey
      BY <1>1, <3>1, Halves
    <3> QED BY <1>1, <1>4, <1>10, <3>1, <3>2
  <2>3. ChildrenFirst(q)'
    BY <2>2 DEF ChildrenFirst
  <2> QED BY <1>13, <2>1, <2>3 DEF StoreInv, ChildrenFirst
<1> QED BY <1>0, <1>11, <1>12, <1>14, <1>20, <1>21, <1>22, <1>23, StoringKeeps

-----------------------------------------------------------------------------
(* The steps that perform a store *)

\* The node to which st stores: the child it adopts, or its own.
Target(st) == IF st.field = "parent" THEN node[st.to].chi[st.slot] ELSE st.to

\* Only the field of the store changes.
IsStored(g, y, st) ==
    /\ g \in DOMAIN node
    /\ y \in NodeType
    /\ node' = [node EXCEPT ![g] = y]
    /\ y.isLeaf = node[g].isLeaf
    /\ y.key = IF st.field = "key" THEN [node[g].key EXCEPT ![st.slot] = st.value]
                                   ELSE node[g].key
    /\ y.chi = IF st.field = "chi" THEN [node[g].chi EXCEPT ![st.slot] = st.value]
                                   ELSE node[g].chi
    /\ y.nkey = IF st.field = "nkey" THEN st.value ELSE node[g].nkey
    /\ y.high_key = IF st.field = "high_key" THEN st.value ELSE node[g].high_key
    /\ y.right_link = IF st.field = "right_link" THEN st.value ELSE node[g].right_link
    /\ y.parent = IF st.field = "parent" THEN st.to ELSE node[g].parent

LEMMA PerformIs ==
    ASSUME TypeOK, NEW t \in Threads, PlaceInv(t), pc[t] \in {"added", "split"},
           NEW st \in StoreType, GoodStore(t, st), node' = Perform(st)
    PROVE  \E y : IsStored(Target(st), y, st)
<1>1. /\ st.to \in DOMAIN node /\ ~node[st.to].isLeaf /\ st.slot \in ChiSlots /\ st.value \in Nat
      /\ st.field \in {"key", "chi", "parent", "nkey", "high_key", "right_link"}
  BY StoreTargets DEF StoreType
<1>2. PICK g, v, s : g = Target(st) /\ v = st.value /\ s = st.slot
  OBVIOUS
<1>3. g \in DOMAIN node
  <2>1. CASE st.field = "parent"
    <3>1. node[st.to].chi[st.slot] # NULL
      BY <2>1 DEF GoodStore
    <3>2. node[st.to].chi[st.slot] \in Pointers
      BY <1>1, NodeFields
    <3> QED BY <1>2, <2>1, <3>1, <3>2, Addresses DEF Target
  <2>2. CASE st.field # "parent"
    BY <1>1, <1>2, <2>2 DEF Target
  <2> QED BY <2>1, <2>2
<1>4. PICK x \in NodeType : x = node[g]
  BY <1>3, NodeFields
<1>5. PICK leaf, n, key, chi, high, link, parent :
         /\ x = [isLeaf |-> leaf, nkey |-> n, key |-> key, chi |-> chi,
                 high_key |-> high, right_link |-> link, parent |-> parent]
         /\ leaf \in BOOLEAN /\ n \in 0 .. N - 1 /\ key \in [Slots -> Nat]
         /\ chi \in [ChiSlots -> Pointers] /\ high \in Nat /\ link \in Pointers
         /\ parent \in Pointers
  BY NodeTypeIs
<1>6. /\ [x EXCEPT !.nkey = v] =
           [isLeaf |-> leaf, nkey |-> v, key |-> key, chi |-> chi,
            high_key |-> high, right_link |-> link, parent |-> parent]
      /\ [x EXCEPT !.key[s] = v] =
           [isLeaf |-> leaf, nkey |-> n, key |-> [key EXCEPT ![s] = v], chi |-> chi,
            high_key |-> high, right_link |-> link, parent |-> parent]
      /\ [x EXCEPT !.chi[s] = v] =
           [isLeaf |-> leaf, nkey |-> n, key |-> key, chi |-> [chi EXCEPT ![s] = v],
            high_key |-> high, right_link |-> link, parent |-> parent]
      /\ [x EXCEPT !.high_key = v] =
           [isLeaf |-> leaf, nkey |-> n, key |-> key, chi |-> chi,
            high_key |-> v, right_link |-> link, parent |-> parent]
      /\ [x EXCEPT !.right_link = v] =
           [isLeaf |-> leaf, nkey |-> n, key |-> key, chi |-> chi,
            high_key |-> high, right_link |-> v, parent |-> parent]
      /\ [x EXCEPT !.parent = v] =
           [isLeaf |-> leaf, nkey |-> n, key |-> key, chi |-> chi,
            high_key |-> high, right_link |-> link, parent |-> v]
  <2>1. x = [isLeaf |-> leaf, nkey |-> n, key |-> key, chi |-> chi,
             high_key |-> high, right_link |-> link, parent |-> parent]
    BY <1>5
  <2> QED BY <2>1
<1>7. CASE st.field = "key"
  <2>1. PICK y : y = [x EXCEPT !.key[s] = v]
    OBVIOUS
  <2>2. node' = [node EXCEPT ![g] = y]
    <3>1. node' = [node EXCEPT ![g].key[s] = v]
      BY <1>2, <1>7 DEF Perform, Target
    <3> QED BY <1>3, <1>4, <2>1, <3>1
  <2>3. [key EXCEPT ![s] = v] \in [Slots -> Nat]
    BY <1>1, <1>2, <1>5
  <2>4. y \in NodeType
    BY <1>5, <1>6, <2>1, <2>3 DEF NodeType
  <2> QED BY <1>2, <1>3, <1>4, <1>5, <1>6, <1>7, <2>1, <2>2, <2>4 DEF IsStored
<1>8. CASE st.field = "chi"
  <2>1. PICK y : y = [x EXCEPT !.chi[s] = v]
    OBVIOUS
  <2>2. node' = [node EXCEPT ![g] = y]
    <3>1. node' = [node EXCEPT ![g].chi[s] = v]
      BY <1>2, <1>8 DEF Perform, Target
    <3> QED BY <1>3, <1>4, <2>1, <3>1
  <2>3. [chi EXCEPT ![s] = v] \in [ChiSlots -> Pointers]
    <3>1. v \in Pointers
      BY <1>2, <1>8, Addresses DEF GoodStore
    <3> QED BY <1>5, <3>1
  <2>4. y \in NodeType
    BY <1>5, <1>6, <2>1, <2>3 DEF NodeType
  <2> QED BY <1>2, <1>3, <1>4, <1>5, <1>6, <1>8, <2>1, <2>2, <2>4 DEF IsStored
<1>9. CASE st.field = "nkey"
  <2>1. PICK y : y = [x EXCEPT !.nkey = v]
    OBVIOUS
  <2>2. node' = [node EXCEPT ![g] = y]
    <3>1. node' = [node EXCEPT ![g].nkey = v]
      BY <1>2, <1>9 DEF Perform, Target
    <3> QED BY <1>3, <1>4, <2>1, <3>1
  <2>4. y \in NodeType
    <3>1. v \in 0 .. N - 1
      BY <1>2, <1>9 DEF GoodStore
    <3> QED BY <1>5, <1>6, <2>1, <3>1 DEF NodeType
  <2> QED BY <1>2, <1>3, <1>4, <1>5, <1>6, <1>9, <2>1, <2>2, <2>4 DEF IsStored
<1>10. CASE st.field = "high_key"
  <2>1. PICK y : y = [x EXCEPT !.high_key = v]
    OBVIOUS
  <2>2. node' = [node EXCEPT ![g] = y]
    <3>1. node' = [node EXCEPT ![g].high_key = v]
      BY <1>2, <1>10 DEF Perform, Target
    <3> QED BY <1>3, <1>4, <2>1, <3>1
  <2>4. y \in NodeType
    BY <1>1, <1>2, <1>5, <1>6, <2>1 DEF NodeType
  <2> QED BY <1>2, <1>3, <1>4, <1>5, <1>6, <1>10, <2>1, <2>2, <2>4 DEF IsStored
<1>11. CASE st.field = "right_link"
  <2>1. PICK y : y = [x EXCEPT !.right_link = v]
    OBVIOUS
  <2>2. node' = [node EXCEPT ![g] = y]
    <3>1. node' = [node EXCEPT ![g].right_link = v]
      BY <1>2, <1>11 DEF Perform, Target
    <3> QED BY <1>3, <1>4, <2>1, <3>1
  <2>4. y \in NodeType
    <3>1. v \in Pointers
      BY <1>2, <1>11, Addresses DEF GoodStore, Internal
    <3> QED BY <1>5, <1>6, <2>1, <3>1 DEF NodeType
  <2> QED BY <1>2, <1>3, <1>4, <1>5, <1>6, <1>11, <2>1, <2>2, <2>4 DEF IsStored
<1>12. CASE st.field = "parent"
  <2>1. PICK y : y = [x EXCEPT !.parent = v]
    OBVIOUS
  <2>v. v = st.to /\ v \in Pointers
    BY <1>1, <1>2, <1>12, Addresses DEF GoodStore
  <2>2. node' = [node EXCEPT ![g] = y]
    <3>1. node' = [node EXCEPT ![g].parent = v]
      BY <1>2, <1>12 DEF Perform, Target
    <3> QED BY <1>3, <1>4, <2>1, <3>1
  <2>4. y \in NodeType
    BY <1>5, <1>6, <2>1, <2>v DEF NodeType
  <2> QED BY <1>2, <1>3, <1>4, <1>5, <1>6, <1>12, <2>1, <2>2, <2>4, <2>v DEF IsStored
<1> QED BY <1>1, <1>7, <1>8, <1>9, <1>10, <1>11, <1>12

\* What StoreKeeps and the proofs about the keys need of the step.
StoreStep(t, q, st, rest, g, y) ==
    /\ pc[t] \in {"added", "split"}
    /\ q = stores[t] /\ st = q[1] /\ q \in Seq(StoreType) /\ Len(q) >= 1
    /\ st \in StoreType /\ GoodStore(t, st)
    /\ st.to \in DOMAIN node /\ ~node[st.to].isLeaf
    /\ g = Target(st) /\ IsStored(g, y, st)
    /\ DOMAIN node' = DOMAIN node /\ Len(node') = Len(node) /\ node' \in Seq(NodeType)
    /\ \A p \in DOMAIN node : node'[p] = IF p = g THEN y ELSE node[p]
    /\ rest = stores'[t] /\ rest \in Seq(StoreType) /\ Len(rest) = Len(q) - 1
    /\ \A j \in 1 .. Len(rest) : rest[j] = q[j + 1]
    /\ stores' = [stores EXCEPT ![t] = rest]
    /\ UNCHANGED <<Key_vector, Root, locked, ended, pc, i, cur, nkey, kid, lc,
                   rc, lm_key, early>>

LEMMA StoreStepIs ==
    ASSUME TreeInv, NEW t \in Threads, Store(t)
    PROVE  \E q, st, rest, g, y : StoreStep(t, q, st, rest, g, y)
<1>1. PICK q, st, rest, g : /\ q = stores[t] /\ st = q[1] /\ rest = Tail(q) /\ g = Target(st)
  OBVIOUS
<1>2. /\ q # <<>> /\ node' = Perform(Head(q)) /\ stores' = [stores EXCEPT ![t] = rest]
      /\ UNCHANGED <<Key_vector, Root, locked, ended, pc, i, cur, nkey, kid, lc,
                     rc, lm_key, early>>
  BY <1>1 DEF Store
<1>3. /\ q \in Seq(StoreType) /\ Len(q) \in Nat /\ Len(q) >= 1 /\ DOMAIN q = 1 .. Len(q)
      /\ \A j \in 1 .. Len(q) : q[j] \in StoreType
  <2>1. q \in Seq(StoreType)
    BY <1>1, StoresAre DEF TreeInv
  <2> QED BY <1>2, <2>1
<1>4. Head(q) = st /\ st \in StoreType /\ 1 \in DOMAIN q
  <2>1. Head(q) = q[1] /\ 1 \in 1 .. Len(q)
    BY <1>3
  <2> QED BY <1>1, <1>3, <2>1
<1>5. rest \in Seq(StoreType) /\ Len(rest) = Len(q) - 1 /\ \A j \in 1 .. Len(rest) : rest[j] = q[j + 1]
  BY <1>1, <1>3
<1>6. pc[t] \in {"added", "split"} /\ PlaceInv(t) /\ TypeOK /\ GoodStore(t, st)
  <2>1. PlaceInv(t) /\ TypeOK /\ StoreInv(t)
    BY DEF TreeInv
  <2>2. pc[t] \in {"added", "split"}
    BY <1>1, <1>2, <2>1 DEF PlaceInv
  <2>3. GoodStore(t, q[1])
    BY <1>1, <1>4, <2>1 DEF StoreInv
  <2> QED BY <1>1, <2>1, <2>2, <2>3
<1>7. st.to \in DOMAIN node /\ ~node[st.to].isLeaf
  BY <1>6, StoreTargets
<1>8. PICK y : IsStored(g, y, st)
  <2>1. node' = Perform(st)
    BY <1>2, <1>4
  <2>2. \E y : IsStored(Target(st), y, st)
    BY <1>4, <1>6, <2>1, PerformIs
  <2> QED BY <1>1, <2>2
<1>9. /\ DOMAIN node' = DOMAIN node /\ Len(node') = Len(node) /\ node' \in Seq(NodeType)
      /\ \A p \in DOMAIN node : node'[p] = IF p = g THEN y ELSE node[p]
  <2>1. node \in Seq(NodeType) /\ g \in DOMAIN node /\ y \in NodeType /\ node' = [node EXCEPT ![g] = y]
    BY <1>6, <1>8 DEF IsStored, TypeOK
  <2> QED BY <2>1
<1>10. rest = stores'[t]
  <2>1. stores \in [Threads -> Seq(StoreType)]
    BY <1>6 DEF TypeOK
  <2> QED BY <1>2, <2>1
<1>11. StoreStep(t, q, st, rest, g, y)
  BY <1>1, <1>2, <1>3, <1>4, <1>5, <1>6, <1>7, <1>8, <1>9, <1>10 DEF StoreStep
<1> QED BY <1>11

LEMMA StoreKeeps ==
    ASSUME TreeInv, NEW t \in Threads, Store(t)
    PROVE  TreeInv'
<1>0. PICK q, st, rest, g, y : StoreStep(t, q, st, rest, g, y)
  BY StoreStepIs
<1>1. /\ pc[t] \in {"added", "split"}
      /\ q = stores[t] /\ st = q[1] /\ q \in Seq(StoreType) /\ Len(q) >= 1
      /\ st \in StoreType /\ GoodStore(t, st)
      /\ st.to \in DOMAIN node /\ ~node[st.to].isLeaf
      /\ g = Target(st) /\ IsStored(g, y, st)
      /\ DOMAIN node' = DOMAIN node /\ Len(node') = Len(node) /\ node' \in Seq(NodeType)
      /\ \A p \in DOMAIN node : node'[p] = IF p = g THEN y ELSE node[p]
      /\ rest = stores'[t] /\ rest \in Seq(StoreType) /\ Len(rest) = Len(q) - 1
      /\ \A j \in 1 .. Len(rest) : rest[j] = q[j + 1]
      /\ stores' = [stores EXCEPT ![t] = rest]
      /\ UNCHANGED <<Key_vector, Root, locked, ended, pc, i, cur, nkey, kid, lc,
                     rc, lm_key, early>>
  BY <1>0 DEF StoreStep
<1>2. /\ g \in DOMAIN node /\ y \in NodeType /\ y.isLeaf = node[g].isLeaf
      /\ y.chi = IF st.field = "chi" THEN [node[g].chi EXCEPT ![st.slot] = st.value]
                                     ELSE node[g].chi
      /\ y.nkey = IF st.field = "nkey" THEN st.value ELSE node[g].nkey
      /\ y.right_link = IF st.field = "right_link" THEN st.value ELSE node[g].right_link
      /\ y.parent = IF st.field = "parent" THEN st.to ELSE node[g].parent
  BY <1>1 DEF IsStored
<1>3. st.field # "parent" => g = st.to
  BY <1>1 DEF Target
<1>4. st.to # NULL /\ st.to \in DOMAIN node' /\ ~node'[st.to].isLeaf
  BY <1>1, <1>2, Addresses DEF TreeInv
<1>5. st.field = "chi" => st.value \in DOMAIN node /\ st.value # NULL /\ st.slot \in ChiSlots
  BY <1>1, Addresses DEF TreeInv, GoodStore, StoreType
<1>6. node[g].chi \in [ChiSlots -> Pointers]
  BY <1>2, NodeFields DEF TreeInv
<1>7. \A s \in ChiSlots : node[g].chi[s] # NULL => y.chi[s] # NULL
  BY <1>2, <1>5, <1>6
<1>8. Grows
  <2>1. node[g].parent # NULL => y.parent # NULL
    BY <1>2, <1>4
  <2>2. y.isLeaf = node[g].isLeaf
    BY <1>2
  <2> QED BY <1>1, <1>7, <2>1, <2>2 DEF Grows
<1>9. \A u \in Threads \ {t} : Locals(u)' = Locals(u)
  BY <1>1 DEF TreeInv, TypeOK, Locals
<1>10. Pointers' = Pointers /\ StoreType' = StoreType /\ NodeType' = NodeType /\ range' = range
  BY <1>1 DEF Pointers, StoreType, NodeType, range
<1>11. TypeOK'
  <2>1. stores' \in [Threads -> Seq(StoreType)]
    BY <1>1 DEF TreeInv, TypeOK
  <2> QED BY <1>1, <1>10, <2>1 DEF TreeInv, TypeOK
<1>12. LocksAreHeld'
  <2>1. \A p \in DOMAIN node : Holds(t, p)' <=> locked'[p] = t
    BY <1>1 DEF TreeInv, LocksAreHeld, Holds
  <2>2. \A p \in DOMAIN node : \A u \in Threads \ {t} : locked'[p] = u <=> locked[p] = u
    BY <1>1
  <2> QED BY <1>1, <1>9, <2>1, <2>2, LocksChange DEF TreeInv
<1>13. ASSUME NEW j \in 1 .. Len(rest)
       PROVE  j + 1 \in DOMAIN q /\ rest[j] = q[j + 1] /\ rest[j] \in StoreType
              /\ GoodStore(t, rest[j]) /\ j + 1 \in 1 .. Len(q)
  <2>1. j + 1 \in 1 .. Len(q) /\ DOMAIN q = 1 .. Len(q)
    BY <1>1
  <2>2. GoodStore(t, q[j + 1])
    BY <1>1, <2>1 DEF TreeInv, StoreInv
  <2> QED BY <1>1, <2>1, <2>2
<1>14. NodeInv'
  <2>1. ASSUME NEW p \in DOMAIN node, p # g PROVE NodeOK(p)'
    BY <1>1, <1>8, <2>1, NodeStaysOK DEF TreeInv
  <2>2. NodeOK(g)'
    <3>0. NodeOK(g) /\ node'[g] = y
      BY <1>1, <1>2 DEF TreeInv, NodeInv
    <3>1. PICK r, up : r = y.right_link /\ up = y.parent
      OBVIOUS
    <3>2. r # NULL => (node'[r].isLeaf <=> y.isLeaf)
      <4>1. CASE st.field = "right_link"
        <5>1. r # NULL => Internal(r)
          BY <1>1, <1>2, <3>1, <4>1 DEF GoodStore
        <5> QED BY <1>1, <1>2, <1>3, <1>8, <4>1, <5>1 DEF Internal, Grows
      <4>2. CASE st.field # "right_link"
        <5>1. r = node[g].right_link
          BY <1>2, <3>1, <4>2
        <5>2. r # NULL => r \in DOMAIN node
          BY <1>2, <5>1, NodeFields, Addresses DEF TreeInv
        <5> QED BY <1>2, <1>8, <3>0, <5>1, <5>2 DEF NodeOK, Grows
      <4> QED BY <4>1, <4>2
    <3>3. up # NULL => Internal(up)'
      <4>1. CASE st.field = "parent"
        BY <1>2, <1>4, <3>1, <4>1 DEF Internal
      <4>2. CASE st.field # "parent"
        BY <1>2, <1>8, <3>0, <3>1, <4>2 DEF NodeOK, Internal, Grows
      <4> QED BY <4>1, <4>2
    <3>4. ~y.isLeaf => \A s \in 0 .. y.nkey : y.chi[s] # NULL
      <4>0. y.nkey \in 0 .. N - 1 /\ \A s \in 0 .. y.nkey : s \in ChiSlots
        <5>1. y.nkey \in 0 .. N - 1
          BY <1>2, NodeTypeIs
        <5> QED BY <5>1, Halves
      <4>1. CASE st.field = "nkey"
        <5>1. 1 \in DOMAIN q
          BY <1>1
        <5>2. \A s \in 0 .. st.value : node[st.to].chi[s] # NULL
          <6>1. ChildrenFirst(q)
            BY <1>1 DEF TreeInv, StoreInv
          <6>2. 1 .. 1 - 1 = {}
            OBVIOUS
          <6> QED BY <1>1, <4>1, <5>1, <6>1, <6>2 DEF ChildrenFirst
        <5> QED BY <1>2, <1>3, <1>7, <4>0, <4>1, <5>2
      <4>2. CASE st.field # "nkey"
        BY <1>2, <1>7, <3>0, <4>0, <4>2 DEF NodeOK
      <4> QED BY <4>1, <4>2
    <3> QED BY <3>0, <3>1, <3>2, <3>3, <3>4 DEF NodeOK
  <2> QED BY <1>1, <2>1, <2>2 DEF NodeInv
<1>15. PlaceInv(t)'
  BY <1>1, <1>8, <1>10 DEF TreeInv, PlaceInv, Climbing, Internal, Grows
<1>16. StoreInv(t)'
  <2>1. ASSUME NEW j \in DOMAIN rest PROVE GoodStore(t, rest[j])'
    <3>1. j \in 1 .. Len(rest)
      BY <1>1
    <3>2. PICK s2 \in StoreType : s2 = rest[j] /\ GoodStore(t, s2)
      BY <1>13, <3>1
    <3>3. pc'[t] = pc[t] /\ cur'[t] = cur[t] /\ rc'[t] = rc[t]
      BY <1>1
    <3>4. GoodStore(t, s2)'
      BY <1>1, <1>8, <3>2, <3>3, GoodStoreKept DEF TreeInv
    <3> QED BY <3>2, <3>4
  <2>2. ASSUME NEW j \in DOMAIN rest, rest[j].field = "nkey", NEW s \in 0 .. rest[j].value
        PROVE  \/ node'[rest[j].to].chi[s] # NULL
               \/ \E m \in 1 .. j - 1 : rest[m].field = "chi" /\ rest[m].slot = s
    <3>1. j \in 1 .. Len(rest) /\ Len(rest) \in Nat
      BY <1>1
    <3>2. /\ j + 1 \in DOMAIN q /\ rest[j] = q[j + 1] /\ GoodStore(t, rest[j])
          /\ rest[j] \in StoreType
      BY <1>13, <3>1
    <3>3. s \in ChiSlots /\ rest[j].to = cur[t] /\ rest[j].to \in DOMAIN node
      <4>1. rest[j].value \in 0 .. N - 1 /\ rest[j].to = cur[t]
        BY <2>2, <3>2 DEF GoodStore
      <4>2. rest[j].to \in DOMAIN node
        BY <1>1, <3>2, StoreTargets DEF TreeInv
      <4> QED BY <4>1, <4>2, Halves
    <3>4. \/ node[rest[j].to].chi[s] # NULL
          \/ \E m \in 1 .. (j + 1) - 1 : q[m].field = "chi" /\ q[m].slot = s
      <4>1. ChildrenFirst(q)
        BY <1>1 DEF TreeInv, StoreInv
      <4> QED BY <2>2, <3>2, <4>1 DEF ChildrenFirst
    <3>5. CASE node[rest[j].to].chi[s] # NULL
      BY <1>8, <3>3, <3>5 DEF Grows
    <3>6. CASE \E m \in 1 .. (j + 1) - 1 : q[m].field = "chi" /\ q[m].slot = s
      <4>1. PICK m \in 1 .. (j + 1) - 1 : q[m].field = "chi" /\ q[m].slot = s
        BY <3>6
      <4>2. CASE m = 1
        <5>1. st.field = "chi" /\ st.slot = s /\ st.to = cur[t]
          BY <1>1, <4>1, <4>2 DEF GoodStore
        <5>2. y.chi[s] = st.value
          BY <1>2, <1>6, <3>3, <5>1
        <5> QED BY <1>1, <1>3, <1>5, <3>3, <5>1, <5>2
      <4>3. CASE m # 1
        <5>1. m - 1 \in 1 .. j - 1 /\ m - 1 \in 1 .. Len(rest) /\ (m - 1) + 1 = m
          BY <3>1, <4>3
        <5>2. rest[m - 1] = q[m]
          BY <1>1, <5>1
        <5> QED BY <4>1, <5>1, <5>2
      <4> QED BY <4>2, <4>3
    <3> QED BY <3>4, <3>5, <3>6
  <2>3. stores'[t] = rest
    BY <1>1
  <2>4. ChildrenFirst(rest)'
    BY <2>2 DEF ChildrenFirst
  <2> QED BY <2>1, <2>3, <2>4 DEF StoreInv, ChildrenFirst
<1> QED BY <1>1, <1>8, <1>9, <1>11, <1>12, <1>14, <1>15, <1>16, StoringKeeps

-----------------------------------------------------------------------------
(* The invariant holds in every state *)

LEMMA InitTree == Init => TreeInv
<1> SUFFICES ASSUME Init PROVE TreeInv
  OBVIOUS
<1> USE DEF Init
<1>1. PICK z : z = Alloc(TRUE, NULL) /\ node = <<z>>
  OBVIOUS
<1>2. z \in NodeType /\ z.isLeaf /\ z.right_link = NULL /\ z.parent = NULL
  <2>1. PICK leaf, n, a, b : /\ leaf = TRUE /\ n = 0 /\ a = [s \in Slots |-> n]
                             /\ b = [s \in ChiSlots |-> NULL]
    OBVIOUS
  <2>2. z = [isLeaf |-> leaf, nkey |-> n, key |-> a, chi |-> b, high_key |-> n,
             right_link |-> NULL, parent |-> NULL]
    BY <1>1, <2>1, AllocIs, Zenon
  <2>3. NULL \in Pointers /\ n \in 0 .. N - 1 /\ n \in Nat
    <3>1. Len(node) = 1
      BY <1>1
    <3> QED BY <2>1, <3>1, Halves DEF Pointers
  <2>4. a \in [Slots -> Nat] /\ b \in [ChiSlots -> Pointers] /\ leaf \in BOOLEAN
    BY <2>1, <2>3
  <2> QED BY <2>1, <2>2, <2>3, <2>4 DEF NodeType
<1>3. /\ node \in Seq(NodeType) /\ Len(node) = 1 /\ DOMAIN node = {1} /\ node[1] = z
      /\ locked \in Seq(Threads \cup {Nobody}) /\ Len(locked) = 1 /\ locked[1] = Nobody
      /\ DOMAIN locked = {1}
  <2>1. PICK S : S = NodeType
    OBVIOUS
  <2>2. z \in S /\ node = <<z>>
    BY <1>1, <1>2, <2>1
  <2>3. node \in Seq(S) /\ Len(node) = 1 /\ DOMAIN node = {1} /\ node[1] = z
    <3> HIDE DEF Init
    <3> QED BY <2>2
  <2>4. PICK L, o : L = Threads \cup {Nobody} /\ o = Nobody /\ locked = <<o>>
    OBVIOUS
  <2>5. locked \in Seq(L) /\ Len(locked) = 1 /\ DOMAIN locked = {1} /\ locked[1] = o
    <3>1. o \in L /\ locked = <<o>>
      BY <2>4
    <3> HIDE DEF Init
    <3> QED BY <3>1
  <2> QED BY <2>1, <2>3, <2>4, <2>5, Zenon
<1>4. TypeOK
  <2>1. NULL \in Pointers
    BY <1>3, Halves DEF Pointers
  <2>2. Key_vector \in Seq(Nat \ {0})
    BY ConstantsAssumption
  <2>3. range \in Nat
    <3>1. PICK n \in Nat : n = Len(Key_vector)
      BY <2>2
    <3>2. range = n \div Size_thread /\ Size_thread \in Nat \ {0}
      BY <3>1, Halves DEF range
    <3> HIDE DEF Init
    <3> QED BY <3>2
  <2>4. 0 \in 0 .. N - 1 /\ 1 \in 1 .. range + 1
    BY <2>3, Halves
  <2>5. <<>> \in Seq(StoreType)
    OBVIOUS
  <2>6. pc \in [Threads -> Places]
    BY DEF Places
  <2>7. /\ i \in [Threads -> 1 .. (range + 1)] /\ cur \in [Threads -> Pointers]
        /\ nkey \in [Threads -> 0 .. (N - 1)] /\ kid \in [Threads -> 0 .. (N - 1)]
        /\ lc \in [Threads -> Pointers] /\ rc \in [Threads -> Pointers]
        /\ lm_key \in [Threads -> Nat]
    BY <2>1, <2>4
  <2>8. stores \in [Threads -> Seq(StoreType)]
    BY <2>5
  <2> QED BY <1>3, <2>6, <2>7, <2>8 DEF TypeOK
<1>5. LocksAreHeld
  BY <1>3, Halves DEF LocksAreHeld, Holds
<1>6. NodeInv
  BY <1>2, <1>3 DEF NodeInv, NodeOK
<1>7. ASSUME NEW t \in Threads PROVE PlaceInv(t) /\ StoreInv(t)
  BY DEF PlaceInv, StoreInv, ChildrenFirst, Climbing
<1> QED BY <1>4, <1>5, <1>6, <1>7 DEF TreeInv

LEMMA NextKeepsTree == TreeInv /\ [Next]_vars => TreeInv'
<1> SUFFICES ASSUME TreeInv, [Next]_vars PROVE TreeInv'
  OBVIOUS
<1>1. ASSUME NEW t \in Threads, Step(t) PROVE TreeInv'
  <2>1. CASE ReadRoot(t)
    BY <2>1, ReadRootKeeps
  <2>2. CASE ReadNkey(t)
    BY <2>2, ReadNkeyKeeps
  <2>3. CASE ReadKey(t)
    BY <2>3, ReadKeyKeeps
  <2>4. CASE ReadChild(t)
    BY <2>4, ReadChildKeeps
  <2>5. CASE LockLeaf(t)
    BY <2>5, LockLeafKeeps
  <2>6. CASE MoveRight(t)
    BY <2>6, MoveRightKeeps
  <2>7. CASE AddToLeaf(t)
    BY <2>7, AddToLeafKeeps
  <2>8. CASE SplitLeaf(t)
    BY <2>8, SplitLeafKeeps
  <2>9. CASE GrowRoot(t)
    BY <2>9, GrowRootKeeps
  <2>10. CASE PublishRoot(t)
    BY <2>10, PublishRootKeeps
  <2>11. CASE ReadParent(t)
    BY <2>11, ReadParentKeeps
  <2>12. CASE LockParent(t)
    BY <2>12, LockParentKeeps
  <2>13. CASE LockNull(t)
    BY <2>13, LockNullKeeps
  <2>14. CASE AddToParent(t)
    BY <2>14, AddToParentKeeps
  <2>15. CASE SplitInternal(t)
    BY <2>15, SplitInternalKeeps
  <2>16. CASE Store(t)
    BY <2>16, StoreKeeps
  <2>17. CASE UnlockBoth(t)
    BY <2>17, UnlockBothKeeps
  <2>18. CASE Ascend(t)
    BY <2>18, AscendKeeps
  <2>19. CASE SearchCore(t)
    BY <2>19, SearchCoreKeeps
  <2> QED BY <1>1, <2>1, <2>2, <2>3, <2>4, <2>5, <2>6, <2>7, <2>8, <2>9, <2>10, <2>11,
             <2>12, <2>13, <2>14, <2>15, <2>16, <2>17, <2>18, <2>19 DEF Step
<1>2. CASE StartSearch
  BY <1>2, StartSearchKeeps
<1>3. CASE UNCHANGED vars
  BY <1>3, StutterKeeps
<1> QED BY <1>1, <1>2, <1>3 DEF Next, Terminated

LEMMA TreeInvariant == Spec => []TreeInv
  BY InitTree, NextKeepsTree, PTL DEF Spec

\* Types: no thread follows a NULL child, counts past an array or goes past its
\* range of the keys, whatever it reads while others store.
THEOREM TypeCorrect == Spec => []TypeOK
<1>1. TreeInv => TypeOK
  BY DEF TreeInv
<1> QED BY <1>1, TreeInvariant, PTL

\* A mutex is locked exactly as long as its holder has still to unlock it, on
\* every way through move_right and the recursion of insert_in_parent.
THEOREM LocksHeld == Spec => []LocksAreHeld
<1>1. TreeInv => LocksAreHeld
  BY DEF TreeInv
<1> QED BY <1>1, TreeInvariant, PTL

-----------------------------------------------------------------------------
(* The order of the keys *)

Sorted(f, n) == \A a, b \in 0 .. n - 1 : a <= b => f[a] <= f[b]

\* A key inserted in the slot that SlotOf found leaves the keys in order.
LEMMA InsertSorted ==
    ASSUME NEW x, NEW n \in Nat, x.nkey = n, NEW dom \in SUBSET Nat, 0 .. n \subseteq dom,
           NEW k \in Nat, NEW p, IsSlotOf(p, x, k),
           \A a \in 0 .. n - 1 : x.key[a] \in Nat, Sorted(x.key, n)
    PROVE  Sorted(InsertAt(x.key, dom, n, p, k), n + 1)
<1>1. PICK g : g = InsertAt(x.key, dom, n, p, k)
  OBVIOUS
<1>2. p \in 0 .. n /\ (\A s \in 0 .. (p - 1) : x.key[s] <= k) /\ (p < n => x.key[p] > k)
  BY DEF IsSlotOf
<1>3. ASSUME NEW s \in 0 .. n
      PROVE  /\ s < p => g[s] = x.key[s] /\ g[s] <= k /\ s \in 0 .. n - 1
             /\ s = p => g[s] = k
             /\ s > p => g[s] = x.key[s - 1] /\ g[s] >= k /\ s - 1 \in 0 .. n - 1
  <2>1. p \in Nat /\ s \in dom /\ s \in Nat
    BY <1>2
  <2>2. /\ s < p => g[s] = x.key[s]
        /\ s = p => g[s] = k
        /\ s > p /\ s <= n => g[s] = x.key[s - 1]
    <3>1. PICK f : f = x.key
      OBVIOUS
    <3>2. g = InsertAt(f, dom, n, p, k)
      BY <1>1, <3>1
    <3> QED BY <2>1, <3>1, <3>2 DEF InsertAt
  <2>3. CASE s < p
    <3>1. s \in 0 .. p - 1 /\ s \in 0 .. n - 1
      BY <1>2, <2>1, <2>3
    <3> QED BY <1>2, <2>1, <2>2, <2>3, <3>1
  <2>4. CASE s > p
    <3>1. s - 1 \in 0 .. n - 1 /\ p \in 0 .. n - 1 /\ p <= s - 1 /\ p < n
      BY <1>2, <2>1, <2>4
    <3>2. x.key[p] <= x.key[s - 1] /\ x.key[p] > k /\ x.key[p] \in Nat /\ x.key[s - 1] \in Nat
      BY <1>2, <3>1 DEF Sorted
    <3>3. g[s] = x.key[s - 1] /\ x.key[s - 1] >= k
      BY <2>2, <2>4, <3>2
    <3> QED BY <2>1, <2>4, <3>1, <3>3, <1>2
  <2>5. CASE s = p
    BY <1>2, <2>1, <2>2, <2>5
  <2> QED BY <1>2, <2>1, <2>3, <2>4, <2>5
<1>4. ASSUME NEW a \in 0 .. n, NEW b \in 0 .. n, a <= b PROVE g[a] <= g[b]
  <2>1. CASE a < p /\ b < p
    BY <1>3, <1>4, <2>1 DEF Sorted
  <2>2. CASE a < p /\ b = p
    BY <1>3, <2>2
  <2>3. CASE a < p /\ b > p
    <3>1. x.key[a] \in Nat /\ x.key[b - 1] \in Nat
      BY <1>3, <2>3
    <3> QED BY <1>3, <2>3, <3>1
  <2>4. CASE a = p /\ b = p
    BY <1>3, <2>4
  <2>5. CASE a = p /\ b > p
    BY <1>3, <2>5
  <2>6. CASE a > p /\ b > p
    <3>1. a - 1 \in 0 .. n - 1 /\ b - 1 \in 0 .. n - 1 /\ a - 1 <= b - 1
      BY <1>3, <1>4, <2>6
    <3>2. x.key[a - 1] <= x.key[b - 1]
      BY <3>1 DEF Sorted
    <3> QED BY <1>3, <2>6, <3>2
  <2> QED BY <1>2, <1>4, <2>1, <2>2, <2>3, <2>4, <2>5, <2>6
<1>5. 0 .. (n + 1) - 1 = 0 .. n
  OBVIOUS
<1> QED BY <1>1, <1>4, <1>5 DEF Sorted

\* Each part of sorted keys is sorted.
LEMMA PartSorted ==
    ASSUME NEW f, NEW g, NEW n \in Nat, NEW m \in Nat, NEW d \in Nat, m + d <= n,
           Sorted(f, n), \A s \in 0 .. m - 1 : g[s] = f[s + d]
    PROVE  Sorted(g, m)
<1>1. ASSUME NEW a \in 0 .. m - 1, NEW b \in 0 .. m - 1, a <= b PROVE g[a] <= g[b]
  <2>1. a + d \in 0 .. n - 1 /\ b + d \in 0 .. n - 1 /\ a + d <= b + d
    BY <1>1
  <2> QED BY <2>1 DEF Sorted
<1> QED BY <1>1 DEF Sorted

\* The keys f that the node p has, or will have when the stores that wait for
\* it are performed, and their number n.
Becomes(p, f, n) ==
    /\ Sorted(f, n)
    /\ \A s \in 0 .. n - 1 :
          \/ node[p].key[s] = f[s]
          \/ \E t \in Threads : Has(stores[t], PutAt(p, "key", s, f[s]))
    /\ \/ node[p].nkey = n
       \/ \E t \in Threads : Has(stores[t], Put(p, "nkey", n))
    /\ \A t \in Threads : \A j \in DOMAIN stores[t] : stores[t][j].to = p =>
          /\ stores[t][j].field = "key" =>
                stores[t][j].slot \in 0 .. n - 1 /\ stores[t][j].value = f[stores[t][j].slot]
          /\ stores[t][j].field = "nkey" => stores[t][j].value = n

Ordered(p) == \E f : \E n \in Nat : Becomes(p, f, n)

OrderInv == \A p \in DOMAIN node : Ordered(p)

\* Nobody is about to store keys to p.
Quiet(p) ==
    \A t \in Threads : \A j \in DOMAIN stores[t] :
        ~(stores[t][j].to = p /\ stores[t][j].field \in {"key", "nkey"})

LEMMA QuietSorted ==
    ASSUME NEW p, Ordered(p), Quiet(p)
    PROVE  Sorted(node[p].key, node[p].nkey)
<1>1. PICK f, n : n \in Nat /\ Becomes(p, f, n)
  BY DEF Ordered
<1>2. ASSUME NEW t \in Threads, NEW s, NEW v PROVE ~Has(stores[t], PutAt(p, "key", s, v))
  BY DEF Quiet, Has, PutAt
<1>3. ASSUME NEW t \in Threads, NEW v PROVE ~Has(stores[t], Put(p, "nkey", v))
  BY DEF Quiet, Has, Put
<1>4. node[p].nkey = n /\ \A s \in 0 .. n - 1 : node[p].key[s] = f[s]
  BY <1>1, <1>2, <1>3 DEF Becomes
<1> QED BY <1>1, <1>4 DEF Becomes, Sorted

\* A node to which nobody is about to store, after the step.
LEMMA QuietOrdered ==
    ASSUME NEW p, Quiet(p)', NEW f, NEW n \in Nat, Sorted(f, n),
           node'[p].nkey = n, \A s \in 0 .. n - 1 : node'[p].key[s] = f[s]
    PROVE  Ordered(p)'
<1>1. Becomes(p, f, n)'
  BY DEF Becomes, Quiet
<1> QED BY <1>1 DEF Ordered

LEMMA OrderedKept ==
    ASSUME NEW p, Ordered(p), UNCHANGED stores,
           node'[p].key = node[p].key, node'[p].nkey = node[p].nkey
    PROVE  Ordered(p)'
<1>1. PICK f, n : n \in Nat /\ Becomes(p, f, n)
  BY DEF Ordered
<1>2. Becomes(p, f, n)'
  BY <1>1 DEF Becomes
<1> QED BY <1>1, <1>2 DEF Ordered

LEMMA SameNodesOrdered ==
    ASSUME OrderInv, UNCHANGED <<node, stores>>
    PROVE  OrderInv'
<1>1. ASSUME NEW p \in DOMAIN node PROVE Ordered(p)'
  BY OrderedKept DEF OrderInv
<1> QED BY <1>1 DEF OrderInv

\* Stores go to internal nodes, the key stores to nodes that their thread holds.
LEMMA StoresGo ==
    ASSUME TreeInv, NEW u \in Threads, NEW j \in DOMAIN stores[u]
    PROVE  /\ stores[u][j].to \in DOMAIN node /\ ~node[stores[u][j].to].isLeaf
           /\ stores[u][j].field \in {"key", "nkey"} => Holds(u, stores[u][j].to)
<1>1. stores[u] # <<>>
  BY StoresAre DEF TreeInv
<1>2. pc[u] \in {"added", "split"}
  BY <1>1 DEF TreeInv, PlaceInv
<1>3. PICK st : st = stores[u][j]
  OBVIOUS
<1>4. GoodStore(u, st)
  BY <1>3 DEF TreeInv, StoreInv
<1>5. st.to \in DOMAIN node /\ ~node[st.to].isLeaf
  BY <1>2, <1>4, StoreTargets DEF TreeInv
<1>6. st.field \in {"key", "nkey"} => Holds(u, st.to)
  BY <1>2, <1>4 DEF GoodStore, Holds
<1> QED BY <1>3, <1>5, <1>6

LEMMA HeldQuiet ==
    ASSUME TreeInv, NEW t \in Threads, NEW p \in DOMAIN node, Holds(t, p), stores[t] = <<>>
    PROVE  Quiet(p)
<1>1. ASSUME NEW u \in Threads, NEW j \in DOMAIN stores[u],
             stores[u][j].to = p, stores[u][j].field \in {"key", "nkey"}
      PROVE  FALSE
  <2>1. Holds(u, p)
    BY <1>1, StoresGo
  <2>2. locked[p] = u /\ locked[p] = t
    BY <2>1 DEF TreeInv, LocksAreHeld
  <2> QED BY <1>1, <2>2
<1> QED BY <1>1 DEF Quiet

\* The keys of a node with one inserted.
LEMMA NewKeysSorted ==
    ASSUME TypeOK, NEW x \in NodeType, NEW k \in Nat, Sorted(x.key, x.nkey)
    PROVE  /\ x.nkey < N - 1 => Sorted(NewKeys(x, k), x.nkey + 1)
           /\ x.nkey = N - 1 => Sorted(TempKey(x, k), N)
<1>1. PICK n, p : n \in Nat /\ n = x.nkey /\ p = SlotOf(x, k)
  BY NodeTypeIs
<1>2. IsSlotOf(p, x, k)
  BY <1>1, SlotOfType
<1>3. n <= N - 1 /\ \A a \in 0 .. n - 1 : x.key[a] \in Nat
  <2>1. n \in 0 .. N - 1 /\ x.key \in [Slots -> Nat]
    BY <1>1, NodeTypeIs
  <2>2. \A a \in 0 .. n - 1 : a \in Slots
    BY <2>1, Halves
  <2> QED BY <2>1, <2>2
<1>4. CASE n < N - 1
  <2>1. Slots \in SUBSET Nat /\ 0 .. n \subseteq Slots
    BY <1>1, <1>4, Halves
  <2>2. Sorted(InsertAt(x.key, Slots, n, p, k), n + 1)
    BY <1>1, <1>2, <1>3, <2>1, InsertSorted
  <2> QED BY <1>1, <1>4, <2>2 DEF NewKeys
<1>5. CASE n = N - 1
  <2>1. PICK dom : dom = 0 .. N - 1 /\ dom \in SUBSET Nat /\ 0 .. n \subseteq dom
    BY <1>5, Halves
  <2>2. Sorted(InsertAt(x.key, dom, n, p, k), n + 1)
    BY <1>1, <1>2, <1>3, <2>1, InsertSorted
  <2>3. TempKey(x, k) = InsertAt(x.key, dom, n, p, k) /\ n + 1 = N
    BY <1>1, <1>5, <2>1, Halves DEF TempKey
  <2> QED BY <1>1, <1>5, <2>2, <2>3
<1> QED BY <1>1, <1>3, <1>4, <1>5, Halves

\* Nobody stores to a leaf, and nobody to a node that is not there yet.
LEMMA UntargetedQuiet ==
    ASSUME TreeInv, NEW p, p \notin DOMAIN node \/ node[p].isLeaf
    PROVE  Quiet(p)
  BY StoresGo DEF Quiet

LEMMA StillQuiet ==
    ASSUME NEW p, Quiet(p), UNCHANGED stores
    PROVE  Quiet(p)'
  BY DEF Quiet

LEMMA GrowRootOrders ==
    ASSUME TreeInv, OrderInv, NEW t \in Threads, GrowRoot(t)
    PROVE  OrderInv'
<1>1. PICK new, z : IsGrown(t, new, z)
  BY GrowRootIs
<1>2. UNCHANGED stores
  BY DEF GrowRoot
<1>3. /\ DOMAIN node' = DOMAIN node \cup {new} /\ new \notin DOMAIN node /\ node'[new] = z
      /\ IsNewRoot(z, lm_key[t], lc[t], rc[t])
      /\ \A p \in DOMAIN node :
           node'[p] = IF p \in {lc[t], rc[t]} THEN [node[p] EXCEPT !.parent = new] ELSE node[p]
  BY <1>1 DEF IsGrown
<1>4. ASSUME NEW p \in DOMAIN node PROVE Ordered(p)'
  <2>1. node[p] \in NodeType
    BY NodeFields DEF TreeInv
  <2>2. node'[p].key = node[p].key /\ node'[p].nkey = node[p].nkey
    BY <1>3, <2>1 DEF NodeType
  <2> QED BY <1>2, <2>2, OrderedKept DEF OrderInv
<1>5. Ordered(new)'
  <2>1. z.nkey = 1 /\ z.key[0] = lm_key[t] /\ lm_key[t] \in Nat
    <3>1. lm_key[t] \in Nat
      BY DEF TreeInv, TypeOK
    <3>2. z.nkey = 1 /\ z.key[0] = lm_key[t]
      BY <1>3 DEF IsNewRoot
    <3> QED BY <3>1, <3>2
  <2>2. PICK f : f = z.key
    OBVIOUS
  <2>3. Sorted(f, 1)
    BY <2>1, <2>2 DEF Sorted
  <2>4. Quiet(new)'
    BY <1>2, <1>3, UntargetedQuiet, StillQuiet
  <2>5. 1 \in Nat /\ node'[new].nkey = 1 /\ \A s \in 0 .. 1 - 1 : node'[new].key[s] = f[s]
    BY <1>3, <2>1, <2>2
  <2> QED BY <2>3, <2>4, <2>5, QuietOrdered
<1> QED BY <1>3, <1>4, <1>5 DEF OrderInv

LEMMA AddToLeafOrders ==
    ASSUME TreeInv, OrderInv, NEW t \in Threads, AddToLeaf(t)
    PROVE  OrderInv'
<1>0. pc[t] = "leaf" /\ cur[t] \in DOMAIN node /\ node[cur[t]].isLeaf /\ UNCHANGED stores
  BY DEF TreeInv, PlaceInv, AddToLeaf, At, Leaf
<1>1. PICK c, x, k : /\ c = cur[t] /\ x \in NodeType /\ x = node[c] /\ k \in Nat /\ k = Key(t)
                     /\ x.nkey < N - 1
  BY <1>0, NodeFields, InsertsAKey DEF TreeInv, AddToLeaf
<1>2. PICK y : /\ y = InsertInLeaf(x, k) /\ y.nkey = x.nkey + 1 /\ y.key = NewKeys(x, k)
               /\ node' = [node EXCEPT ![c] = y]
  <2>1. node' = [node EXCEPT ![c] = InsertInLeaf(x, k)]
    BY <1>1 DEF AddToLeaf
  <2>2. TypeOK
    BY DEF TreeInv
  <2> QED BY <1>1, <2>1, <2>2, InsertInLeafIs DEF NewKeys
<1>3. DOMAIN node' = DOMAIN node /\ \A p \in DOMAIN node : node'[p] = IF p = c THEN y ELSE node[p]
  BY <1>2 DEF TreeInv, TypeOK
<1>4. ASSUME NEW p \in DOMAIN node, p # c PROVE Ordered(p)'
  BY <1>0, <1>3, <1>4, OrderedKept DEF OrderInv
<1>5. Ordered(c)'
  <2>1. Quiet(c)
    BY <1>0, <1>1, UntargetedQuiet
  <2>2. Sorted(x.key, x.nkey)
    BY <1>0, <1>1, <2>1, QuietSorted DEF OrderInv
  <2>3. Sorted(y.key, y.nkey)
    BY <1>1, <1>2, <2>2, NewKeysSorted DEF TreeInv
  <2>4. y.nkey \in Nat
    BY <1>1, <1>2, NodeTypeIs
  <2>5. Quiet(c)'
    BY <1>0, <2>1, StillQuiet
  <2>6. node'[c] = y
    BY <1>0, <1>1, <1>3
  <2> QED BY <2>3, <2>4, <2>5, <2>6, QuietOrdered
<1> QED BY <1>3, <1>4, <1>5 DEF OrderInv

LEMMA SplitLeafOrders ==
    ASSUME TreeInv, OrderInv, NEW t \in Threads, SplitLeaf(t)
    PROVE  OrderInv'
<1>0. pc[t] = "leaf" /\ cur[t] \in DOMAIN node /\ node[cur[t]].isLeaf /\ UNCHANGED stores
  BY DEF TreeInv, PlaceInv, SplitLeaf, At, Leaf
<1>1. PICK c, x, k, right : /\ c = cur[t] /\ x \in NodeType /\ x = node[c] /\ k \in Nat /\ k = Key(t)
                            /\ x.nkey = N - 1 /\ right = Len(node) + 1
  BY <1>0, NodeFields, InsertsAKey DEF TreeInv, SplitLeaf
<1>2. PICK y, z : /\ y = LeftLeaf(x, k, right) /\ z = RightLeaf(x, k)
                  /\ node' = Append([node EXCEPT ![c] = y], z)
  BY <1>1 DEF SplitLeaf
<1>3. PICK low, high :
         /\ low = [s \in Slots |-> IF s < H THEN TempKey(x, k)[s] ELSE x.key[s]]
         /\ high = [s \in Slots |-> IF s < N - H THEN TempKey(x, k)[s + H] ELSE 0]
         /\ y.key = low /\ y.nkey = H /\ z.key = high /\ z.nkey = N - H
  <2>1. AreHalves(LeftLeaf(x, k, right), RightLeaf(x, k), x, k, right)
    <3>1. TypeOK /\ x \in NodeType /\ x.nkey = N - 1 /\ k \in Nat
      BY <1>1 DEF TreeInv
    <3> QED BY <3>1, LeafHalves
  <2> QED BY <1>2, <2>1 DEF AreHalves
<1>4. /\ DOMAIN node' = DOMAIN node \cup {right} /\ right \notin DOMAIN node /\ node'[right] = z
      /\ \A p \in DOMAIN node : node'[p] = IF p = c THEN y ELSE node[p]
  BY <1>0, <1>1, <1>2, AppendIs DEF TreeInv
<1>5. ASSUME NEW p \in DOMAIN node, p # c PROVE Ordered(p)'
  BY <1>0, <1>4, <1>5, OrderedKept DEF OrderInv
<1>6. Sorted(TempKey(x, k), N)
  <2>1. Quiet(c)
    BY <1>0, <1>1, UntargetedQuiet
  <2>2. Sorted(x.key, x.nkey)
    BY <1>0, <1>1, <2>1, QuietSorted DEF OrderInv
  <2> QED BY <1>1, <2>2, NewKeysSorted DEF TreeInv
<1>7. PICK f : f = TempKey(x, k)
  OBVIOUS
<1>8. Ordered(c)'
  <2>1. H \in Nat /\ N \in Nat /\ 0 \in Nat /\ H + 0 <= N
    BY Halves
  <2>2. \A s \in 0 .. H - 1 : low[s] = f[s + 0]
    <3>1. \A s \in 0 .. H - 1 : s \in Slots /\ s < H /\ s + 0 = s
      BY Halves
    <3> QED BY <1>3, <1>7, <3>1
  <2>3. Sorted(low, H)
    BY <1>6, <1>7, <2>1, <2>2, PartSorted
  <2>4. Quiet(c)'
    BY <1>0, <1>1, UntargetedQuiet, StillQuiet
  <2>5. node'[c].key = low /\ node'[c].nkey = H
    BY <1>0, <1>1, <1>3, <1>4
  <2> QED BY <2>1, <2>3, <2>4, <2>5, QuietOrdered
<1>9. Ordered(right)'
  <2>1. H \in Nat /\ N \in Nat /\ N - H \in Nat /\ (N - H) + H <= N
    BY Halves
  <2>2. \A s \in 0 .. (N - H) - 1 : high[s] = f[s + H]
    <3>1. \A s \in 0 .. (N - H) - 1 : s \in Slots /\ s < N - H
      BY Halves
    <3> QED BY <1>3, <1>7, <3>1
  <2>3. Sorted(high, N - H)
    BY <1>6, <1>7, <2>1, <2>2, PartSorted
  <2>4. Quiet(right)'
    BY <1>0, <1>4, UntargetedQuiet, StillQuiet
  <2>5. node'[right].key = high /\ node'[right].nkey = N - H
    BY <1>3, <1>4
  <2> QED BY <2>1, <2>3, <2>4, <2>5, QuietOrdered
<1> QED BY <1>4, <1>5, <1>8, <1>9 DEF OrderInv

\* t gets stores, none of them to the keys of p.
LEMMA OthersOrdered ==
    ASSUME NEW p, Ordered(p), NEW t \in Threads, stores[t] = <<>>,
           \A u \in Threads \ {t} : stores'[u] = stores[u],
           \A j \in DOMAIN stores'[t] :
               ~(stores'[t][j].to = p /\ stores'[t][j].field \in {"key", "nkey"}),
           node'[p].key = node[p].key, node'[p].nkey = node[p].nkey
    PROVE  Ordered(p)'
<1>1. PICK f, n : n \in Nat /\ Becomes(p, f, n)
  BY DEF Ordered
<1>2. ASSUME NEW u \in Threads, NEW st, Has(stores[u], st)
      PROVE  Has(stores'[u], st)
  <2>1. u # t
    BY <1>2 DEF Has
  <2> QED BY <1>2, <2>1
<1>3. \A s \in 0 .. n - 1 :
          \/ node'[p].key[s] = f[s]
          \/ \E u \in Threads : Has(stores'[u], PutAt(p, "key", s, f[s]))
  BY <1>1, <1>2 DEF Becomes
<1>4. \/ node'[p].nkey = n
      \/ \E u \in Threads : Has(stores'[u], Put(p, "nkey", n))
  BY <1>1, <1>2 DEF Becomes
<1>5. ASSUME NEW u \in Threads, NEW j \in DOMAIN stores'[u], stores'[u][j].to = p
      PROVE  /\ stores'[u][j].field = "key" =>
                   stores'[u][j].slot \in 0 .. n - 1 /\ stores'[u][j].value = f[stores'[u][j].slot]
             /\ stores'[u][j].field = "nkey" => stores'[u][j].value = n
  <2>1. CASE u = t
    BY <1>5, <2>1
  <2>2. CASE u # t
    BY <1>1, <1>5, <2>2 DEF Becomes
  <2> QED BY <2>1, <2>2
<1>6. Becomes(p, f, n)'
  BY <1>1, <1>3, <1>4, <1>5 DEF Becomes, Has
<1> QED BY <1>1, <1>6 DEF Ordered

\* t gets the stores q that make f of the keys of p.
LEMMA PendingOrdered ==
    ASSUME NEW p, Quiet(p), NEW t \in Threads, NEW q, stores'[t] = q,
           \A u \in Threads \ {t} : stores'[u] = stores[u],
           NEW f, NEW n \in Nat, Sorted(f, n),
           \A s \in 0 .. n - 1 : node'[p].key[s] = f[s] \/ Has(q, PutAt(p, "key", s, f[s])),
           Has(q, Put(p, "nkey", n)),
           \A j \in DOMAIN q : q[j].to = p =>
               /\ q[j].field = "key" => q[j].slot \in 0 .. n - 1 /\ q[j].value = f[q[j].slot]
               /\ q[j].field = "nkey" => q[j].value = n
    PROVE  Ordered(p)'
<1>1. ASSUME NEW u \in Threads, NEW j \in DOMAIN stores'[u], stores'[u][j].to = p
      PROVE  /\ stores'[u][j].field = "key" =>
                   stores'[u][j].slot \in 0 .. n - 1 /\ stores'[u][j].value = f[stores'[u][j].slot]
             /\ stores'[u][j].field = "nkey" => stores'[u][j].value = n
  <2>1. CASE u = t
    BY <1>1, <2>1
  <2>2. CASE u # t
    BY <1>1, <2>2 DEF Quiet
  <2> QED BY <2>1, <2>2
<1>2. Becomes(p, f, n)'
  BY <1>1 DEF Becomes, Has
<1> QED BY <1>2 DEF Ordered

LEMMA AddToParentOrders ==
    ASSUME TreeInv, OrderInv, NEW t \in Threads, AddToParent(t)
    PROVE  OrderInv'
<1>0. /\ pc[t] = "parent" /\ cur[t] \in DOMAIN node /\ stores[t] = <<>>
      /\ node[cur[t]].nkey < N - 1
      /\ stores' = [stores EXCEPT ![t] = FinalizeParent(cur[t], rc[t], lm_key[t])]
      /\ UNCHANGED node
  BY DEF TreeInv, PlaceInv, AddToParent, At, Internal
<1>1. PICK p, x, k, c :
          /\ p \in DOMAIN node /\ x \in NodeType /\ k \in Nat
          /\ p = cur[t] /\ x = node[p] /\ k = lm_key[t] /\ c = rc[t] /\ x.nkey < N - 1
  BY <1>0, NodeFields DEF TreeInv, TypeOK
<1>2. PICK n, s, chi, key, q :
          /\ n = x.nkey /\ s = SlotOf(x, k)
          /\ chi = NewChildren(x, k, c) /\ key = NewKeys(x, k)
          /\ q = FinalizeParent(p, c, k)
  OBVIOUS
<1>3. n \in Nat /\ s \in Nat /\ s <= n /\ n <= N - 2 /\ x.nkey \in 0 .. N - 1
  <2>1. n \in 0 .. N - 1 /\ s \in 0 .. n
    BY <1>1, <1>2, NodeTypeIs, SlotOfType DEF TreeInv
  <2>2. n < N - 1 /\ n = x.nkey
    BY <1>1, <1>2
  <2> QED BY <2>1, <2>2, Halves
<1>4. IsAdding(q, p, n, s, chi, key)
  BY <1>1, <1>2, FinalizeParentIs DEF TreeInv
<1>5. q = stores'[t] /\ \A u \in Threads \ {t} : stores'[u] = stores[u]
  BY <1>0, <1>1, <1>2 DEF TreeInv, TypeOK
<1>6. ASSUME NEW st \in Copies(p, n, s, chi, key)
      PROVE  /\ st.to = p /\ st.field \in {"chi", "key"}
             /\ st.field = "key" => st.slot \in s .. n /\ st.value = key[st.slot]
  BY DEF Copies, PutAt
<1>7. /\ Len(q) \in Nat /\ DOMAIN q = 1 .. Len(q)
      /\ \A j \in DOMAIN q : q[j] \in Copies(p, n, s, chi, key) \/ q[j] = Put(p, "nkey", n + 1)
      /\ Has(q, Put(p, "nkey", n + 1))
      /\ \A m \in s .. n : Has(q, PutAt(p, "key", m, key[m]))
  <2>1. q \in Seq(Copies(p, n, s, chi, key) \cup {Put(p, "nkey", n + 1)}) /\ Len(q) >= 3
    BY <1>4 DEF IsAdding
  <2>2. /\ Len(q) \in Nat /\ DOMAIN q = 1 .. Len(q)
        /\ \A j \in DOMAIN q : q[j] \in Copies(p, n, s, chi, key) \/ q[j] = Put(p, "nkey", n + 1)
        /\ Len(q) \in DOMAIN q
    BY <2>1
  <2>3. q[Len(q)] = Put(p, "nkey", n + 1)
    BY <1>4 DEF IsAdding
  <2>4. Has(q, Put(p, "nkey", n + 1))
    BY <2>2, <2>3 DEF Has
  <2>5. \A m \in s .. n : Has(q, PutAt(p, "key", m, key[m]))
    BY <1>4 DEF IsAdding
  <2> QED BY <2>2, <2>4, <2>5
<1>8. ASSUME NEW a \in DOMAIN node, a # p PROVE Ordered(a)'
  <2>1. \A j \in DOMAIN q : q[j].to = p
    BY <1>6, <1>7 DEF Put
  <2> QED BY <1>0, <1>5, <1>8, <2>1, OthersOrdered DEF OrderInv
<1>9. Ordered(p)'
  <2>1. Quiet(p)
    BY <1>0, <1>1, HeldQuiet DEF Holds
  <2>2. Sorted(x.key, n)
    BY <1>1, <1>2, <2>1, QuietSorted DEF OrderInv
  <2>3. Sorted(key, n + 1) /\ n + 1 \in Nat
    BY <1>1, <1>2, <1>3, <2>2, NewKeysSorted DEF TreeInv
  <2>4. ASSUME NEW m \in 0 .. (n + 1) - 1
        PROVE  node'[p].key[m] = key[m] \/ Has(q, PutAt(p, "key", m, key[m]))
    <3>1. CASE m < s
      <4>1. m \in Slots /\ Slots \in SUBSET Nat
        BY <1>3, Halves
      <4>2. key[m] = x.key[m]
        <5>1. key = InsertAt(x.key, Slots, n, s, k)
          BY <1>2 DEF NewKeys
        <5> QED BY <1>3, <3>1, <4>1, <5>1 DEF InsertAt
      <4> QED BY <1>0, <1>1, <4>2
    <3>2. CASE m >= s
      <4>1. m \in s .. n
        BY <1>3, <3>2
      <4> QED BY <1>7, <4>1
    <3> QED BY <1>3, <3>1, <3>2
  <2>5. ASSUME NEW j \in DOMAIN q, q[j].to = p
        PROVE  /\ q[j].field = "key" => q[j].slot \in 0 .. (n + 1) - 1 /\ q[j].value = key[q[j].slot]
               /\ q[j].field = "nkey" => q[j].value = n + 1
    <3>1. CASE q[j] \in Copies(p, n, s, chi, key)
      BY <1>3, <1>6, <3>1
    <3>2. CASE q[j] = Put(p, "nkey", n + 1)
      BY <3>2 DEF Put
    <3> QED BY <1>7, <3>1, <3>2
  <2>6. PICK m : m = n + 1
    OBVIOUS
  <2>7. /\ m \in Nat /\ Sorted(key, m) /\ Has(q, Put(p, "nkey", m))
        /\ \A a \in 0 .. m - 1 : node'[p].key[a] = key[a] \/ Has(q, PutAt(p, "key", a, key[a]))
        /\ \A j \in DOMAIN q : q[j].to = p =>
              /\ q[j].field = "key" => q[j].slot \in 0 .. m - 1 /\ q[j].value = key[q[j].slot]
              /\ q[j].field = "nkey" => q[j].value = m
    BY <1>7, <2>3, <2>4, <2>5, <2>6
  <2> QED BY <1>5, <2>1, <2>7, PendingOrdered
<1> QED BY <1>0, <1>8, <1>9 DEF OrderInv

LEMMA SplitInternalOrders ==
    ASSUME TreeInv, OrderInv, NEW t \in Threads, SplitInternal(t)
    PROVE  OrderInv'
<1>0. /\ pc[t] = "parent" /\ Internal(cur[t]) /\ cur[t] \in DOMAIN node /\ stores[t] = <<>>
      /\ rc[t] \in DOMAIN node
      /\ node[cur[t]].nkey = N - 1
      /\ node' = Append(node, RightInternal(node[cur[t]], lm_key[t], rc[t]))
      /\ stores' = [stores EXCEPT ![t] =
                       SplitParent(cur[t], rc[t], lm_key[t], Len(node) + 1)]
  BY DEF TreeInv, PlaceInv, SplitInternal, At, Internal, Climbing
<1>1. PICK p, x, k, c, right, q, z, h, r, chi, key :
          /\ p \in DOMAIN node /\ x \in NodeType /\ k \in Nat /\ c \in DOMAIN node
          /\ p = cur[t] /\ x = node[p] /\ k = lm_key[t] /\ c = rc[t] /\ x.nkey = N - 1
          /\ right = Len(node) + 1
          /\ q = SplitParent(p, c, k, right)
          /\ z = RightInternal(x, k, c)
          /\ h = x.high_key /\ r = x.right_link
          /\ chi = TempChi(x, k, c) /\ key = TempKey(x, k)
  BY <1>0, NodeFields DEF TreeInv, TypeOK
<1>2. IsSplitting(q, p, right, chi, key, h, r)
  BY <1>1, SplitParentIs
<1>3. \A s \in 0 .. x.nkey : x.chi[s] # NULL
  BY <1>0, <1>1 DEF TreeInv, NodeInv, NodeOK, Internal
<1>4. PICK zkey :
         /\ zkey = [s \in Slots |-> IF s < N - H THEN TempKey(x, k)[s + H] ELSE 0]
         /\ z.key = zkey /\ z.nkey = N - H
  <2>1. TypeOK /\ x \in NodeType /\ k \in Nat /\ c \in DOMAIN node /\ x.nkey = N - 1
    BY <1>1 DEF TreeInv
  <2>2. PICK zk, zc : IsRightHalf(RightInternal(x, k, c), x, k, c, zk, zc)
    BY <1>3, <2>1, RightInternalIs
  <2>3. /\ zk = [s \in Slots |-> IF s < N - H THEN TempKey(x, k)[s + H] ELSE 0]
        /\ z = [isLeaf |-> FALSE, nkey |-> N - H, key |-> zk, chi |-> zc,
                high_key |-> 0, right_link |-> NULL, parent |-> x.parent]
    BY <1>1, <2>2, Zenon DEF IsRightHalf
  <2>4. z.key = zk /\ z.nkey = N - H
    BY <2>3
  <2> QED BY <2>3, <2>4, Zenon
<1>5. /\ DOMAIN node' = DOMAIN node \cup {right} /\ right \notin DOMAIN node
      /\ node'[right] = z
      /\ \A a \in DOMAIN node : node'[a] = node[a]
  <2>1. node \in [1 .. Len(node) -> NodeType]
    <3>1. node \in Seq(NodeType)
      BY DEF TreeInv, TypeOK
    <3> QED BY <3>1
  <2>2. [node EXCEPT ![p] = x] = node
    BY <1>1, <2>1
  <2>3. node' = Append([node EXCEPT ![p] = x], z)
    BY <1>0, <1>1, <2>2
  <2> QED BY <1>1, <2>3, AppendIs DEF TreeInv
<1>6. q = stores'[t] /\ \A u \in Threads \ {t} : stores'[u] = stores[u]
  BY <1>0, <1>1 DEF TreeInv, TypeOK
<1>7. /\ \A j \in DOMAIN q : q[j] \in SplitStores(p, right, chi, key, h, r)
      /\ \A m \in 0 .. H - 2 : Has(q, PutAt(p, "key", m, key[m]))
      /\ Has(q, Put(p, "nkey", H - 1))
  <2>1. q \in Seq(SplitStores(p, right, chi, key, h, r))
    BY <1>2 DEF IsSplitting
  <2>2. \A j \in DOMAIN q : q[j] \in SplitStores(p, right, chi, key, h, r)
    BY <2>1
  <2> QED BY <1>2, <2>2 DEF IsSplitting
<1>8. ASSUME NEW st \in SplitStores(p, right, chi, key, h, r)
      PROVE  /\ st.field = "key" => st.to = p /\ st.slot \in 0 .. H - 2 /\ st.value = key[st.slot]
             /\ st.field = "nkey" => st.to = p /\ st.value = H - 1
  <2>1. CASE st \in {Adopt(right, a) : a \in 0 .. N - H} \cup {Adopt(p, a) : a \in 0 .. H - 1}
    BY <2>1 DEF Adopt
  <2>2. CASE st \in Copies(p, H - 2, 0, chi, key)
    BY <2>2 DEF Copies, PutAt
  <2>3. CASE st \in {PutAt(p, "chi", 0, chi[0]), Put(p, "nkey", H - 1),
                     Put(right, "high_key", h), Put(right, "right_link", r),
                     Put(p, "high_key", key[H - 1]), Put(p, "right_link", right)}
    BY <2>3 DEF Put, PutAt
  <2> QED BY <2>1, <2>2, <2>3 DEF SplitStores
<1>9. Quiet(p)
  BY <1>0, <1>1, HeldQuiet DEF Holds
<1>10. Sorted(key, N)
  <2>1. Sorted(x.key, x.nkey)
    BY <1>1, <1>9, QuietSorted DEF OrderInv
  <2> QED BY <1>1, <2>1, NewKeysSorted DEF TreeInv
<1>11. ASSUME NEW a \in DOMAIN node, a # p PROVE Ordered(a)'
  <2>1. \A j \in DOMAIN q : q[j].field \in {"key", "nkey"} => q[j].to = p
    BY <1>7, <1>8
  <2> QED BY <1>0, <1>5, <1>6, <1>11, <2>1, OthersOrdered DEF OrderInv
<1>12. Ordered(p)'
  <2>1. PICK m : m = H - 1 /\ m \in Nat /\ m + 0 <= N /\ 0 .. m - 1 = 0 .. H - 2 /\ 0 \in Nat /\ N \in Nat
    BY Halves
  <2>2. Sorted(key, m)
    <3>1. \A s \in 0 .. m - 1 : key[s] = key[s + 0]
      BY <2>1
    <3> QED BY <1>10, <2>1, <3>1, PartSorted
  <2>3. /\ Has(q, Put(p, "nkey", m))
        /\ \A a \in 0 .. m - 1 : node'[p].key[a] = key[a] \/ Has(q, PutAt(p, "key", a, key[a]))
        /\ \A j \in DOMAIN q : q[j].to = p =>
              /\ q[j].field = "key" => q[j].slot \in 0 .. m - 1 /\ q[j].value = key[q[j].slot]
              /\ q[j].field = "nkey" => q[j].value = m
    BY <1>7, <1>8, <2>1
  <2> QED BY <1>6, <1>9, <2>1, <2>2, <2>3, PendingOrdered
<1>13. Ordered(right)'
  <2>1. PICK m : m = N - H /\ m \in Nat /\ H \in Nat /\ N \in Nat /\ m + H <= N
    BY Halves
  <2>2. \A s \in 0 .. m - 1 : zkey[s] = key[s + H]
    <3>1. \A s \in 0 .. m - 1 : s \in Slots /\ s < N - H
      BY <2>1, Halves
    <3> QED BY <1>1, <1>4, <3>1
  <2>3. Sorted(zkey, m)
    BY <1>10, <2>1, <2>2, PartSorted
  <2>4. Quiet(right)'
    <3>1. Quiet(right)
      BY <1>5, UntargetedQuiet
    <3>2. \A j \in DOMAIN q : q[j].field \in {"key", "nkey"} => q[j].to # right
      BY <1>1, <1>5, <1>7, <1>8
    <3>3. ASSUME NEW u \in Threads, NEW j \in DOMAIN stores'[u]
          PROVE  ~(stores'[u][j].to = right /\ stores'[u][j].field \in {"key", "nkey"})
      <4>1. CASE u = t
        BY <1>6, <3>2, <4>1
      <4>2. CASE u # t
        BY <1>6, <3>1, <4>2 DEF Quiet
      <4> QED BY <4>1, <4>2
    <3> QED BY <3>3 DEF Quiet
  <2>5. node'[right].nkey = m /\ \A s \in 0 .. m - 1 : node'[right].key[s] = zkey[s]
    BY <1>4, <1>5, <2>1
  <2> QED BY <2>1, <2>3, <2>4, <2>5, QuietOrdered
<1> QED BY <1>5, <1>11, <1>12, <1>13 DEF OrderInv

\* A store brings a node nearer to the keys it will have.
LEMMA StoreOrders ==
    ASSUME TreeInv, OrderInv, NEW t \in Threads, Store(t)
    PROVE  OrderInv'
<1>0. PICK q, st, rest, g, y : StoreStep(t, q, st, rest, g, y)
  BY StoreStepIs
<1>1. /\ q = stores[t] /\ st = q[1] /\ q \in Seq(StoreType) /\ Len(q) >= 1
      /\ GoodStore(t, st)
      /\ g = Target(st) /\ IsStored(g, y, st)
      /\ DOMAIN node' = DOMAIN node
      /\ \A p \in DOMAIN node : node'[p] = IF p = g THEN y ELSE node[p]
      /\ rest = stores'[t] /\ rest \in Seq(StoreType) /\ Len(rest) = Len(q) - 1
      /\ \A j \in 1 .. Len(rest) : rest[j] = q[j + 1]
      /\ \A u \in Threads \ {t} : stores'[u] = stores[u]
  BY <1>0 DEF StoreStep, TreeInv, TypeOK
<1>2. /\ g \in DOMAIN node
      /\ y.key = IF st.field = "key" THEN [node[g].key EXCEPT ![st.slot] = st.value]
                                     ELSE node[g].key
      /\ y.nkey = IF st.field = "nkey" THEN st.value ELSE node[g].nkey
  BY <1>1 DEF IsStored
<1>3. st.field # "parent" => g = st.to
  BY <1>1 DEF Target
<1>4. node[g].key \in [Slots -> Nat]
  BY <1>2, NodeFields DEF TreeInv
<1>5. /\ DOMAIN q = 1 .. Len(q) /\ Len(q) \in Nat /\ 1 \in DOMAIN q
      /\ DOMAIN rest = 1 .. Len(rest) /\ Len(rest) \in Nat
      /\ \A j \in DOMAIN rest : j + 1 \in DOMAIN q
  BY <1>1
<1>6. ASSUME NEW u \in Threads, NEW s1, Has(stores[u], s1)
      PROVE  Has(stores'[u], s1) \/ (u = t /\ s1 = st)
  <2>1. PICK j \in DOMAIN stores[u] : stores[u][j] = s1
    BY <1>6 DEF Has
  <2>2. CASE u # t
    BY <1>1, <1>6, <2>2
  <2>3. CASE u = t /\ j = 1
    BY <1>1, <2>1, <2>3
  <2>4. CASE u = t /\ j # 1
    <3>1. j - 1 \in DOMAIN rest /\ (j - 1) + 1 = j /\ j - 1 \in 1 .. Len(rest)
      BY <1>1, <1>5, <2>1, <2>4
    <3>2. rest[j - 1] = s1
      BY <1>1, <2>1, <2>4, <3>1
    <3> QED BY <1>1, <2>4, <3>1, <3>2 DEF Has
  <2> QED BY <2>2, <2>3, <2>4
<1>7. ASSUME NEW u \in Threads, NEW j \in DOMAIN stores'[u]
      PROVE  \E m \in DOMAIN stores[u] : stores'[u][j] = stores[u][m]
  <2>1. CASE u # t
    BY <1>1, <2>1
  <2>2. CASE u = t
    BY <1>1, <1>5, <2>2
  <2> QED BY <2>1, <2>2
<1>8. ASSUME NEW p \in DOMAIN node PROVE Ordered(p)'
  <2>0. Ordered(p)
    BY DEF OrderInv
  <2>1. PICK f, n : n \in Nat /\ Becomes(p, f, n)
    BY <2>0 DEF Ordered
  <2>2. st.to = p => /\ st.field = "key" => st.slot \in 0 .. n - 1 /\ st.value = f[st.slot]
                     /\ st.field = "nkey" => st.value = n
    BY <1>1, <1>5, <2>1 DEF Becomes
  <2>3. ASSUME NEW s \in 0 .. n - 1
        PROVE  \/ node'[p].key[s] = f[s]
               \/ \E u \in Threads : Has(stores'[u], PutAt(p, "key", s, f[s]))
    <3>1. CASE node[p].key[s] = f[s]
      <4>1. CASE p = g /\ st.field = "key"
        <5>1. st.slot \in Slots /\ st.value = f[st.slot]
          BY <1>1, <1>3, <2>2, <4>1 DEF GoodStore
        <5>2. y.key = [node[g].key EXCEPT ![st.slot] = st.value]
          BY <1>2, <4>1
        <5>3. y.key[s] = f[s]
          BY <1>4, <3>1, <4>1, <5>1, <5>2
        <5> QED BY <1>1, <4>1, <5>3
      <4>2. CASE ~(p = g /\ st.field = "key")
        BY <1>1, <1>2, <3>1, <4>2
      <4> QED BY <4>1, <4>2
    <3>2. CASE node[p].key[s] # f[s]
      <4>1. PICK u \in Threads : Has(stores[u], PutAt(p, "key", s, f[s]))
        BY <2>1, <3>2 DEF Becomes
      <4>2. CASE st = PutAt(p, "key", s, f[s])
        <5>1. st.field = "key" /\ st.to = p /\ st.slot = s /\ st.value = f[s]
          BY <4>2 DEF PutAt
        <5>2. s \in Slots
          BY <1>1, <5>1 DEF GoodStore
        <5>3. y.key = [node[g].key EXCEPT ![s] = f[s]] /\ p = g
          BY <1>2, <1>3, <5>1
        <5>4. y.key[s] = f[s]
          BY <1>4, <5>2, <5>3
        <5> QED BY <1>1, <5>3, <5>4
      <4>3. CASE st # PutAt(p, "key", s, f[s])
        BY <1>6, <4>1, <4>3
      <4> QED BY <4>2, <4>3
    <3> QED BY <3>1, <3>2
  <2>4. \/ node'[p].nkey = n
        \/ \E u \in Threads : Has(stores'[u], Put(p, "nkey", n))
    <3>1. CASE node[p].nkey = n
      BY <1>1, <1>2, <1>3, <2>2, <3>1
    <3>2. CASE node[p].nkey # n
      <4>1. PICK u \in Threads : Has(stores[u], Put(p, "nkey", n))
        BY <2>1, <3>2 DEF Becomes
      <4>2. CASE st = Put(p, "nkey", n)
        BY <1>1, <1>2, <1>3, <4>2 DEF Put
      <4>3. CASE st # Put(p, "nkey", n)
        BY <1>6, <4>1, <4>3
      <4> QED BY <4>2, <4>3
    <3> QED BY <3>1, <3>2
  <2>5. ASSUME NEW u \in Threads, NEW j \in DOMAIN stores'[u], stores'[u][j].to = p
        PROVE  /\ stores'[u][j].field = "key" =>
                     stores'[u][j].slot \in 0 .. n - 1 /\ stores'[u][j].value = f[stores'[u][j].slot]
               /\ stores'[u][j].field = "nkey" => stores'[u][j].value = n
    <3>1. PICK m \in DOMAIN stores[u] : stores'[u][j] = stores[u][m]
      BY <1>7
    <3> QED BY <2>1, <2>5, <3>1 DEF Becomes
  <2>6. Becomes(p, f, n)'
    BY <2>1, <2>3, <2>4, <2>5 DEF Becomes, Has
  <2> QED BY <2>1, <2>6 DEF Ordered
<1> QED BY <1>1, <1>8 DEF OrderInv

LEMMA InitOrder == Init => OrderInv
<1> SUFFICES ASSUME Init PROVE OrderInv
  OBVIOUS
<1>1. /\ DOMAIN node = {1} /\ node[1].nkey = 0 /\ \A t \in Threads : stores[t] = <<>>
  BY DEF Init, Alloc
<1>2. PICK f : f = node[1].key
  OBVIOUS
<1>3. Sorted(f, 0)
  BY DEF Sorted
<1>4. Becomes(1, f, 0)
  BY <1>1, <1>3 DEF Becomes
<1> QED BY <1>1, <1>4 DEF OrderInv, Ordered

LEMMA NextKeepsOrder == TreeInv /\ OrderInv /\ [Next]_vars => OrderInv'
<1> SUFFICES ASSUME TreeInv, OrderInv, [Next]_vars PROVE OrderInv'
  OBVIOUS
<1>1. ASSUME NEW t \in Threads, Step(t) PROVE OrderInv'
  <2>1. CASE ReadRoot(t) \/ ReadNkey(t) \/ ReadKey(t) \/ ReadChild(t) \/ LockLeaf(t)
    BY <2>1, SameNodesOrdered DEF ReadRoot, ReadNkey, ReadKey, ReadChild, LockLeaf
  <2>2. CASE MoveRight(t) \/ PublishRoot(t) \/ ReadParent(t) \/ LockParent(t) \/ LockNull(t)
    BY <2>2, SameNodesOrdered DEF MoveRight, PublishRoot, ReadParent, LockParent, LockNull
  <2>3. CASE UnlockBoth(t) \/ Ascend(t) \/ SearchCore(t)
    BY <2>3, SameNodesOrdered DEF UnlockBoth, Ascend, SearchCore
  <2>4. CASE AddToLeaf(t)
    BY <2>4, AddToLeafOrders
  <2>5. CASE SplitLeaf(t)
    BY <2>5, SplitLeafOrders
  <2>6. CASE GrowRoot(t)
    BY <2>6, GrowRootOrders
  <2>7. CASE AddToParent(t)
    BY <2>7, AddToParentOrders
  <2>8. CASE SplitInternal(t)
    BY <2>8, SplitInternalOrders
  <2>9. CASE Store(t)
    BY <2>9, StoreOrders
  <2> QED BY <1>1, <2>1, <2>2, <2>3, <2>4, <2>5, <2>6, <2>7, <2>8, <2>9 DEF Step
<1>2. CASE StartSearch
  BY <1>2, SameNodesOrdered DEF StartSearch
<1>3. CASE UNCHANGED vars
  BY <1>3, SameNodesOrdered DEF vars
<1> QED BY <1>1, <1>2, <1>3 DEF Next, Terminated

\* The keys of a node are in order whenever nobody is about to store keys to it:
\* also after the splits and shifts that other threads watched store by store.
THEOREM KeysInOrder == Spec => []KeysSorted
<1>1. OrderInv => KeysSorted
  BY QuietSorted DEF OrderInv, KeysSorted, Quiet, Sorted
<1> QED BY <1>1, TreeInvariant, InitOrder, NextKeepsOrder, PTL DEF Spec

-----------------------------------------------------------------------------
(* Parents *)

\* p is the right half of the root that u is splitting.
RootHalf(u, p) ==
    /\ p = rc[u]
    /\ \/ pc[u] = "split" /\ cur[u] = Root
       \/ pc[u] = "up" /\ lc[u] = Root

\* The new root that is not published yet, when the root has a parent.
NewRoot == node[Root].parent

\* The root has no parent, nor has its right half or the new root.
Parentless ==
    \A p \in DOMAIN node : node[p].parent = NULL =>
        \/ p = Root
        \/ \E u \in Threads : RootHalf(u, p) \/ (pc[u] = "publish" /\ p = NewRoot)

\* Only the thread that has given the root a parent publishes a root.
Publishing ==
    /\ \A u \in Threads : pc[u] = "publish" =>
          lc[u] = Root /\ NewRoot # NULL /\ node[NewRoot].parent = NULL /\ NewRoot # Root
    /\ node[Root].parent # NULL => \E u \in Threads : pc[u] = "publish"

\* The children that t is about to store to the node cur[t].
NewChild(t, c) ==
    \E j \in DOMAIN stores[t] : stores[t][j].field = "chi" /\ stores[t][j].value = c

\* The root is the child of the new root only.
RootIsNoChild ==
    /\ \A t \in Threads : rc[t] # Root
    /\ \A q \in DOMAIN node : \A s \in ChiSlots : node[q].chi[s] = Root => NewRoot = q
    /\ \A t \in Threads : NewChild(t, Root) => NewRoot = cur[t]

\* The new root is nobody's child, nor half of a split.
NewRootIsTop ==
    node[Root].parent # NULL =>
        /\ \A t \in Threads : rc[t] # NewRoot /\ ~NewChild(t, NewRoot)
        /\ \A q \in DOMAIN node : \A s \in ChiSlots : node[q].chi[s] # NewRoot
        /\ \A t \in Threads : pc[t] = "split" => cur[t] # NewRoot

\* What is being split has a parent, or is the root.
HasParent(p) == p = Root \/ node[p].parent # NULL

Climbs(t) ==
    /\ pc[t] = "split" => HasParent(cur[t])
    /\ pc[t] = "up" => HasParent(lc[t])
    /\ pc[t] = "lockparent" => cur[t] # NULL

\* The halves of a split are of one kind.
SameKind(t) == pc[t] = "up" => (node[rc[t]].isLeaf <=> node[lc[t]].isLeaf)

\* When the root is a leaf, everybody works at it, and nobody gets beyond it
\* before it has a parent.
RootLeaf ==
    node[Root].isLeaf =>
        /\ \A t \in Threads : cur[t] \in {NULL, Root} /\ lc[t] \in {NULL, Root}
        /\ node[Root].right_link # NULL =>
              \E u \in Threads : pc[u] \in {"up", "publish"} /\ lc[u] = Root

ParentInv ==
    /\ RootLeaf
    /\ \A t \in Threads : SameKind(t)
    /\ ~early => /\ Parentless /\ Publishing /\ RootIsNoChild /\ NewRootIsTop
                 /\ \A t \in Threads : Climbs(t)
                 /\ ended # "segfault"

LEMMA OneHolder ==
    ASSUME TreeInv, NEW t \in Threads, NEW u \in Threads, NEW p, Holds(t, p), Holds(u, p)
    PROVE  t = u
<1>1. p \in DOMAIN node
  BY HeldAre
<1> QED BY <1>1 DEF TreeInv, LocksAreHeld

\* Nobody else splits or publishes the root while t holds it.
LEMMA RootHeld ==
    ASSUME TreeInv, NEW t \in Threads, Holds(t, Root), NEW u \in Threads \ {t}
    PROVE  /\ pc[u] \in {"leaf", "parent", "added", "split"} => cur[u] # Root
           /\ pc[u] \in Climbing => lc[u] # Root
           /\ \A p : ~RootHalf(u, p)
<1>1. ~Holds(u, Root)
  BY OneHolder
<1> QED BY <1>1 DEF Holds, Climbing, RootHalf

LEMMA RootIsNode ==
    ASSUME TypeOK
    PROVE  Root \in DOMAIN node /\ Root # NULL /\ node[Root].isLeaf \in BOOLEAN
  BY NodeFields, Addresses DEF TypeOK

\* The step of t changes no kind, link, parent or child of a node.
SameShape ==
    /\ DOMAIN node' = DOMAIN node
    /\ \A p \in DOMAIN node :
          /\ node'[p].isLeaf = node[p].isLeaf /\ node'[p].parent = node[p].parent
          /\ node'[p].right_link = node[p].right_link /\ node'[p].chi = node[p].chi
    /\ UNCHANGED <<Root, early>>

\* A step of t that leaves the tree's shape and t's part in a change of the root.
LEMMA ShapeKept ==
    ASSUME TreeInv, ParentInv, NEW t \in Threads, SameShape,
           \A u \in Threads \ {t} : Locals(u)' = Locals(u),
           ended' # "segfault" \/ early,
           pc[t] # "publish", pc'[t] \notin {"publish", "split"},
           \A p : RootHalf(t, p) => RootHalf(t, p)',
           pc[t] = "up" /\ lc[t] = Root => pc'[t] = "up" /\ lc'[t] = Root,
           rc'[t] \in {NULL, rc[t]},
           node[Root].isLeaf => cur'[t] \in {NULL, Root} /\ lc'[t] \in {NULL, Root},
           pc'[t] = "up" => lc'[t] \in DOMAIN node /\ rc'[t] \in DOMAIN node,
           SameKind(t)', ~early => Climbs(t)',
           ~early => \A c : NewChild(t, c)' =>
               /\ c = Root => NewRoot = cur'[t]
               /\ node[Root].parent # NULL => c # NewRoot
    PROVE  ParentInv'
<1>r. Root \in DOMAIN node /\ Root # NULL
  BY RootIsNode DEF TreeInv
<1>s. /\ Root' = Root /\ NewRoot' = NewRoot /\ DOMAIN node' = DOMAIN node /\ early' = early
      /\ node'[Root].isLeaf = node[Root].isLeaf /\ node'[Root].parent = node[Root].parent
      /\ node'[Root].right_link = node[Root].right_link
  BY <1>r DEF SameShape, NewRoot
<1>u. ASSUME NEW u \in Threads \ {t}
      PROVE  /\ pc'[u] = pc[u] /\ cur'[u] = cur[u] /\ lc'[u] = lc[u] /\ rc'[u] = rc[u]
             /\ stores'[u] = stores[u]
             /\ \A p : RootHalf(u, p)' <=> RootHalf(u, p)
             /\ \A c : NewChild(u, c)' <=> NewChild(u, c)
  <2>1. /\ pc'[u] = pc[u] /\ cur'[u] = cur[u] /\ lc'[u] = lc[u] /\ rc'[u] = rc[u]
        /\ stores'[u] = stores[u]
    BY LocalsSame
  <2> QED BY <1>s, <2>1 DEF RootHalf, NewChild
<1>1. RootLeaf'
  <2>1. ASSUME node[Root].isLeaf
        PROVE  \A u \in Threads : cur'[u] \in {NULL, Root} /\ lc'[u] \in {NULL, Root}
    BY <1>u, <2>1 DEF ParentInv, RootLeaf
  <2>2. ASSUME node[Root].isLeaf, node[Root].right_link # NULL
        PROVE  \E u \in Threads : pc'[u] \in {"up", "publish"} /\ lc'[u] = Root
    <3>1. PICK u \in Threads : pc[u] \in {"up", "publish"} /\ lc[u] = Root
      BY <2>2 DEF ParentInv, RootLeaf
    <3>2. CASE u = t
      BY <3>1, <3>2
    <3>3. CASE u # t
      BY <1>u, <3>1, <3>3
    <3> QED BY <3>2, <3>3
  <2> QED BY <1>s, <2>1, <2>2 DEF RootLeaf
<1>2. ASSUME NEW u \in Threads PROVE SameKind(u)'
  <2>1. CASE u # t
    <3>1. pc[u] = "up" => lc[u] \in DOMAIN node /\ rc[u] \in DOMAIN node
      BY DEF TreeInv, PlaceInv, Climbing
    <3>2. SameKind(u)
      BY DEF ParentInv
    <3>3. pc[u] = "up" => /\ node'[lc[u]].isLeaf = node[lc[u]].isLeaf
                          /\ node'[rc[u]].isLeaf = node[rc[u]].isLeaf
      BY <3>1 DEF SameShape
    <3> QED BY <1>u, <2>1, <3>2, <3>3 DEF SameKind
  <2> QED BY <2>1
<1>3. ASSUME ~early
      PROVE  /\ Parentless' /\ Publishing' /\ RootIsNoChild' /\ NewRootIsTop'
             /\ \A u \in Threads : Climbs(u)'
             /\ ended' # "segfault"
  <2>0. /\ Parentless /\ Publishing /\ RootIsNoChild /\ NewRootIsTop
        /\ \A u \in Threads : Climbs(u)
    BY <1>3 DEF ParentInv
  <2>1. Parentless'
    <3>1. SUFFICES ASSUME NEW p \in DOMAIN node, node[p].parent = NULL, p # Root
                   PROVE  \E u \in Threads : RootHalf(u, p)' \/ (pc'[u] = "publish" /\ p = NewRoot)
      BY <1>s DEF Parentless, SameShape
    <3>2. PICK u \in Threads : RootHalf(u, p) \/ (pc[u] = "publish" /\ p = NewRoot)
      BY <2>0, <3>1 DEF Parentless
    <3>3. CASE u = t
      BY <3>2, <3>3
    <3>4. CASE u # t
      BY <1>u, <3>2, <3>4
    <3> QED BY <3>3, <3>4
  <2>2. Publishing'
    <3>1. ASSUME NEW u \in Threads, pc'[u] = "publish"
          PROVE  lc'[u] = Root /\ NewRoot # NULL /\ node'[NewRoot].parent = NULL /\ NewRoot # Root
      <4>1. u # t
        BY <3>1
      <4>2. lc[u] = Root /\ NewRoot # NULL /\ node[NewRoot].parent = NULL /\ NewRoot # Root
        BY <1>u, <2>0, <3>1, <4>1 DEF Publishing
      <4>3. NewRoot \in DOMAIN node
        BY <1>r, <4>2, NodeFields, Addresses DEF TreeInv, NewRoot
      <4> QED BY <1>u, <4>1, <4>2, <4>3 DEF SameShape
    <3>2. ASSUME node[Root].parent # NULL PROVE \E u \in Threads : pc'[u] = "publish"
      <4>1. PICK u \in Threads : pc[u] = "publish"
        BY <2>0, <3>2 DEF Publishing
      <4> QED BY <1>u, <4>1
    <3> QED BY <1>s, <3>1, <3>2 DEF Publishing
  <2>3. RootIsNoChild'
    <3>1. ASSUME NEW u \in Threads PROVE rc'[u] # Root
      BY <1>r, <1>u, <2>0 DEF RootIsNoChild
    <3>2. ASSUME NEW q \in DOMAIN node, NEW s \in ChiSlots, node'[q].chi[s] = Root
          PROVE  NewRoot = q
      BY <2>0, <3>2 DEF RootIsNoChild, SameShape
    <3>3. PICK root : root = Root
      OBVIOUS
    <3>4. ASSUME NEW u \in Threads, NewChild(u, root)' PROVE NewRoot = cur'[u]
      <4>1. CASE u = t
        BY <1>3, <3>3, <3>4, <4>1
      <4>2. CASE u # t
        BY <1>u, <2>0, <3>3, <3>4, <4>2 DEF RootIsNoChild
      <4> QED BY <4>1, <4>2
    <3>5. \A u \in Threads : NewChild(u, Root)' => NewRoot = cur'[u]
      BY <1>s, <3>3, <3>4 DEF NewChild
    <3> QED BY <1>s, <3>1, <3>2, <3>5 DEF RootIsNoChild
  <2>4. NewRootIsTop'
    <3>1. SUFFICES ASSUME node[Root].parent # NULL
                   PROVE  /\ \A u \in Threads : rc'[u] # NewRoot /\ ~NewChild(u, NewRoot)'
                          /\ \A q \in DOMAIN node : \A s \in ChiSlots : node'[q].chi[s] # NewRoot
                          /\ \A u \in Threads : pc'[u] = "split" => cur'[u] # NewRoot
      BY <1>s DEF NewRootIsTop
    <3>2. \A u \in Threads : rc'[u] # NewRoot
      BY <1>u, <2>0, <3>1 DEF NewRootIsTop, NewRoot
    <3>3. \A u \in Threads : ~NewChild(u, NewRoot)'
      <4>1. PICK new : new = NewRoot
        OBVIOUS
      <4>2. \A u \in Threads : ~NewChild(u, new)'
        BY <1>3, <1>u, <2>0, <3>1, <4>1 DEF NewRootIsTop
      <4> QED BY <1>s, <4>1, <4>2 DEF NewChild
    <3>4. \A q \in DOMAIN node : \A s \in ChiSlots : node'[q].chi[s] # NewRoot
      BY <2>0, <3>1 DEF NewRootIsTop, SameShape
    <3>5. \A u \in Threads : pc'[u] = "split" => cur'[u] # NewRoot
      BY <1>u, <2>0, <3>1 DEF NewRootIsTop
    <3> QED BY <3>2, <3>3, <3>4, <3>5
  <2>5. ASSUME NEW u \in Threads PROVE Climbs(u)'
    <3>1. CASE u # t
      <4>1. Climbs(u)
        BY <2>0
      <4>2. pc[u] = "split" => cur[u] \in DOMAIN node
        BY DEF TreeInv, PlaceInv, Internal
      <4>3. pc[u] = "up" => lc[u] \in DOMAIN node
        BY DEF TreeInv, PlaceInv, Climbing
      <4>4. \A p \in DOMAIN node : HasParent(p)' <=> HasParent(p)
        BY <1>s DEF HasParent, SameShape
      <4> QED BY <1>u, <3>1, <4>1, <4>2, <4>3, <4>4 DEF Climbs
    <3> QED BY <1>3, <3>1
  <2> QED BY <1>3, <2>1, <2>2, <2>3, <2>4, <2>5
<1> QED BY <1>s, <1>1, <1>2, <1>3 DEF ParentInv

LEMMA NothingStored ==
    ASSUME NEW t, stores'[t] = <<>>
    PROVE  \A c : ~NewChild(t, c)'
<1>1. DOMAIN stores'[t] = {}
  OBVIOUS
<1> QED BY <1>1 DEF NewChild

\* So do all steps that neither split nor climb.
LEMMA OtherStepKept ==
    ASSUME TreeInv, ParentInv, NEW t \in Threads, SameShape,
           \A u \in Threads \ {t} : Locals(u)' = Locals(u),
           ended' = ended \/ ended' = "not found",
           pc[t] \notin {"up", "publish", "split"},
           pc'[t] \notin {"up", "publish", "split", "lockparent"},
           stores'[t] = <<>>, rc'[t] \in {NULL, rc[t]},
           node[Root].isLeaf => cur'[t] \in {NULL, Root} /\ lc'[t] \in {NULL, Root}
    PROVE  ParentInv'
<1>1. ended' # "segfault" \/ early
  BY DEF ParentInv
<1>2. \A p : ~RootHalf(t, p)
  BY DEF RootHalf
<1>3. SameKind(t)' /\ Climbs(t)'
  BY DEF SameKind, Climbs
<1>4. \A c : ~NewChild(t, c)'
  BY NothingStored
<1> QED BY <1>1, <1>2, <1>3, <1>4, ShapeKept

LEMMA SameNodesShape ==
    ASSUME UNCHANGED <<node, Root, early>>
    PROVE  SameShape
  BY DEF SameShape

\* Where t may be when the root is a leaf.
LEMMA AtRootLeaf ==
    ASSUME TreeInv, ParentInv, NEW t \in Threads, node[Root].isLeaf
    PROVE  /\ cur[t] \in {NULL, Root} /\ lc[t] \in {NULL, Root}
           /\ pc[t] \notin {"scan", "child", "parent", "added", "split"}
<1>1. cur[t] \in {NULL, Root} /\ lc[t] \in {NULL, Root}
  BY DEF ParentInv, RootLeaf
<1>2. pc[t] \in {"scan", "child", "parent", "added", "split"} => Internal(cur[t])
  BY DEF TreeInv, PlaceInv
<1>3. ~Internal(NULL) /\ ~Internal(Root)
  BY Addresses DEF TreeInv, Internal
<1> QED BY <1>1, <1>2, <1>3

LEMMA DescentParents ==
    ASSUME TreeInv, ParentInv, NEW t \in Threads,
           ReadRoot(t) \/ ReadNkey(t) \/ ReadKey(t) \/ ReadChild(t) \/ LockLeaf(t)
    PROVE  ParentInv'
<1>1. CASE ReadRoot(t)
  <2>1. /\ pc[t] = "insert" /\ pc' = [pc EXCEPT ![t] = "descend"]
        /\ cur' = [cur EXCEPT ![t] = Root] /\ stores[t] = <<>>
        /\ UNCHANGED <<Root, node, ended, i, nkey, kid, lc, rc, stores, early>>
    BY <1>1 DEF ReadRoot, At, Goto
  <2>2. /\ pc'[t] = "descend" /\ cur'[t] = Root /\ rc'[t] = rc[t] /\ lc'[t] = lc[t]
        /\ stores'[t] = <<>>
    BY <2>1 DEF TreeInv, TypeOK
  <2>3. \A u \in Threads \ {t} : Locals(u)' = Locals(u)
    BY <2>1 DEF TreeInv, TypeOK, Locals
  <2> QED BY <2>1, <2>2, <2>3, SameNodesShape, AtRootLeaf, OtherStepKept
<1>2. CASE ReadNkey(t) \/ ReadKey(t) \/ LockLeaf(t)
  <2>1. /\ pc[t] \in {"descend", "scan"} /\ stores[t] = <<>>
        /\ \E a \in {"scan", "child", "leaf"} : pc' = [pc EXCEPT ![t] = a] \/ pc' = pc
        /\ \E n : nkey' = [nkey EXCEPT ![t] = n] \/ nkey' = nkey
        /\ \E n : kid' = [kid EXCEPT ![t] = n] \/ kid' = kid
        /\ UNCHANGED <<Root, node, ended, i, cur, lc, rc, stores, early>>
    BY <1>2 DEF ReadNkey, ReadKey, LockLeaf, At, Goto
  <2>2. /\ pc'[t] \in {"descend", "scan", "child", "leaf"} /\ stores'[t] = <<>>
        /\ cur'[t] = cur[t] /\ rc'[t] = rc[t] /\ lc'[t] = lc[t]
    BY <2>1 DEF TreeInv, TypeOK
  <2>3. \A u \in Threads \ {t} : Locals(u)' = Locals(u)
    BY <2>1 DEF TreeInv, TypeOK, Locals
  <2> QED BY <2>1, <2>2, <2>3, SameNodesShape, AtRootLeaf, OtherStepKept
<1>3. CASE ReadChild(t)
  <2>1. /\ pc[t] \in {"child", "scan"} /\ pc' = [pc EXCEPT ![t] = "descend"]
        /\ \E p : cur' = [cur EXCEPT ![t] = p]
        /\ nkey' = [nkey EXCEPT ![t] = 0] /\ kid' = [kid EXCEPT ![t] = 0]
        /\ stores[t] = <<>>
        /\ UNCHANGED <<Root, node, ended, i, lc, rc, stores, early>>
    BY <1>3 DEF ReadChild, At, Goto
  <2>2. /\ pc'[t] = "descend" /\ rc'[t] = rc[t] /\ stores'[t] = <<>>
    BY <2>1 DEF TreeInv, TypeOK
  <2>3. \A u \in Threads \ {t} : Locals(u)' = Locals(u)
    BY <2>1 DEF TreeInv, TypeOK, Locals
  <2>4. ~node[Root].isLeaf
    BY <2>1, AtRootLeaf
  <2> QED BY <2>1, <2>2, <2>3, <2>4, SameNodesShape, OtherStepKept
<1> QED BY <1>1, <1>2, <1>3

\* A right half of the root is out of reach until the root is unlocked.
LEMMA MoveRightParents ==
    ASSUME TreeInv, ParentInv, NEW t \in Threads, MoveRight(t)
    PROVE  ParentInv'
<1>1. /\ pc[t] \in {"leaf", "parent"} /\ stores[t] = <<>>
      /\ node[cur[t]].right_link # NULL
      /\ \E p : cur' = [cur EXCEPT ![t] = p]
      /\ UNCHANGED <<Root, node, ended, pc, i, nkey, kid, lc, rc, stores, early>>
  BY DEF MoveRight, At, MustGoRight
<1>2. pc'[t] = pc[t] /\ rc'[t] = rc[t] /\ stores'[t] = <<>>
  BY <1>1
<1>3. \A u \in Threads \ {t} : Locals(u)' = Locals(u)
  BY <1>1 DEF TreeInv, TypeOK, Locals
<1>4. ASSUME node[Root].isLeaf PROVE FALSE
  <2>1. pc[t] = "leaf" /\ cur[t] = Root
    <3>1. pc[t] = "leaf" /\ cur[t] \in {NULL, Root}
      BY <1>1, <1>4, AtRootLeaf
    <3>2. cur[t] \in DOMAIN node
      BY <3>1 DEF TreeInv, PlaceInv, Leaf
    <3> QED BY <3>1, <3>2, Addresses DEF TreeInv
  <2>2. PICK u \in Threads : pc[u] \in {"up", "publish"} /\ lc[u] = Root
    BY <1>1, <1>4, <2>1 DEF ParentInv, RootLeaf
  <2>3. Holds(t, Root)
    BY <2>1 DEF Holds
  <2>4. u # t
    BY <2>1, <2>2
  <2> QED BY <2>2, <2>3, <2>4, RootHeld DEF Climbing
<1> QED BY <1>1, <1>2, <1>3, <1>4, SameNodesShape, OtherStepKept

LEMMA LockParentParents ==
    ASSUME TreeInv, ParentInv, NEW t \in Threads, LockParent(t)
    PROVE  ParentInv'
<1>1. /\ pc[t] = "lockparent" /\ stores[t] = <<>> /\ pc' = [pc EXCEPT ![t] = "parent"]
      /\ UNCHANGED <<Root, node, ended, i, cur, nkey, kid, lc, rc, stores, early>>
  BY DEF LockParent, At, Goto
<1>2. /\ pc'[t] = "parent" /\ rc'[t] = rc[t] /\ stores'[t] = <<>> /\ cur'[t] = cur[t]
      /\ lc'[t] = lc[t]
  BY <1>1 DEF TreeInv, TypeOK
<1>3. \A u \in Threads \ {t} : Locals(u)' = Locals(u)
  BY <1>1 DEF TreeInv, TypeOK, Locals
<1> QED BY <1>1, <1>2, <1>3, SameNodesShape, AtRootLeaf, OtherStepKept

\* There is a parent to lock, unless a right half was split early.
LEMMA LockNullParents ==
    ASSUME TreeInv, ParentInv, NEW t \in Threads, LockNull(t)
    PROVE  ParentInv'
<1>1. /\ pc[t] = "lockparent" /\ cur[t] = NULL
      /\ UNCHANGED <<Root, node, pc, cur, lc, rc, stores, early>>
  BY DEF LockNull, At
<1>2. early
  BY <1>1 DEF ParentInv, Climbs
<1>3. RootLeaf' /\ \A u \in Threads : SameKind(u)'
  BY <1>1 DEF ParentInv, RootLeaf, SameKind
<1> QED BY <1>1, <1>2, <1>3 DEF ParentInv

LEMMA UnlockBothParents ==
    ASSUME TreeInv, ParentInv, NEW t \in Threads, UnlockBoth(t)
    PROVE  ParentInv'
<1>1. /\ pc[t] = "added" /\ stores[t] = <<>> /\ EndInsert(t)
      /\ UNCHANGED <<Key_vector, Root, node, ended, nkey, kid, stores, early>>
  BY DEF UnlockBoth, At
<1>2. /\ pc'[t] = "insert" /\ cur'[t] = NULL /\ lc'[t] = NULL /\ rc'[t] = NULL
      /\ stores'[t] = <<>>
      /\ \A u \in Threads \ {t} : Locals(u)' = Locals(u)
  BY <1>1, EndInsertIs DEF TreeInv
<1> QED BY <1>1, <1>2, SameNodesShape, OtherStepKept

LEMMA SearchCoreParents ==
    ASSUME TreeInv, ParentInv, NEW t \in Threads, SearchCore(t)
    PROVE  ParentInv'
<1>1. /\ pc[t] = "search" /\ stores[t] = <<>>
      /\ ended' = ended \/ ended' = "not found"
      /\ \E n : i' = [i EXCEPT ![t] = n] \/ i' = i
      /\ UNCHANGED <<Root, node, pc, cur, nkey, kid, lc, rc, stores, early>>
  BY DEF SearchCore, At
<1>2. /\ pc'[t] = "search" /\ rc'[t] = rc[t] /\ stores'[t] = <<>> /\ cur'[t] = cur[t]
      /\ lc'[t] = lc[t]
  BY <1>1
<1>3. \A u \in Threads \ {t} : Locals(u)' = Locals(u)
  BY <1>1 DEF TreeInv, TypeOK, Locals
<1> QED BY <1>1, <1>2, <1>3, SameNodesShape, AtRootLeaf, OtherStepKept

LEMMA AddToLeafParents ==
    ASSUME TreeInv, ParentInv, NEW t \in Threads, AddToLeaf(t)
    PROVE  ParentInv'
<1>1. /\ pc[t] = "leaf" /\ stores[t] = <<>> /\ EndInsert(t) /\ cur[t] \in DOMAIN node
      /\ node[cur[t]].nkey < N - 1
      /\ node' = [node EXCEPT ![cur[t]] = InsertInLeaf(@, Key(t))]
      /\ UNCHANGED <<Key_vector, Root, ended, nkey, kid, stores, early>>
  BY DEF AddToLeaf, At, TreeInv, PlaceInv, Leaf
<1>2. /\ pc'[t] = "insert" /\ cur'[t] = NULL /\ lc'[t] = NULL /\ rc'[t] = NULL
      /\ stores'[t] = <<>>
      /\ \A u \in Threads \ {t} : Locals(u)' = Locals(u)
  BY <1>1, EndInsertIs DEF TreeInv
<1>3. PICK x, k, y :
         /\ x \in NodeType /\ x = node[cur[t]]
         /\ k \in Nat /\ k = Key(t)
         /\ y = InsertInLeaf(x, k)
  BY <1>1, NodeFields, InsertsAKey DEF TreeInv
<1>4. /\ y.isLeaf = x.isLeaf /\ y.chi = x.chi /\ y.right_link = x.right_link
      /\ y.parent = x.parent
  BY <1>1, <1>3, InsertInLeafIs DEF TreeInv
<1>5. /\ DOMAIN node' = DOMAIN node
      /\ \A p \in DOMAIN node : node'[p] = IF p = cur[t] THEN y ELSE node[p]
  BY <1>1, <1>3
<1>6. SameShape
  BY <1>1, <1>3, <1>4, <1>5 DEF SameShape
<1> QED BY <1>1, <1>2, <1>6, OtherStepKept

\* The parent of a node that was split is the root's, or there is one.
LEMMA ReadParentParents ==
    ASSUME TreeInv, ParentInv, NEW t \in Threads, ReadParent(t)
    PROVE  ParentInv'
<1>1. /\ pc[t] = "up" /\ lc[t] # Root /\ lc[t] \in DOMAIN node /\ stores[t] = <<>>
      /\ pc' = [pc EXCEPT ![t] = "lockparent"]
      /\ cur' = [cur EXCEPT ![t] = node[lc[t]].parent]
      /\ UNCHANGED <<Root, node, ended, i, nkey, kid, lc, rc, stores, early>>
  BY DEF ReadParent, At, Goto, TreeInv, PlaceInv, Climbing
<1>2. /\ pc'[t] = "lockparent" /\ rc'[t] = rc[t] /\ stores'[t] = <<>>
      /\ lc'[t] = lc[t] /\ cur'[t] = node[lc[t]].parent
  BY <1>1 DEF TreeInv, TypeOK
<1>3. \A u \in Threads \ {t} : Locals(u)' = Locals(u)
  BY <1>1 DEF TreeInv, TypeOK, Locals
<1>4. ~node[Root].isLeaf
  <2>1. lc[t] # NULL
    BY <1>1, Addresses DEF TreeInv
  <2> QED BY <1>1, <2>1, AtRootLeaf
<1>5. ~early => Climbs(t)'
  <2>1. ASSUME ~early PROVE node[lc[t]].parent # NULL
    BY <1>1, <2>1 DEF ParentInv, Climbs, HasParent
  <2> QED BY <1>2, <2>1 DEF Climbs
<1>6. SameKind(t)' /\ \A c : ~NewChild(t, c)'
  BY <1>2 DEF SameKind, NewChild
<1>7. \A p : ~RootHalf(t, p)
  BY <1>1 DEF RootHalf
<1>8. ended' # "segfault" \/ early
  BY <1>1 DEF ParentInv
<1> QED BY <1>1, <1>2, <1>3, <1>4, <1>5, <1>6, <1>7, <1>8, SameNodesShape, ShapeKept

LEMMA AscendParents ==
    ASSUME TreeInv, ParentInv, NEW t \in Threads, Ascend(t)
    PROVE  ParentInv'
<1>1. /\ pc[t] = "split" /\ stores[t] = <<>> /\ Internal(cur[t]) /\ Internal(rc[t])
      /\ pc' = [pc EXCEPT ![t] = "up"]
      /\ lc' = [lc EXCEPT ![t] = cur[t]]
      /\ UNCHANGED <<Root, node, ended, i, cur, nkey, kid, rc, stores, early>>
  BY DEF Ascend, At, Goto, TreeInv, PlaceInv
<1>2. /\ pc'[t] = "up" /\ rc'[t] = rc[t] /\ stores'[t] = <<>>
      /\ lc'[t] = cur[t] /\ cur'[t] = cur[t]
  BY <1>1 DEF TreeInv, TypeOK
<1>3. \A u \in Threads \ {t} : Locals(u)' = Locals(u)
  BY <1>1 DEF TreeInv, TypeOK, Locals
<1>4. ~node[Root].isLeaf
  BY <1>1, AtRootLeaf
<1>5. ~early => Climbs(t)'
  <2>1. ASSUME ~early PROVE HasParent(cur[t])
    BY <1>1, <2>1 DEF ParentInv, Climbs
  <2> QED BY <1>1, <1>2, <2>1 DEF Climbs, HasParent
<1>6. SameKind(t)' /\ \A c : ~NewChild(t, c)'
  BY <1>1, <1>2 DEF SameKind, NewChild, Internal
<1>7. \A p : RootHalf(t, p) => RootHalf(t, p)'
  BY <1>1, <1>2 DEF RootHalf
<1>8. ended' # "segfault" \/ early
  BY <1>1 DEF ParentInv
<1>9. lc'[t] \in DOMAIN node /\ rc'[t] \in DOMAIN node
  BY <1>1, <1>2 DEF Internal
<1> QED BY <1>1, <1>2, <1>3, <1>4, <1>5, <1>6, <1>7, <1>8, <1>9, SameNodesShape, ShapeKept

\* The children after an insertion are the old ones and the new one.
LEMMA NewChildrenFrom ==
    ASSUME NEW x, x.nkey < N - 1, x.nkey \in Nat, NEW c, NEW k, SlotOf(x, k) \in 0 .. x.nkey,
           NEW s \in ChiSlots
    PROVE  \/ NewChildren(x, k, c)[s] = c
           \/ \E r \in ChiSlots : NewChildren(x, k, c)[s] = x.chi[r]
<1>1. ChiSlots \in SUBSET Nat /\ ChiSlots = 0 .. N - 1 /\ N \in Nat
  BY Halves
<1>2. s \in Nat /\ (s >= 1 => s - 1 \in ChiSlots)
  BY <1>1
<1>3. PICK p \in Nat : p = SlotOf(x, k) + 1 /\ p >= 1
  OBVIOUS
<1>4. PICK f : f = x.chi
  OBVIOUS
<1>5. LET g == InsertAt(f, ChiSlots, x.nkey + 1, p, c)
      IN  /\ s < p => g[s] = f[s]
          /\ s = p => g[s] = c
          /\ s > p /\ s <= x.nkey + 1 => g[s] = f[s - 1]
          /\ s > p /\ s > x.nkey + 1 => g[s] = f[s]
  BY <1>1, InsertAtIs
<1>6. NewChildren(x, k, c) = InsertAt(f, ChiSlots, x.nkey + 1, p, c)
  BY <1>3, <1>4 DEF NewChildren
<1> QED BY <1>2, <1>3, <1>4, <1>5, <1>6

LEMMA AddToParentParents ==
    ASSUME TreeInv, ParentInv, NEW t \in Threads, AddToParent(t)
    PROVE  ParentInv'
<1>0. /\ pc[t] = "parent" /\ Internal(cur[t]) /\ cur[t] \in DOMAIN node
      /\ rc[t] \in DOMAIN node
      /\ node[cur[t]].nkey < N - 1
      /\ stores' = [stores EXCEPT ![t] = FinalizeParent(cur[t], rc[t], lm_key[t])]
      /\ pc' = [pc EXCEPT ![t] = "added"]
      /\ UNCHANGED <<Root, node, ended, i, cur, nkey, kid, lc, rc, early>>
  BY DEF TreeInv, PlaceInv, AddToParent, At, Goto, Climbing, Internal
<1>1. PICK p \in DOMAIN node, x \in NodeType, k \in Nat, c \in DOMAIN node :
          p = cur[t] /\ x = node[p] /\ k = lm_key[t] /\ c = rc[t] /\ x.nkey < N - 1
  BY <1>0, NodeFields DEF TreeInv, TypeOK
<1>2. PICK n, s, chi, key, q :
          /\ n \in Nat /\ s \in Nat /\ n = x.nkey /\ s = SlotOf(x, k) /\ s <= n /\ n <= N - 2
          /\ chi = NewChildren(x, k, c) /\ key = NewKeys(x, k)
          /\ q = FinalizeParent(p, c, k)
  <2>1. x.nkey \in Nat /\ x.nkey \in 0 .. N - 1 /\ SlotOf(x, k) \in 0 .. x.nkey
    BY NodeTypeIs, SlotOfType DEF TreeInv
  <2>2. x.nkey <= N - 2
    BY <1>1, <2>1, Halves
  <2> QED BY <2>1, <2>2
<1>3. q \in Seq(Copies(p, n, s, chi, key) \cup {Put(p, "nkey", n + 1)})
  BY <1>1, <1>2, FinalizeParentIs DEF TreeInv, IsAdding
<1>4. /\ pc'[t] = "added" /\ lc'[t] = lc[t] /\ rc'[t] = rc[t] /\ cur'[t] = p
      /\ stores'[t] = q
  BY <1>0, <1>1, <1>2 DEF TreeInv, TypeOK
<1>5. \A u \in Threads \ {t} : Locals(u)' = Locals(u)
  BY <1>0 DEF TreeInv, TypeOK, Locals
<1>6. ASSUME NEW j \in DOMAIN q, q[j].field = "chi"
      PROVE  q[j].value = c \/ \E r \in ChiSlots : q[j].value = node[p].chi[r]
  <2>1. q[j] \in Copies(p, n, s, chi, key) \cup {Put(p, "nkey", n + 1)}
    BY <1>3
  <2>2. PICK m \in s .. n : q[j] = PutAt(p, "chi", m + 1, chi[m + 1])
    BY <1>6, <2>1 DEF Copies, Put, PutAt
  <2>3. m + 1 \in ChiSlots
    BY <1>2, Halves
  <2>4. chi[m + 1] = c \/ \E r \in ChiSlots : chi[m + 1] = x.chi[r]
    BY <1>1, <1>2, <2>3, NewChildrenFrom
  <2> QED BY <1>1, <2>2, <2>4 DEF PutAt
<1>7. ASSUME ~early, NEW c1, NewChild(t, c1)'
      PROVE  /\ c1 = Root => NewRoot = cur'[t]
             /\ node[Root].parent # NULL => c1 # NewRoot
  <2>1. c1 = c \/ \E r \in ChiSlots : c1 = node[p].chi[r]
    BY <1>4, <1>6, <1>7 DEF NewChild
  <2>2. RootIsNoChild /\ NewRootIsTop
    BY <1>7 DEF ParentInv
  <2>3. c1 = Root => NewRoot = p
    BY <1>1, <2>1, <2>2 DEF RootIsNoChild
  <2>4. node[Root].parent # NULL => c1 # NewRoot
    BY <1>1, <2>1, <2>2 DEF NewRootIsTop
  <2> QED BY <1>4, <2>3, <2>4
<1>8. SameKind(t)' /\ Climbs(t)'
  BY <1>4 DEF SameKind, Climbs
<1>9. \A r : ~RootHalf(t, r)
  BY <1>0 DEF RootHalf
<1>10. ended' # "segfault" \/ early
  BY <1>0 DEF ParentInv
<1>11. ~node[Root].isLeaf
  BY <1>0, AtRootLeaf
<1> QED BY <1>0, <1>4, <1>5, <1>7, <1>8, <1>9, <1>10, <1>11, SameNodesShape, ShapeKept

LEMMA InitParents == Init => ParentInv
<1> SUFFICES ASSUME Init PROVE ParentInv
  OBVIOUS
<1>1. /\ Root = 1 /\ DOMAIN node = {1} /\ node[1].parent = NULL /\ node[1].right_link = NULL
      /\ \A s \in ChiSlots : node[1].chi[s] = NULL
      /\ ended = "no"
      /\ \A t \in Threads : /\ pc[t] = "insert" /\ cur[t] = NULL /\ lc[t] = NULL /\ rc[t] = NULL
                            /\ stores[t] = <<>>
  BY DEF Init, Alloc
<1>2. NULL # 1
  BY Halves
<1>3. RootLeaf /\ \A t \in Threads : SameKind(t) /\ Climbs(t)
  BY <1>1 DEF RootLeaf, SameKind, Climbs
<1>4. \A t \in Threads : \A c : ~NewChild(t, c)
  <2>1. \A t \in Threads : DOMAIN stores[t] = {}
    BY <1>1
  <2> QED BY <2>1 DEF NewChild
<1>5. Parentless /\ Publishing /\ NewRootIsTop
  BY <1>1 DEF Parentless, Publishing, NewRootIsTop
<1>6. RootIsNoChild
  BY <1>1, <1>2, <1>4 DEF RootIsNoChild
<1> QED BY <1>1, <1>3, <1>5, <1>6 DEF ParentInv

LEMMA StutterParents ==
    ASSUME ParentInv, UNCHANGED vars
    PROVE  ParentInv'
<1>1. UNCHANGED <<Root, node, ended, pc, cur, lc, rc, stores, early>>
  BY DEF vars
<1>2. RootLeaf' /\ \A u \in Threads : SameKind(u)'
  BY <1>1 DEF ParentInv, RootLeaf, SameKind
<1>3. NewRoot' = NewRoot
  BY <1>1 DEF NewRoot
<1>4. ASSUME ~early
      PROVE  /\ Parentless' /\ Publishing' /\ RootIsNoChild' /\ NewRootIsTop'
             /\ \A u \in Threads : Climbs(u)'
  <2>1. Parentless' /\ Publishing'
    BY <1>1, <1>3, <1>4 DEF ParentInv, Parentless, Publishing, RootHalf
  <2>2. RootIsNoChild' /\ NewRootIsTop'
    BY <1>1, <1>3, <1>4 DEF ParentInv, RootIsNoChild, NewRootIsTop, NewChild
  <2>3. \A u \in Threads : Climbs(u)'
    BY <1>1, <1>4 DEF ParentInv, Climbs, HasParent
  <2> QED BY <2>1, <2>2, <2>3
<1> QED BY <1>1, <1>2, <1>4 DEF ParentInv

LEMMA StartSearchParents ==
    ASSUME TreeInv, ParentInv, StartSearch
    PROVE  ParentInv'
<1>1. /\ \A u \in Threads : pc[u] = "insert" /\ pc'[u] = "search"
      /\ UNCHANGED <<Root, node, ended, cur, lc, rc, stores, early>>
  BY DEF StartSearch
<1>2. \A u \in Threads : SameKind(u)' /\ Climbs(u)' /\ \A p : ~RootHalf(u, p)
  BY <1>1 DEF SameKind, Climbs, RootHalf
<1>3. NewRoot' = NewRoot
  BY <1>1 DEF NewRoot
<1>4. RootLeaf'
  BY <1>1 DEF ParentInv, RootLeaf
<1>5. ASSUME ~early
      PROVE  Parentless' /\ Publishing' /\ RootIsNoChild' /\ NewRootIsTop'
  <2>0. Parentless /\ Publishing /\ RootIsNoChild /\ NewRootIsTop
    BY <1>5 DEF ParentInv
  <2>1. Parentless'
    BY <1>1, <1>2, <2>0 DEF Parentless
  <2>2. Publishing'
    BY <1>1, <1>3, <2>0 DEF Publishing
  <2>3. RootIsNoChild' /\ NewRootIsTop'
    BY <1>1, <1>3, <2>0 DEF RootIsNoChild, NewRootIsTop, NewChild
  <2> QED BY <2>1, <2>2, <2>3
<1> QED BY <1>1, <1>2, <1>4, <1>5 DEF ParentInv

\* When t publishes a new root, nobody else is splitting the old one.
LEMMA PublishRootParents ==
    ASSUME TreeInv, ParentInv, NEW t \in Threads, PublishRoot(t)
    PROVE  ParentInv'
<1>1. /\ pc[t] = "publish" /\ stores[t] = <<>> /\ EndInsert(t)
      /\ lc[t] \in DOMAIN node /\ node[lc[t]].parent # NULL /\ Root' = node[lc[t]].parent
      /\ UNCHANGED <<Key_vector, node, ended, nkey, kid, stores, early>>
  BY DEF PublishRoot, At, TreeInv, PlaceInv, Climbing
<1>2. /\ pc'[t] = "insert" /\ cur'[t] = NULL /\ lc'[t] = NULL /\ rc'[t] = NULL
      /\ stores'[t] = <<>>
      /\ \A u \in Threads \ {t} : Locals(u)' = Locals(u)
  BY <1>1, EndInsertIs DEF TreeInv
<1>3. ASSUME NEW u \in Threads \ {t}
      PROVE  pc'[u] = pc[u] /\ cur'[u] = cur[u] /\ lc'[u] = lc[u] /\ rc'[u] = rc[u]
  BY <1>2, LocalsSame
<1>4. Internal(Root)'
  BY <1>1 DEF TreeInv, NodeInv, NodeOK, Internal
<1>5. RootLeaf'
  BY <1>4 DEF RootLeaf, Internal
<1>6. ASSUME NEW u \in Threads PROVE SameKind(u)'
  <2>1. SameKind(u)
    BY DEF ParentInv
  <2> QED BY <1>1, <1>2, <1>3, <2>1 DEF SameKind
<1>7. ASSUME ~early
      PROVE  /\ Parentless' /\ Publishing' /\ RootIsNoChild' /\ NewRootIsTop'
             /\ \A u \in Threads : Climbs(u)'
  <2>0. /\ Parentless /\ Publishing /\ RootIsNoChild /\ NewRootIsTop
        /\ \A u \in Threads : Climbs(u)
    BY <1>7 DEF ParentInv
  <2>1. /\ lc[t] = Root /\ Root' = NewRoot /\ node[Root].parent = NewRoot /\ NewRoot # NULL
        /\ node[NewRoot].parent = NULL /\ NewRoot # Root
    BY <1>1, <2>0 DEF Publishing, NewRoot
  <2>2. Holds(t, Root)
    BY <1>1, <2>1 DEF Holds
  <2>3. ASSUME NEW u \in Threads \ {t}
        PROVE  /\ pc[u] \in Climbing => lc[u] # Root
               /\ pc[u] # "publish" /\ \A p : ~RootHalf(u, p)
    <3>1. /\ pc[u] \in Climbing => lc[u] # Root
          /\ \A p : ~RootHalf(u, p)
      BY <2>2, RootHeld
    <3>2. pc[u] = "publish" => lc[u] = Root
      BY <2>0 DEF Publishing
    <3> QED BY <3>1, <3>2 DEF Climbing
  <2>4. \A p : ~RootHalf(t, p)
    BY <1>1 DEF RootHalf
  <2>5. Parentless'
    <3>1. ASSUME NEW p \in DOMAIN node, node[p].parent = NULL PROVE p = NewRoot
      <4>1. p # Root
        BY <2>1, <3>1
      <4>2. PICK u \in Threads : RootHalf(u, p) \/ (pc[u] = "publish" /\ p = NewRoot)
        BY <2>0, <3>1, <4>1 DEF Parentless
      <4> QED BY <2>3, <2>4, <4>2
    <3> QED BY <1>1, <2>1, <3>1 DEF Parentless
  <2>6. node'[Root'].parent = NULL
    BY <1>1, <2>1
  <2>7. Publishing' /\ NewRootIsTop'
    <3>1. \A u \in Threads : pc'[u] # "publish"
      BY <1>2, <1>3, <2>3
    <3> QED BY <2>6, <3>1 DEF Publishing, NewRootIsTop
  <2>8. RootIsNoChild'
    <3>0. /\ \A u \in Threads : rc[u] # NewRoot /\ ~NewChild(u, NewRoot)
          /\ \A q \in DOMAIN node : \A s \in ChiSlots : node[q].chi[s] # NewRoot
      BY <2>0, <2>1 DEF NewRootIsTop
    <3>1. \A u \in Threads : rc'[u] # NewRoot
      BY <1>2, <1>3, <2>1, <3>0
    <3>2. \A u \in Threads : ~NewChild(u, Root)'
      BY <1>1, <2>1, <3>0 DEF NewChild
    <3> QED BY <1>1, <2>1, <3>0, <3>1, <3>2 DEF RootIsNoChild
  <2>9. ASSUME NEW u \in Threads PROVE Climbs(u)'
    <3>1. CASE u = t
      BY <1>2, <3>1 DEF Climbs
    <3>2. CASE u # t
      <4>1. Climbs(u)
        BY <2>0
      <4>2. \A p : HasParent(p) => HasParent(p)'
        BY <1>1, <2>1 DEF HasParent
      <4> QED BY <1>3, <3>2, <4>1, <4>2 DEF Climbs, HasParent
    <3> QED BY <3>1, <3>2
  <2> QED BY <2>5, <2>7, <2>8, <2>9
<1>8. ended' # "segfault" \/ early
  BY <1>1 DEF ParentInv
<1> QED BY <1>1, <1>5, <1>6, <1>7, <1>8 DEF ParentInv

\* A leaf that is split has a parent, or is the root.
LEMMA SplitLeafParents ==
    ASSUME TreeInv, ParentInv, NEW t \in Threads, SplitLeaf(t)
    PROVE  ParentInv'
<1>0. /\ pc[t] = "leaf" /\ cur[t] \in DOMAIN node /\ node[cur[t]].isLeaf
      /\ pc' = [pc EXCEPT ![t] = "up"] /\ lc' = [lc EXCEPT ![t] = cur[t]]
      /\ rc' = [rc EXCEPT ![t] = Len(node) + 1] /\ stores[t] = <<>>
      /\ UNCHANGED <<Root, ended, i, cur, nkey, kid, stores, early>>
  BY DEF TreeInv, PlaceInv, SplitLeaf, At, Goto, Leaf
<1>1. PICK c, x, k, right : /\ c = cur[t] /\ x \in NodeType /\ x = node[c] /\ k \in Nat /\ k = Key(t)
                            /\ x.nkey = N - 1 /\ right = Len(node) + 1 /\ c \in DOMAIN node
  BY <1>0, NodeFields, InsertsAKey DEF TreeInv, SplitLeaf
<1>2. PICK y, z : /\ y = LeftLeaf(x, k, right) /\ z = RightLeaf(x, k)
                  /\ node' = Append([node EXCEPT ![c] = y], z)
  BY <1>1 DEF SplitLeaf
<1>3. /\ y.isLeaf = x.isLeaf /\ y.parent = x.parent /\ y.chi = x.chi
      /\ z.isLeaf = TRUE /\ z.parent = x.parent
      /\ \A s \in ChiSlots : z.chi[s] = NULL
  <2>1. AreHalves(LeftLeaf(x, k, right), RightLeaf(x, k), x, k, right)
    <3>1. TypeOK /\ x \in NodeType /\ x.nkey = N - 1 /\ k \in Nat
      BY <1>1 DEF TreeInv
    <3> QED BY <3>1, LeafHalves
  <2> QED BY <1>2, <2>1 DEF AreHalves
<1>4. /\ DOMAIN node' = DOMAIN node \cup {right} /\ right \notin DOMAIN node /\ node'[right] = z
      /\ \A p \in DOMAIN node : node'[p] = IF p = c THEN y ELSE node[p]
  BY <1>1, <1>2, AppendIs DEF TreeInv
<1>5. \A p \in DOMAIN node : /\ node'[p].isLeaf = node[p].isLeaf
                             /\ node'[p].parent = node[p].parent
                             /\ node'[p].chi = node[p].chi
  BY <1>1, <1>3, <1>4
<1>6. /\ pc'[t] = "up" /\ lc'[t] = c /\ rc'[t] = right /\ cur'[t] = c
      /\ stores' = stores /\ early' = early
  BY <1>0, <1>1 DEF TreeInv, TypeOK
<1>7. ASSUME NEW u \in Threads \ {t}
      PROVE  pc'[u] = pc[u] /\ cur'[u] = cur[u] /\ lc'[u] = lc[u] /\ rc'[u] = rc[u]
  BY <1>0 DEF TreeInv, TypeOK
<1>8. /\ Root' = Root /\ Root \in DOMAIN node /\ Root # NULL /\ c # NULL
      /\ node'[Root].isLeaf = node[Root].isLeaf /\ NewRoot' = NewRoot
      /\ node'[Root].parent = node[Root].parent
  BY <1>0, <1>1, <1>5, RootIsNode, Addresses DEF TreeInv, NewRoot
<1>9. RootLeaf'
  <2>1. SUFFICES ASSUME node[Root].isLeaf
                 PROVE  /\ \A u \in Threads : cur'[u] \in {NULL, Root} /\ lc'[u] \in {NULL, Root}
                        /\ \E u \in Threads : pc'[u] \in {"up", "publish"} /\ lc'[u] = Root
    BY <1>8 DEF RootLeaf
  <2>2. \A u \in Threads : cur[u] \in {NULL, Root} /\ lc[u] \in {NULL, Root}
    BY <2>1, AtRootLeaf
  <2>3. c = Root
    BY <1>1, <1>8, <2>2
  <2> QED BY <1>6, <1>7, <2>2, <2>3
<1>10. ASSUME NEW u \in Threads PROVE SameKind(u)'
  <2>1. CASE u = t
    BY <1>0, <1>1, <1>3, <1>4, <1>6, <2>1 DEF SameKind
  <2>2. CASE u # t
    <3>1. pc[u] = "up" => lc[u] \in DOMAIN node /\ rc[u] \in DOMAIN node
      BY DEF TreeInv, PlaceInv, Climbing
    <3>2. SameKind(u)
      BY DEF ParentInv
    <3> QED BY <1>5, <1>7, <2>2, <3>1, <3>2 DEF SameKind
  <2> QED BY <2>1, <2>2
<1>11. ASSUME ~early
       PROVE  /\ Parentless' /\ Publishing' /\ RootIsNoChild' /\ NewRootIsTop'
              /\ \A u \in Threads : Climbs(u)'
  <2>0. /\ Parentless /\ Publishing /\ RootIsNoChild /\ NewRootIsTop
        /\ \A u \in Threads : Climbs(u)
    BY <1>11 DEF ParentInv
  <2>1. HasParent(c)
    <3>1. SUFFICES ASSUME node[c].parent = NULL, c # Root PROVE FALSE
      BY DEF HasParent
    <3>2. PICK u \in Threads : RootHalf(u, c) \/ (pc[u] = "publish" /\ c = NewRoot)
      BY <1>1, <2>0, <3>1 DEF Parentless
    <3>3. CASE RootHalf(u, c)
      <4>1. pc[u] # "split"
        BY <1>0, <1>1, <3>3 DEF TreeInv, PlaceInv, RootHalf, Internal
      <4>2. pc[u] = "up" /\ lc[u] = Root /\ c = rc[u]
        BY <3>3, <4>1 DEF RootHalf
      <4>3. node[Root].isLeaf
        BY <1>0, <1>1, <4>2 DEF ParentInv, SameKind
      <4> QED BY <1>1, <1>8, <3>1, <4>3, AtRootLeaf
    <3>4. CASE pc[u] = "publish" /\ c = NewRoot
      <4>1. Internal(NewRoot)
        <5>1. lc[u] = Root /\ node[lc[u]].parent # NULL
          BY <2>0, <3>4 DEF Publishing, NewRoot
        <5>2. NodeOK(Root)
          BY <1>8 DEF TreeInv, NodeInv
        <5> QED BY <5>1, <5>2 DEF NodeOK, NewRoot
      <4> QED BY <1>0, <1>1, <3>4, <4>1 DEF Internal
    <3> QED BY <3>2, <3>3, <3>4
  <2>2. Parentless'
    <3>1. ASSUME NEW p \in DOMAIN node, node[p].parent = NULL, p # Root
          PROVE  \E u \in Threads : RootHalf(u, p)' \/ (pc'[u] = "publish" /\ p = NewRoot)
      <4>1. PICK u \in Threads : RootHalf(u, p) \/ (pc[u] = "publish" /\ p = NewRoot)
        BY <2>0, <3>1 DEF Parentless
      <4>2. u # t
        BY <1>0, <4>1 DEF RootHalf
      <4> QED BY <1>7, <1>8, <4>1, <4>2 DEF RootHalf
    <3>2. ASSUME z.parent = NULL PROVE RootHalf(t, right)'
      <4>1. c = Root
        BY <1>1, <1>3, <2>1, <3>2 DEF HasParent
      <4> QED BY <1>6, <1>8, <4>1 DEF RootHalf
    <3> QED BY <1>4, <1>5, <1>8, <3>1, <3>2 DEF Parentless
  <2>3. Publishing'
    <3>1. NewRoot # NULL => NewRoot \in DOMAIN node
      BY <1>8, NodeFields, Addresses DEF TreeInv, NewRoot
    <3>2. \A u \in Threads : pc'[u] = "publish" <=> pc[u] = "publish"
      BY <1>0, <1>6, <1>7
    <3>3. \A u \in Threads : pc[u] = "publish" => lc'[u] = lc[u]
      BY <1>0, <1>7
    <3> QED BY <1>5, <1>8, <2>0, <3>1, <3>2, <3>3 DEF Publishing
  <2>4. RootIsNoChild'
    <3>1. \A u \in Threads : rc'[u] # Root
      BY <1>4, <1>6, <1>7, <1>8, <2>0 DEF RootIsNoChild
    <3>2. \A q \in DOMAIN node' : \A s \in ChiSlots : node'[q].chi[s] = Root => NewRoot = q
      BY <1>3, <1>4, <1>5, <1>8, <2>0 DEF RootIsNoChild
    <3>3. \A u \in Threads : NewChild(u, Root)' => NewRoot = cur'[u]
      BY <1>0, <1>8, <2>0 DEF RootIsNoChild, NewChild
    <3> QED BY <1>8, <3>1, <3>2, <3>3 DEF RootIsNoChild
  <2>5. NewRootIsTop'
    <3>1. SUFFICES ASSUME node[Root].parent # NULL
                   PROVE  /\ \A u \in Threads : rc'[u] # NewRoot /\ ~NewChild(u, NewRoot)'
                          /\ \A q \in DOMAIN node' : \A s \in ChiSlots : node'[q].chi[s] # NewRoot
                          /\ \A u \in Threads : pc'[u] = "split" => cur'[u] # NewRoot
      BY <1>8 DEF NewRootIsTop
    <3>2. NewRoot # NULL /\ NewRoot \in DOMAIN node
      BY <1>8, <3>1, NodeFields, Addresses DEF TreeInv, NewRoot
    <3>3. \A u \in Threads : rc'[u] # NewRoot
      BY <1>4, <1>6, <1>7, <2>0, <3>1, <3>2 DEF NewRootIsTop
    <3>4. \A u \in Threads : ~NewChild(u, NewRoot)'
      BY <1>0, <1>8, <2>0, <3>1 DEF NewRootIsTop, NewChild
    <3>5. \A q \in DOMAIN node' : \A s \in ChiSlots : node'[q].chi[s] # NewRoot
      BY <1>3, <1>4, <1>5, <2>0, <3>1, <3>2 DEF NewRootIsTop
    <3>6. \A u \in Threads : pc'[u] = "split" => cur'[u] # NewRoot
      BY <1>6, <1>7, <2>0, <3>1 DEF NewRootIsTop
    <3> QED BY <3>3, <3>4, <3>5, <3>6
  <2>6. ASSUME NEW u \in Threads PROVE Climbs(u)'
    <3>0. \A p \in DOMAIN node : HasParent(p)' <=> HasParent(p)
      BY <1>5, <1>8 DEF HasParent
    <3>1. CASE u = t
      BY <1>1, <1>6, <2>1, <1>5, <1>8, <3>1 DEF Climbs, HasParent
    <3>2. CASE u # t
      <4>1. Climbs(u)
        BY <2>0
      <4>2. pc[u] = "split" => cur[u] \in DOMAIN node
        BY DEF TreeInv, PlaceInv, Internal
      <4>3. pc[u] = "up" => lc[u] \in DOMAIN node
        BY DEF TreeInv, PlaceInv, Climbing
      <4> QED BY <1>5, <1>7, <1>8, <3>2, <4>1, <4>2, <4>3 DEF Climbs, HasParent
    <3> QED BY <3>1, <3>2
  <2> QED BY <2>2, <2>3, <2>4, <2>5, <2>6
<1>12. ended' # "segfault" \/ early
  BY <1>0 DEF ParentInv
<1> QED BY <1>6, <1>9, <1>10, <1>11, <1>12 DEF ParentInv

\* The children of a full node with one inserted are the old ones and that one.
LEMMA TempChiFrom ==
    ASSUME NEW x, x.nkey = N - 1, NEW c, NEW k, SlotOf(x, k) \in 0 .. x.nkey,
           NEW s \in 0 .. N
    PROVE  TempChi(x, k, c)[s] = c \/ \E r \in ChiSlots : TempChi(x, k, c)[s] = x.chi[r]
<1>1. PICK d, p, f : /\ d \in SUBSET Nat /\ d = 0 .. N /\ f = x.chi /\ ChiSlots = 0 .. N - 1
                     /\ p \in 1 .. N /\ p = SlotOf(x, k) + 1 /\ N \in Nat
  BY Halves
<1>2. LET g == InsertAt(f, d, N, p, c)
      IN  /\ s < p => g[s] = f[s]
          /\ s = p => g[s] = c
          /\ s > p /\ s <= N => g[s] = f[s - 1]
  BY <1>1, InsertAtIs
<1>3. TempChi(x, k, c) = InsertAt(f, d, N, p, c)
  BY <1>1 DEF TempChi
<1>4. /\ s < p => s \in ChiSlots
      /\ s > p => s - 1 \in ChiSlots /\ s <= N
  BY <1>1
<1> QED BY <1>1, <1>2, <1>3, <1>4

\* Among the stores of a split, children are those of the node and the new one.
LEMMA SplitChildren ==
    ASSUME NEW p, NEW right, NEW x, x.nkey = N - 1, NEW c, NEW k, SlotOf(x, k) \in 0 .. x.nkey,
           NEW key, NEW h, NEW r, NEW st \in SplitStores(p, right, TempChi(x, k, c), key, h, r),
           st.field = "chi"
    PROVE  st.value = c \/ \E s \in ChiSlots : st.value = x.chi[s]
<1>1. \E s \in 0 .. N : st.value = TempChi(x, k, c)[s]
  <2>1. PICK chi : chi = TempChi(x, k, c)
    OBVIOUS
  <2>2. st \notin {Adopt(right, a) : a \in 0 .. N - H} \cup {Adopt(p, a) : a \in 0 .. H - 1}
    BY DEF Adopt
  <2>3. \/ st \in Copies(p, H - 2, 0, chi, key)
        \/ st = PutAt(p, "chi", 0, chi[0])
    BY <2>1, <2>2 DEF SplitStores, Put
  <2>4. CASE st = PutAt(p, "chi", 0, chi[0])
    <3>1. 0 \in 0 .. N
      BY Halves
    <3> QED BY <2>1, <2>4, <3>1 DEF PutAt
  <2>5. CASE st \in Copies(p, H - 2, 0, chi, key)
    <3>1. PICK s \in 0 .. H - 2 : st = PutAt(p, "chi", s + 1, chi[s + 1])
      BY <2>5 DEF Copies, PutAt
    <3>2. s + 1 \in 0 .. N
      BY Halves
    <3> QED BY <2>1, <3>1, <3>2 DEF PutAt
  <2> QED BY <2>3, <2>4, <2>5
<1> QED BY <1>1, TempChiFrom

\* The right half of the root has no parent yet; that of any other node gets
\* the parent its left half had, for only a node in place is split.
LEMMA SplitInternalParents ==
    ASSUME TreeInv, ParentInv, NEW t \in Threads, SplitInternal(t)
    PROVE  ParentInv'
<1>0. /\ pc[t] = "parent" /\ Internal(cur[t]) /\ cur[t] \in DOMAIN node /\ stores[t] = <<>>
      /\ rc[t] \in DOMAIN node
      /\ node[cur[t]].nkey = N - 1
      /\ node' = Append(node, RightInternal(node[cur[t]], lm_key[t], rc[t]))
      /\ stores' = [stores EXCEPT ![t] =
                       SplitParent(cur[t], rc[t], lm_key[t], Len(node) + 1)]
      /\ rc' = [rc EXCEPT ![t] = Len(node) + 1] /\ pc' = [pc EXCEPT ![t] = "split"]
      /\ early' = (early \/ NotLinked(cur[t]))
      /\ UNCHANGED <<Root, ended, i, cur, nkey, kid, lc>>
  BY DEF TreeInv, PlaceInv, SplitInternal, At, Goto, Internal, Climbing
<1>1. PICK p, x, k, c, right, q, z, h, r, chi, key :
          /\ p \in DOMAIN node /\ x \in NodeType /\ k \in Nat /\ c \in DOMAIN node
          /\ p = cur[t] /\ x = node[p] /\ k = lm_key[t] /\ c = rc[t] /\ x.nkey = N - 1
          /\ right = Len(node) + 1
          /\ q = SplitParent(p, c, k, right)
          /\ z = RightInternal(x, k, c)
          /\ h = x.high_key /\ r = x.right_link
          /\ chi = TempChi(x, k, c) /\ key = TempKey(x, k)
  BY <1>0, NodeFields DEF TreeInv, TypeOK
<1>2. q \in Seq(SplitStores(p, right, chi, key, h, r))
  BY <1>1, SplitParentIs DEF IsSplitting
<1>3. SlotOf(x, k) \in 0 .. x.nkey
  BY <1>1, SlotOfType DEF TreeInv
<1>4. /\ z.isLeaf = FALSE /\ z.parent = x.parent
      /\ z.chi = [s \in ChiSlots |-> IF s <= N - H THEN TempChi(x, k, c)[s + H] ELSE NULL]
  <2>1. TypeOK /\ x \in NodeType /\ k \in Nat /\ c \in DOMAIN node /\ x.nkey = N - 1
    BY <1>1 DEF TreeInv
  <2>2. \A s \in 0 .. x.nkey : x.chi[s] # NULL
    BY <1>0, <1>1 DEF TreeInv, NodeInv, NodeOK, Internal
  <2>3. PICK zk, zc : IsRightHalf(RightInternal(x, k, c), x, k, c, zk, zc)
    BY <2>1, <2>2, RightInternalIs
  <2>4. /\ zc = [s \in ChiSlots |-> IF s <= N - H THEN TempChi(x, k, c)[s + H] ELSE NULL]
        /\ z = [isLeaf |-> FALSE, nkey |-> N - H, key |-> zk, chi |-> zc,
                high_key |-> 0, right_link |-> NULL, parent |-> x.parent]
    BY <1>1, <2>3, Zenon DEF IsRightHalf
  <2>5. z.isLeaf = FALSE /\ z.parent = x.parent /\ z.chi = zc
    BY <2>4
  <2> QED BY <2>4, <2>5, Zenon
<1>5. ASSUME NEW s \in ChiSlots
      PROVE  z.chi[s] = NULL \/ z.chi[s] = c \/ \E a \in ChiSlots : z.chi[s] = x.chi[a]
  <2>1. CASE s <= N - H
    <3>1. s + H \in 0 .. N
      BY <2>1, Halves
    <3>2. z.chi[s] = TempChi(x, k, c)[s + H]
      BY <1>4, <2>1
    <3> QED BY <1>1, <1>3, <3>1, <3>2, TempChiFrom
  <2>2. CASE ~(s <= N - H)
    BY <1>4, <2>2
  <2> QED BY <2>1, <2>2
<1>6. ASSUME NEW j \in DOMAIN q, q[j].field = "chi"
      PROVE  q[j].value = c \/ \E a \in ChiSlots : q[j].value = x.chi[a]
  <2>1. q[j] \in SplitStores(p, right, TempChi(x, k, c), key, h, r)
    BY <1>1, <1>2
  <2> QED BY <1>1, <1>3, <1>6, <2>1, SplitChildren
<1>7. /\ DOMAIN node' = DOMAIN node \cup {right} /\ right \notin DOMAIN node
      /\ node'[right] = z
      /\ \A a \in DOMAIN node : node'[a] = node[a]
  <2>1. node \in [1 .. Len(node) -> NodeType]
    <3>1. node \in Seq(NodeType)
      BY DEF TreeInv, TypeOK
    <3> QED BY <3>1
  <2>2. [node EXCEPT ![p] = x] = node
    BY <1>1, <2>1
  <2>3. node' = Append([node EXCEPT ![p] = x], z)
    BY <1>0, <1>1, <2>2
  <2> QED BY <1>1, <2>3, AppendIs DEF TreeInv
<1>8. /\ pc'[t] = "split" /\ lc'[t] = lc[t] /\ rc'[t] = right /\ cur'[t] = p /\ stores'[t] = q
  BY <1>0, <1>1 DEF TreeInv, TypeOK
<1>9. ASSUME NEW u \in Threads \ {t}
      PROVE  /\ pc'[u] = pc[u] /\ cur'[u] = cur[u] /\ lc'[u] = lc[u] /\ rc'[u] = rc[u]
             /\ stores'[u] = stores[u]
  BY <1>0 DEF TreeInv, TypeOK
<1>10. /\ Root' = Root /\ Root \in DOMAIN node /\ Root # NULL /\ p # NULL
       /\ node'[Root] = node[Root] /\ NewRoot' = NewRoot
       /\ NewRoot # NULL => NewRoot \in DOMAIN node
  BY <1>0, <1>1, <1>7, RootIsNode, NodeFields, Addresses DEF TreeInv, NewRoot
<1>11. RootLeaf'
  BY <1>0, <1>10, AtRootLeaf DEF RootLeaf
<1>12. ASSUME NEW u \in Threads PROVE SameKind(u)'
  <2>1. CASE u = t
    BY <1>8, <2>1 DEF SameKind
  <2>2. CASE u # t
    <3>1. pc[u] = "up" => lc[u] \in DOMAIN node /\ rc[u] \in DOMAIN node
      BY DEF TreeInv, PlaceInv, Climbing
    <3>2. SameKind(u)
      BY DEF ParentInv
    <3> QED BY <1>7, <1>9, <2>2, <3>1, <3>2 DEF SameKind
  <2> QED BY <2>1, <2>2
<1>13. ASSUME ~early'
       PROVE  /\ Parentless' /\ Publishing' /\ RootIsNoChild' /\ NewRootIsTop'
              /\ \A u \in Threads : Climbs(u)'
              /\ ended' # "segfault"
  <2>0. /\ Parentless /\ Publishing /\ RootIsNoChild /\ NewRootIsTop
        /\ \A u \in Threads : Climbs(u)
        /\ ended # "segfault"
    BY <1>0, <1>13 DEF ParentInv
  <2>1. HasParent(p)
    BY <1>0, <1>1, <1>13 DEF NotLinked, HasParent
  <2>2. p # NewRoot
    <3>1. SUFFICES ASSUME p = NewRoot PROVE FALSE
      OBVIOUS
    <3>2. PICK u \in Threads : pc[u] = "publish"
      BY <1>10, <2>0, <3>1 DEF Publishing, NewRoot
    <3> QED BY <1>10, <2>0, <2>1, <3>1, <3>2 DEF Publishing, HasParent
  <2>3. /\ c # Root /\ \A a \in ChiSlots : x.chi[a] # Root
    BY <1>1, <2>0, <2>2 DEF RootIsNoChild
  <2>4. ASSUME node[Root].parent # NULL
        PROVE  c # NewRoot /\ \A a \in ChiSlots : x.chi[a] # NewRoot
    BY <1>1, <2>0, <2>4 DEF NewRootIsTop
  <2>5. Parentless'
    <3>1. ASSUME NEW a \in DOMAIN node, node[a].parent = NULL, a # Root
          PROVE  \E u \in Threads : RootHalf(u, a)' \/ (pc'[u] = "publish" /\ a = NewRoot)
      <4>1. PICK u \in Threads : RootHalf(u, a) \/ (pc[u] = "publish" /\ a = NewRoot)
        BY <2>0, <3>1 DEF Parentless
      <4>2. u # t
        BY <1>0, <4>1 DEF RootHalf
      <4> QED BY <1>9, <1>10, <4>1, <4>2 DEF RootHalf
    <3>2. ASSUME z.parent = NULL PROVE RootHalf(t, right)'
      <4>1. p = Root
        BY <1>1, <1>4, <2>1, <3>2 DEF HasParent
      <4> QED BY <1>8, <1>10, <4>1 DEF RootHalf
    <3> QED BY <1>7, <1>10, <3>1, <3>2 DEF Parentless
  <2>6. Publishing'
    <3>1. \A u \in Threads : pc'[u] = "publish" <=> pc[u] = "publish"
      BY <1>0, <1>8, <1>9
    <3>2. \A u \in Threads : lc'[u] = lc[u]
      BY <1>0
    <3> QED BY <1>7, <1>10, <2>0, <3>1, <3>2 DEF Publishing
  <2>7. RootIsNoChild'
    <3>1. \A u \in Threads : rc'[u] # Root
      BY <1>7, <1>8, <1>9, <1>10, <2>0 DEF RootIsNoChild
    <3>2. \A a \in DOMAIN node' : \A s \in ChiSlots : node'[a].chi[s] = Root => NewRoot = a
      BY <1>5, <1>7, <1>10, <2>0, <2>3 DEF RootIsNoChild
    <3>3. ASSUME NEW u \in Threads, NewChild(u, Root)' PROVE NewRoot = cur'[u]
      <4>1. CASE u = t
        <5>1. PICK j \in DOMAIN q : q[j].field = "chi" /\ q[j].value = Root
          BY <1>8, <1>10, <3>3, <4>1 DEF NewChild
        <5> QED BY <1>6, <2>3, <5>1
      <4>2. CASE u # t
        BY <1>9, <1>10, <2>0, <3>3, <4>2 DEF RootIsNoChild, NewChild
      <4> QED BY <4>1, <4>2
    <3> QED BY <1>10, <3>1, <3>2, <3>3 DEF RootIsNoChild
  <2>8. NewRootIsTop'
    <3>1. SUFFICES ASSUME node[Root].parent # NULL
                   PROVE  /\ \A u \in Threads : rc'[u] # NewRoot /\ ~NewChild(u, NewRoot)'
                          /\ \A a \in DOMAIN node' : \A s \in ChiSlots : node'[a].chi[s] # NewRoot
                          /\ \A u \in Threads : pc'[u] = "split" => cur'[u] # NewRoot
      BY <1>10 DEF NewRootIsTop
    <3>2. NewRoot # NULL /\ NewRoot \in DOMAIN node
      BY <1>10, <3>1 DEF NewRoot
    <3>3. \A u \in Threads : rc'[u] # NewRoot
      BY <1>7, <1>8, <1>9, <2>0, <3>1, <3>2 DEF NewRootIsTop
    <3>4. ASSUME NEW u \in Threads PROVE ~NewChild(u, NewRoot)'
      <4>1. CASE u = t
        BY <1>6, <1>8, <1>10, <2>4, <3>1, <4>1 DEF NewChild
      <4>2. CASE u # t
        BY <1>9, <1>10, <2>0, <3>1, <4>2 DEF NewRootIsTop, NewChild
      <4> QED BY <4>1, <4>2
    <3>5. \A a \in DOMAIN node' : \A s \in ChiSlots : node'[a].chi[s] # NewRoot
      BY <1>5, <1>7, <2>0, <2>4, <3>1, <3>2 DEF NewRootIsTop
    <3>6. \A u \in Threads : pc'[u] = "split" => cur'[u] # NewRoot
      BY <1>8, <1>9, <2>0, <2>2, <3>1 DEF NewRootIsTop
    <3> QED BY <3>3, <3>4, <3>5, <3>6
  <2>9. ASSUME NEW u \in Threads PROVE Climbs(u)'
    <3>1. CASE u = t
      BY <1>1, <1>7, <1>8, <1>10, <2>1, <3>1 DEF Climbs, HasParent
    <3>2. CASE u # t
      <4>1. Climbs(u)
        BY <2>0
      <4>2. pc[u] = "split" => cur[u] \in DOMAIN node
        BY DEF TreeInv, PlaceInv, Internal
      <4>3. pc[u] = "up" => lc[u] \in DOMAIN node
        BY DEF TreeInv, PlaceInv, Climbing
      <4> QED BY <1>7, <1>9, <1>10, <3>2, <4>1, <4>2, <4>3 DEF Climbs, HasParent
    <3> QED BY <3>1, <3>2
  <2> QED BY <1>0, <2>0, <2>5, <2>6, <2>7, <2>8, <2>9
<1> QED BY <1>11, <1>12, <1>13 DEF ParentInv

\* The new root is the parent of the old one and of its right half; until it
\* is published it alone has no parent beside the root.
LEMMA GrowRootParents ==
    ASSUME TreeInv, ParentInv, NEW t \in Threads, GrowRoot(t)
    PROVE  ParentInv'
<1>0. /\ pc[t] = "up" /\ lc[t] = Root /\ lc[t] \in DOMAIN node /\ rc[t] \in DOMAIN node
      /\ pc' = [pc EXCEPT ![t] = "publish"]
      /\ UNCHANGED <<Root, ended, cur, lc, rc, stores, early>>
  BY DEF TreeInv, PlaceInv, GrowRoot, At, Goto, Climbing
<1>1. PICK new, z : IsGrown(t, new, z) /\ new = Len(node) + 1
  BY GrowRootIs DEF IsGrown
<1>2. /\ z.isLeaf = FALSE /\ z.parent = NULL
      /\ z.chi = [s \in ChiSlots |-> IF s = 0 THEN lc[t] ELSE IF s = 1 THEN rc[t] ELSE NULL]
  <2>1. IsNewRoot(z, lm_key[t], lc[t], rc[t])
    BY <1>1 DEF IsGrown
  <2> QED BY <2>1 DEF IsNewRoot
<1>3. /\ DOMAIN node' = DOMAIN node \cup {new} /\ new \notin DOMAIN node /\ new # NULL
      /\ node'[new] = z
      /\ \A p \in DOMAIN node :
           node'[p] = IF p \in {lc[t], rc[t]} THEN [node[p] EXCEPT !.parent = new] ELSE node[p]
  BY <1>1 DEF IsGrown
<1>4. ASSUME NEW p \in DOMAIN node
      PROVE  /\ node'[p].isLeaf = node[p].isLeaf /\ node'[p].chi = node[p].chi
             /\ node'[p].right_link = node[p].right_link
             /\ node'[p].parent = IF p \in {lc[t], rc[t]} THEN new ELSE node[p].parent
  <2>1. LET y == [node[p] EXCEPT !.parent = new]
        IN  /\ y.isLeaf = node[p].isLeaf /\ y.chi = node[p].chi
            /\ y.right_link = node[p].right_link /\ y.parent = new
    <3>1. node[p] \in NodeType
      BY NodeFields DEF TreeInv
    <3> QED BY <3>1 DEF NodeType
  <2> QED BY <1>3, <2>1
<1>5. /\ pc'[t] = "publish" /\ lc'[t] = Root /\ Root \in DOMAIN node /\ Root # NULL
      /\ Root' = Root /\ NewRoot' = new /\ new # Root /\ early' = early /\ ended' = ended
  <2>1. pc'[t] = "publish" /\ Root \in DOMAIN node /\ Root # NULL
    BY <1>0, RootIsNode DEF TreeInv, TypeOK
  <2> QED BY <1>0, <1>3, <1>4, <2>1 DEF NewRoot
<1>6. ASSUME NEW u \in Threads \ {t} PROVE pc'[u] = pc[u]
  BY <1>0 DEF TreeInv, TypeOK
<1>7. RootLeaf'
  <2>1. SUFFICES ASSUME node[Root].isLeaf
                 PROVE  \A u \in Threads : cur[u] \in {NULL, Root} /\ lc[u] \in {NULL, Root}
    BY <1>0, <1>4, <1>5 DEF RootLeaf
  <2> QED BY <2>1, AtRootLeaf
<1>8. ASSUME NEW u \in Threads PROVE SameKind(u)'
  <2>1. CASE u = t
    BY <1>5, <2>1 DEF SameKind
  <2>2. CASE u # t
    <3>1. pc[u] = "up" => lc[u] \in DOMAIN node /\ rc[u] \in DOMAIN node
      BY DEF TreeInv, PlaceInv, Climbing
    <3>2. SameKind(u)
      BY DEF ParentInv
    <3> QED BY <1>0, <1>4, <1>6, <2>2, <3>1, <3>2 DEF SameKind
  <2> QED BY <2>1, <2>2
<1>9. ASSUME ~early
      PROVE  /\ Parentless' /\ Publishing' /\ RootIsNoChild' /\ NewRootIsTop'
             /\ \A u \in Threads : Climbs(u)'
  <2>0. /\ Parentless /\ Publishing /\ RootIsNoChild /\ NewRootIsTop
        /\ \A u \in Threads : Climbs(u)
    BY <1>9 DEF ParentInv
  <2>1. Holds(t, Root)
    BY <1>0 DEF Holds, Climbing
  <2>2. ASSUME NEW u \in Threads \ {t} PROVE pc[u] # "publish" /\ \A p : ~RootHalf(u, p)
    <3>1. /\ pc[u] \in Climbing => lc[u] # Root
          /\ \A p : ~RootHalf(u, p)
      BY <2>1, RootHeld
    <3>2. pc[u] = "publish" => lc[u] = Root
      BY <2>0 DEF Publishing
    <3> QED BY <3>1, <3>2 DEF Climbing
  <2>3. node[Root].parent = NULL
    BY <1>0, <2>0, <2>2 DEF Publishing
  <2>4. ASSUME NEW u \in Threads, NEW j \in DOMAIN stores[u], stores[u][j].field = "chi"
        PROVE  /\ cur[u] \in DOMAIN node /\ stores[u][j].value \in DOMAIN node
    <3>1. /\ PlaceInv(u) /\ StoreInv(u) /\ TypeOK
      BY DEF TreeInv
    <3>2. stores[u] # <<>> /\ GoodStore(u, stores[u][j])
      BY <3>1, StoresAre DEF StoreInv
    <3>3. cur[u] \in DOMAIN node
      BY <3>1, <3>2 DEF PlaceInv, Internal
    <3> QED BY <2>4, <3>2, <3>3 DEF GoodStore
  <2>5. NULL \notin DOMAIN node /\ \A u \in Threads : rc[u] # new
    <3>1. NULL \notin DOMAIN node /\ Pointers = DOMAIN node \cup {NULL}
      BY Addresses DEF TreeInv
    <3>2. rc \in [Threads -> Pointers]
      BY DEF TreeInv, TypeOK
    <3>3. new \notin DOMAIN node /\ new # NULL
      BY <1>3
    <3> QED BY <3>1, <3>2, <3>3
  <2>6. Parentless'
    <3>1. ASSUME NEW p \in DOMAIN node, node'[p].parent = NULL PROVE p = Root
      <4>1. node[p].parent = NULL /\ p # rc[t]
        BY <1>3, <1>4, <3>1
      <4>2. ~RootHalf(t, p) /\ pc[t] # "publish"
        BY <1>0, <4>1 DEF RootHalf
      <4> QED BY <2>0, <2>2, <4>1, <4>2 DEF Parentless
    <3>2. pc'[t] = "publish" /\ new = NewRoot'
      BY <1>5
    <3> QED BY <1>3, <1>5, <3>1, <3>2 DEF Parentless
  <2>7. Publishing'
    <3>1. node'[new].parent = NULL
      BY <1>2, <1>3
    <3>2. \A u \in Threads : pc'[u] = "publish" => u = t
      BY <1>6, <2>2
    <3> QED BY <1>3, <1>5, <3>1, <3>2 DEF Publishing
  <2>8. RootIsNoChild'
    <3>1. \A u \in Threads : rc'[u] # Root
      BY <1>0, <2>0 DEF RootIsNoChild
    <3>2. \A q \in DOMAIN node : \A s \in ChiSlots : node'[q].chi[s] # Root
      BY <1>4, <2>0, <2>3, <2>5 DEF RootIsNoChild, NewRoot
    <3>3. ASSUME NEW u \in Threads PROVE ~NewChild(u, Root)'
      <4>1. NewChild(u, Root)' => NewChild(u, Root)
        BY <1>0 DEF NewChild
      <4>2. NewChild(u, Root) => cur[u] = NULL
        BY <2>0, <2>3 DEF RootIsNoChild, NewRoot
      <4>3. NewChild(u, Root) => cur[u] \in DOMAIN node
        BY <2>4 DEF NewChild
      <4> QED BY <2>5, <4>1, <4>2, <4>3
    <3> QED BY <1>3, <1>5, <3>1, <3>2, <3>3 DEF RootIsNoChild
  <2>9. NewRootIsTop'
    <3>1. \A q \in DOMAIN node' : \A s \in ChiSlots : node'[q].chi[s] # new
      <4>1. ASSUME NEW q \in DOMAIN node, NEW s \in ChiSlots PROVE node'[q].chi[s] # new
        <5>1. node[q].chi[s] \in Pointers
          BY NodeFields DEF TreeInv
        <5> QED BY <1>3, <1>4, <5>1, Addresses DEF TreeInv
      <4>2. \A s \in ChiSlots : z.chi[s] # new
        BY <1>0, <1>2, <1>3
      <4> QED BY <1>3, <4>1, <4>2
    <3>2. ASSUME NEW u \in Threads PROVE ~NewChild(u, NewRoot)'
      <4>1. NewChild(u, NewRoot)' => \E j \in DOMAIN stores[u] : stores[u][j].field = "chi" /\ stores[u][j].value = new
        BY <1>0, <1>5 DEF NewChild
      <4> QED BY <1>3, <2>4, <4>1
    <3>3. ASSUME NEW u \in Threads, pc'[u] = "split" PROVE cur'[u] # new
      <4>1. pc[u] = "split"
        BY <1>5, <1>6, <3>3
      <4>2. cur[u] \in DOMAIN node
        BY <4>1 DEF TreeInv, PlaceInv, Internal
      <4> QED BY <1>0, <1>3, <4>2
    <3>4. \A u \in Threads : rc'[u] # new
      BY <1>0, <2>5
    <3> QED BY <1>5, <3>1, <3>2, <3>3, <3>4 DEF NewRootIsTop
  <2>10. ASSUME NEW u \in Threads PROVE Climbs(u)'
    <3>1. CASE u = t
      BY <1>5, <3>1 DEF Climbs
    <3>2. CASE u # t
      <4>1. Climbs(u)
        BY <2>0
      <4>2. pc[u] = "split" => cur[u] \in DOMAIN node
        BY DEF TreeInv, PlaceInv, Internal
      <4>3. pc[u] = "up" => lc[u] \in DOMAIN node
        BY DEF TreeInv, PlaceInv, Climbing
      <4>4. \A p \in DOMAIN node : HasParent(p) => HasParent(p)'
        BY <1>3, <1>4, <1>5 DEF HasParent
      <4> QED BY <1>0, <1>6, <3>2, <4>1, <4>2, <4>3, <4>4 DEF Climbs, HasParent
    <3> QED BY <3>1, <3>2
  <2> QED BY <2>6, <2>7, <2>8, <2>9, <2>10
<1>10. ended' # "segfault" \/ early
  BY <1>5 DEF ParentInv
<1> QED BY <1>5, <1>7, <1>8, <1>9, <1>10 DEF ParentInv

\* A store gives a child the parent it is stored in: the root can only be
\* adopted by the new root, which it is a child of already.
LEMMA StoreParents ==
    ASSUME TreeInv, ParentInv, NEW t \in Threads, Store(t)
    PROVE  ParentInv'
<1>0. PICK q, st, rest, g, y : StoreStep(t, q, st, rest, g, y)
  BY StoreStepIs
<1>1. /\ pc[t] \in {"added", "split"}
      /\ q = stores[t] /\ st = q[1] /\ q \in Seq(StoreType) /\ Len(q) >= 1
      /\ st \in StoreType /\ GoodStore(t, st) /\ st.to \in DOMAIN node
      /\ g = Target(st) /\ IsStored(g, y, st)
      /\ DOMAIN node' = DOMAIN node
      /\ \A p \in DOMAIN node : node'[p] = IF p = g THEN y ELSE node[p]
      /\ rest = stores'[t] /\ rest \in Seq(StoreType) /\ Len(rest) = Len(q) - 1
      /\ \A j \in 1 .. Len(rest) : rest[j] = q[j + 1]
      /\ \A u \in Threads \ {t} : stores'[u] = stores[u]
      /\ UNCHANGED <<Root, ended, pc, cur, lc, rc, early>>
  BY <1>0 DEF StoreStep, TreeInv, TypeOK
<1>2. /\ g \in DOMAIN node /\ y.isLeaf = node[g].isLeaf
      /\ y.chi = IF st.field = "chi" THEN [node[g].chi EXCEPT ![st.slot] = st.value]
                                     ELSE node[g].chi
      /\ y.parent = IF st.field = "parent" THEN st.to ELSE node[g].parent
  BY <1>1 DEF IsStored
<1>3. /\ st.field # "parent" => g = st.to
      /\ st.field = "parent" => g = node[st.to].chi[st.slot]
      /\ st.to # NULL /\ st.slot \in ChiSlots
  BY <1>1, Addresses DEF Target, StoreType, TreeInv
<1>4. ASSUME NEW p \in DOMAIN node
      PROVE  /\ node'[p].isLeaf = node[p].isLeaf
             /\ \/ node'[p].parent = node[p].parent
                \/ st.field = "parent" /\ p = g /\ node'[p].parent = st.to
             /\ \A s \in ChiSlots :
                   \/ node'[p].chi[s] = node[p].chi[s]
                   \/ st.field = "chi" /\ p = st.to /\ node'[p].chi[s] = st.value
  <2>1. node[p].chi \in [ChiSlots -> Pointers]
    BY NodeFields DEF TreeInv
  <2> QED BY <1>1, <1>2, <1>3, <2>1
<1>5. \A u \in Threads : \A c : NewChild(u, c)' => NewChild(u, c)
  <2>1. ASSUME NEW u \in Threads, NEW j \in DOMAIN stores'[u]
        PROVE  \E m \in DOMAIN stores[u] : stores'[u][j] = stores[u][m]
    <3>1. CASE u # t
      BY <1>1, <3>1
    <3>2. CASE u = t
      <4>1. j \in 1 .. Len(rest) /\ j + 1 \in DOMAIN q
        BY <1>1, <3>2
      <4> QED BY <1>1, <3>2, <4>1
    <3> QED BY <3>1, <3>2
  <2> QED BY <2>1 DEF NewChild
<1>6. st.field = "chi" => NewChild(t, st.value) /\ st.to = cur[t]
  <2>1. 1 \in DOMAIN q
    BY <1>1
  <2> QED BY <1>1, <2>1 DEF NewChild, GoodStore
<1>7. /\ Root \in DOMAIN node /\ Root # NULL /\ node[Root].isLeaf \in BOOLEAN
      /\ NewRoot # NULL => NewRoot \in DOMAIN node
  BY RootIsNode, NodeFields, Addresses DEF TreeInv, NewRoot
<1>8. RootLeaf'
  <2>1. Internal(cur[t])
    BY <1>1 DEF TreeInv, PlaceInv
  <2>2. ~node[Root].isLeaf
    <3>1. cur[t] # NULL /\ ~node[cur[t]].isLeaf
      BY <2>1, Addresses DEF Internal, TreeInv
    <3>2. node[Root].isLeaf => cur[t] \in {NULL, Root}
      BY DEF ParentInv, RootLeaf
    <3> QED BY <3>1, <3>2
  <2> QED BY <1>1, <1>4, <1>7, <2>2 DEF RootLeaf
<1>9. ASSUME NEW u \in Threads PROVE SameKind(u)'
  <2>1. pc[u] = "up" => lc[u] \in DOMAIN node /\ rc[u] \in DOMAIN node
    BY DEF TreeInv, PlaceInv, Climbing
  <2>2. SameKind(u)
    BY DEF ParentInv
  <2> QED BY <1>1, <1>4, <2>1, <2>2 DEF SameKind
<1>10. ASSUME ~early
       PROVE  /\ Parentless' /\ Publishing' /\ RootIsNoChild' /\ NewRootIsTop'
              /\ \A u \in Threads : Climbs(u)'
  <2>0. /\ Parentless /\ Publishing /\ RootIsNoChild /\ NewRootIsTop
        /\ \A u \in Threads : Climbs(u)
    BY <1>10 DEF ParentInv
  <2>1. node'[Root].parent = node[Root].parent
    <3>1. SUFFICES ASSUME st.field = "parent", Root = g PROVE st.to = NewRoot
      BY <1>4, <1>7 DEF NewRoot
    <3> QED BY <1>1, <1>3, <2>0, <3>1 DEF RootIsNoChild
  <2>2. ASSUME node[Root].parent # NULL
        PROVE  node'[NewRoot].parent = node[NewRoot].parent
    <3>1. NewRoot \in DOMAIN node
      BY <1>7, <2>2 DEF NewRoot
    <3>2. st.field = "parent" => NewRoot # g
      BY <1>1, <1>3, <2>0, <2>2 DEF NewRootIsTop
    <3> QED BY <1>4, <3>1, <3>2
  <2>3. NewRoot' = NewRoot /\ Root' = Root /\ (\A u \in Threads : \A p : RootHalf(u, p)' <=> RootHalf(u, p))
    BY <1>1, <2>1 DEF NewRoot, RootHalf
  <2>4. \A p \in DOMAIN node : node[p].parent # NULL => node'[p].parent # NULL
    BY <1>3, <1>4
  <2>5. Parentless'
    <3>1. ASSUME NEW p \in DOMAIN node, node'[p].parent = NULL, p # Root
          PROVE  \E u \in Threads : RootHalf(u, p) \/ (pc[u] = "publish" /\ p = NewRoot)
      BY <2>0, <2>4, <3>1 DEF Parentless
    <3> QED BY <1>1, <2>3, <3>1 DEF Parentless
  <2>6. Publishing'
    <3>1. node[Root].parent # NULL <=> NewRoot # NULL
      BY DEF NewRoot
    <3> QED BY <1>1, <2>0, <2>1, <2>2, <2>3, <3>1 DEF Publishing
  <2>7. RootIsNoChild'
    <3>1. \A u \in Threads : rc'[u] # Root
      BY <1>1, <2>0 DEF RootIsNoChild
    <3>2. ASSUME NEW p \in DOMAIN node, NEW s \in ChiSlots, node'[p].chi[s] = Root
          PROVE  NewRoot = p
      BY <1>4, <1>6, <2>0, <3>2 DEF RootIsNoChild
    <3>3. ASSUME NEW u \in Threads, NewChild(u, Root)' PROVE NewRoot = cur'[u]
      <4>1. NewChild(u, Root)
        <5>1. PICK root : root = Root
          OBVIOUS
        <5>2. NewChild(u, root)'
          BY <2>3, <3>3, <5>1 DEF NewChild
        <5> QED BY <1>5, <5>1, <5>2
      <4> QED BY <1>1, <2>0, <4>1 DEF RootIsNoChild
    <3> QED BY <1>1, <2>3, <3>1, <3>2, <3>3 DEF RootIsNoChild
  <2>8. NewRootIsTop'
    <3>1. SUFFICES ASSUME node[Root].parent # NULL
                   PROVE  /\ \A u \in Threads : rc'[u] # NewRoot /\ ~NewChild(u, NewRoot)'
                          /\ \A p \in DOMAIN node' : \A s \in ChiSlots : node'[p].chi[s] # NewRoot
                          /\ \A u \in Threads : pc'[u] = "split" => cur'[u] # NewRoot
      BY <2>1, <2>3 DEF NewRootIsTop
    <3>2. PICK new : new = NewRoot
      OBVIOUS
    <3>3. /\ \A u \in Threads : rc[u] # new /\ ~NewChild(u, new)
          /\ \A p \in DOMAIN node : \A s \in ChiSlots : node[p].chi[s] # new
          /\ \A u \in Threads : pc[u] = "split" => cur[u] # new
      BY <2>0, <3>1, <3>2 DEF NewRootIsTop
    <3>4. ASSUME NEW p \in DOMAIN node, NEW s \in ChiSlots PROVE node'[p].chi[s] # new
      BY <1>4, <1>6, <3>3
    <3>5. ASSUME NEW u \in Threads PROVE ~NewChild(u, NewRoot)'
      <4>1. ~NewChild(u, new)'
        BY <1>5, <3>3
      <4> QED BY <2>3, <3>2, <4>1 DEF NewChild
    <3> QED BY <1>1, <2>3, <3>2, <3>3, <3>4, <3>5
  <2>9. ASSUME NEW u \in Threads PROVE Climbs(u)'
    <3>1. Climbs(u)
      BY <2>0
    <3>2. pc[u] = "split" => cur[u] \in DOMAIN node
      BY DEF TreeInv, PlaceInv, Internal
    <3>3. pc[u] = "up" => lc[u] \in DOMAIN node
      BY DEF TreeInv, PlaceInv, Climbing
    <3> QED BY <1>1, <2>4, <3>1, <3>2, <3>3 DEF Climbs, HasParent
  <2> QED BY <2>5, <2>6, <2>7, <2>8, <2>9
<1>11. ended' # "segfault" \/ early
  BY <1>1 DEF ParentInv
<1> QED BY <1>1, <1>8, <1>9, <1>10, <1>11 DEF ParentInv

LEMMA NextKeepsParents == TreeInv /\ ParentInv /\ [Next]_vars => ParentInv'
<1> SUFFICES ASSUME TreeInv, ParentInv, [Next]_vars PROVE ParentInv'
  OBVIOUS
<1>1. ASSUME NEW t \in Threads, Step(t) PROVE ParentInv'
  <2>1. CASE ReadRoot(t) \/ ReadNkey(t) \/ ReadKey(t) \/ ReadChild(t) \/ LockLeaf(t)
    BY <2>1, DescentParents
  <2>2. CASE MoveRight(t)
    BY <2>2, MoveRightParents
  <2>3. CASE AddToLeaf(t)
    BY <2>3, AddToLeafParents
  <2>4. CASE SplitLeaf(t)
    BY <2>4, SplitLeafParents
  <2>5. CASE GrowRoot(t)
    BY <2>5, GrowRootParents
  <2>6. CASE PublishRoot(t)
    BY <2>6, PublishRootParents
  <2>7. CASE ReadParent(t)
    BY <2>7, ReadParentParents
  <2>8. CASE LockParent(t)
    BY <2>8, LockParentParents
  <2>9. CASE LockNull(t)
    BY <2>9, LockNullParents
  <2>10. CASE AddToParent(t)
    BY <2>10, AddToParentParents
  <2>11. CASE SplitInternal(t)
    BY <2>11, SplitInternalParents
  <2>12. CASE Store(t)
    BY <2>12, StoreParents
  <2>13. CASE UnlockBoth(t)
    BY <2>13, UnlockBothParents
  <2>14. CASE Ascend(t)
    BY <2>14, AscendParents
  <2>15. CASE SearchCore(t)
    BY <2>15, SearchCoreParents
  <2> QED BY <1>1, <2>1, <2>2, <2>3, <2>4, <2>5, <2>6, <2>7, <2>8, <2>9, <2>10, <2>11,
             <2>12, <2>13, <2>14, <2>15 DEF Step
<1>2. CASE StartSearch
  BY <1>2, StartSearchParents
<1>3. CASE UNCHANGED vars
  BY <1>3, StutterParents
<1> QED BY <1>1, <1>2, <1>3 DEF Next, Terminated

\* insert_in_parent (257) locks the parent a split half names: unless a right
\* half was split before it was linked, the pointer is never NULL.
THEOREM NullOnlyAfterEarlySplit == Spec => []NullLockedOnlyAfterEarlySplit
<1>1. ParentInv => NullLockedOnlyAfterEarlySplit
  BY DEF ParentInv, NullLockedOnlyAfterEarlySplit
<1> QED BY <1>1, TreeInvariant, InitParents, NextKeepsParents, PTL DEF Spec

=============================================================================
