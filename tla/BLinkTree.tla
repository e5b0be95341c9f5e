------------------------------ MODULE BLinkTree ------------------------------
(***************************************************************************)
(* The concurrent B-link tree of 1129_bltree/bltree.cc.                    *)
(*                                                                         *)
(* Size_thread threads insert their ranges of Key_vector.  An insert walks *)
(* down to a leaf with no lock (find_leaf), locks the leaf, follows right  *)
(* links under locks (move_right), and inserts; a full node is split, its  *)
(* right half linked behind it, and the half's separator is inserted in    *)
(* the parent, which is locked while the child still is, and may be split  *)
(* in turn.  When all have inserted, the threads look up the same keys.    *)
(*                                                                         *)
(* find_leaf reads internal nodes while lock holders store to them, so     *)
(* each of its loads is an action and the stores to a node that others can *)
(* read are performed one at a time, in program order.  What only the      *)
(* holder of a lock looks at (the entries of a leaf) changes at once.      *)
(* The data behind a key is NULL in the code and left out.  N is even, as  *)
(* in the code (600): the roundings of the split functions agree, and the  *)
(* "subtle change" of insert_in_parent stores the nkey the node has.       *)
(***************************************************************************)
EXTENDS Integers, Sequences

CONSTANTS
    N,           \* children of a node; it has at most N - 1 keys
    Size_thread, \* number of threads
    KeyVectors   \* what Key_vector may be: sequences of distinct keys

ASSUME ConstantsAssumption ==
    /\ N \in Nat /\ N >= 4 /\ N % 2 = 0
    /\ Size_thread \in Nat \ {0}
    /\ \A kv \in KeyVectors : kv \in Seq(Nat \ {0})

\* Each key has a slot of its own in the file (gendata.cc:31-40).
ASSUME DistinctKeys ==
    \A kv \in KeyVectors : \A a, b \in DOMAIN kv : kv[a] = kv[b] => a = b

Threads == 0 .. (Size_thread - 1)
Nobody  == -1
NULL    == 0

H == N \div 2  \* the size of a left half

VARIABLES
    Key_vector,
    Root,
    node,    \* node[p]: the node at address p, in the order of allocation
    locked,  \* locked[p]: the thread that holds its mutex
    ended,   \* "no", or what ended the process: "segfault", "not found"
    pc,      \* pc[t]: where thread t is
    i,       \* i[t]: the next key of its range, counted from 1
    cur,     \* cur[t]: the node it is at (leaf, left_parent)
    nkey,    \* nkey[t]: the local nkey of find_leaf
    kid,     \* kid[t]: the local kid of find_leaf
    lc, rc,  \* lc[t], rc[t]: left_child and right_child of insert_in_parent;
             \* after the split of the parent rc[t] is its right_parent
    lm_key,  \* lm_key[t]: the separator it inserts in the parent
    stores,  \* stores[t]: the stores it has still to perform
    early    \* history: a right half was split before it was linked

vars == <<Key_vector, Root, node, locked, ended, pc, i, cur, nkey, kid,
          lc, rc, lm_key, stores, early>>

Slots    == 0 .. (N - 2)  \* of key[N-1]
ChiSlots == 0 .. (N - 1)  \* of chi[N]

\* calloc, and the assignments of alloc_leaf and alloc_internal
Alloc(leaf, parent) ==
    [isLeaf |-> leaf, nkey |-> 0, key |-> [s \in Slots |-> 0],
     chi |-> [s \in ChiSlots |-> NULL], high_key |-> 0, right_link |-> NULL,
     parent |-> parent]

Init ==
    /\ Key_vector \in KeyVectors
    /\ Root = 1
    /\ node = <<Alloc(TRUE, NULL)>>
    /\ locked = <<Nobody>>
    /\ ended = "no"
    /\ pc = [t \in Threads |-> "insert"]
    /\ i = [t \in Threads |-> 1]
    /\ cur = [t \in Threads |-> NULL]
    /\ nkey = [t \in Threads |-> 0]
    /\ kid = [t \in Threads |-> 0]
    /\ lc = [t \in Threads |-> NULL]
    /\ rc = [t \in Threads |-> NULL]
    /\ lm_key = [t \in Threads |-> 0]
    /\ stores = [t \in Threads |-> <<>>]
    /\ early = FALSE

-----------------------------------------------------------------------------
(* Arrays.                                                                 *)

\* f with v inserted at slot p of its first n, the others shifted up.
InsertAt(f, dom, n, p, v) ==
    [s \in dom |-> CASE s < p            -> f[s]
                     [] s = p            -> v
                     [] s > p /\ s <= n  -> f[s - 1]
                     [] OTHER            -> f[s]]

\* The first slot of x whose key is larger than k.
SlotOf(x, k) ==
    CHOOSE p \in 0 .. x.nkey :
        /\ \A s \in 0 .. (p - 1) : x.key[s] <= k
        /\ p < x.nkey => x.key[p] > k

\* TEMP: the full node x with k (and the child c behind it) inserted.
TempKey(x, k) == InsertAt(x.key, 0 .. (N - 1), N - 1, SlotOf(x, k), k)
TempChi(x, k, c) == InsertAt(x.chi, 0 .. N, N, SlotOf(x, k) + 1, c)

\* insert_in_leaf
InsertInLeaf(x, k) ==
    [x EXCEPT !.key = InsertAt(x.key, Slots, x.nkey, SlotOf(x, k), k),
              !.nkey = @ + 1,
              !.high_key = IF @ < k THEN k ELSE @]

\* Fault: the right half does not get the parent of the left one.
RightLeafOrphan(x, k) ==
    [Alloc(TRUE, NULL) EXCEPT
        !.key = [s \in Slots |-> IF s < N - H THEN TempKey(x, k)[s + H] ELSE 0],
        !.nkey = N - H,
        !.high_key = x.high_key,
        !.right_link = x.right_link]

\* The halves of a leaf: copy_from_temp_to_right and _to_left.  The slots of
\* the left half behind the last key keep what they held.
RightLeaf(x, k) ==
    [Alloc(TRUE, x.parent) EXCEPT
        !.key = [s \in Slots |-> IF s < N - H THEN TempKey(x, k)[s + H] ELSE 0],
        !.nkey = N - H,
        !.high_key = x.high_key,
        !.right_link = x.right_link]

\* Fault: the left half keeps the high key of the full leaf.
LeftLeafOldHighKey(x, k, right) ==
    [x EXCEPT !.key = [s \in Slots |->
                          IF s < H THEN TempKey(x, k)[s] ELSE x.key[s]],
              !.nkey = H,
              !.right_link = right]

LeftLeaf(x, k, right) ==
    [x EXCEPT !.key = [s \in Slots |->
                          IF s < H THEN TempKey(x, k)[s] ELSE x.key[s]],
              !.nkey = H,
              !.high_key = TempKey(x, k)[H - 1],
              !.right_link = right]

\* copy_from_temp_to_right_parent, before anybody can reach the node.
RightInternal(x, k, c) ==
    [Alloc(FALSE, x.parent) EXCEPT
        !.key = [s \in Slots |-> IF s < N - H THEN TempKey(x, k)[s + H] ELSE 0],
        !.chi = [s \in ChiSlots |-> IF s <= N - H THEN TempChi(x, k, c)[s + H]
                                    ELSE NULL],
        !.nkey = N - H]

-----------------------------------------------------------------------------
(* Stores to memory that others read.                                      *)

Put(p, field, v) == [to |-> p, field |-> field, slot |-> NULL, value |-> v]
PutAt(p, field, s, v) == [to |-> p, field |-> field, slot |-> s, value |-> v]

\* "p->chi[s]->parent = p": the child is loaded when the store is due (nkey,
\* the bound of the loop, is loaded once at -O2).
Adopt(p, s) == [to |-> p, field |-> "parent", slot |-> s, value |-> p]

Perform(st) ==
    CASE st.field = "key" -> [node EXCEPT ![st.to].key[st.slot] = st.value]
      [] st.field = "chi" -> [node EXCEPT ![st.to].chi[st.slot] = st.value]
      [] st.field = "parent" ->
             [node EXCEPT ![node[st.to].chi[st.slot]].parent = st.value]
      [] st.field = "nkey" -> [node EXCEPT ![st.to].nkey = st.value]
      [] st.field = "high_key" -> [node EXCEPT ![st.to].high_key = st.value]
      [] st.field = "right_link" -> [node EXCEPT ![st.to].right_link = st.value]

\* Fault: the key is moved before the child.
CopyDownKeyFirst(p, top, low, chi, key) ==
    [j \in 1 .. 2 * (top - low + 1) |->
        LET s == top - ((j - 1) \div 2)
        IN  IF j % 2 = 0 THEN PutAt(p, "chi", s + 1, chi[s + 1])
                         ELSE PutAt(p, "key", s, key[s])]

\* The loop that stores chi[s + 1] and then key[s], s from top down to low.
CopyDown(p, top, low, chi, key) ==
    [j \in 1 .. 2 * (top - low + 1) |->
        LET s == top - ((j - 1) \div 2)
        IN  IF j % 2 = 1 THEN PutAt(p, "chi", s + 1, chi[s + 1])
                         ELSE PutAt(p, "key", s, key[s])]

\* finalize_parent: shift, then the new child, its separator and nkey.
FinalizeParent(p, c, k) ==
    LET x == node[p]
        s == SlotOf(x, k)
        key == InsertAt(x.key, Slots, x.nkey, s, k)
        chi == InsertAt(x.chi, ChiSlots, x.nkey + 1, s + 1, c)
    IN  CopyDown(p, x.nkey, s + 1, chi, key)
            \o <<PutAt(p, "chi", s + 1, c), PutAt(p, "key", s, k),
                 Put(p, "nkey", x.nkey + 1)>>

\* The split of the full internal node p into p and right: the children of
\* right are told first, then p gets its half, then high keys and links.
SplitParent(p, c, k, right) ==
    LET x == node[p]
        key == TempKey(x, k)
        chi == TempChi(x, k, c)
    IN  [s \in 1 .. (N - H + 1) |-> Adopt(right, s - 1)]
            \o <<Put(p, "nkey", H - 1)>>
            \o CopyDown(p, H - 2, 0, chi, key)
            \o <<PutAt(p, "chi", 0, chi[0])>>
            \o [s \in 1 .. H |-> Adopt(p, s - 1)]
            \o <<Put(right, "high_key", x.high_key),
                 Put(right, "right_link", x.right_link),
                 Put(p, "high_key", key[H - 1]),
                 Put(p, "right_link", right)>>

-----------------------------------------------------------------------------
range == Len(Key_vector) \div Size_thread
KeyOf(t, j) == Key_vector[range * t + j]
Key(t) == KeyOf(t, i[t])

At(t, place) == ended = "no" /\ pc[t] = place /\ stores[t] = <<>>
Goto(t, place) == pc' = [pc EXCEPT ![t] = place]

\* work_core_insert: the next key of the range; find_leaf begins at Root.
ReadRoot(t) ==
    /\ At(t, "insert")
    /\ i[t] <= range
    /\ cur' = [cur EXCEPT ![t] = Root]
    /\ Goto(t, "descend")
    /\ UNCHANGED <<Key_vector, Root, node, locked, ended, i, nkey, kid, lc, rc,
                   lm_key, stores, early>>

ReadNkey(t) ==
    /\ At(t, "descend")
    /\ ~node[cur[t]].isLeaf
    /\ nkey' = [nkey EXCEPT ![t] = node[cur[t]].nkey]
    /\ kid' = [kid EXCEPT ![t] = 0]
    /\ Goto(t, "scan")
    /\ UNCHANGED <<Key_vector, Root, node, locked, ended, i, cur, lc, rc,
                   lm_key, stores, early>>

ReadKey(t) ==
    /\ At(t, "scan")
    /\ kid[t] < nkey[t]
    /\ IF Key(t) <= node[cur[t]].key[kid[t]]
       THEN Goto(t, "child") /\ kid' = kid
       ELSE kid' = [kid EXCEPT ![t] = @ + 1] /\ pc' = pc
    /\ UNCHANGED <<Key_vector, Root, node, locked, ended, i, cur, nkey, lc, rc,
                   lm_key, stores, early>>

ReadChild(t) ==
    /\ \/ At(t, "child")
       \/ At(t, "scan") /\ kid[t] = nkey[t]
    /\ cur' = [cur EXCEPT ![t] = node[cur[t]].chi[kid[t]]]
    /\ nkey' = [nkey EXCEPT ![t] = 0]
    /\ kid' = [kid EXCEPT ![t] = 0]
    /\ Goto(t, "descend")
    /\ UNCHANGED <<Key_vector, Root, node, locked, ended, i, lc, rc, lm_key,
                   stores, early>>

LockLeaf(t) ==
    /\ At(t, "descend")
    /\ node[cur[t]].isLeaf
    /\ locked[cur[t]] = Nobody
    /\ locked' = [locked EXCEPT ![cur[t]] = t]
    /\ Goto(t, "leaf")
    /\ UNCHANGED <<Key_vector, Root, node, ended, i, cur, nkey, kid, lc, rc,
                   lm_key, stores, early>>

\* move_right goes on from the node p when k is beyond its high key.
MustGoRight(p, k) == node[p].right_link # NULL /\ node[p].high_key < k

\* The next node is locked before the current one is unlocked.
MoveRight(t) ==
    /\ \/ At(t, "leaf") /\ MustGoRight(cur[t], Key(t))
       \/ At(t, "parent") /\ MustGoRight(cur[t], lm_key[t])
    /\ LET next == node[cur[t]].right_link
       IN  /\ locked[next] = Nobody
           /\ locked' = [locked EXCEPT ![next] = t, ![cur[t]] = Nobody]
           /\ cur' = [cur EXCEPT ![t] = next]
    /\ UNCHANGED <<Key_vector, Root, node, ended, pc, i, nkey, kid, lc, rc,
                   lm_key, stores, early>>

\* Fault: the parent is not locked.
LockParentUnlocked(t) ==
    /\ At(t, "lockparent")
    /\ cur[t] # NULL
    /\ Goto(t, "parent")
    /\ UNCHANGED <<Key_vector, Root, node, locked, ended, i, cur, nkey, kid, lc,
                   rc, lm_key, stores, early>>

\* The end of insert(): its locals are gone.
EndInsert(t) ==
    /\ i' = [i EXCEPT ![t] = @ + 1]
    /\ cur' = [cur EXCEPT ![t] = NULL]
    /\ lc' = [lc EXCEPT ![t] = NULL]
    /\ rc' = [rc EXCEPT ![t] = NULL]
    /\ lm_key' = [lm_key EXCEPT ![t] = 0]
    /\ Goto(t, "insert")

\* Fault: a leaf takes one key too many.
AddToFullLeaf(t) ==
    /\ At(t, "leaf")
    /\ ~MustGoRight(cur[t], Key(t))
    /\ node[cur[t]].nkey <= N - 1
    /\ node' = [node EXCEPT ![cur[t]] = InsertInLeaf(@, Key(t))]
    /\ locked' = [locked EXCEPT ![cur[t]] = Nobody]
    /\ EndInsert(t)
    /\ UNCHANGED <<Key_vector, Root, ended, nkey, kid, stores, early>>

AddToLeaf(t) ==
    /\ At(t, "leaf")
    /\ ~MustGoRight(cur[t], Key(t))
    /\ node[cur[t]].nkey < N - 1
    /\ node' = [node EXCEPT ![cur[t]] = InsertInLeaf(@, Key(t))]
    /\ locked' = [locked EXCEPT ![cur[t]] = Nobody]
    /\ EndInsert(t)
    /\ UNCHANGED <<Key_vector, Root, ended, nkey, kid, stores, early>>

SplitLeaf(t) ==
    /\ At(t, "leaf")
    /\ ~MustGoRight(cur[t], Key(t))
    /\ node[cur[t]].nkey = N - 1
    /\ LET x == node[cur[t]]
           right == Len(node) + 1
           left == LeftLeaf(x, Key(t), right)
       IN  /\ node' = Append([node EXCEPT ![cur[t]] = left],
                             RightLeaf(x, Key(t)))
           /\ lc' = [lc EXCEPT ![t] = cur[t]]
           /\ rc' = [rc EXCEPT ![t] = right]
           /\ lm_key' = [lm_key EXCEPT ![t] = TempKey(x, Key(t))[H - 1]]
    /\ locked' = Append(locked, Nobody)
    /\ Goto(t, "up")
    /\ UNCHANGED <<Key_vector, Root, ended, i, cur, nkey, kid, stores, early>>

\* insert_in_parent: the root was split.
GrowRoot(t) ==
    /\ At(t, "up")
    /\ lc[t] = Root
    /\ LET new == Len(node) + 1
           root == [Alloc(FALSE, NULL) EXCEPT
                       !.key[0] = lm_key[t], !.chi[0] = lc[t], !.chi[1] = rc[t],
                       !.nkey = 1]
       IN  node' = Append([node EXCEPT ![lc[t]].parent = new,
                                       ![rc[t]].parent = new], root)
    /\ locked' = Append(locked, Nobody)
    /\ Goto(t, "publish")
    /\ UNCHANGED <<Key_vector, Root, ended, i, cur, nkey, kid, lc, rc, lm_key,
                   stores, early>>

PublishRoot(t) ==
    /\ At(t, "publish")
    /\ Root' = node[lc[t]].parent
    /\ locked' = [locked EXCEPT ![lc[t]] = Nobody]
    /\ EndInsert(t)
    /\ UNCHANGED <<Key_vector, node, ended, nkey, kid, stores, early>>

ReadParent(t) ==
    /\ At(t, "up")
    /\ lc[t] # Root
    /\ cur' = [cur EXCEPT ![t] = node[lc[t]].parent]
    /\ Goto(t, "lockparent")
    /\ UNCHANGED <<Key_vector, Root, node, locked, ended, i, nkey, kid, lc, rc,
                   lm_key, stores, early>>

LockParent(t) ==
    /\ At(t, "lockparent")
    /\ cur[t] # NULL
    /\ locked[cur[t]] = Nobody
    /\ locked' = [locked EXCEPT ![cur[t]] = t]
    /\ Goto(t, "parent")
    /\ UNCHANGED <<Key_vector, Root, node, ended, i, cur, nkey, kid, lc, rc,
                   lm_key, stores, early>>

\* lock(NULL)
LockNull(t) ==
    /\ At(t, "lockparent")
    /\ cur[t] = NULL
    /\ ended' = "segfault"
    /\ UNCHANGED <<Key_vector, Root, node, locked, pc, i, cur, nkey, kid, lc,
                   rc, lm_key, stores, early>>

AddToParent(t) ==
    /\ At(t, "parent")
    /\ ~MustGoRight(cur[t], lm_key[t])
    /\ node[cur[t]].nkey < N - 1
    /\ stores' = [stores EXCEPT ![t] = FinalizeParent(cur[t], rc[t], lm_key[t])]
    /\ Goto(t, "added")
    /\ UNCHANGED <<Key_vector, Root, node, locked, ended, i, cur, nkey, kid,
                   lc, rc, lm_key, early>>

\* The right half p that another thread has split off is not yet in place:
\* its high key and link, or the parent of a half of the root, are missing.
NotLinked(p) ==
    \/ p # Root /\ node[p].parent = NULL
    \/ \E u \in Threads : /\ pc[u] = "split"
                          /\ rc[u] = p
                          /\ stores[u] # <<>>

SplitInternal(t) ==
    /\ At(t, "parent")
    /\ ~MustGoRight(cur[t], lm_key[t])
    /\ node[cur[t]].nkey = N - 1
    /\ node' = Append(node, RightInternal(node[cur[t]], lm_key[t], rc[t]))
    /\ locked' = Append(locked, Nobody)
    /\ stores' = [stores EXCEPT ![t] =
                     SplitParent(cur[t], rc[t], lm_key[t], Len(node) + 1)]
    /\ rc' = [rc EXCEPT ![t] = Len(node) + 1]
    /\ early' = (early \/ NotLinked(cur[t]))
    /\ Goto(t, "split")
    /\ UNCHANGED <<Key_vector, Root, ended, i, cur, nkey, kid, lc, lm_key>>

Store(t) ==
    /\ ended = "no"
    /\ stores[t] # <<>>
    /\ node' = Perform(Head(stores[t]))
    /\ stores' = [stores EXCEPT ![t] = Tail(@)]
    /\ UNCHANGED <<Key_vector, Root, locked, ended, pc, i, cur, nkey, kid, lc,
                   rc, lm_key, early>>

\* Fault: the parent stays locked.
UnlockChildOnly(t) ==
    /\ At(t, "added")
    /\ locked' = [locked EXCEPT ![lc[t]] = Nobody]
    /\ EndInsert(t)
    /\ UNCHANGED <<Key_vector, Root, node, ended, nkey, kid, stores, early>>

UnlockBoth(t) ==
    /\ At(t, "added")
    /\ locked' = [locked EXCEPT ![lc[t]] = Nobody, ![cur[t]] = Nobody]
    /\ EndInsert(t)
    /\ UNCHANGED <<Key_vector, Root, node, ended, nkey, kid, stores, early>>

\* The recursion of insert_in_parent, with the halves as children.
Ascend(t) ==
    /\ At(t, "split")
    /\ locked' = [locked EXCEPT ![lc[t]] = Nobody]
    /\ lc' = [lc EXCEPT ![t] = cur[t]]
    /\ lm_key' = [lm_key EXCEPT ![t] = node[cur[t]].high_key]
    /\ Goto(t, "up")
    /\ UNCHANGED <<Key_vector, Root, node, ended, i, cur, nkey, kid, rc, stores,
                   early>>

-----------------------------------------------------------------------------
\* find_leaf when nobody stores to the nodes.
FindLeaf(k) ==
    LET down[p \in 1 .. Len(node)] ==
            LET x == node[p] IN
            IF x.isLeaf THEN p
            ELSE down[x.chi[CHOOSE s \in 0 .. x.nkey :
                               /\ \A j \in 0 .. (s - 1) : x.key[j] < k
                               /\ s < x.nkey => k <= x.key[s]]]
    IN  down[Root]

\* search_core looks at nkey + 1 slots; nkey itself lies behind a full array.
SearchFinds(k) ==
    LET x == node[FindLeaf(k)]
    IN  \E s \in 0 .. x.nkey : k = IF s \in Slots THEN x.key[s] ELSE x.nkey

\* main joins the inserting threads and creates the searching ones.
StartSearch ==
    /\ ended = "no"
    /\ \A t \in Threads : pc[t] = "insert" /\ i[t] > range
    /\ pc' = [t \in Threads |-> "search"]
    /\ i' = [t \in Threads |-> 1]
    /\ UNCHANGED <<Key_vector, Root, node, locked, ended, cur, nkey, kid, lc,
                   rc, lm_key, stores, early>>

\* Nobody stores to the tree any more, so a search is one step.
SearchCore(t) ==
    /\ At(t, "search")
    /\ i[t] <= range
    /\ IF SearchFinds(Key(t))
       THEN i' = [i EXCEPT ![t] = @ + 1] /\ ended' = ended
       ELSE i' = i /\ ended' = "not found"
    /\ UNCHANGED <<Key_vector, Root, node, locked, pc, cur, nkey, kid, lc, rc,
                   lm_key, stores, early>>

AllSearched == \A t \in Threads : pc[t] = "search" /\ i[t] > range

Terminated ==
    /\ ended # "no" \/ AllSearched
    /\ UNCHANGED vars

Step(t) ==
    \/ ReadRoot(t) \/ ReadNkey(t) \/ ReadKey(t) \/ ReadChild(t)
    \/ LockLeaf(t) \/ MoveRight(t) \/ AddToLeaf(t) \/ SplitLeaf(t)
    \/ GrowRoot(t) \/ PublishRoot(t) \/ ReadParent(t) \/ LockParent(t)
    \/ LockNull(t) \/ AddToParent(t) \/ SplitInternal(t) \/ Store(t)
    \/ UnlockBoth(t) \/ Ascend(t) \/ SearchCore(t)

Next == (\E t \in Threads : Step(t)) \/ StartSearch \/ Terminated

Spec == Init /\ [][Next]_vars

\* A thread that can run is eventually scheduled, main too.
FairSpec == Spec /\ WF_vars(StartSearch) /\ \A t \in Threads : WF_vars(Step(t))

-----------------------------------------------------------------------------
Places == {"insert", "descend", "scan", "child", "leaf", "up", "publish",
           "lockparent", "parent", "added", "split", "search"}

Pointers == NULL .. Len(node)

NodeType ==
    [isLeaf : BOOLEAN, nkey : 0 .. (N - 1), key : [Slots -> Nat],
     chi : [ChiSlots -> Pointers], high_key : Nat, right_link : Pointers,
     parent : Pointers]

StoreType ==
    [to : Pointers \ {NULL},
     field : {"key", "chi", "parent", "nkey", "high_key", "right_link"},
     slot : ChiSlots, value : Nat]

TypeOK ==
    /\ Key_vector \in KeyVectors
    /\ node \in Seq(NodeType)
    /\ Root \in DOMAIN node
    /\ locked \in Seq(Threads \cup {Nobody})
    /\ Len(locked) = Len(node)
    /\ ended \in {"no", "segfault", "not found"}
    /\ pc \in [Threads -> Places]
    /\ i \in [Threads -> 1 .. (range + 1)]
    /\ cur \in [Threads -> Pointers]
    /\ nkey \in [Threads -> 0 .. (N - 1)]
    /\ kid \in [Threads -> 0 .. (N - 1)]
    /\ lc \in [Threads -> Pointers]
    /\ rc \in [Threads -> Pointers]
    /\ lm_key \in [Threads -> Nat]
    /\ stores \in [Threads -> Seq(StoreType)]
    /\ early \in BOOLEAN

\* The key by which t is on its way through the node cur[t].
Sought(t) == IF pc[t] \in {"lockparent", "parent"} THEN lm_key[t] ELSE Key(t)

\* move_right (bltree.cc:200) can only go right.  So whatever a thread read
\* without a lock on its way down (14-18), in the middle of other threads'
\* stores, and whatever parent pointer it took from a child (257), the node
\* it is at is never to the right of the one responsible for its key, as long
\* as nobody split a right half early.
NeverTooFarRight ==
    \A t \in Threads :
        (/\ ~early
         /\ pc[t] \in {"descend", "scan", "child", "leaf",
                       "lockparent", "parent"})
            => \A p \in DOMAIN node :
                  (node[p].right_link = cur[t] /\ cur[t] # NULL)
                      => node[p].high_key < Sought(t)

\* Follow the right links from p as move_right does.
GoRight(p, k) ==
    LET walk[n \in 0 .. Len(node)] ==
            IF n = 0 THEN p
            ELSE LET q == walk[n - 1]
                 IN  IF MustGoRight(q, k) THEN node[q].right_link ELSE q
    IN  walk[Len(node)]

HasKey(p, k) == \E s \in 0 .. (node[p].nkey - 1) : node[p].key[s] = k

\* A key that is in the tree stays within reach of a descent from the root
\* and the right links, also between the split of a node and the insertion
\* of its separator and between any two stores of a lock holder; and when the
\* inserts are over it is in the very leaf the descent ends at, for search_core
\* follows no right link (359) and could take a stale key for it (360).
KeysStayReachable ==
    \A t \in Threads : \A j \in 1 .. range :
        (/\ ~early
         /\ pc[t] # "search"
         /\ j < i[t] \/ (j = i[t] /\ lc[t] # NULL))
            => LET k == KeyOf(t, j)
                   p == FindLeaf(k)
               IN  /\ HasKey(GoRight(p, k), k)
                   /\ \/ HasKey(p, k)
                      \/ \E u \in Threads : pc[u] # "insert" \/ i[u] <= range

\* Whoever inserts, and from whatever parent pointer it came: a node that
\* nobody is about to store keys to has them in order, as find_leaf (14-18)
\* and the insertions (100-104, 168-171) take for granted.
KeysSorted ==
    \A p \in DOMAIN node :
        (\A t \in Threads : \A j \in DOMAIN stores[t] :
            ~(stores[t][j].to = p /\ stores[t][j].field \in {"key", "nkey"}))
            => \A a, b \in 0 .. (node[p].nkey - 1) :
                  a <= b => node[p].key[a] <= node[p].key[b]

\* The parent pointers (125, 145, 240, 268, 307) name a parent to lock (257),
\* unless somebody splits a right half early: a root gets its parent before
\* its children can be split by others.
NullLockedOnlyAfterEarlySplit == ended = "segfault" => early

\* The locks are taken from child to parent and from left to right, so
\* nobody waits forever: all keys are inserted and then found.
AllKeysFound == <>(early \/ AllSearched)

\* search_core ends the process with "Key not found" (363-368): a key that
\* was inserted is never missing.
NeverKeyNotFound == ended # "not found"
=============================================================================
