------------------------------ MODULE BPlusTree ------------------------------
(***************************************************************************)
(* The sequential B+ tree, in the three stages it was written in:          *)
(*   "1011"  1011_bptree/ass_2: one leaf, a key for a full leaf is dropped;*)
(*   "1018"  1018-bptree-leaf_split: a full leaf is split, its parent is   *)
(*           not told, so that the right halves hang on the leaf chain;    *)
(*   "1025"  1025: the split climbs to the root.                           *)
(* main reads keys for ever and inserts them; an insert is one action per  *)
(* level it changes.  The stages share find_leaf and insert_in_leaf.       *)
(* The data of a key is NULL in the code and left out: a leaf's chi is     *)
(* empty and "link" is its chi[N-1].                                       *)
(***************************************************************************)
EXTENDS Integers, Sequences, FiniteSets, SequencesExt

CONSTANTS
    N,       \* children of a node; it has at most N - 1 keys
    Keys,    \* what the user types; not 0 .. N - 1, see search_core
    Inputs   \* bound: in each of these sequences of sets of keys, the n-th key
             \* typed is one of the n-th set; the input ends with the sequence

ASSUME TreeAssumption ==
    /\ N \in Nat /\ N >= 4 /\ N % 2 = 0
    /\ Keys \subseteq Nat \ (0 .. N - 1)
    /\ Inputs \subseteq Seq(SUBSET Keys)

NULL == 0
H    == N \div 2  \* (int)ceil(N/2), (N+1)/2, and in 1018 temp.nkey/2 (N is even)

VARIABLES
    stage,
    input,
    Root,
    node,      \* node[p]: the node at address p, in the order of allocation
    up,        \* what insert_in_parent is called with next; <<>> in main
    inserted   \* history: the keys typed so far, in ascending order

vars == <<stage, input, Root, node, up, inserted>>

Init ==
    /\ stage \in {"1011", "1018", "1025"}
    /\ input \in Inputs
    /\ Root = NULL
    /\ node = <<>>
    /\ up = <<>>
    /\ inserted = <<>>

-----------------------------------------------------------------------------
alloc_leaf(parent) ==
    [isLeaf |-> TRUE, key |-> <<>>, chi |-> <<>>, link |-> NULL,
     parent |-> parent]

alloc_internal(parent) == [alloc_leaf(parent) EXCEPT !.isLeaf = FALSE]

alloc_root(left, rs_key, right) ==
    [alloc_internal(NULL) EXCEPT !.key = <<rs_key>>, !.chi = <<left, right>>]

\* How many entries a new key is put behind: those before the first greater.
Behind(key, k) ==
    LET greater == {j \in 1 .. Len(key) : k < key[j]}
    IN  IF greater = {} THEN Len(key) ELSE Min(greater) - 1

find_leaf(k) ==
    LET leaf[p \in 1 .. Len(node)] ==
            IF node[p].isLeaf THEN p
            ELSE leaf[node[p].chi[Behind(node[p].key, k) + 1]]
    IN  leaf[Root]

insert_in_leaf(leaf, k) ==
    [leaf EXCEPT !.key = InsertAt(@, Behind(@, k) + 1, k)]

\* A temp of the key and child sequences of a full node, and one more pair.
insert_in_temp(n, k, ptr) ==
    LET ki == Behind(n.key, k) + 1
    IN  [key |-> InsertAt(n.key, ki, k),
         chi |-> IF n.isLeaf THEN <<>> ELSE InsertAt(n.chi, ki + 1, ptr)]

copy_from_temp_to_left(temp, left) == [left EXCEPT !.key = SubSeq(temp.key, 1, H)]

copy_from_temp_to_right(temp, right) ==
    [right EXCEPT !.key = SubSeq(temp.key, H + 1, N)]

\* Fault: the new half ends the chain.
RightLeafUnlinked(temp, leaf) ==
    copy_from_temp_to_right(temp, alloc_leaf(leaf.parent))

\* The new half inherits the link of the full leaf.
RightLeaf(temp, leaf) ==
    copy_from_temp_to_right(temp, [alloc_leaf(leaf.parent) EXCEPT !.link = leaf.link])

\* Fault: the child is put before the one that was split.
insert_before_left_child(parent, left, rs_key, right) ==
    LET keyid == SelectInSeq(parent.chi, LAMBDA c : c = left)
    IN  [parent EXCEPT !.key = InsertAt(@, keyid, rs_key),
                       !.chi = InsertAt(@, keyid, right)]

\* The entry goes behind the child that was split, found by its address.
insert_after_left_child(parent, left, rs_key, right) ==
    LET at == SelectInSeq(parent.chi, LAMBDA c : c = left)
        keyid == IF at = 0 THEN 1 ELSE at
    IN  [parent EXCEPT !.key = InsertAt(@, keyid, rs_key),
                       !.chi = InsertAt(@, IF at = 0 THEN 1 ELSE at + 1, right)]

\* The key in the middle moves up and is in neither half.
copy_from_temp_to_left_parent(temp, left) ==
    [left EXCEPT !.key = SubSeq(temp.key, 1, H),
                 !.chi = SubSeq(temp.chi, 1, H + 1)]

\* Fault: the child behind the last key is not copied.
copy_without_last_child(temp, right) ==
    [right EXCEPT !.key = SubSeq(temp.key, H + 2, N),
                  !.chi = SubSeq(temp.chi, H + 2, N)]

copy_from_temp_to_right_parent(temp, right) ==
    [right EXCEPT !.key = SubSeq(temp.key, H + 2, N),
                  !.chi = SubSeq(temp.chi, H + 2, N + 1)]

\* Fault: the last child is not told.
AdoptButLast(nodes, p) ==
    [q \in DOMAIN nodes |->
        IF q \in ToSet(Front(nodes[p].chi)) THEN [nodes[q] EXCEPT !.parent = p]
        ELSE nodes[q]]

\* The children of p learn that p is their parent.
Adopt(nodes, p) ==
    [q \in DOMAIN nodes |->
        IF q \in ToSet(nodes[p].chi) THEN [nodes[q] EXCEPT !.parent = p]
        ELSE nodes[q]]

-----------------------------------------------------------------------------
\* main: the next key.
Typed(k) ==
    /\ up = <<>>
    /\ k \in input[Len(inserted) + 1]
    /\ inserted' = InsertAt(inserted, Behind(inserted, k) + 1, k)
    /\ UNCHANGED <<stage, input>>

InsertFirst(k) ==
    /\ Typed(k)
    /\ Root = NULL
    /\ node' = <<insert_in_leaf(alloc_leaf(NULL), k)>>
    /\ Root' = 1
    /\ UNCHANGED up

InsertInLeaf(k) ==
    /\ Typed(k)
    /\ Root # NULL
    /\ LET leaf == find_leaf(k)
       IN  /\ Len(node[leaf].key) < N - 1
           /\ node' = [node EXCEPT ![leaf] = insert_in_leaf(@, k)]
    /\ UNCHANGED <<Root, up>>

\* 1011: the branch for a full leaf is empty.
InsertDropped(k) ==
    /\ Typed(k)
    /\ stage = "1011"
    /\ Root # NULL
    /\ Len(node[find_leaf(k)].key) = N - 1
    /\ UNCHANGED <<Root, node, up>>

\* 1018: the temp is the full leaf with the new key behind it, not sorted in.
\* Only the entries are erased, so the link to the new half stays.
InsertInHalves(k) ==
    /\ Typed(k)
    /\ stage = "1018"
    /\ Root # NULL
    /\ LET leaf == find_leaf(k)
           temp == [key |-> Append(node[leaf].key, k)]
       IN  /\ Len(node[leaf].key) = N - 1
           /\ node' = Append(
                [node EXCEPT ![leaf] =
                    [copy_from_temp_to_left(temp, @) EXCEPT !.link = Len(node) + 1]],
                RightLeaf(temp, node[leaf]))
    /\ UNCHANGED <<Root, up>>

\* 1025: the link of the left half is erased with its entries, so no leaf
\* ever has one.
SplitLeaf(k) ==
    /\ Typed(k)
    /\ stage = "1025"
    /\ Root # NULL
    /\ LET leaf == find_leaf(k)
           temp == insert_in_temp(node[leaf], k, NULL)
       IN  /\ Len(node[leaf].key) = N - 1
           /\ node' = Append(
                [node EXCEPT ![leaf] =
                    [copy_from_temp_to_left(temp, @) EXCEPT !.link = NULL]],
                RightLeaf(temp, node[leaf]))
           /\ up' = [left |-> leaf, rs_key |-> temp.key[H + 1],
                     right |-> Len(node) + 1]
    /\ UNCHANGED Root

Climbing(p) ==
    /\ up # <<>>
    /\ up.left = p
    /\ UNCHANGED <<stage, input, inserted>>

GrowRoot(p) ==
    /\ Climbing(p)
    /\ p = Root
    /\ Root' = Len(node) + 1
    /\ node' = Adopt(Append(node, alloc_root(p, up.rs_key, up.right)), Root')
    /\ up' = <<>>

AddToParent(p) ==
    /\ Climbing(p)
    /\ p # Root
    /\ LET parent == node[p].parent
       IN  /\ Len(node[parent].key) < N - 1
           /\ node' = [node EXCEPT ![parent] =
                            insert_after_left_child(@, p, up.rs_key, up.right)]
    /\ up' = <<>>
    /\ UNCHANGED Root

\* In a full parent the entry is sorted in by its key, not behind its left
\* child.
SplitParent(p) ==
    /\ Climbing(p)
    /\ p # Root
    /\ LET left  == node[p].parent
           right == Len(node) + 1
           temp  == insert_in_temp(node[left], up.rs_key, up.right)
       IN  /\ Len(node[left].key) = N - 1
           /\ node' = Adopt(
                Append([node EXCEPT ![left] =
                            copy_from_temp_to_left_parent(temp, @)],
                       copy_from_temp_to_right_parent(temp,
                            alloc_internal(node[left].parent))),
                right)
           /\ up' = [left |-> left, rs_key |-> temp.key[H + 1], right |-> right]
    /\ UNCHANGED Root

\* The input has ended.
Finished ==
    /\ up = <<>>
    /\ Len(inserted) = Len(input)
    /\ UNCHANGED vars

Offered == IF Len(inserted) < Len(input) THEN input[Len(inserted) + 1] ELSE {}

Next ==
    \/ \E k \in Offered :
        \/ InsertFirst(k) \/ InsertInLeaf(k) \/ InsertDropped(k)
        \/ InsertInHalves(k) \/ SplitLeaf(k)
    \/ \E p \in 1 .. Len(node) :
        GrowRoot(p) \/ AddToParent(p) \/ SplitParent(p)
    \/ Finished

Spec == Init /\ [][Next]_vars

-----------------------------------------------------------------------------
NodeType == [isLeaf : BOOLEAN, key : Seq(Keys), chi : Seq(Nat), link : Nat, parent : Nat]

UpType == [left : 1 .. Len(node), rs_key : Keys, right : 1 .. Len(node)]

\* Every variable keeps its type: nodes hold up to N - 1 keys and a child more
\* than keys, and all pointers are NULL or name a node.
TypeOK ==
    /\ stage \in {"1011", "1018", "1025"}
    /\ input \in Inputs
    /\ Root \in 0 .. Len(node)
    /\ node \in Seq(NodeType)
    /\ \A p \in 1 .. Len(node) :
        /\ Len(node[p].key) \in 1 .. N - 1
        /\ Len(node[p].chi) = IF node[p].isLeaf THEN 0 ELSE Len(node[p].key) + 1
        /\ \A j \in DOMAIN node[p].chi : node[p].chi[j] \in 1 .. Len(node)
        /\ node[p].link \in 0 .. Len(node)
        /\ node[p].parent \in 0 .. Len(node)
    /\ up # <<>> => up \in UpType
    /\ inserted \in Seq(Keys)

\* main is about to ask for a key, and there is a tree.
Between == up = <<>> /\ Root # NULL

Tree == stage = "1025" /\ Between

\* The keys of the leaves, left to right, and along the links.
KeysUnder(root) ==
    LET under[p \in 1 .. Len(node)] ==
            IF node[p].isLeaf THEN node[p].key
            ELSE FlattenSeq([j \in DOMAIN node[p].chi |-> under[node[p].chi[j]]])
    IN  under[root]

KeysAlong(first) ==
    LET along[p \in 0 .. Len(node)] ==
            IF p = NULL THEN <<>> ELSE node[p].key \o along[node[p].link]
    IN  along[first]

Copies(s, k) == Cardinality({j \in DOMAIN s : s[j] = k})

SameKeys(s) ==
    /\ Len(s) = Len(inserted)
    /\ \A k \in ToSet(inserted) : Copies(s, k) = Copies(inserted, k)

Ascending(s) == IsSorted(s, LAMBDA a, b : a <= b)

\* Splitting loses no key and doubles none: each is in the tree (in 1018, in
\* the chain of the leaves) as often as it was typed.  1011 keeps, sorted, as
\* many as one leaf holds.
NoKeyLost ==
    /\ Tree => SameKeys(KeysUnder(Root))
    /\ stage = "1018" /\ Between => SameKeys(KeysAlong(Root))
    /\ stage = "1011" /\ Between =>
          /\ Len(node) = 1
          /\ Len(node[1].key) = IF Len(inserted) < N THEN Len(inserted) ELSE N - 1
          /\ Ascending(node[1].key)
          /\ \A k \in Keys : Copies(node[1].key, k) <= Copies(inserted, k)

ParentHoldsChild ==
    /\ node[Root].parent = NULL
    /\ \A p \in 1 .. Len(node) : \A j \in DOMAIN node[p].chi :
            node[node[p].chi[j]].parent = p

AllLeavesAsDeep ==
    LET depths[p \in 1 .. Len(node)] ==
            IF node[p].isLeaf THEN {0}
            ELSE {h + 1 : h \in UNION {depths[node[p].chi[j]] :
                                        j \in DOMAIN node[p].chi}}
    IN  Cardinality(depths[Root]) = 1

HalfFull ==
    \A p \in 1 .. Len(node) : p # Root =>
        Len(node[p].key) >= IF node[p].isLeaf THEN H ELSE H - 1

\* The climb from a split leaf follows parent pointers, which splits of
\* internal nodes and new roots must keep true of every child; and it leaves a
\* tree whose leaves are all as deep and whose nodes are half full.
WellFormed == Tree => ParentHoldsChild /\ AllLeavesAsDeep /\ HalfFull

\* search_core reads one slot more than the node has keys: the next one,
\* which is 0, or behind a full key array the nkey of the node.
search_core(k) ==
    LET key == node[find_leaf(k)].key
    IN  k \in ToSet(key) \cup {IF Len(key) < N - 1 THEN 0 ELSE N - 1}

Separators ==
    FlattenSeq([p \in DOMAIN node |->
                    IF node[p].isLeaf THEN <<>> ELSE node[p].key])

\* Every key typed is found again, through any sequence of splits, and the
\* leaves are sorted from left to right, as long as no two separators are equal.
KeysFound ==
    Tree /\ Cardinality(ToSet(Separators)) = Len(Separators) =>
        /\ Ascending(KeysUnder(Root))
        /\ \A k \in ToSet(inserted) : search_core(k)

\* What the message of search_core reports as an error never happens: every
\* key typed is found again, whatever was typed.  It does happen: a full
\* parent sorts the new child in behind all equal separators.
NeverKeyNotFound ==
    Tree => \A k \in ToSet(inserted) : search_core(k)
=============================================================================
